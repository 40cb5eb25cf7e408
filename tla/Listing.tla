-------------------------------- MODULE Listing --------------------------------
(***************************************************************************)
(* How accounts and companies are listed: what a request for a list turns  *)
(* into (internal/platform/query), the statement it becomes                *)
(* (internal/repository query.go, user_repository.go, repositories.go),    *)
(* and the client that asks for page after page while rows come and go     *)
(* (internal/handlers user_handler.go and company_handler.go,              *)
(* internal/grpcserver).                                                   *)
(*                                                                         *)
(* A page is two statements, Count and Find, and pages are cut by OFFSET,  *)
(* so a walk sees as many states of the table as it runs statements.  The  *)
(* client, which is outside this repository, goes by the number of pages   *)
(* it is told: the gRPC one works it out from the total and the page size. *)
(*                                                                         *)
(* A row is what the lists filter and sort by, numbers for columns.  A     *)
(* JSON scalar is the sequence of its comma-separated parts and the value  *)
(* of a clause is a sequence of scalars, so "a,b" and ["a","b"] differ.    *)
(* The clauses of a request are a set: they are joined by AND.  What       *)
(* changes in a row is its leaving the list and its coming in.             *)
(***************************************************************************)
EXTENDS Integers, FiniteSets, Sequences, SequencesExt

CONSTANTS
    Row,
    Column,
    Cell,            \* what a row has in its columns; "id" tells rows apart
    FieldSet,        \* the name a client uses -> the column
    Hits,            \* <<word, row>>: the search columns of the row contain the word
    Asks,            \* the requests for a list that are tried
    DefaultPageSize, MaxPageSize,  \* query.go:22-25
    DefaultSyncSize, MaxSyncSize,  \* server.go:172-178
    NoWord,
    Refused,
    MaxChanges       \* bound: rows that come or go

\* users: every account; members: a company's; companies: every company; all over HTTP.
\* membersRPC: a company's accounts over gRPC; sync: the companies, for a projection.
Lists == {"users", "members", "companies", "membersRPC", "sync"}
Operators == {"eq", "neq", "like", "in", "gt", "gte", "lt", "lte", "between"}

\* What a client sends for a value: nothing, a string, or an array of strings without
\* commas.  Strings, numbers and truth values are numbers here.
Value ==
    {value \in Seq(Seq(Int)) :
       /\ \A i \in DOMAIN value : value[i] # <<>>
       /\ Len(value) = 1 \/ \A i \in DOMAIN value : Len(value[i]) = 1}

ASSUME ListingAssumption ==
    /\ IsFiniteSet(Row)
    /\ \A r, s \in Row : Cell[r]["id"] = Cell[s]["id"] => r = s
    /\ \A n \in DOMAIN FieldSet : FieldSet[n] \in Column
    /\ {"id", "created_at", "role"} \subseteq Column
    /\ Cell \in [Row -> [Column -> Int]]
    /\ \A ask \in Asks :
         /\ ask.list \in Lists
         /\ ask.size \in Int
         /\ ask.sorted \in Seq(Range(ask.sorted))
         /\ \A clause \in ask.filtered :
              /\ clause.value \in Value
              /\ ask.list = "membersRPC" => Len(clause.value) <= 1
    /\ {DefaultPageSize, MaxPageSize, DefaultSyncSize, MaxSyncSize} \subseteq Nat \ {0}
    /\ MaxChanges \in Nat

VARIABLES
    rows,    \* those the list is over: live, of the company, known to FMS, changed since
    walk,    \* a client's way through the pages
    changes

listingVars == <<rows, walk, changes>>

-----------------------------------------------------------------------------
\* A request for a list becomes the parameters of a statement.

\* filterValue.scalar and filterValue.list
ScalarOf(value) == IF value = <<>> THEN <<>> ELSE Head(value)
ListOf(value) ==
    IF Len(value) = 1 /\ Len(Head(value)) > 1
    THEN [i \in DOMAIN Head(value) |-> <<Head(value)[i]>>]
    ELSE value

\* Mutant: a clause on a field that is not offered is left out, the others stand.
ParseFilters_Dropping(filtered) ==
    IF \E clause \in filtered :
         clause.op \notin Operators \/ (clause.op = "in" /\ ListOf(clause.value) = <<>>)
    THEN Refused
    ELSE {[field  |-> FieldSet[clause.id], op |-> clause.op,
           value  |-> ScalarOf(clause.value),
           values |-> ListOf(clause.value)] :
            clause \in {c \in filtered : c.id \in DOMAIN FieldSet}}

ParseFilters(filtered) ==
    IF \E clause \in filtered :
         \/ clause.id \notin DOMAIN FieldSet
         \/ clause.op \notin Operators
         \/ clause.op = "in" /\ ListOf(clause.value) = <<>>
    THEN Refused
    ELSE {[field  |-> FieldSet[clause.id], op |-> clause.op,
           value  |-> ScalarOf(clause.value),
           values |-> ListOf(clause.value)] : clause \in filtered}

ParseSorts(sorted) ==
    IF \E i \in DOMAIN sorted : sorted[i].id \notin DOMAIN FieldSet
    THEN Refused
    ELSE [i \in DOMAIN sorted |-> [field |-> FieldSet[sorted[i].id], desc |-> sorted[i].desc]]

\* FromProto leaves out what it does not know, and sets no list of values.
IsField(clause) == clause.id \in DOMAIN FieldSet
FiltersFromProto(filtered) ==
    {[field  |-> FieldSet[clause.id],
      op     |-> IF clause.op \in Operators THEN clause.op ELSE "eq",
      value  |-> ScalarOf(clause.value),
      values |-> <<>>] : clause \in {c \in filtered : IsField(c)}}

\* The keys that are known, at the places they were asked for.
SortsFromProto(sorted) ==
    [i \in {j \in DOMAIN sorted : IsField(sorted[j])} |->
       [field |-> FieldSet[sorted[i].id], desc |-> sorted[i].desc]]

FiltersOf(ask) ==
    CASE ask.list = "sync"       -> {}
      [] ask.list = "membersRPC" -> FiltersFromProto(ask.filtered)
      [] OTHER                   -> ParseFilters(ask.filtered)

SortsOf(ask) ==
    CASE ask.list = "sync"       -> <<[field |-> "id", desc |-> FALSE]>>
      [] ask.list = "membersRPC" -> SortsFromProto(ask.sorted)
      [] OTHER                   -> ParseSorts(ask.sorted)

Clamped(size, default, cap) == IF size <= 0 THEN default ELSE IF size > cap THEN cap ELSE size
PageSize(ask) ==
    IF ask.list = "sync" THEN Clamped(ask.size, DefaultSyncSize, MaxSyncSize)
    ELSE Clamped(ask.size, DefaultPageSize, MaxPageSize)

Offset(page, size) == IF page < 1 THEN 0 ELSE page * size
TotalPages(total, size) == (total \div size) + (IF total % size # 0 THEN 1 ELSE 0)

-----------------------------------------------------------------------------
\* The parameters become a statement.

Selects(filter, r) ==
    LET cell == Cell[r][filter.field]
        Alone == Len(filter.value) = 1
        given == Head(filter.value)
    IN CASE filter.op = "eq"  -> filter.value = <<cell>>
         [] filter.op = "neq" -> filter.value # <<cell>>
         [] filter.op = "like" -> filter.value = <<>> \/ (Alone /\ <<given, r>> \in Hits)
         [] filter.op = "in"  -> \E i \in DOMAIN filter.values : filter.values[i] = <<cell>>
         [] filter.op = "gt"  -> Alone /\ cell > given
         [] filter.op = "gte" -> Alone /\ cell >= given
         [] filter.op = "lt"  -> Alone /\ cell < given
         [] filter.op = "lte" -> Alone /\ cell <= given
         [] filter.op = "between" ->
              Len(filter.value) >= 2 => given <= cell /\ cell <= filter.value[2]

Searches(ask) == ask.list \in {"users", "companies"} /\ ask.search # NoWord

Selected(ask) ==
    {r \in rows :
       /\ \A filter \in FiltersOf(ask) : Selects(filter, r)
       /\ Searches(ask) => <<ask.search, r>> \in Hits
       /\ ask.roles = {} \/ Cell[r]["role"] \in ask.roles}

OrderBy(ask) ==
    IF SortsOf(ask) = <<>> THEN <<[field |-> "created_at", desc |-> TRUE]>> ELSE SortsOf(ask)

Precedes(order, r, s) ==
    \E i \in DOMAIN order :
      LET At(row, j) == Cell[row][order[j].field]
      IN /\ \A j \in DOMAIN order : j < i => At(r, j) = At(s, j)
         /\ IF order[i].desc THEN At(r, i) > At(s, i) ELSE At(r, i) < At(s, i)

\* Mutant: without an ORDER BY.
Orderings_Unordered(ask) == SetToSeqs(Selected(ask))

\* Rows that no sort key tells apart come in any order, another one each time.
Orderings(ask) ==
    {q \in SetToSeqs(Selected(ask)) :
       \A i, j \in DOMAIN q : i < j => ~Precedes(OrderBy(ask), q[j], q[i])}

-----------------------------------------------------------------------------
\* came counts the rows that came since the page was counted; of the walk, stayed
\* are those in the list all along, met those in it at some time, left how many went.
Rest == [pc |-> "idle"]

ListingInit == rows \in SUBSET Row /\ walk = Rest /\ changes = 0

StartWalk(ask) ==
    /\ walk = Rest
    /\ walk' =
         IF Refused \in {FiltersOf(ask), SortsOf(ask)}
         THEN [pc |-> "refused", ask |-> ask, seen |-> {}]
         ELSE [pc |-> "count", ask |-> ask, page |-> 0, total |-> 0, seen |-> {},
               stayed |-> rows, met |-> rows, left |-> 0, came |-> 0]
    /\ UNCHANGED <<rows, changes>>

Count ==
    /\ walk.pc = "count"
    /\ walk' = [walk EXCEPT !.pc = "find", !.total = Cardinality(Selected(walk.ask)), !.came = 0]
    /\ UNCHANGED <<rows, changes>>

Find ==
    /\ walk.pc = "find"
    /\ \E q \in Orderings(walk.ask) :
         LET size == PageSize(walk.ask)
             offset == Offset(walk.page, size)
             page == {q[i] : i \in {j \in DOMAIN q : offset < j /\ j <= offset + size}}
             last == walk.page + 1 >= TotalPages(walk.total, size)
         IN walk' = [walk EXCEPT !.seen = @ \cup page,
                                 !.page = @ + 1,
                                 !.pc = IF last THEN "done" ELSE "count"]
    /\ UNCHANGED <<rows, changes>>

Walking == walk.pc \in {"count", "find"}

\* A row is created, gets an FMS id, is moved into the company or is changed.
Come(r) ==
    /\ changes < MaxChanges
    /\ r \in Row \ rows
    /\ rows' = rows \cup {r}
    /\ changes' = changes + 1
    /\ walk' = IF Walking
               THEN [walk EXCEPT !.came = @ + 1, !.met = @ \cup {r}]
               ELSE walk

\* A row is deleted, merged away or moved to another company.
Go(r) ==
    /\ changes < MaxChanges
    /\ r \in rows
    /\ rows' = rows \ {r}
    /\ changes' = changes + 1
    /\ walk' = IF Walking
               THEN [walk EXCEPT !.left = @ + 1, !.stayed = @ \ {r}]
               ELSE walk

ListingNext ==
    \/ \E ask \in Asks : StartWalk(ask)
    \/ Count
    \/ Find
    \/ \E r \in Row : Come(r) \/ Go(r)

ListingSpec == ListingInit /\ [][ListingNext]_listingVars

-----------------------------------------------------------------------------
\* What a clause means, in whichever way its values are spelled.
Spelled(value) == IF Len(value) = 1 THEN value[1] ELSE [i \in DOMAIN value |-> value[i][1]]

Meets(clause, r) ==
    /\ IsField(clause)
    /\ LET cell == Cell[r][FieldSet[clause.id]]
           given == Spelled(clause.value)
       IN CASE clause.op \in {"eq", "in"} -> \E i \in DOMAIN given : cell = given[i]
            [] clause.op = "neq"     -> \A i \in DOMAIN given : cell # given[i]
            [] clause.op = "like"    -> \E i \in DOMAIN given : <<given[i], r>> \in Hits
            [] clause.op = "gt"      -> cell > given[1]
            [] clause.op = "gte"     -> cell >= given[1]
            [] clause.op = "lt"      -> cell < given[1]
            [] clause.op = "lte"     -> cell <= given[1]
            [] clause.op = "between" -> given[1] <= cell /\ cell <= given[2]
            [] OTHER -> FALSE

Wanted(ask) ==
    {r \in Row :
       /\ ask.list # "sync" => \A clause \in ask.filtered : Meets(clause, r)
       /\ ask.search # NoWord => <<ask.search, r>> \in Hits
       /\ ask.roles # {} => Cell[r]["role"] \in ask.roles}

\* Not heeded: a search among members, the two bounds of a between that come as an
\* array, several values where the operator takes one, and, over gRPC, an unknown
\* field or operator and the values of an in.
Heeded(ask, clause) ==
    /\ clause.op = "between" => Len(ScalarOf(clause.value)) >= 2
    /\ clause.op \notin {"in", "between"} => Len(Spelled(clause.value)) = 1
    /\ ask.list = "membersRPC" => IsField(clause) /\ clause.op \in Operators \ {"in"}

Understood(ask) ==
    /\ ask.search # NoWord => Searches(ask)
    /\ ask.list # "sync" => \A clause \in ask.filtered : Heeded(ask, clause)

\* A list has no row that was not asked for, whatever came in between two pages: of
\* the filters, a comma-separated string and an array narrow to the same rows, and
\* what is not understood is refused (query.go:263-269), but for what Heeded names.
OnlyWhatWasAsked ==
    walk # Rest /\ Understood(walk.ask) => walk.seen \subseteq Wanted(walk.ask)

\* A walk through all the pages misses no more of the rows that were there all along
\* than rows went while it ran or came after its last page was counted, provided the
\* sort key tells the row from the others (repositories.go:123: a page boundary is
\* stable across calls).
Distinct(r) ==
    \A s \in walk.met \ {r} :
      Precedes(OrderBy(walk.ask), r, s) \/ Precedes(OrderBy(walk.ask), s, r)
Missed == {r \in (walk.stayed \cap Wanted(walk.ask)) \ walk.seen : Distinct(r)}
MissesAreEarned ==
    walk.pc = "done" /\ Understood(walk.ask) => Cardinality(Missed) <= walk.left + walk.came

\* What query.go:263-269 says of every filter, and what does not hold: a list that is
\* not refused has only what was asked for.
NothingIsDroppedSilently ==
    walk # Rest => walk.seen \subseteq Wanted(walk.ask)

\* repositories.go:121-123 read strictly, which does not hold: a walk misses nothing.
PageBoundariesAreStable ==
    walk.pc = "done" /\ walk.ask.list = "sync" => Missed = {}
=============================================================================
