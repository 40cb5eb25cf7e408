----------------------------- MODULE ListingProofs -----------------------------
(***************************************************************************)
(* What a list answers, for any rows, columns and requests: a clause that  *)
(* is heeded becomes a condition that selects what the clause means and    *)
(* nothing else, in whichever way its values are spelled, so that nothing  *)
(* on a page was not asked for; and a walk through the pages misses no     *)
(* more than went or came meanwhile.  A row that the sort key tells from   *)
(* the others has its place in every answer, after those that come before  *)
(* it: what goes moves one row at most across the end of the last page,    *)
(* what comes moves none, and no two rows have the same place.             *)
(***************************************************************************)
EXTENDS Listing, FiniteSetTheorems, TLAPS

\* A sequence of one element.
LEMMA Singleton ==
    ASSUME NEW s \in Seq(Int), Len(s) = 1
    PROVE  s # <<>> /\ Head(s) = s[1] /\ DOMAIN s = {1} /\ s = <<s[1]>>
<1>1. DOMAIN s = {1} /\ s[1] \in Int
  OBVIOUS
<1> QED
  BY <1>1

\* A value that is one string without commas is that one part.
LEMMA OnePart ==
    ASSUME NEW value \in Value, Len(Spelled(value)) = 1
    PROVE  /\ value # <<>> /\ ScalarOf(value) = value[1] /\ Spelled(value) = value[1]
           /\ Len(value[1]) = 1 /\ value[1] \in Seq(Int)
<1>1. value \in Seq(Seq(Int))
  BY DEF Value
<1>2. Len(value) = 1
  <2>1. SUFFICES ASSUME Len(value) # 1 PROVE FALSE
    OBVIOUS
  <2>2. Len(Spelled(value)) = Len(value)
    BY <1>1, <2>1 DEF Spelled
  <2> QED
    BY <2>1, <2>2
<1> QED
  BY <1>1, <1>2 DEF Spelled, ScalarOf

\* A value whose first string has two parts is that one string.
LEMMA TwoParts ==
    ASSUME NEW value \in Value, Len(ScalarOf(value)) >= 2
    PROVE  /\ ScalarOf(value) = value[1] /\ Spelled(value) = value[1]
           /\ value[1] \in Seq(Int)
<1>1. value \in Seq(Seq(Int)) /\ (Len(value) = 1 \/ \A i \in DOMAIN value : Len(value[i]) = 1)
  BY DEF Value
<1>2. value # <<>>
  BY DEF ScalarOf
<1>3. ScalarOf(value) = value[1] /\ 1 \in DOMAIN value /\ value[1] \in Seq(Int)
  BY <1>1, <1>2 DEF ScalarOf
<1>4. Len(value[1]) # 1
  <2>1. Len(value[1]) \in Nat /\ Len(value[1]) >= 2
    BY <1>3
  <2>2. \A n \in Nat : n >= 2 => n # 1
    OBVIOUS
  <2> QED
    BY <2>1, <2>2, Zenon
<1>5. Len(value) = 1
  BY <1>1, <1>3, <1>4
<1> QED
  BY <1>3, <1>5 DEF Spelled

\* A clause that is heeded selects only rows that meet it.
LEMMA ClauseNarrows ==
    ASSUME ListingAssumption,
           NEW ask, NEW clause, NEW values, NEW r \in Row,
           clause.value \in Value, IsField(clause), clause.op \in Operators,
           Heeded(ask, clause), clause.op = "in" => values = ListOf(clause.value),
           Selects([field |-> FieldSet[clause.id], op |-> clause.op,
                    value |-> ScalarOf(clause.value), values |-> values], r)
    PROVE  Meets(clause, r)
<1> DEFINE cell == Cell[r][FieldSet[clause.id]]
           value == clause.value
           spelled == Spelled(value)
           scalar == ScalarOf(value)
<1>1. cell \in Int /\ value \in Value /\ value \in Seq(Seq(Int))
  BY DEF ListingAssumption, IsField, Value
<1>2. CASE clause.op = "in"
  <2>1. PICK i \in DOMAIN ListOf(value) : ListOf(value)[i] = <<cell>>
    BY <1>2 DEF Selects
  <2>2. \E k \in DOMAIN spelled : cell = spelled[k]
    <3>1. CASE Len(value) = 1 /\ Len(Head(value)) > 1
      <4>1. ListOf(value)[i] = <<value[1][i]>> /\ i \in DOMAIN value[1]
        BY <1>1, <2>1, <3>1 DEF ListOf
      <4>2. spelled = value[1] /\ value[1][i] = cell
        BY <2>1, <3>1, <4>1 DEF Spelled
      <4> QED
        BY <4>1, <4>2
    <3>2. CASE ~(Len(value) = 1 /\ Len(Head(value)) > 1)
      <4>1. value[i] = <<cell>> /\ i \in DOMAIN value
        BY <2>1, <3>2 DEF ListOf
      <4>2. CASE Len(value) = 1
        <5>1. i = 1
          BY <1>1, <4>1, <4>2
        <5>2. spelled = <<cell>>
          BY <4>1, <4>2, <5>1 DEF Spelled
        <5> QED
          BY <5>2
      <4>3. CASE Len(value) # 1
        BY <1>1, <4>1, <4>3 DEF Spelled
      <4> QED
        BY <4>2, <4>3
    <3> QED
      BY <3>1, <3>2
  <2> QED
    BY <1>2, <2>2 DEF Meets
<1>3. CASE clause.op = "between"
  <2>1. Len(scalar) >= 2
    BY <1>3 DEF Heeded
  <2>2. spelled = scalar /\ scalar \in Seq(Int)
    BY <1>1, <2>1, TwoParts
  <2>3. Head(scalar) = scalar[1]
    BY <2>1, <2>2
  <2>4. scalar[1] <= cell /\ cell <= scalar[2]
    BY <1>1, <1>3, <2>1, <2>3 DEF Selects
  <2> QED
    BY <1>3, <2>2, <2>4 DEF Meets
<1>4. CASE clause.op \notin {"in", "between"}
  <2>1. Len(spelled) = 1
    BY <1>4 DEF Heeded
  <2>2. /\ scalar = spelled /\ Len(scalar) = 1 /\ scalar \in Seq(Int)
        /\ scalar # <<>> /\ Head(scalar) = scalar[1] /\ DOMAIN scalar = {1}
    <3>1. scalar = spelled /\ Len(scalar) = 1 /\ scalar \in Seq(Int)
      BY <1>1, <2>1, OnePart
    <3> QED
      BY <3>1, Singleton
  <2>3. scalar = <<scalar[1]>>
    BY <2>2, Singleton
  <2>4. CASE clause.op = "eq"
    BY <2>2, <2>4 DEF Selects, Meets
  <2>5. CASE clause.op = "neq"
    <3>1. scalar # <<cell>>
      BY <2>5 DEF Selects
    <3>2. scalar[1] # cell
      BY <2>3, <3>1
    <3> QED
      BY <2>2, <2>5, <3>2 DEF Meets
  <2>6. CASE clause.op = "like"
    BY <2>2, <2>6 DEF Selects, Meets
  <2>7. CASE clause.op \in {"gt", "gte", "lt", "lte"}
    BY <2>2, <2>7 DEF Selects, Meets
  <2> QED
    BY <1>4, <2>4, <2>5, <2>6, <2>7 DEF Operators
<1> QED
  BY <1>2, <1>3, <1>4

\* The conditions a request becomes select only rows that meet all its clauses.
LEMMA RequestNarrows ==
    ASSUME ListingAssumption,
           NEW ask \in Asks, ask.list # "sync", FiltersOf(ask) # Refused,
           NEW clause \in ask.filtered, Heeded(ask, clause), NEW r \in Row,
           \A filter \in FiltersOf(ask) : Selects(filter, r)
    PROVE  Meets(clause, r)
<1>1. clause.value \in Value
  BY DEF ListingAssumption
<1>2. CASE ask.list = "membersRPC"
  <2>1. FiltersOf(ask) = FiltersFromProto(ask.filtered)
    BY <1>2 DEF FiltersOf
  <2>2. IsField(clause) /\ clause.op \in Operators /\ clause.op # "in"
    BY <1>2 DEF Heeded
  <2>3. Selects([field |-> FieldSet[clause.id], op |-> clause.op,
                 value |-> ScalarOf(clause.value), values |-> <<>>], r)
    BY <2>1, <2>2 DEF FiltersFromProto
  <2> QED
    BY <1>1, <2>2, <2>3, ClauseNarrows
<1>3. CASE ask.list # "membersRPC"
  <2>1. FiltersOf(ask) = ParseFilters(ask.filtered)
    BY <1>3 DEF FiltersOf
  <2>2. IsField(clause) /\ clause.op \in Operators
    BY <2>1 DEF ParseFilters, IsField
  <2>3. Selects([field |-> FieldSet[clause.id], op |-> clause.op,
                 value |-> ScalarOf(clause.value), values |-> ListOf(clause.value)], r)
    <3>1. ParseFilters(ask.filtered) =
            {[field  |-> FieldSet[c.id], op |-> c.op, value  |-> ScalarOf(c.value),
              values |-> ListOf(c.value)] : c \in ask.filtered}
      BY <2>1 DEF ParseFilters
    <3> QED
      BY <2>1, <3>1
  <2> QED
    BY <1>1, <2>2, <2>3, ClauseNarrows
<1> QED
  BY <1>2, <1>3

\* A statement selects only what was asked for.
LEMMA StatementNarrows ==
    ASSUME ListingAssumption, rows \subseteq Row,
           NEW ask \in Asks, FiltersOf(ask) # Refused, Understood(ask)
    PROVE  Selected(ask) \subseteq Wanted(ask)
<1>1. SUFFICES ASSUME NEW r \in Selected(ask) PROVE r \in Wanted(ask)
  OBVIOUS
<1>2. r \in Row /\ \A filter \in FiltersOf(ask) : Selects(filter, r)
  BY <1>1 DEF Selected
<1>3. ask.list # "sync" => \A clause \in ask.filtered : Meets(clause, r)
  BY <1>2, RequestNarrows DEF Understood
<1>4. ask.search # NoWord => <<ask.search, r>> \in Hits
  BY <1>1 DEF Selected, Understood
<1>5. ask.roles # {} => Cell[r]["role"] \in ask.roles
  BY <1>1 DEF Selected
<1> QED
  BY <1>2, <1>3, <1>4, <1>5 DEF Wanted

-----------------------------------------------------------------------------
\* A walk under way or at its end.
Journey == [pc : {"count", "find", "done"}, ask : Asks, page : Nat, total : Nat,
            seen : SUBSET Row, stayed : SUBSET Row, met : SUBSET Row,
            left : Nat, came : Nat]

\* A walk asks what was not refused, and has seen only what it wanted.
WalkInv ==
    \/ walk = Rest
    \/ walk.pc = "refused" /\ walk.seen = {}
    \/ walk \in Journey /\ FiltersOf(walk.ask) # Refused
ListingInv == rows \subseteq Row /\ WalkInv /\ OnlyWhatWasAsked

LEMMA InitInv == ListingInit => ListingInv
BY DEF ListingInit, ListingInv, WalkInv, OnlyWhatWasAsked

LEMMA StartWalkKeeps ==
    ASSUME ListingInv, NEW ask \in Asks, StartWalk(ask)
    PROVE  ListingInv'
<1>1. rows' = rows /\ rows \subseteq Row
  BY DEF StartWalk, ListingInv
<1>2. CASE Refused \in {FiltersOf(ask), SortsOf(ask)}
  <2>1. walk' = [pc |-> "refused", ask |-> ask, seen |-> {}]
    BY <1>2 DEF StartWalk
  <2> QED
    BY <1>1, <2>1 DEF ListingInv, WalkInv, OnlyWhatWasAsked
<1>3. CASE Refused \notin {FiltersOf(ask), SortsOf(ask)}
  <2>1. walk' = [pc |-> "count", ask |-> ask, page |-> 0, total |-> 0, seen |-> {},
                 stayed |-> rows, met |-> rows, left |-> 0, came |-> 0]
    BY <1>3 DEF StartWalk
  <2>2. walk' \in Journey /\ walk'.ask = ask /\ walk'.seen = {}
    BY <1>1, <2>1 DEF Journey
  <2>3. FiltersOf(ask) # Refused
    BY <1>3
  <2>4. WalkInv'
    BY <2>2, <2>3 DEF WalkInv, FiltersOf, FiltersFromProto, ParseFilters
  <2> QED
    BY <1>1, <2>2, <2>4 DEF ListingInv, OnlyWhatWasAsked
<1> QED
  BY <1>2, <1>3

\* What a walk counts and collects.
LEMMA Collected ==
    ASSUME NEW j \in Journey
    PROVE  /\ j.page + 1 \in Nat /\ j.left + 1 \in Nat /\ j.came + 1 \in Nat
           /\ j.seen \subseteq Row /\ j.stayed \subseteq Row /\ j.met \subseteq Row
BY DEF Journey

\* A walk that goes on with what it has seen, asking the same.
LEMMA SameSeen ==
    ASSUME ListingInv, walk.pc \in {"count", "find", "done"}, rows' \subseteq Row,
           walk' \in Journey, walk'.ask = walk.ask, walk'.seen = walk.seen
    PROVE  ListingInv'
<1>1. walk \in Journey /\ FiltersOf(walk.ask) # Refused /\ walk # Rest
  BY DEF ListingInv, WalkInv, Rest
<1>2. WalkInv'
  BY <1>1 DEF WalkInv, FiltersOf, FiltersFromProto, ParseFilters
<1>3. OnlyWhatWasAsked'
  <2>1. Understood(walk.ask) => walk.seen \subseteq Wanted(walk.ask)
    BY <1>1 DEF ListingInv, OnlyWhatWasAsked
  <2> QED
    BY <2>1 DEF OnlyWhatWasAsked
<1> QED
  BY <1>2, <1>3 DEF ListingInv

LEMMA SelectedIsFinite ==
    ASSUME ListingAssumption, rows \subseteq Row, NEW ask
    PROVE  /\ IsFiniteSet(Selected(ask)) /\ Cardinality(Selected(ask)) \in Nat
           /\ Selected(ask) \subseteq rows
<1>1. Selected(ask) \subseteq rows
  BY DEF Selected
<1>2. IsFiniteSet(Row)
  BY DEF ListingAssumption
<1>3. Selected(ask) \subseteq Row
  BY <1>1
<1>4. IsFiniteSet(Selected(ask))
  BY <1>2, <1>3, FS_Subset
<1> QED
  BY <1>1, <1>4, FS_CardinalityType

LEMMA CountKeeps ==
    ASSUME ListingAssumption, ListingInv, Count
    PROVE  ListingInv'
<1>1. walk.pc = "count" /\ walk \in Journey /\ rows' = rows /\ rows \subseteq Row
  BY DEF Count, ListingInv, WalkInv, Rest
<1>2. Cardinality(Selected(walk.ask)) \in Nat
  BY <1>1, SelectedIsFinite
<1>3. walk' \in Journey /\ walk'.ask = walk.ask /\ walk'.seen = walk.seen
  BY <1>1, <1>2 DEF Count, Journey
<1> QED
  BY <1>1, <1>3, SameSeen

LEMMA FindKeeps ==
    ASSUME ListingAssumption, ListingInv, Find
    PROVE  ListingInv'
<1>1. /\ walk.pc = "find" /\ walk \in Journey /\ FiltersOf(walk.ask) # Refused
      /\ rows' = rows /\ rows \subseteq Row /\ walk.ask \in Asks /\ walk # Rest
  BY DEF Find, ListingInv, WalkInv, Rest, Journey
<1> DEFINE size == PageSize(walk.ask)
           offset == Offset(walk.page, size)
           Page(q) == {q[i] : i \in {j \in DOMAIN q : offset < j /\ j <= offset + size}}
           pc == IF walk.page + 1 >= TotalPages(walk.total, size) THEN "done" ELSE "count"
<1>2. PICK q \in Orderings(walk.ask) :
        walk' = [walk EXCEPT !.seen = @ \cup Page(q), !.page = @ + 1, !.pc = pc]
  BY Zenon DEF Find
<1> DEFINE page == Page(q)
<1>3. page \subseteq Selected(walk.ask)
  <2>1. q \in SetToSeqs(Selected(walk.ask))
    BY DEF Orderings
  <2>2. \A i \in DOMAIN q : q[i] \in Selected(walk.ask)
    BY <2>1 DEF SetToSeqs
  <2> QED
    BY <2>2
<1>4. page \subseteq Row
  BY <1>1, <1>3 DEF Selected
<1>5. /\ walk' \in Journey /\ walk'.ask = walk.ask
      /\ walk'.seen = walk.seen \cup page
  <2> DEFINE seen == walk.seen \cup page
             next == walk.page + 1
  <2>1. walk' = [walk EXCEPT !.seen = seen, !.page = next, !.pc = pc]
    BY <1>2
  <2>2. pc \in {"count", "done"}
    OBVIOUS
  <2>3. next \in Nat /\ seen \in SUBSET Row
    BY <1>1, <1>4, Collected
  <2> HIDE DEF page, pc, seen, next
  <2>4. walk' \in Journey /\ walk'.ask = walk.ask /\ walk'.seen = seen
    BY <1>1, <2>1, <2>2, <2>3 DEF Journey
  <2> QED
    BY <2>4 DEF seen
<1> HIDE DEF page, pc
<1>6. WalkInv'
  BY <1>1, <1>5 DEF WalkInv, FiltersOf, FiltersFromProto, ParseFilters
<1>7. OnlyWhatWasAsked'
  <2>1. Understood(walk.ask) => walk.seen \subseteq Wanted(walk.ask)
    BY <1>1 DEF ListingInv, OnlyWhatWasAsked
  <2>2. Understood(walk.ask) => page \subseteq Wanted(walk.ask)
    BY <1>1, <1>3, StatementNarrows
  <2> QED
    BY <1>5, <2>1, <2>2 DEF OnlyWhatWasAsked
<1> QED
  BY <1>1, <1>6, <1>7 DEF ListingInv

LEMMA ChangeKeeps ==
    ASSUME ListingInv, NEW r \in Row, Come(r) \/ Go(r)
    PROVE  ListingInv'
<1>1. rows' \subseteq Row
  BY DEF Come, Go, ListingInv
<1>2. CASE Walking
  <2>1. walk \in Journey
    BY <1>2 DEF Walking, ListingInv, WalkInv, Rest
  <2>2. walk' \in Journey /\ walk'.ask = walk.ask /\ walk'.seen = walk.seen
    <3>1. CASE Come(r)
      <4> DEFINE came == walk.came + 1
                 met == walk.met \cup {r}
      <4>1. walk' = [walk EXCEPT !.came = came, !.met = met]
        BY <1>2, <3>1 DEF Come
      <4>2. came \in Nat /\ met \in SUBSET Row
        BY <2>1, Collected
      <4> HIDE DEF came, met
      <4> QED
        BY <2>1, <4>1, <4>2 DEF Journey
    <3>2. CASE Go(r)
      <4> DEFINE left == walk.left + 1
                 stayed == walk.stayed \ {r}
      <4>1. walk' = [walk EXCEPT !.left = left, !.stayed = stayed]
        BY <1>2, <3>2 DEF Go
      <4>2. left \in Nat /\ stayed \in SUBSET Row
        BY <2>1, Collected
      <4> HIDE DEF left, stayed
      <4> QED
        BY <2>1, <4>1, <4>2 DEF Journey
    <3> QED
      BY <3>1, <3>2
  <2> QED
    BY <1>1, <1>2, <2>2, SameSeen DEF Walking
<1>3. CASE ~Walking
  BY <1>1, <1>3 DEF Come, Go, ListingInv, WalkInv, OnlyWhatWasAsked,
                    FiltersOf, FiltersFromProto, ParseFilters
<1> QED
  BY <1>2, <1>3

LEMMA StepInv ==
    ASSUME ListingAssumption, ListingInv, [ListingNext]_listingVars
    PROVE  ListingInv'
<1>1. ASSUME NEW ask \in Asks, StartWalk(ask) PROVE ListingInv'
  BY <1>1, StartWalkKeeps
<1>2. CASE Count
  BY <1>2, CountKeeps
<1>3. CASE Find
  BY <1>3, FindKeeps
<1>4. ASSUME NEW r \in Row, Come(r) \/ Go(r) PROVE ListingInv'
  BY <1>4, ChangeKeeps
<1>5. CASE UNCHANGED listingVars
  BY <1>5 DEF listingVars, ListingInv, WalkInv, OnlyWhatWasAsked,
              FiltersOf, FiltersFromProto, ParseFilters
<1> QED
  BY <1>1, <1>2, <1>3, <1>4, <1>5 DEF ListingNext

\* In every list over HTTP or gRPC, whatever the rows, columns and requests, a row on a
\* page is one that was asked for, as long as no clause is of those that are not heeded.
THEOREM ListsAnswerWhatWasAsked == ListingSpec => []OnlyWhatWasAsked
<1>1. ListingInit => ListingInv
  BY InitInv
<1>2. ListingInv /\ [ListingNext]_listingVars => ListingInv'
  BY StepInv, ListingAssumption
<1>3. ListingInv => OnlyWhatWasAsked
  BY DEF ListingInv
<1> QED
  BY <1>1, <1>2, <1>3, PTL DEF ListingSpec

-----------------------------------------------------------------------------
\* An order by columns: it looks at places one after the other, at numbers.
ByColumns(order) == DOMAIN order \subseteq Nat /\ \A i \in DOMAIN order : order[i].field \in Column

LEMMA OrdersAreByColumns ==
    ASSUME ListingAssumption, NEW ask \in Asks, SortsOf(ask) # Refused
    PROVE  ByColumns(OrderBy(ask))
<1>1. {"id", "created_at"} \subseteq Column /\ \A n \in DOMAIN FieldSet : FieldSet[n] \in Column
  BY DEF ListingAssumption
<1>2. DOMAIN ask.sorted \subseteq Nat
  <2>1. ask.sorted \in Seq(Range(ask.sorted))
    BY DEF ListingAssumption
  <2>2. DOMAIN ask.sorted = 1 .. Len(ask.sorted) /\ Len(ask.sorted) \in Nat
    BY <2>1
  <2> QED
    BY <2>2
<1>3. ByColumns(<<[field |-> "created_at", desc |-> TRUE]>>)
  BY <1>1 DEF ByColumns
<1>4. ByColumns(SortsOf(ask))
  <2>1. CASE ask.list = "sync"
    BY <1>1, <2>1 DEF SortsOf, ByColumns
  <2>2. CASE ask.list = "membersRPC"
    <3>1. SortsOf(ask) = SortsFromProto(ask.sorted)
      BY <2>2 DEF SortsOf
    <3> QED
      BY <1>1, <1>2, <3>1 DEF SortsFromProto, IsField, ByColumns
  <2>3. CASE ask.list \notin {"sync", "membersRPC"}
    <3>1. SortsOf(ask) = ParseSorts(ask.sorted)
      BY <2>3 DEF SortsOf
    <3> QED
      BY <1>1, <1>2, <3>1 DEF ParseSorts, ByColumns
  <2> QED
    BY <2>1, <2>2, <2>3
<1> QED
  BY <1>3, <1>4 DEF OrderBy

\* What comes before what is a strict order of the rows.
LEMMA PrecedesIsAnOrder ==
    ASSUME ListingAssumption, NEW order, ByColumns(order),
           NEW r \in Row, NEW s \in Row, NEW t \in Row
    PROVE  /\ ~Precedes(order, r, r)
           /\ Precedes(order, r, s) /\ Precedes(order, s, t) => Precedes(order, r, t)
           /\ Precedes(order, r, s) => ~Precedes(order, s, r)
<1> DEFINE At(row, i) == Cell[row][order[i].field]
<1>1. \A row \in Row : \A i \in DOMAIN order : At(row, i) \in Int
  BY SMTT(30) DEF ListingAssumption, ByColumns
<1>5. \A i, j, k \in DOMAIN order : i \in Nat /\ (j < i /\ i <= k => j < k)
  BY DEF ByColumns
<1>2. \A a, b \in Row :
        Precedes(order, a, b) <=>
          \E i \in DOMAIN order :
            /\ \A j \in DOMAIN order : j < i => At(a, j) = At(b, j)
            /\ IF order[i].desc THEN At(a, i) > At(b, i) ELSE At(a, i) < At(b, i)
  BY Zenon DEF Precedes
<1> HIDE DEF At
<1>3. \A a \in Row : ~Precedes(order, a, a)
  BY <1>1, <1>2
<1>4. \A a, b, c \in Row :
        Precedes(order, a, b) /\ Precedes(order, b, c) => Precedes(order, a, c)
  <2>1. SUFFICES ASSUME NEW a \in Row, NEW b \in Row, NEW c \in Row,
                        Precedes(order, a, b), Precedes(order, b, c)
                 PROVE  Precedes(order, a, c)
    OBVIOUS
  <2>2. PICK i \in DOMAIN order :
          /\ \A j \in DOMAIN order : j < i => At(a, j) = At(b, j)
          /\ IF order[i].desc THEN At(a, i) > At(b, i) ELSE At(a, i) < At(b, i)
    BY <1>2, <2>1
  <2>3. PICK k \in DOMAIN order :
          /\ \A j \in DOMAIN order : j < k => At(b, j) = At(c, j)
          /\ IF order[k].desc THEN At(b, k) > At(c, k) ELSE At(b, k) < At(c, k)
    BY <1>2, <2>1
  <2>4. i \in Nat /\ k \in Nat
    BY <1>5
  <2>5. CASE i <= k
    <3>1. \A j \in DOMAIN order : j < i => At(a, j) = At(c, j)
      BY <1>5, <2>2, <2>3, <2>5
    <3>2. IF order[i].desc THEN At(a, i) > At(c, i) ELSE At(a, i) < At(c, i)
      <4>1. CASE i = k
        <5>1. /\ At(a, i) \in Int /\ At(b, i) \in Int /\ At(c, i) \in Int
              /\ IF order[i].desc THEN At(b, i) > At(c, i) ELSE At(b, i) < At(c, i)
          BY <1>1, <2>3, <4>1
        <5>2. CASE order[i].desc
          <6>1. At(a, i) > At(b, i) /\ At(b, i) > At(c, i)
            BY <2>2, <5>1, <5>2
          <6> QED
            BY <5>1, <5>2, <6>1
        <5>3. CASE ~order[i].desc
          <6>1. At(a, i) < At(b, i) /\ At(b, i) < At(c, i)
            BY <2>2, <5>1, <5>3
          <6> QED
            BY <5>1, <5>3, <6>1
        <5> QED
          BY <5>2, <5>3
      <4>2. CASE i < k
        <5>1. At(b, i) = At(c, i)
          BY <2>3, <4>2
        <5> QED
          BY <2>2, <5>1
      <4> QED
        BY <2>4, <2>5, <4>1, <4>2
    <3> QED
      BY <1>2, <3>1, <3>2
  <2>6. CASE k < i
    <3>1. \A j \in DOMAIN order : j < k => At(a, j) = At(c, j)
      <4>1. k <= i
        BY <2>4, <2>6
      <4> QED
        BY <1>5, <2>2, <2>3, <4>1
    <3>2. At(a, k) = At(b, k)
      BY <2>2, <2>6
    <3> QED
      BY <1>2, <2>3, <3>1, <3>2
  <2> QED
    BY <2>4, <2>5, <2>6
<1> QED
  BY <1>3, <1>4

-----------------------------------------------------------------------------
\* A clause that is heeded selects every row that meets it.
LEMMA ClauseWidens ==
    ASSUME ListingAssumption,
           NEW ask, NEW clause, NEW values, NEW r \in Row,
           clause.value \in Value, IsField(clause), clause.op \in Operators,
           Heeded(ask, clause), clause.op = "in" => values = ListOf(clause.value),
           Meets(clause, r)
    PROVE  Selects([field |-> FieldSet[clause.id], op |-> clause.op,
                    value |-> ScalarOf(clause.value), values |-> values], r)
<1> DEFINE cell == Cell[r][FieldSet[clause.id]]
           value == clause.value
           spelled == Spelled(value)
           scalar == ScalarOf(value)
<1>1. cell \in Int /\ value \in Value /\ value \in Seq(Seq(Int))
  BY DEF ListingAssumption, IsField, Value
<1>2. CASE clause.op = "in"
  <2>1. PICK k \in DOMAIN spelled : cell = spelled[k]
    BY <1>2 DEF Meets
  <2>2. \E i \in DOMAIN ListOf(value) : ListOf(value)[i] = <<cell>>
    <3>1. CASE Len(value) = 1 /\ Len(Head(value)) > 1
      <4>1. Head(value) = value[1] /\ spelled = value[1]
        BY <1>1, <3>1 DEF Spelled
      <4>2. ListOf(value) = [i \in DOMAIN value[1] |-> <<value[1][i]>>]
        BY <3>1, <4>1 DEF ListOf
      <4>3. k \in DOMAIN value[1] /\ cell = value[1][k]
        BY <2>1, <4>1
      <4>4. k \in DOMAIN ListOf(value) /\ ListOf(value)[k] = <<cell>>
        BY <4>2, <4>3
      <4> QED
        BY <4>4
    <3>2. CASE Len(value) = 1 /\ ~(Len(Head(value)) > 1)
      <4>1. /\ Head(value) = value[1] /\ spelled = value[1] /\ value[1] \in Seq(Int)
            /\ value[1] # <<>> /\ 1 \in DOMAIN value
        BY <1>1, <3>2 DEF Spelled, Value
      <4>2. Len(value[1]) = 1
        <5>1. Len(value[1]) \in Nat /\ Len(value[1]) # 0
          BY <4>1
        <5>2. ~(Len(value[1]) > 1)
          BY <3>2, <4>1
        <5>3. \A n \in Nat : n # 0 /\ ~(n > 1) => n = 1
          OBVIOUS
        <5> QED
          BY <5>1, <5>2, <5>3, Zenon
      <4>3. value[1] = <<value[1][1]>> /\ DOMAIN value[1] = {1}
        BY <4>1, <4>2, Singleton
      <4>4. value[1] = <<cell>>
        BY <2>1, <4>1, <4>3
      <4>5. ListOf(value) = value
        BY <3>2 DEF ListOf
      <4> QED
        BY <4>1, <4>4, <4>5
    <3>3. CASE Len(value) # 1
      <4>1. ListOf(value) = value /\ \A i \in DOMAIN value : Len(value[i]) = 1
        BY <1>1, <3>3 DEF ListOf, Value
      <4>2. k \in DOMAIN value /\ cell = value[k][1] /\ value[k] \in Seq(Int)
        BY <1>1, <2>1, <3>3 DEF Spelled
      <4>3. value[k] = <<cell>>
        BY <4>1, <4>2, Singleton
      <4> QED
        BY <4>1, <4>2, <4>3
    <3> QED
      BY <3>1, <3>2, <3>3
  <2> QED
    BY <1>2, <2>2 DEF Selects
<1>3. CASE clause.op = "between"
  <2>1. Len(scalar) >= 2
    BY <1>3 DEF Heeded
  <2>2. spelled = scalar /\ scalar \in Seq(Int)
    BY <1>1, <2>1, TwoParts
  <2>3. Head(scalar) = scalar[1]
    BY <2>1, <2>2
  <2>4. scalar[1] <= cell /\ cell <= scalar[2]
    BY <1>3, <2>2 DEF Meets
  <2> QED
    BY <1>3, <2>3, <2>4 DEF Selects
<1>4. CASE clause.op \notin {"in", "between"}
  <2>1. Len(spelled) = 1
    BY <1>4 DEF Heeded
  <2>2. /\ scalar = spelled /\ Len(scalar) = 1 /\ scalar \in Seq(Int)
        /\ scalar # <<>> /\ Head(scalar) = scalar[1] /\ DOMAIN scalar = {1}
        /\ scalar = <<scalar[1]>>
    <3>1. scalar = spelled /\ Len(scalar) = 1 /\ scalar \in Seq(Int)
      BY <1>1, <2>1, OnePart
    <3> QED
      BY <3>1, Singleton
  <2>3. CASE clause.op = "eq"
    <3>1. cell = scalar[1]
      BY <2>2, <2>3 DEF Meets
    <3>2. scalar = <<cell>>
      BY <2>2, <3>1
    <3> QED
      BY <2>3, <3>2 DEF Selects
  <2>4. CASE clause.op = "neq"
    <3>1. cell # scalar[1]
      BY <2>2, <2>4 DEF Meets
    <3>2. scalar # <<cell>>
      BY <3>1
    <3> QED
      BY <2>4, <3>2 DEF Selects
  <2>5. CASE clause.op = "like"
    BY <2>2, <2>5 DEF Selects, Meets
  <2>6. CASE clause.op \in {"gt", "gte", "lt", "lte"}
    BY <2>2, <2>6 DEF Selects, Meets
  <2> QED
    BY <1>4, <2>3, <2>4, <2>5, <2>6 DEF Operators
<1> QED
  BY <1>2, <1>3, <1>4

\* The conditions of a request that is understood select all that meets its clauses.
LEMMA RequestWidens ==
    ASSUME ListingAssumption, NEW ask \in Asks, FiltersOf(ask) # Refused, Understood(ask),
           NEW r \in Wanted(ask), NEW filter \in FiltersOf(ask)
    PROVE  Selects(filter, r)
<1>1. r \in Row
  BY DEF Wanted
<1>2. CASE ask.list = "sync"
  BY <1>2 DEF FiltersOf
<1>3. CASE ask.list = "membersRPC"
  <2>1. FiltersOf(ask) = FiltersFromProto(ask.filtered)
    BY <1>3 DEF FiltersOf
  <2>2. PICK clause \in {c \in ask.filtered : IsField(c)} :
          filter = [field  |-> FieldSet[clause.id],
                    op     |-> IF clause.op \in Operators THEN clause.op ELSE "eq",
                    value  |-> ScalarOf(clause.value),
                    values |-> <<>>]
    BY <2>1 DEF FiltersFromProto
  <2>3. Meets(clause, r) /\ Heeded(ask, clause) /\ clause.value \in Value
    BY <1>3, <2>2 DEF Wanted, Understood, ListingAssumption
  <2>4. clause.op \in Operators /\ clause.op # "in"
    BY <1>3, <2>3 DEF Heeded
  <2> QED
    BY <1>1, <2>2, <2>3, <2>4, ClauseWidens
<1>4. CASE ask.list \notin {"sync", "membersRPC"}
  <2>1. FiltersOf(ask) = ParseFilters(ask.filtered) /\ ParseFilters(ask.filtered) # Refused
    BY <1>4 DEF FiltersOf
  <2>2. PICK clause \in ask.filtered :
          filter = [field  |-> FieldSet[clause.id], op |-> clause.op,
                    value  |-> ScalarOf(clause.value), values |-> ListOf(clause.value)]
    BY <2>1 DEF ParseFilters
  <2>3. Meets(clause, r) /\ Heeded(ask, clause) /\ clause.value \in Value
    BY <1>4, <2>2 DEF Wanted, Understood, ListingAssumption
  <2>4. IsField(clause) /\ clause.op \in Operators
    BY <2>1 DEF ParseFilters, IsField
  <2> QED
    BY <1>1, <2>2, <2>3, <2>4, ClauseWidens
<1> QED
  BY <1>2, <1>3, <1>4

\* A statement that is understood selects exactly what was asked for.
LEMMA StatementSelects ==
    ASSUME ListingAssumption, rows \subseteq Row,
           NEW ask \in Asks, FiltersOf(ask) # Refused, Understood(ask)
    PROVE  Selected(ask) = rows \cap Wanted(ask)
<1>1. Selected(ask) \subseteq rows \cap Wanted(ask)
  BY StatementNarrows DEF Selected
<1>2. ASSUME NEW r \in rows \cap Wanted(ask) PROVE r \in Selected(ask)
  <2>1. \A filter \in FiltersOf(ask) : Selects(filter, r)
    BY <1>2, RequestWidens
  <2>2. Searches(ask) => <<ask.search, r>> \in Hits
    BY <1>2 DEF Searches, Wanted
  <2>3. ask.roles = {} \/ Cell[r]["role"] \in ask.roles
    BY <1>2 DEF Wanted
  <2> QED
    BY <1>2, <2>1, <2>2, <2>3 DEF Selected
<1> QED
  BY <1>1, <1>2

-----------------------------------------------------------------------------
\* Of the rows in R, those that a statement answers before r.
Ahead(ask, R, r) == {s \in R \cap Wanted(ask) : Precedes(OrderBy(ask), s, r)}

\* The sort key tells r from the others in M.
Apart(ask, M, r) ==
    \A s \in M \ {r} : Precedes(OrderBy(ask), r, s) \/ Precedes(OrderBy(ask), s, r)

LEMMA AheadIsFinite ==
    ASSUME ListingAssumption, NEW ask, NEW R \in SUBSET Row, NEW r
    PROVE  /\ IsFiniteSet(R \cap Wanted(ask)) /\ Cardinality(R \cap Wanted(ask)) \in Nat
           /\ IsFiniteSet(Ahead(ask, R, r)) /\ Cardinality(Ahead(ask, R, r)) \in Nat
<1>1. IsFiniteSet(Row)
  BY DEF ListingAssumption
<1>2. R \cap Wanted(ask) \in SUBSET Row /\ Ahead(ask, R, r) \in SUBSET Row
  BY DEF Ahead
<1>3. IsFiniteSet(R \cap Wanted(ask)) /\ IsFiniteSet(Ahead(ask, R, r))
  BY <1>1, <1>2, FS_Subset
<1> QED
  BY <1>3, FS_CardinalityType

\* A smaller set has fewer elements.
LEMMA FewerElements ==
    ASSUME NEW S, IsFiniteSet(S), NEW T \in SUBSET S, NEW x \in S, x \notin T
    PROVE  Cardinality(T) < Cardinality(S)
<1>1. /\ IsFiniteSet(T) /\ Cardinality(T) <= Cardinality(S)
      /\ Cardinality(S) = Cardinality(T) => S = T
  BY FS_Subset
<1>2. Cardinality(T) # Cardinality(S)
  BY <1>1
<1>3. Cardinality(T) \in Nat /\ Cardinality(S) \in Nat
  BY <1>1, FS_CardinalityType
<1> QED
  BY <1>1, <1>2, <1>3

\* Two rows that the sort key tells apart are not at the same place, and no place is
\* beyond the last.
LEMMA PlacesDiffer ==
    ASSUME ListingAssumption, NEW ask \in Asks, SortsOf(ask) # Refused,
           NEW R \in SUBSET Row, NEW r \in R \cap Wanted(ask), NEW s \in R \cap Wanted(ask),
           r # s, Apart(ask, R, r)
    PROVE  Cardinality(Ahead(ask, R, r)) # Cardinality(Ahead(ask, R, s))
<1>1. ByColumns(OrderBy(ask)) /\ r \in Row /\ s \in Row
  BY OrdersAreByColumns
<1>2. ASSUME NEW a \in R \cap Wanted(ask), NEW b \in R \cap Wanted(ask),
             Precedes(OrderBy(ask), a, b)
      PROVE  Cardinality(Ahead(ask, R, a)) < Cardinality(Ahead(ask, R, b))
  <2>1. a \in Ahead(ask, R, b)
    BY <1>2 DEF Ahead
  <2>2. a \notin Ahead(ask, R, a)
    BY <1>1, PrecedesIsAnOrder DEF Ahead
  <2>3. Ahead(ask, R, a) \in SUBSET Ahead(ask, R, b)
    BY <1>1, <1>2, PrecedesIsAnOrder DEF Ahead
  <2> QED
    BY <2>1, <2>2, <2>3, AheadIsFinite, FewerElements
<1>3. Precedes(OrderBy(ask), r, s) \/ Precedes(OrderBy(ask), s, r)
  BY DEF Apart
<1>4. /\ Cardinality(Ahead(ask, R, r)) \in Nat
      /\ Cardinality(Ahead(ask, R, s)) \in Nat
  BY AheadIsFinite
<1> QED
  BY <1>2, <1>3, <1>4

LEMMA PlacesAreInTheList ==
    ASSUME ListingAssumption, NEW ask \in Asks, SortsOf(ask) # Refused,
           NEW R \in SUBSET Row, NEW r \in R \cap Wanted(ask)
    PROVE  Cardinality(Ahead(ask, R, r)) < Cardinality(R \cap Wanted(ask))
<1>1. ByColumns(OrderBy(ask)) /\ r \in Row
  BY OrdersAreByColumns
<1>2. r \notin Ahead(ask, R, r) /\ Ahead(ask, R, r) \in SUBSET (R \cap Wanted(ask))
  BY <1>1, PrecedesIsAnOrder DEF Ahead
<1> QED
  BY <1>2, AheadIsFinite, FewerElements

\* A sequence without repetitions, as long as a set is large, has all of the set.
LEMMA AllInIt ==
    ASSUME NEW S, IsFiniteSet(S), NEW q \in SetToSeqs(S)
    PROVE  /\ q \in [1 .. Cardinality(S) -> S]
           /\ \A i, j \in 1 .. Cardinality(S) : q[i] = q[j] => i = j
           /\ \A s \in S : \E i \in 1 .. Cardinality(S) : q[i] = s
<1> DEFINE n == Cardinality(S)
<1>1. n \in Nat
  BY FS_CardinalityType
<1>2. q \in [1..n -> S] /\ \A i, j \in 1..n : i # j => q[i] # q[j]
  BY DEF SetToSeqs
<1> HIDE DEF n
<1>3. q \in Injection(1..n, S)
  BY <1>2 DEF Injection, IsInjective
<1>4. Cardinality(1..n) = n
  <2>1. 1 \in Int /\ n \in Int
    BY <1>1
  <2>2. Cardinality(1..n) = IF 1 > n THEN 0 ELSE n - 1 + 1
    BY <2>1, FS_Interval
  <2>3. n - 1 + 1 = n /\ (1 > n => n = 0)
    BY <1>1
  <2> QED
    BY <2>2, <2>3
<1>5. q \in Surjection(1..n, S)
  <2>1. Cardinality(1..n) = Cardinality(S) <=> q \in Surjection(1..n, S)
    BY <1>3, FS_Injection
  <2> QED
    BY <1>4, <2>1 DEF n
<1>6. \A s \in S : \E i \in 1..n : q[i] = s
  BY <1>5 DEF Surjection
<1> QED
  BY <1>2, <1>6 DEF n

\* Wherever the rows are answered that no sort key tells apart, a row that is told from
\* all others has its place: after those that come before it.
LEMMA RowsHaveTheirPlaces ==
    ASSUME ListingAssumption, rows \subseteq Row,
           NEW ask \in Asks, FiltersOf(ask) # Refused, SortsOf(ask) # Refused, Understood(ask),
           NEW q \in Orderings(ask),
           NEW r \in rows \cap Wanted(ask), Apart(ask, rows, r)
    PROVE  /\ Cardinality(Ahead(ask, rows, r)) + 1 \in DOMAIN q
           /\ q[Cardinality(Ahead(ask, rows, r)) + 1] = r
<1> DEFINE S == rows \cap Wanted(ask)
           n == Cardinality(S)
           order == OrderBy(ask)
           ahead == Ahead(ask, rows, r)
<1>1. Selected(ask) = S
  BY StatementSelects
<1>2. q \in SetToSeqs(S) /\ \A i, j \in DOMAIN q : i < j => ~Precedes(order, q[j], q[i])
  BY <1>1 DEF Orderings
<1>3. IsFiniteSet(S) /\ n \in Nat
  BY AheadIsFinite
<1>4. /\ q \in [1..n -> S] /\ \A i, j \in 1..n : q[i] = q[j] => i = j
      /\ \A s \in S : \E i \in 1..n : q[i] = s
  <2> HIDE DEF S
  <2> QED
    BY <1>2, <1>3, AllInIt
<1>5. ByColumns(order)
  BY OrdersAreByColumns
<1>6. \A s, t \in Row : Precedes(order, s, t) => ~Precedes(order, t, s)
  BY <1>5, PrecedesIsAnOrder
<1>7. \A s \in Row : ~Precedes(order, s, s)
  BY <1>5, PrecedesIsAnOrder
<1>8. \A s \in S \ {r} : Precedes(order, r, s) \/ Precedes(order, s, r)
  BY DEF Apart
<1>9. ahead = {s \in S : Precedes(order, s, r)}
  BY DEF Ahead
<1> HIDE DEF n, S, order, ahead
<1>10. S \subseteq Row /\ r \in S
  BY DEF S
<1>11. PICK i \in 1..n : q[i] = r
  BY <1>4, <1>10
<1>12. \A j \in 1..n : Precedes(order, q[j], r) <=> j < i
  <2>1. SUFFICES ASSUME NEW j \in 1..n PROVE Precedes(order, q[j], r) <=> j < i
    OBVIOUS
  <2>2. DOMAIN q = 1..n /\ q[j] \in S
    BY <1>4
  <2>3. CASE j = i
    BY <1>7, <1>10, <1>11, <2>3
  <2>4. CASE j < i
    <3>1. q[j] # r
      BY <1>4, <1>11, <2>4
    <3>2. ~Precedes(order, r, q[j])
      BY <1>2, <1>11, <2>2, <2>4
    <3> QED
      BY <1>8, <2>2, <2>4, <3>1, <3>2
  <2>5. CASE i < j
    <3>1. ~Precedes(order, q[j], r)
      BY <1>2, <1>11, <2>2, <2>5
    <3> QED
      BY <2>5, <3>1
  <2> QED
    BY <2>3, <2>4, <2>5
<1>13. Cardinality(ahead) = i - 1
  <2> DEFINE f == [j \in 1 .. i - 1 |-> q[j]]
  <2>1. f \in [1 .. i - 1 -> ahead]
    BY <1>3, <1>4, <1>9, <1>12
  <2>2. \A j, k \in 1 .. i - 1 : f[j] = f[k] => j = k
    BY <1>3, <1>4
  <2>3. \A s \in ahead : \E j \in 1 .. i - 1 : f[j] = s
    BY <1>3, <1>4, <1>9, <1>12
  <2> HIDE DEF f
  <2>4. f \in Bijection(1 .. i - 1, ahead)
    BY <2>1, <2>2, <2>3 DEF Bijection, Injection, Surjection, IsInjective
  <2>5. ExistsBijection(1 .. i - 1, ahead) /\ i - 1 \in Nat
    BY <1>3, <2>4 DEF ExistsBijection
  <2> QED
    BY <2>5, FS_CountingElements
<1>14. Cardinality(ahead) + 1 = i /\ DOMAIN q = 1..n
  BY <1>4, <1>13
<1> QED
  BY <1>11, <1>14 DEF ahead

-----------------------------------------------------------------------------
\* What a walk has not seen of what stayed, and of it what it has gone past.
Unseen(w) ==
    {r \in (w.stayed \cap Wanted(w.ask)) \ w.seen : Apart(w.ask, w.met, r)}
Skipped(w, R) ==
    {r \in Unseen(w) : Cardinality(Ahead(w.ask, R, r)) < w.page * PageSize(w.ask)}

\* No more rows were skipped than left, and of what is unseen no more is beyond the
\* last page than came since the pages were counted.
Steady(w, R) ==
    /\ w.pc \in {"count", "find"} => SortsOf(w.ask) # Refused
    /\ w.pc \in {"count", "find"} /\ Understood(w.ask) =>
         /\ w.stayed \subseteq R /\ R \subseteq w.met
         /\ Cardinality(Skipped(w, R)) <= w.left
         /\ w.pc = "find" => Cardinality(R \cap Wanted(w.ask)) <= w.total + w.came
    /\ w.pc = "done" /\ Understood(w.ask) => Cardinality(Unseen(w)) <= w.left + w.came

\* A set that a bounded set covers is bounded.
LEMMA CoveredIsBounded ==
    ASSUME NEW S, NEW T, IsFiniteSet(S), T \subseteq S
    PROVE  /\ IsFiniteSet(T) /\ Cardinality(T) <= Cardinality(S)
           /\ Cardinality(T) \in Nat /\ Cardinality(S) \in Nat
<1>1. T \in SUBSET S
  OBVIOUS
<1>2. IsFiniteSet(T) /\ Cardinality(T) <= Cardinality(S)
  BY <1>1, FS_Subset
<1> QED
  BY <1>2, FS_CardinalityType

LEMMA UnionIsBounded ==
    ASSUME NEW S, NEW T, NEW U, IsFiniteSet(S), IsFiniteSet(T), U \subseteq S \cup T,
           NEW m \in Nat, NEW n \in Nat, Cardinality(S) <= m, Cardinality(T) <= n
    PROVE  Cardinality(U) <= m + n
<1>1. IsFiniteSet(S \cap T)
  BY FS_Intersection
<1>2. /\ Cardinality(S) \in Nat /\ Cardinality(T) \in Nat /\ Cardinality(S \cap T) \in Nat
  BY <1>1, FS_CardinalityType
<1>3. /\ IsFiniteSet(S \cup T)
      /\ Cardinality(S \cup T) = Cardinality(S) + Cardinality(T) - Cardinality(S \cap T)
  BY FS_Union
<1>4. /\ Cardinality(U) <= Cardinality(S \cup T)
      /\ Cardinality(U) \in Nat /\ Cardinality(S \cup T) \in Nat
  BY <1>3, CoveredIsBounded
<1> QED
  BY <1>2, <1>3, <1>4

LEMMA OneAtMost ==
    ASSUME NEW S, \A r, s \in S : r = s
    PROVE  IsFiniteSet(S) /\ Cardinality(S) <= 1
<1>1. 0 <= 1 /\ 1 <= 1
  OBVIOUS
<1>2. CASE S = {}
  <2>1. IsFiniteSet(S) /\ Cardinality(S) = 0
    BY <1>2, FS_EmptySet, Zenon
  <2> QED
    BY <1>1, <2>1
<1>3. CASE S # {}
  <2>1. PICK r : r \in S
    BY <1>3
  <2>2. S = {r}
    BY <2>1
  <2>3. IsFiniteSet(S) /\ Cardinality(S) = 1
    BY <2>2, FS_Singleton, Zenon
  <2> QED
    BY <1>1, <2>3
<1> QED
  BY <1>2, <1>3

\* A walk through rows that are there, with its sort keys known.
Walks(w, R) ==
    /\ w \in Journey /\ R \subseteq Row /\ w.stayed \subseteq R /\ R \subseteq w.met
    /\ SortsOf(w.ask) # Refused

LEMMA UnseenIsThere ==
    ASSUME ListingAssumption, NEW w, NEW R, Walks(w, R)
    PROVE  /\ w.ask \in Asks /\ R \in SUBSET Row
           /\ \A r \in Unseen(w) : r \in R \cap Wanted(w.ask) /\ Apart(w.ask, R, r)
           /\ IsFiniteSet(Unseen(w)) /\ IsFiniteSet(Skipped(w, R))
<1>1. w.ask \in Asks /\ R \in SUBSET Row
  BY DEF Walks, Journey
<1>2. \A r \in Unseen(w) : r \in R \cap Wanted(w.ask) /\ Apart(w.ask, R, r)
  BY DEF Walks, Unseen, Apart
<1>3. Unseen(w) \subseteq Row /\ Skipped(w, R) \subseteq Unseen(w) /\ IsFiniteSet(Row)
  BY <1>1, <1>2 DEF Skipped, ListingAssumption
<1> QED
  BY <1>1, <1>2, <1>3, CoveredIsBounded

LEMMA SizesAreNumbers ==
    ASSUME ListingAssumption, NEW ask \in Asks
    PROVE  PageSize(ask) \in Nat \ {0}
BY DEF ListingAssumption, PageSize, Clamped

\* A row that leaves the list moves one other past the end of the last page at most.
LEMMA LeavingSkipsOne ==
    ASSUME ListingAssumption, NEW w, NEW R, Walks(w, R), NEW g \in R,
           Cardinality(Skipped(w, R)) <= w.left, NEW v \in Journey,
           v.ask = w.ask, v.page = w.page, v.seen = w.seen, v.met = w.met,
           v.stayed = w.stayed \ {g}
    PROVE  Cardinality(Skipped(v, R \ {g})) <= w.left + 1
<1> DEFINE edge == w.page * PageSize(w.ask)
           place(r) == Cardinality(Ahead(w.ask, R, r))
           Edge == {r \in Unseen(w) : place(r) = edge}
<1>1. /\ w.ask \in Asks /\ R \in SUBSET Row
      /\ \A r \in Unseen(w) : r \in R \cap Wanted(w.ask) /\ Apart(w.ask, R, r)
      /\ IsFiniteSet(Unseen(w)) /\ IsFiniteSet(Skipped(w, R))
  BY UnseenIsThere
<1>2. edge \in Nat /\ w.left \in Nat
  BY <1>1, SizesAreNumbers DEF Walks, Journey
<1>3. \A r \in Edge : \A s \in Edge : r = s
  <2>1. SUFFICES ASSUME NEW r \in Edge, NEW s \in Edge, r # s PROVE FALSE
    OBVIOUS
  <2>2. place(r) = place(s) /\ r \in Unseen(w) /\ s \in Unseen(w)
    OBVIOUS
  <2> QED
    BY <1>1, <2>1, <2>2, PlacesDiffer DEF Walks
<1>4. IsFiniteSet(Edge) /\ Cardinality(Edge) <= 1
  <2> HIDE DEF Edge
  <2> QED
    BY <1>3, OneAtMost
<1>5. Skipped(v, R \ {g}) \subseteq Skipped(w, R) \cup Edge
  <2>1. SUFFICES ASSUME NEW r \in Skipped(v, R \ {g}) PROVE r \in Skipped(w, R) \cup Edge
    OBVIOUS
  <2>2. r \in Unseen(w) /\ Cardinality(Ahead(w.ask, R \ {g}, r)) < edge
    BY DEF Skipped, Unseen
  <2>3. Ahead(w.ask, R \ {g}, r) = Ahead(w.ask, R, r) \ {g}
    BY DEF Ahead
  <2>4. IsFiniteSet(Ahead(w.ask, R, r)) /\ place(r) \in Nat
    BY <1>1, AheadIsFinite
  <2>5. Cardinality(Ahead(w.ask, R, r) \ {g}) =
          IF g \in Ahead(w.ask, R, r) THEN place(r) - 1 ELSE place(r)
    BY <2>4, FS_RemoveElement
  <2>6. place(r) < edge \/ place(r) = edge
    <3>1. place(r) - 1 < edge \/ place(r) < edge
      BY <2>2, <2>3, <2>5
    <3> HIDE DEF place, edge
    <3> QED
      BY <1>2, <2>4, <3>1
  <2> QED
    BY <2>2, <2>6 DEF Skipped
<1> HIDE DEF Edge
<1> QED
  BY <1>1, <1>2, <1>4, <1>5, UnionIsBounded

\* A row that comes into the list brings none before the end of the last page.
LEMMA ComingSkipsNone ==
    ASSUME ListingAssumption, NEW w, NEW R, Walks(w, R), NEW c \in Row \ R,
           NEW v \in Journey, v.ask = w.ask, v.page = w.page, v.seen = w.seen,
           v.stayed = w.stayed, v.met = w.met \cup {c}
    PROVE  /\ Cardinality(Skipped(v, R \cup {c})) <= Cardinality(Skipped(w, R))
           /\ Cardinality((R \cup {c}) \cap Wanted(w.ask)) <= Cardinality(R \cap Wanted(w.ask)) + 1
<1> DEFINE edge == w.page * PageSize(w.ask)
           place(r) == Cardinality(Ahead(w.ask, R, r))
<1>1. w.ask \in Asks /\ R \in SUBSET Row /\ R \cup {c} \in SUBSET Row /\ IsFiniteSet(Skipped(w, R))
  BY UnseenIsThere
<1>2. edge \in Nat
  BY <1>1, SizesAreNumbers DEF Walks, Journey
<1>3. Skipped(v, R \cup {c}) \subseteq Skipped(w, R)
  <2>1. SUFFICES ASSUME NEW r \in Skipped(v, R \cup {c}) PROVE r \in Skipped(w, R)
    OBVIOUS
  <2>2. r \in Unseen(w) /\ Cardinality(Ahead(w.ask, R \cup {c}, r)) < edge
    BY DEF Skipped, Unseen, Apart
  <2>3. Ahead(w.ask, R, r) \subseteq Ahead(w.ask, R \cup {c}, r)
    BY DEF Ahead
  <2>4. IsFiniteSet(Ahead(w.ask, R \cup {c}, r))
    BY <1>1, AheadIsFinite
  <2>5. /\ place(r) <= Cardinality(Ahead(w.ask, R \cup {c}, r))
        /\ place(r) \in Nat /\ Cardinality(Ahead(w.ask, R \cup {c}, r)) \in Nat
    <3> DEFINE before == Ahead(w.ask, R, r)
               after == Ahead(w.ask, R \cup {c}, r)
    <3>1. before \subseteq after /\ IsFiniteSet(after)
      BY <2>3, <2>4
    <3> HIDE DEF before, after
    <3>2. /\ Cardinality(before) <= Cardinality(after)
          /\ Cardinality(before) \in Nat /\ Cardinality(after) \in Nat
      BY <3>1, CoveredIsBounded
    <3> QED
      BY <3>2 DEF before, after
  <2>6. place(r) < edge
    <3> HIDE DEF place, edge
    <3> QED
      BY <1>2, <2>2, <2>5
  <2> QED
    BY <2>2, <2>6 DEF Skipped
<1>4. Cardinality(Skipped(v, R \cup {c})) <= Cardinality(Skipped(w, R))
  BY <1>1, <1>3, CoveredIsBounded
<1>5. Cardinality((R \cup {c}) \cap Wanted(w.ask)) <= Cardinality(R \cap Wanted(w.ask)) + 1
  <2>1. (R \cup {c}) \cap Wanted(w.ask) \subseteq (R \cap Wanted(w.ask)) \cup {c}
    OBVIOUS
  <2>2. IsFiniteSet(R \cap Wanted(w.ask)) /\ Cardinality(R \cap Wanted(w.ask)) \in Nat
    BY <1>1, AheadIsFinite
  <2>3. IsFiniteSet({c}) /\ Cardinality({c}) <= 1
    BY OneAtMost
  <2>4. 1 \in Nat /\ Cardinality(R \cap Wanted(w.ask)) <= Cardinality(R \cap Wanted(w.ask))
    BY <2>2
  <2> QED
    BY <2>1, <2>2, <2>3, <2>4, UnionIsBounded, Zenon
<1> QED
  BY <1>4, <1>5

-----------------------------------------------------------------------------
\* As many pages as were told cover as many rows as were counted.
LEMMA PagesCover ==
    ASSUME NEW total \in Nat, NEW size \in Nat \ {0}, NEW pages \in Nat,
           pages >= TotalPages(total, size)
    PROVE  pages * size >= total
<1> DEFINE full == total \div size
           odd == total % size
<1>1. total = size * full + odd /\ full \in Nat /\ odd \in 0 .. size - 1
  OBVIOUS
<1>2. pages >= full + (IF odd # 0 THEN 1 ELSE 0)
  BY DEF TotalPages
<1> HIDE DEF full, odd
<1>3. CASE odd # 0
  <2>1. pages >= full + 1
    BY <1>2, <1>3
  <2> QED
    BY <1>1, <2>1
<1>4. CASE odd = 0
  <2>1. pages >= full /\ total = size * full
    BY <1>1, <1>2, <1>4
  <2> QED
    BY <1>1, <2>1
<1> QED
  BY <1>3, <1>4

\* Of the rows that the sort key tells apart, no more are beyond a place than the list
\* is longer than that.
LEMMA BeyondIsBounded ==
    ASSUME ListingAssumption, NEW w, NEW R, Walks(w, R),
           NEW total \in Nat, NEW came \in Nat,
           Cardinality(R \cap Wanted(w.ask)) <= total + came,
           NEW Beyond, Beyond \subseteq {r \in Unseen(w) : Cardinality(Ahead(w.ask, R, r)) >= total}
    PROVE  IsFiniteSet(Beyond) /\ Cardinality(Beyond) <= came
<1> DEFINE f == [r \in Beyond |-> Cardinality(Ahead(w.ask, R, r))]
           places == total .. total + came - 1
<1>1. /\ w.ask \in Asks /\ R \in SUBSET Row
      /\ \A r \in Unseen(w) : r \in R \cap Wanted(w.ask) /\ Apart(w.ask, R, r)
  BY UnseenIsThere
<1>2. SortsOf(w.ask) # Refused
  BY DEF Walks
<1>3. \A r \in Beyond : Cardinality(Ahead(w.ask, R, r)) \in places
  <2>1. SUFFICES ASSUME NEW r \in Beyond
                 PROVE  Cardinality(Ahead(w.ask, R, r)) \in places
    OBVIOUS
  <2> DEFINE place == Cardinality(Ahead(w.ask, R, r))
             length == Cardinality(R \cap Wanted(w.ask))
  <2>2. r \in R \cap Wanted(w.ask) /\ place >= total
    BY <1>1
  <2>3. place \in Nat /\ length \in Nat
    BY <1>1, AheadIsFinite
  <2>4. place < length
    BY <1>1, <1>2, <2>2, PlacesAreInTheList
  <2>5. length <= total + came
    OBVIOUS
  <2> HIDE DEF place, length
  <2>6. place \in places
    BY <2>2, <2>3, <2>4, <2>5
  <2> QED
    BY <2>6 DEF place
<1>4. \A r, s \in Beyond : Cardinality(Ahead(w.ask, R, r)) = Cardinality(Ahead(w.ask, R, s)) => r = s
  <2>1. SUFFICES ASSUME NEW r \in Beyond, NEW s \in Beyond, r # s
                 PROVE  Cardinality(Ahead(w.ask, R, r)) # Cardinality(Ahead(w.ask, R, s))
    OBVIOUS
  <2>2. r \in Unseen(w) /\ s \in Unseen(w)
    OBVIOUS
  <2>3. /\ r \in R \cap Wanted(w.ask) /\ s \in R \cap Wanted(w.ask)
        /\ Apart(w.ask, R, r)
    BY <1>1, <2>2
  <2> QED
    BY <1>1, <1>2, <2>1, <2>3, PlacesDiffer
<1>5. f \in Injection(Beyond, places)
  <2>1. f \in [Beyond -> places]
    BY <1>3
  <2>2. \A r, s \in Beyond : f[r] = f[s] => r = s
    BY <1>4
  <2> HIDE DEF f, places
  <2> QED
    BY <2>1, <2>2 DEF Injection, IsInjective
<1>6. IsFiniteSet(places) /\ Cardinality(places) = came
  <2> DEFINE top == total + came - 1
  <2>1. total \in Int /\ top \in Int
    OBVIOUS
  <2>2. (total > top => came = 0) /\ top - total + 1 = came
    OBVIOUS
  <2> HIDE DEF top
  <2>3. /\ IsFiniteSet(total .. top)
        /\ Cardinality(total .. top) = IF total > top THEN 0 ELSE top - total + 1
    BY <2>1, FS_Interval
  <2>4. IsFiniteSet(total .. top) /\ Cardinality(total .. top) = came
    BY <2>2, <2>3
  <2> QED
    BY <2>4 DEF top
<1> HIDE DEF f, places
<1> QED
  BY <1>5, <1>6, FS_Injection

\* A page shows every row that has its place on it.
LEMMA PageShowsItsPlaces ==
    ASSUME ListingAssumption, NEW w, Walks(w, rows),
           FiltersOf(w.ask) # Refused, Understood(w.ask),
           NEW q \in Orderings(w.ask), NEW page,
           page = {q[i] : i \in {j \in DOMAIN q :
                     /\ Offset(w.page, PageSize(w.ask)) < j
                     /\ j <= Offset(w.page, PageSize(w.ask)) + PageSize(w.ask)}},
           NEW r \in Unseen(w), r \notin page,
           Cardinality(Ahead(w.ask, rows, r)) < (w.page + 1) * PageSize(w.ask)
    PROVE  Cardinality(Ahead(w.ask, rows, r)) < w.page * PageSize(w.ask)
<1> DEFINE place == Cardinality(Ahead(w.ask, rows, r))
           size == PageSize(w.ask)
<1>1. /\ w.ask \in Asks /\ rows \in SUBSET Row
      /\ r \in rows \cap Wanted(w.ask) /\ Apart(w.ask, rows, r)
  BY UnseenIsThere
<1>2. place + 1 \in DOMAIN q /\ q[place + 1] = r
  BY <1>1, RowsHaveTheirPlaces DEF Walks
<1>3. place \in Nat /\ size \in Nat \ {0} /\ w.page \in Nat
  BY <1>1, AheadIsFinite, SizesAreNumbers DEF Walks, Journey
<1>4. Offset(w.page, size) = w.page * size
  <2> HIDE DEF size
  <2>1. CASE w.page < 1
    <3>1. w.page = 0 /\ 0 * size = 0
      BY <1>3, <2>1
    <3> QED
      BY <2>1, <3>1 DEF Offset
  <2>2. CASE ~(w.page < 1)
    BY <2>2 DEF Offset
  <2> QED
    BY <2>1, <2>2
<1>5. ~(w.page * size < place + 1 /\ place + 1 <= w.page * size + size)
  BY <1>2, <1>4
<1>6. place < (w.page + 1) * size
  OBVIOUS
<1>7. place < w.page * size
  <2> HIDE DEF place, size
  <2>1. (w.page + 1) * size = w.page * size + size /\ w.page * size \in Nat
    BY <1>3
  <2> QED
    BY <1>3, <1>5, <1>6, <2>1
<1> QED
  BY <1>7

-----------------------------------------------------------------------------
MissInv == ListingInv /\ Steady(walk, rows)

\* What a walk under way is.
LEMMA UnderWay ==
    ASSUME ListingAssumption, MissInv, walk.pc \in {"count", "find"}
    PROVE  /\ walk \in Journey /\ walk.ask \in Asks /\ FiltersOf(walk.ask) # Refused
           /\ SortsOf(walk.ask) # Refused /\ rows \subseteq Row
           /\ Understood(walk.ask) => Walks(walk, rows)
<1>1. /\ walk \in Journey /\ FiltersOf(walk.ask) # Refused /\ rows \subseteq Row
      /\ SortsOf(walk.ask) # Refused
      /\ Understood(walk.ask) => walk.stayed \subseteq rows /\ rows \subseteq walk.met
  BY DEF MissInv, ListingInv, WalkInv, Rest, Steady
<1> QED
  BY <1>1 DEF Walks, Journey

LEMMA MissInit == ListingInit => MissInv
<1> SUFFICES ASSUME ListingInit PROVE Steady(walk, rows)
  BY InitInv DEF MissInv
<1> QED
  BY DEF ListingInit, Rest, Steady

LEMMA StartIsSteady ==
    ASSUME ListingAssumption, MissInv, NEW ask \in Asks, StartWalk(ask)
    PROVE  Steady(walk', rows')
<1>1. rows' = rows /\ rows \subseteq Row
  BY DEF StartWalk, MissInv, ListingInv
<1>2. CASE Refused \in {FiltersOf(ask), SortsOf(ask)}
  BY <1>2 DEF StartWalk, Steady
<1>3. CASE Refused \notin {FiltersOf(ask), SortsOf(ask)}
  <2>1. walk' = [pc |-> "count", ask |-> ask, page |-> 0, total |-> 0, seen |-> {},
                 stayed |-> rows, met |-> rows, left |-> 0, came |-> 0]
    BY <1>3 DEF StartWalk
  <2>2. /\ walk'.pc = "count" /\ walk'.ask = ask /\ walk'.page = 0 /\ walk'.left = 0
        /\ walk'.stayed = rows /\ walk'.met = rows
    BY <2>1
  <2>3. SortsOf(ask) # Refused
    BY <1>3
  <2>4. Skipped(walk', rows) = {}
    <3>1. \A r : Cardinality(Ahead(ask, rows, r)) \in Nat
      BY <1>1, AheadIsFinite
    <3>2. PageSize(ask) \in Nat
      BY SizesAreNumbers
    <3>3. \A r : ~(Cardinality(Ahead(ask, rows, r)) < 0 * PageSize(ask))
      BY <3>1, <3>2
    <3> QED
      BY <2>2, <3>3 DEF Skipped
  <2>5. Cardinality(Skipped(walk', rows)) <= 0
    BY <2>4, FS_EmptySet
  <2> QED
    BY <1>1, <2>2, <2>3, <2>5 DEF Steady
<1> QED
  BY <1>2, <1>3

LEMMA CountIsSteady ==
    ASSUME ListingAssumption, MissInv, Count
    PROVE  Steady(walk', rows')
<1>1. walk.pc = "count" /\ rows' = rows
  BY DEF Count
<1>2. /\ walk \in Journey /\ walk.ask \in Asks /\ FiltersOf(walk.ask) # Refused
      /\ SortsOf(walk.ask) # Refused /\ rows \subseteq Row
  BY <1>1, UnderWay
<1>3. /\ walk'.pc = "find" /\ walk'.ask = walk.ask /\ walk'.page = walk.page
      /\ walk'.seen = walk.seen /\ walk'.stayed = walk.stayed /\ walk'.met = walk.met
      /\ walk'.left = walk.left /\ walk'.came = 0
      /\ walk'.total = Cardinality(Selected(walk.ask))
  BY <1>2 DEF Count, Journey
<1>4. ASSUME Understood(walk.ask)
      PROVE  /\ walk.stayed \subseteq rows /\ rows \subseteq walk.met
             /\ Cardinality(Skipped(walk, rows)) <= walk.left
             /\ Cardinality(rows \cap Wanted(walk.ask)) <= walk'.total + 0
  <2>1. Cardinality(Selected(walk.ask)) = Cardinality(rows \cap Wanted(walk.ask))
    BY <1>2, <1>4, StatementSelects
  <2>2. Cardinality(rows \cap Wanted(walk.ask)) \in Nat
    BY <1>2, AheadIsFinite
  <2>3. Cardinality(rows \cap Wanted(walk.ask)) <= walk'.total + 0
    BY <1>3, <2>1, <2>2
  <2> QED
    BY <1>1, <1>4, <2>3 DEF MissInv, Steady
<1>5. Skipped(walk', rows) = Skipped(walk, rows)
  BY <1>3 DEF Skipped, Unseen
<1> QED
  BY <1>1, <1>2, <1>3, <1>4, <1>5 DEF Steady

LEMMA FindIsSteady ==
    ASSUME ListingAssumption, MissInv, Find
    PROVE  Steady(walk', rows')
<1>1. walk.pc = "find" /\ rows' = rows
  BY DEF Find
<1>2. /\ walk \in Journey /\ walk.ask \in Asks /\ FiltersOf(walk.ask) # Refused
      /\ SortsOf(walk.ask) # Refused /\ rows \subseteq Row
      /\ Understood(walk.ask) => Walks(walk, rows)
  BY <1>1, UnderWay
<1> DEFINE size == PageSize(walk.ask)
           offset == Offset(walk.page, size)
           Page(q) == {q[i] : i \in {j \in DOMAIN q : offset < j /\ j <= offset + size}}
           last == walk.page + 1 >= TotalPages(walk.total, size)
           pc == IF last THEN "done" ELSE "count"
<1>3. PICK q \in Orderings(walk.ask) :
        walk' = [walk EXCEPT !.seen = @ \cup Page(q), !.page = @ + 1, !.pc = pc]
  BY Zenon DEF Find
<1> DEFINE page == Page(q)
<1>4. /\ walk'.pc = pc /\ walk'.ask = walk.ask /\ walk'.page = walk.page + 1
      /\ walk'.seen = walk.seen \cup page /\ walk'.stayed = walk.stayed
      /\ walk'.met = walk.met /\ walk'.left = walk.left /\ walk'.came = walk.came
  <2> DEFINE seen == walk.seen \cup page
             next == walk.page + 1
  <2>1. walk' = [walk EXCEPT !.seen = seen, !.page = next, !.pc = pc]
    BY <1>3
  <2> HIDE DEF page, pc, seen, next
  <2>2. /\ walk'.pc = pc /\ walk'.ask = walk.ask /\ walk'.page = next
        /\ walk'.seen = seen /\ walk'.stayed = walk.stayed
        /\ walk'.met = walk.met /\ walk'.left = walk.left /\ walk'.came = walk.came
    BY <1>2, <2>1 DEF Journey
  <2> QED
    BY <2>2 DEF seen, next
<1>5. ASSUME Understood(walk.ask)
      PROVE  /\ Cardinality(Skipped(walk', rows)) <= walk.left
             /\ last => Cardinality(Unseen(walk')) <= walk.left + walk.came
  <2>1. /\ Walks(walk, rows)
        /\ walk.stayed \subseteq rows /\ rows \subseteq walk.met
        /\ Cardinality(Skipped(walk, rows)) <= walk.left
        /\ Cardinality(rows \cap Wanted(walk.ask)) <= walk.total + walk.came
    BY <1>1, <1>2, <1>5 DEF MissInv, Steady
  <2>2. /\ IsFiniteSet(Skipped(walk, rows)) /\ size \in Nat \ {0}
        /\ walk.page \in Nat /\ walk.total \in Nat /\ walk.came \in Nat /\ walk.left \in Nat
    BY <1>2, <2>1, UnseenIsThere, SizesAreNumbers DEF Journey
  <2>3. Unseen(walk') = Unseen(walk) \ page
    BY <1>4 DEF Unseen
  <2>4. page = {q[i] : i \in {j \in DOMAIN q : offset < j /\ j <= offset + size}}
    OBVIOUS
  <2>5. ASSUME NEW r \in Unseen(walk'),
               Cardinality(Ahead(walk.ask, rows, r)) < (walk.page + 1) * size
        PROVE  r \in Skipped(walk, rows)
    <3>1. r \in Unseen(walk) /\ r \notin page
      BY <2>3
    <3>2. Cardinality(Ahead(walk.ask, rows, r)) < walk.page * size
      <4> HIDE DEF page
      <4> QED
        BY <1>2, <1>5, <2>1, <2>4, <2>5, <3>1, PageShowsItsPlaces
    <3> QED
      BY <3>1, <3>2 DEF Skipped
  <2>6. Skipped(walk', rows) \subseteq Skipped(walk, rows)
    BY <1>4, <2>5 DEF Skipped
  <2>7. Cardinality(Skipped(walk', rows)) <= walk.left
    <3>1. /\ Cardinality(Skipped(walk', rows)) <= Cardinality(Skipped(walk, rows))
          /\ Cardinality(Skipped(walk', rows)) \in Nat /\ Cardinality(Skipped(walk, rows)) \in Nat
      BY <2>2, <2>6, CoveredIsBounded
    <3> QED
      BY <2>1, <2>2, <3>1
  <2>8. ASSUME last PROVE Cardinality(Unseen(walk')) <= walk.left + walk.came
    <3> DEFINE Beyond == {r \in Unseen(walk') :
                            Cardinality(Ahead(walk.ask, rows, r)) >= walk.total}
    <3>1. (walk.page + 1) * size >= walk.total
      <4> HIDE DEF size
      <4> QED
        BY SMTT(30), <2>2, <2>8, PagesCover
    <3>2. Unseen(walk') \subseteq Skipped(walk, rows) \cup Beyond
      <4>1. SUFFICES ASSUME NEW r \in Unseen(walk') PROVE r \in Skipped(walk, rows) \cup Beyond
        OBVIOUS
      <4> DEFINE place == Cardinality(Ahead(walk.ask, rows, r))
      <4>2. place \in Nat
        BY <1>2, AheadIsFinite
      <4>3. place < (walk.page + 1) * size \/ place >= walk.total
        <5> HIDE DEF place, size
        <5>1. (walk.page + 1) * size \in Nat
          BY <2>2
        <5> QED
          BY <2>2, <3>1, <4>2, <5>1
      <4>4. CASE place < (walk.page + 1) * size
        BY <2>5, <4>4
      <4>5. CASE place >= walk.total
        BY <4>5
      <4> QED
        BY <4>3, <4>4, <4>5
    <3>3. Beyond \subseteq {r \in Unseen(walk) :
                              Cardinality(Ahead(walk.ask, rows, r)) >= walk.total}
      BY <2>3
    <3> HIDE DEF Beyond
    <3>4. IsFiniteSet(Beyond) /\ Cardinality(Beyond) <= walk.came
      BY <2>1, <2>2, <3>3, BeyondIsBounded
    <3> QED
      BY <2>1, <2>2, <3>2, <3>4, UnionIsBounded
  <2> QED
    BY <2>7, <2>8
<1>6. pc \in {"count", "done"} /\ (pc = "done" => last)
  OBVIOUS
<1> HIDE DEF pc, last, page
<1> QED
  BY <1>1, <1>2, <1>4, <1>5, <1>6 DEF Steady, MissInv

LEMMA ComeIsSteady ==
    ASSUME ListingAssumption, MissInv, NEW r \in Row, Come(r)
    PROVE  Steady(walk', rows')
<1>1. r \notin rows /\ rows' = rows \cup {r}
  BY DEF Come
<1>2. CASE Walking
  <2>1. /\ walk \in Journey /\ walk.ask \in Asks /\ SortsOf(walk.ask) # Refused
        /\ rows \subseteq Row /\ (Understood(walk.ask) => Walks(walk, rows))
    BY <1>2, UnderWay DEF Walking
  <2>2. /\ walk' \in Journey /\ walk'.pc = walk.pc /\ walk'.ask = walk.ask
        /\ walk'.page = walk.page /\ walk'.seen = walk.seen /\ walk'.stayed = walk.stayed
        /\ walk'.met = walk.met \cup {r} /\ walk'.left = walk.left
        /\ walk'.came = walk.came + 1 /\ walk'.total = walk.total
    <3> DEFINE came == walk.came + 1
               met == walk.met \cup {r}
    <3>1. walk' = [walk EXCEPT !.came = came, !.met = met]
      BY <1>2 DEF Come
    <3>2. came \in Nat /\ met \in SUBSET Row
      BY <2>1, Collected
    <3> HIDE DEF came, met
    <3>3. /\ walk' \in Journey /\ walk'.pc = walk.pc /\ walk'.ask = walk.ask
          /\ walk'.page = walk.page /\ walk'.seen = walk.seen /\ walk'.stayed = walk.stayed
          /\ walk'.met = met /\ walk'.left = walk.left
          /\ walk'.came = came /\ walk'.total = walk.total
      BY <2>1, <3>1, <3>2 DEF Journey
    <3> QED
      BY <3>3 DEF came, met
  <2>3. ASSUME Understood(walk.ask)
        PROVE  /\ walk'.stayed \subseteq rows' /\ rows' \subseteq walk'.met
               /\ Cardinality(Skipped(walk', rows')) <= walk'.left
               /\ walk.pc = "find" =>
                    Cardinality(rows' \cap Wanted(walk.ask)) <= walk'.total + walk'.came
    <3>1. /\ Walks(walk, rows) /\ walk.stayed \subseteq rows /\ rows \subseteq walk.met
          /\ Cardinality(Skipped(walk, rows)) <= walk.left
          /\ walk.pc = "find" =>
               Cardinality(rows \cap Wanted(walk.ask)) <= walk.total + walk.came
      BY <1>2, <2>1, <2>3 DEF MissInv, Steady, Walking
    <3>2. r \in Row \ rows
      BY <1>1
    <3>3. /\ Cardinality(Skipped(walk', rows \cup {r})) <= Cardinality(Skipped(walk, rows))
          /\ Cardinality((rows \cup {r}) \cap Wanted(walk.ask))
               <= Cardinality(rows \cap Wanted(walk.ask)) + 1
      BY <2>2, <3>1, <3>2, ComingSkipsNone
    <3>4. /\ IsFiniteSet(Skipped(walk, rows)) /\ IsFiniteSet(Unseen(walk'))
          /\ Cardinality(rows \cap Wanted(walk.ask)) \in Nat
          /\ Cardinality((rows \cup {r}) \cap Wanted(walk.ask)) \in Nat
          /\ Cardinality(Skipped(walk, rows)) \in Nat
          /\ Cardinality(Skipped(walk', rows \cup {r})) \in Nat
      <4>1. IsFiniteSet(Skipped(walk, rows)) /\ rows \in SUBSET Row /\ rows \cup {r} \in SUBSET Row
        BY <2>1, <3>1, UnseenIsThere
      <4>2. Unseen(walk') \subseteq Row /\ IsFiniteSet(Row)
        BY <2>2 DEF Unseen, Wanted, ListingAssumption
      <4>3. IsFiniteSet(Unseen(walk'))
        BY <4>2, CoveredIsBounded
      <4>4. Skipped(walk', rows \cup {r}) \subseteq Unseen(walk')
        BY DEF Skipped
      <4>5. IsFiniteSet(Skipped(walk', rows \cup {r}))
        BY <4>3, <4>4, CoveredIsBounded
      <4> QED
        BY <4>1, <4>3, <4>5, AheadIsFinite, FS_CardinalityType
    <3>5. walk.left \in Nat /\ walk.total \in Nat /\ walk.came \in Nat
      BY <2>1 DEF Journey
    <3>6. Cardinality(Skipped(walk', rows')) <= walk'.left
      BY SMTT(30), <1>1, <2>2, <3>1, <3>3, <3>4, <3>5
    <3>7. walk.pc = "find" =>
            Cardinality(rows' \cap Wanted(walk.ask)) <= walk'.total + walk'.came
      BY SMTT(30), <1>1, <2>2, <3>1, <3>3, <3>4, <3>5
    <3> QED
      BY <1>1, <2>2, <3>1, <3>6, <3>7
  <2> QED
    BY <1>2, <2>1, <2>2, <2>3 DEF Steady, Walking
<1>3. CASE ~Walking
  <2>1. walk' = walk
    BY <1>3 DEF Come
  <2> QED
    BY <1>3, <2>1 DEF MissInv, Steady, Walking
<1> QED
  BY <1>2, <1>3

LEMMA GoIsSteady ==
    ASSUME ListingAssumption, MissInv, NEW r \in Row, Go(r)
    PROVE  Steady(walk', rows')
<1>1. r \in rows /\ rows' = rows \ {r}
  BY DEF Go
<1>2. CASE Walking
  <2>1. /\ walk \in Journey /\ walk.ask \in Asks /\ SortsOf(walk.ask) # Refused
        /\ rows \subseteq Row /\ (Understood(walk.ask) => Walks(walk, rows))
    BY <1>2, UnderWay DEF Walking
  <2>2. /\ walk' \in Journey /\ walk'.pc = walk.pc /\ walk'.ask = walk.ask
        /\ walk'.page = walk.page /\ walk'.seen = walk.seen
        /\ walk'.stayed = walk.stayed \ {r} /\ walk'.met = walk.met
        /\ walk'.left = walk.left + 1
        /\ walk'.came = walk.came /\ walk'.total = walk.total
    <3> DEFINE left == walk.left + 1
               stayed == walk.stayed \ {r}
    <3>1. walk' = [walk EXCEPT !.left = left, !.stayed = stayed]
      BY <1>2 DEF Go
    <3>2. left \in Nat /\ stayed \in SUBSET Row
      BY <2>1, Collected
    <3> HIDE DEF left, stayed
    <3>3. /\ walk' \in Journey /\ walk'.pc = walk.pc /\ walk'.ask = walk.ask
          /\ walk'.page = walk.page /\ walk'.seen = walk.seen /\ walk'.stayed = stayed
          /\ walk'.met = walk.met /\ walk'.left = left
          /\ walk'.came = walk.came /\ walk'.total = walk.total
      BY <2>1, <3>1, <3>2 DEF Journey
    <3> QED
      BY <3>3 DEF left, stayed
  <2>3. ASSUME Understood(walk.ask)
        PROVE  /\ walk'.stayed \subseteq rows' /\ rows' \subseteq walk'.met
               /\ Cardinality(Skipped(walk', rows')) <= walk'.left
               /\ walk.pc = "find" =>
                    Cardinality(rows' \cap Wanted(walk.ask)) <= walk'.total + walk'.came
    <3>1. /\ Walks(walk, rows) /\ walk.stayed \subseteq rows /\ rows \subseteq walk.met
          /\ Cardinality(Skipped(walk, rows)) <= walk.left
          /\ walk.pc = "find" =>
               Cardinality(rows \cap Wanted(walk.ask)) <= walk.total + walk.came
      BY <1>2, <2>1, <2>3 DEF MissInv, Steady, Walking
    <3>2. Cardinality(Skipped(walk', rows \ {r})) <= walk.left + 1
      BY <1>1, <2>2, <3>1, LeavingSkipsOne
    <3>3. /\ Cardinality(rows' \cap Wanted(walk.ask)) <= Cardinality(rows \cap Wanted(walk.ask))
          /\ Cardinality(rows' \cap Wanted(walk.ask)) \in Nat
          /\ Cardinality(rows \cap Wanted(walk.ask)) \in Nat
      <4>1. IsFiniteSet(rows \cap Wanted(walk.ask))
        BY <2>1, AheadIsFinite
      <4>2. rows' \cap Wanted(walk.ask) \subseteq rows \cap Wanted(walk.ask)
        BY <1>1
      <4> QED
        BY <4>1, <4>2, CoveredIsBounded
    <3>4. walk.total \in Nat /\ walk.came \in Nat
      BY <2>1 DEF Journey
    <3>5. walk.pc = "find" =>
            Cardinality(rows' \cap Wanted(walk.ask)) <= walk'.total + walk'.came
      BY <2>2, <3>1, <3>3, <3>4
    <3> QED
      BY <1>1, <2>2, <3>1, <3>2, <3>5
  <2> QED
    BY <1>2, <2>1, <2>2, <2>3 DEF Steady, Walking
<1>3. CASE ~Walking
  <2>1. walk' = walk
    BY <1>3 DEF Go
  <2> QED
    BY <1>3, <2>1 DEF MissInv, Steady, Walking
<1> QED
  BY <1>2, <1>3

LEMMA MissStep ==
    ASSUME ListingAssumption, MissInv, [ListingNext]_listingVars
    PROVE  MissInv'
<1>1. ListingInv'
  BY StepInv DEF MissInv
<1>2. Steady(walk', rows')
  <2>1. ASSUME NEW ask \in Asks, StartWalk(ask) PROVE Steady(walk', rows')
    BY <2>1, StartIsSteady
  <2>2. CASE Count
    BY <2>2, CountIsSteady
  <2>3. CASE Find
    BY <2>3, FindIsSteady
  <2>4. ASSUME NEW r \in Row, Come(r) PROVE Steady(walk', rows')
    BY <2>4, ComeIsSteady
  <2>5. ASSUME NEW r \in Row, Go(r) PROVE Steady(walk', rows')
    BY <2>5, GoIsSteady
  <2>6. CASE UNCHANGED listingVars
    BY <2>6 DEF listingVars, MissInv
  <2> QED
    BY <2>1, <2>2, <2>3, <2>4, <2>5, <2>6 DEF ListingNext
<1> QED
  BY <1>1, <1>2 DEF MissInv, Steady, Unseen, Skipped, Ahead, Apart

LEMMA MissesFollow == MissInv => MissesAreEarned
<1> SUFFICES ASSUME MissInv, walk.pc = "done", Understood(walk.ask)
             PROVE  Cardinality(Missed) <= walk.left + walk.came
  BY DEF MissesAreEarned
<1>1. Missed = Unseen(walk)
  BY DEF Missed, Unseen, Distinct, Apart
<1> QED
  BY <1>1 DEF MissInv, Steady

\* A walk through all the pages, with any page size and whatever comes and goes, misses
\* no more of what was there all along and is told apart by the sort key than rows went
\* while it ran or came after its last page was counted.
THEOREM WalksMissLittle == ListingSpec => []MissesAreEarned
<1>1. ListingInit => MissInv
  BY MissInit
<1>2. MissInv /\ [ListingNext]_listingVars => MissInv'
  BY MissStep, ListingAssumption
<1>3. MissInv => MissesAreEarned
  BY MissesFollow
<1> QED
  BY <1>1, <1>2, <1>3, PTL DEF ListingSpec
=============================================================================
