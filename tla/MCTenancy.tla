------------------------------ MODULE MCTenancy ------------------------------
(***************************************************************************)
(* Small instances of Tenancy and Listing, which share no state: the first *)
(* state picks the one that moves, and the other rests.                    *)
(*                                                                         *)
(* Tenancy: three companies, whichever of them become Karlo's, and a       *)
(* machine key of one.  It moves within one of two bounds: "bootstrap",    *)
(* with two addresses, runs that die, and a request fewer than MaxAsked;   *)
(* "members", with one address in use and no run that dies.                *)
(*                                                                         *)
(* Listing: four rows, two of them created at one instant, pages of one to *)
(* three rows, and every operator.                                         *)
(***************************************************************************)
EXTENDS Tenancy, Listing, TLC

CONSTANTS c1, c2, c3, a1, a2, key, word

OfThird == key :> c3

TenancySymmetry == Permutations(Person) \cup Permutations(Caller)
                      \cup Permutations(Shell) \cup Permutations({c1, c2})

Cells ==
    LET Line(id, created, role) == ("id" :> id) @@ ("created_at" :> created) @@ ("role" :> role)
    IN <<Line(1, 2, 1), Line(2, 1, 2), Line(3, 2, 3), Line(4, 3, 1)>>
Names == ("role" :> "role") @@ ("createdAt" :> "created_at")
Matches == {<<word, 1>>, <<word, 2>>, <<3, 3>>, <<1, 4>>, <<1, 1>>}

Query(list, size, filtered, sorted, search, roles) ==
    [list |-> list, size |-> size, filtered |-> filtered, sorted |-> sorted,
     search |-> search, roles |-> roles]
Clause(field, op, value) == [id |-> field, op |-> op, value |-> value]

Clauses ==
    {Clause("role", op, <<<<1>>>>) : op \in {"eq", "neq", "like", "regexp"}}
      \cup {Clause("createdAt", op, <<<<2>>>>) : op \in {"gt", "gte", "lt", "lte"}}
      \cup {Clause("role", op, value) : op \in {"in", "between"},
              value \in {<<<<1, 3>>>>, <<<<1>>, <<3>>>>}}
      \cup {Clause("role", "in", <<>>), Clause("elsewhere", "eq", <<<<1>>>>)}
Sorts == {<<>>,
          <<[id |-> "createdAt", desc |-> FALSE]>>,
          <<[id |-> "role", desc |-> TRUE], [id |-> "createdAt", desc |-> FALSE]>>,
          <<[id |-> "elsewhere", desc |-> FALSE], [id |-> "createdAt", desc |-> FALSE]>>}
SomeAsks ==
    {Query(list, size, {}, <<>>, NoWord, {}) : list \in Lists, size \in {-1, 1, 9}}
      \cup {Query(list, 9, {}, sorted, NoWord, {}) : list \in Lists, sorted \in Sorts}
      \cup {Query("users", 0, {clause}, <<>>, NoWord, {}) : clause \in Clauses}
      \cup {Query("membersRPC", 0, {clause}, <<>>, NoWord, {}) :
              clause \in {said \in Clauses : Len(said.value) <= 1}}
      \cup {Query("users", 9, {Clause("role", "in", <<<<1, 3>>>>), other}, <<>>, NoWord, {}) :
              other \in Clauses}
      \cup {Query(list, 9, {}, <<>>, word, {}) : list \in Lists \ {"sync"}}
      \cup {Query(list, 9, {}, <<>>, NoWord, {1}) : list \in {"companies", "membersRPC"}}

-----------------------------------------------------------------------------
VARIABLE part

all == <<part, tenancyVars, listingVars>>

Init ==
    /\ part \in {"bootstrap", "members", "listing"}
    /\ TenancyInit /\ ListingInit
    /\ part # "listing" => rows = {}

OneAddress == /\ \A u \in Person : people[u].mail # a2
              /\ \A b \in Shell : shells[b].mail # a2

TenancyMoves(A) ==
    /\ A
    /\ \/ part = "bootstrap" /\ asked' < MaxAsked
       \/ part = "members" /\ crashes' = 0 /\ OneAddress'
    /\ UNCHANGED <<part, listingVars>>
ListingMoves(A) == part = "listing" /\ A /\ UNCHANGED <<part, tenancyVars>>

Next == TenancyMoves(TenancyNext) \/ ListingMoves(ListingNext)

Spec == Init /\ [][Next]_all
=============================================================================
