----------------------------- MODULE ImportProofs -----------------------------
(***************************************************************************)
(* Theorems about Import, for any legacy ids, permissions and numbers, any *)
(* files, however long and however their parents lead up or in a circle,   *)
(* any number of runs and whatever the service does between them.          *)
(***************************************************************************)
EXTENDS Import, FiniteSetTheorems, WellFoundedInduction, TLAPS

-----------------------------------------------------------------------------
(* Recursion over the numbers up to the length of a file                   *)

\* What holds of 0, and of i + 1 when it holds of i, holds up to n.
LEMMA UpTo ==
    ASSUME NEW n \in Nat, NEW S, 0 \in S,
           \A i \in 0..n : i \in S /\ i < n => i + 1 \in S
    PROVE  0..n \subseteq S
<1> DEFINE Bad == (0..n) \ S
<1>1. SUFFICES ASSUME Bad # {} PROVE FALSE
  OBVIOUS
<1>2. Bad \subseteq Nat
  OBVIOUS
<1>3. PICK k \in Bad : \A i \in Bad : <<i, k>> \notin OpToRel(<, Nat)
  <2> HIDE DEF Bad
  <2> QED
    BY <1>1, <1>2, WFMin, NatLessThanWellFounded, Zenon
<1>4. k \in 1..n /\ k - 1 \in 0..n /\ k - 1 < k /\ k - 1 < n
  OBVIOUS
<1>5. k - 1 \notin S
  BY <1>4
<1>6. <<k - 1, k>> \in OpToRel(<, Nat)
  BY <1>4 DEF OpToRel
<1> QED
  BY <1>3, <1>4, <1>5, <1>6

\* The ways to take n steps from x, and there is one if a step stays within a set.
Steps(n, X, x, step) ==
    {g \in [0..n -> X] : g[0] = x /\ \A i \in 1..n : g[i] = step[<<g[i - 1], i>>]}

LEMMA StepsExist ==
    ASSUME NEW n \in Nat, NEW X, NEW x \in X, NEW step \in [X \X (1..n) -> X]
    PROVE  Steps(n, X, x, step) # {}
<1> DEFINE Good(g, k) == g[0] = x /\ \A i \in 1..k : g[i] = step[<<g[i - 1], i>>]
           S == {k \in 0..n : \E g \in [0..k -> X] : Good(g, k)}
<1>1. 0 \in S
  <2> DEFINE g == [i \in 0..0 |-> x]
  <2>1. g \in [0..0 -> X] /\ g[0] = x
    OBVIOUS
  <2>2. 1..0 = {}
    OBVIOUS
  <2> HIDE DEF g
  <2>3. Good(g, 0)
    BY <2>1, <2>2
  <2> QED
    BY <2>1, <2>3
<1>2. ASSUME NEW k \in 0..n, k \in S, k < n PROVE k + 1 \in S
  <2>1. PICK g \in [0..k -> X] : Good(g, k)
    BY <1>2
  <2>2. k \in Nat /\ k + 1 \in 1..n /\ k + 1 \in 0..n
    BY <1>2
  <2>3. g[k] \in X /\ step[<<g[k], k + 1>>] \in X
    BY <2>1, <2>2
  <2> DEFINE h == [i \in 0..(k + 1) |-> IF i = k + 1 THEN step[<<g[k], k + 1>>] ELSE g[i]]
  <2>4. h \in [0..(k + 1) -> X]
    <3>1. \A i \in 0..(k + 1) : i = k + 1 \/ i \in 0..k
      BY <2>2
    <3> QED
      BY <2>3, <3>1
  <2>5. h[k + 1] = step[<<g[k], k + 1>>] /\ \A i \in 0..k : h[i] = g[i]
    BY <2>2
  <2> HIDE DEF h
  <2>6. ASSUME NEW i \in 1..(k + 1) PROVE h[i] = step[<<h[i - 1], i>>]
    <3>1. CASE i = k + 1
      <4>1. i - 1 = k /\ k \in 0..k
        BY <2>2, <3>1
      <4> QED
        BY <2>5, <3>1, <4>1
    <3>2. CASE i # k + 1
      <4>1. i \in 1..k /\ i \in 0..k /\ i - 1 \in 0..k
        BY <2>2, <3>2
      <4> QED
        BY <2>1, <2>5, <4>1
    <3> QED
      BY <3>1, <3>2
  <2>7. h[0] = x
    <3>1. 0 \in 0..k
      BY <2>2
    <3> QED
      BY <2>1, <2>5, <3>1
  <2>8. Good(h, k + 1)
    BY <2>6, <2>7
  <2> HIDE DEF Good
  <2> QED
    BY <2>2, <2>4, <2>8
<1>3. n \in S
  <2> HIDE DEF S
  <2>1. 0..n \subseteq S
    BY <1>1, <1>2, UpTo
  <2> QED
    BY <2>1
<1> QED
  BY <1>3 DEF Steps

-----------------------------------------------------------------------------
(* The rows of a file                                                      *)

Ids(file) == {row.id : row \in Rows(file)}

LEMMA ImageIsFinite ==
    ASSUME NEW S, IsFiniteSet(S), NEW f, f = [x \in S |-> f[x]]
    PROVE  /\ IsFiniteSet({f[x] : x \in S})
           /\ Cardinality({f[x] : x \in S}) <= Cardinality(S)
<1> DEFINE T == {f[x] : x \in S}
<1>1. f \in Surjection(S, T)
  BY DEF Surjection
<1> HIDE DEF T
<1>2. IsFiniteSet(T) /\ Cardinality(T) <= Cardinality(S)
  BY <1>1, FS_Surjection
<1> QED
  BY <1>2 DEF T

LEMMA FileRows ==
    ASSUME NEW file \in File
    PROVE  /\ Len(file) \in Nat /\ DOMAIN file = 1..Len(file)
           /\ \A i \in 1..Len(file) : file[i] \in Rows(file)
           /\ Rows(file) \subseteq Row
           /\ \A row \in Rows(file) : \E i \in 1..Len(file) : row = file[i]
           /\ IsFiniteSet(Rows(file)) /\ IsFiniteSet(Ids(file))
           /\ Cardinality(Ids(file)) <= Len(file)
<1>1. file \in Seq(Row)
  BY FileAssumption
<1>2. Len(file) \in Nat /\ DOMAIN file = 1..Len(file) /\ file \in [1..Len(file) -> Row]
  BY <1>1
<1>3. Rows(file) = {file[i] : i \in 1..Len(file)}
  BY <1>2 DEF Rows, Range
<1>4. IsFiniteSet(1..Len(file)) /\ Cardinality(1..Len(file)) = Len(file)
  <2>1. PICK n \in Nat : n = Len(file)
    BY <1>2
  <2>2. /\ IsFiniteSet(1..n)
        /\ Cardinality(1..n) = IF 1 > n THEN 0 ELSE n - 1 + 1
    BY FS_Interval
  <2> QED
    BY <2>1, <2>2
<1>5. IsFiniteSet(Rows(file)) /\ Cardinality(Rows(file)) <= Len(file)
  BY <1>2, <1>3, <1>4, ImageIsFinite
<1>6. IsFiniteSet(Ids(file)) /\ Cardinality(Ids(file)) <= Cardinality(Rows(file))
  <2> DEFINE id == [row \in Rows(file) |-> row.id]
  <2>1. Ids(file) = {id[row] : row \in Rows(file)}
    BY DEF Ids
  <2> HIDE DEF id
  <2>2. id = [row \in Rows(file) |-> id[row]]
    BY DEF id
  <2> QED
    BY <1>5, <2>1, <2>2, ImageIsFinite
<1>7. Cardinality(Ids(file)) <= Len(file)
  BY <1>2, <1>5, <1>6, FS_CardinalityType
<1> QED
  BY <1>2, <1>3, <1>5, <1>6, <1>7

\* A row is the one with its id.
LEMMA NamedIs ==
    ASSUME NEW file \in File, NEW row \in Rows(file)
    PROVE  /\ Named(file, row.id) = row
           /\ row.id \in Ids(file) /\ row \in Row
           /\ \A other \in Rows(file) :
                 /\ other.id = row.id => other = row
                 /\ other.created = row.created => other = row
<1>1. \A other \in Rows(file) : /\ other.id = row.id => other = row
                                /\ other.created = row.created => other = row
  BY FileRows, FileAssumption
<1>2. Named(file, row.id) \in Rows(file) /\ Named(file, row.id).id = row.id
  BY DEF Named
<1> QED
  BY <1>1, <1>2, FileRows DEF Ids

LEMMA InFileIs ==
    ASSUME NEW file \in File, NEW id
    PROVE  /\ InFile(file, id) <=> id \in Ids(file)
           /\ InFile(file, id) => /\ Named(file, id) \in Rows(file)
                                 /\ Named(file, id).id = id
                                 /\ id \in Legacy
<1>1. InFile(file, id) <=> id \in Ids(file)
  BY DEF InFile, Ids
<1>2. ASSUME InFile(file, id)
      PROVE  /\ Named(file, id) \in Rows(file)
             /\ Named(file, id).id = id
  BY <1>2 DEF InFile, Named
<1> QED
  BY <1>1, <1>2, FileRows DEF Row

-----------------------------------------------------------------------------
(* Parents                                                                 *)

LEMMA AboveIs ==
    ASSUME NEW file \in File, NEW id \in Ids(file)
    PROVE  Above(file, id) \in Ids(file)
BY InFileIs DEF Above

\* w leads up from id, step by step.
Climbs(file, id, w) ==
    /\ w \in [0..Len(file) -> Ids(file)]
    /\ w[0] = id
    /\ \A i \in 1..Len(file) : w[i] = Above(file, w[i - 1])

LEMMA RootIs ==
    ASSUME NEW file \in File, NEW id \in Ids(file)
    PROVE  \E w : Climbs(file, id, w) /\ RootOf(file, id) = w[Len(file)]
<1>1. Len(file) \in Nat
  BY FileRows
<1> DEFINE Step == [p \in Ids(file) \X (1..Len(file)) |-> Above(file, p[1])]
           walk[n \in 0..Len(file)] == IF n = 0 THEN id ELSE Above(file, walk[n - 1])
<1>2. Step \in [Ids(file) \X (1..Len(file)) -> Ids(file)]
  BY AboveIs
<1>3. PICK g \in [0..Len(file) -> Ids(file)] :
        g[0] = id /\ \A i \in 1..Len(file) : g[i] = Step[<<g[i - 1], i>>]
  <2> HIDE DEF Step
  <2>1. Steps(Len(file), Ids(file), id, Step) # {}
    BY <1>1, <1>2, StepsExist
  <2> QED
    BY <2>1 DEF Steps
<1>4. \A i \in 1..Len(file) : g[i] = Above(file, g[i - 1])
  <2>1. TAKE i \in 1..Len(file)
  <2>2. g[i - 1] \in Ids(file)
    BY <1>1
  <2> QED
    BY <1>3, <2>2
<1>5. g = [n \in 0..Len(file) |-> IF n = 0 THEN id ELSE Above(file, g[n - 1])]
  BY <1>1, <1>3, <1>4
<1>6. walk = [n \in 0..Len(file) |-> IF n = 0 THEN id ELSE Above(file, walk[n - 1])]
  <2>1. walk = CHOOSE f : f = [n \in 0..Len(file) |->
                                 IF n = 0 THEN id ELSE Above(file, f[n - 1])]
    BY DEF walk
  <2> HIDE DEF walk
  <2> QED
    BY <1>5, <2>1
<1>7. walk = g
  <2> DEFINE Same == {n \in 0..Len(file) : walk[n] = g[n]}
  <2> HIDE DEF walk
  <2>1. 0 \in Same
    BY <1>1, <1>3, <1>6
  <2>2. ASSUME NEW i \in 0..Len(file), i \in Same, i < Len(file) PROVE i + 1 \in Same
    <3>1. i + 1 \in 1..Len(file) /\ i + 1 \in 0..Len(file) /\ i + 1 - 1 = i /\ i + 1 # 0
      BY <1>1, <2>2
    <3>2. walk[i + 1] = Above(file, walk[i]) /\ g[i + 1] = Above(file, g[i])
      BY <1>4, <1>6, <3>1
    <3> QED
      BY <2>2, <3>1, <3>2
  <2> HIDE DEF Same
  <2>3. 0..Len(file) \subseteq Same
    BY <1>1, <2>1, <2>2, UpTo
  <2> QED
    BY <1>5, <1>6, <2>3 DEF Same
<1>8. RootOf(file, id) = walk[Len(file)]
  BY DEF RootOf
<1> HIDE DEF walk, Step
<1>9. Climbs(file, id, g)
  BY <1>3, <1>4 DEF Climbs
<1> QED
  BY <1>7, <1>8, <1>9

LEMMA CompanyIs ==
    ASSUME NEW file \in File, NEW row \in Rows(file)
    PROVE  /\ CompanyOf(file, row.id) \in Legacy \cup {NoRoot}
           /\ IsAdmin(row) => CompanyOf(file, row.id) = row.id
<1>1. PICK w : Climbs(file, row.id, w) /\ RootOf(file, row.id) = w[Len(file)]
  BY NamedIs, RootIs
<1>2. Len(file) \in Nat /\ w[Len(file)] \in Ids(file)
  BY <1>1, FileRows DEF Climbs
<1>3. CompanyOf(file, row.id) \in Legacy \cup {NoRoot}
  BY <1>1, <1>2, InFileIs DEF CompanyOf
<1>4. ASSUME IsAdmin(row) PROVE CompanyOf(file, row.id) = row.id
  <2>1. Above(file, row.id) = row.id
    BY <1>4, NamedIs DEF Above, IsAdmin
  <2> DEFINE Still == {i \in 0..Len(file) : w[i] = row.id}
  <2>2. 0 \in Still
    BY <1>1, <1>2 DEF Climbs
  <2>3. ASSUME NEW i \in 0..Len(file), i \in Still, i < Len(file) PROVE i + 1 \in Still
    <3>1. i + 1 \in 1..Len(file) /\ i + 1 \in 0..Len(file) /\ i + 1 - 1 = i
      BY <1>2, <2>3
    <3> QED
      BY <1>1, <2>1, <2>3, <3>1 DEF Climbs
  <2> HIDE DEF Still
  <2>4. Len(file) \in Still
    <3>1. 0..Len(file) \subseteq Still
      BY <1>2, <2>2, <2>3, UpTo
    <3> QED
      BY <1>2, <3>1
  <2>5. w[Len(file)] = row.id
    BY <2>4 DEF Still
  <2> QED
    BY <1>1, <1>4, <2>5, NamedIs DEF CompanyOf, IsAdmin
<1> QED
  BY <1>3, <1>4

\* Once at the top, there is nowhere to go.
LEMMA TopStays ==
    ASSUME NEW file \in File, NEW id, NEW v, Climbs(file, id, v),
           NEW i \in 0..Len(file), Above(file, v[i]) = v[i]
    PROVE  Above(file, v[Len(file)]) = v[Len(file)]
<1>1. Len(file) \in Nat
  BY FileRows
<1> DEFINE Stays == {k \in 0..Len(file) : k >= i => v[k] = v[i]}
<1>2. 0 \in Stays
  BY <1>1
<1>3. ASSUME NEW k \in 0..Len(file), k \in Stays, k < Len(file) PROVE k + 1 \in Stays
  <2>1. k + 1 \in 1..Len(file) /\ k + 1 \in 0..Len(file) /\ k + 1 - 1 = k
    BY <1>1, <1>3
  <2>2. v[k + 1] = Above(file, v[k])
    BY <2>1 DEF Climbs
  <2>3. CASE k >= i
    <3>1. v[k] = v[i]
      BY <1>3, <2>3
    <3> QED
      BY <2>1, <2>2, <3>1
  <2>4. CASE ~(k >= i)
    <3>1. k + 1 >= i => k + 1 = i
      BY <1>1, <2>4
    <3> QED
      BY <2>1, <3>1
  <2> QED
    BY <2>3, <2>4
<1> HIDE DEF Stays
<1>4. 0..Len(file) \subseteq Stays
  BY <1>1, <1>2, <1>3, UpTo
<1>5. Len(file) \in Stays /\ Len(file) >= i
  BY <1>1, <1>4
<1> QED
  BY <1>5 DEF Stays

\* Who is not at the top after as many steps as there are rows has been where he is
\* before, and goes on in the circle.
LEMMA CirclesGoOn ==
    ASSUME NEW file \in File, NEW id, NEW v, Climbs(file, id, v),
           Above(file, v[Len(file)]) # v[Len(file)]
    PROVE  \E k \in 0..Len(file) : Above(file, v[Len(file)]) = v[k]
<1> DEFINE n == Len(file)
<1>1. /\ n \in Nat /\ IsFiniteSet(Ids(file)) /\ Cardinality(Ids(file)) <= n
      /\ Cardinality(Ids(file)) \in Nat
  BY FileRows, FS_CardinalityType
<1>2. IsFiniteSet(0..n) /\ Cardinality(0..n) = n + 1
  <2>1. PICK m \in Nat : m = n
    BY <1>1
  <2>2. /\ IsFiniteSet(0..m)
        /\ Cardinality(0..m) = IF 0 > m THEN 0 ELSE m - 0 + 1
    BY FS_Interval
  <2> HIDE DEF n
  <2> QED
    BY <2>1, <2>2
<1>3. v \in [0..n -> Ids(file)]
  BY DEF Climbs
<1> HIDE DEF n
<1>4. \E i, j \in 0..n : i # j /\ v[i] = v[j]
  <2>1. Cardinality(Ids(file)) < Cardinality(0..n)
    BY <1>1, <1>2
  <2> DEFINE S == 0..n
  <2> HIDE DEF S
  <2>2. \E i, j \in S : i # j /\ v[i] = v[j]
    BY <1>1, <1>2, <1>3, <2>1, FS_PigeonHole DEF S
  <2> QED
    BY <2>2 DEF S
<1>5. PICK i \in 0..n, j \in 0..n : i < j /\ v[i] = v[j]
  BY <1>1, <1>4
<1> DEFINE Circle == {v[k] : k \in i..(j - 1)}
<1>6. ASSUME NEW k \in i..(j - 1) PROVE Above(file, v[k]) \in Circle
  <2>1. k + 1 \in 1..n /\ k + 1 - 1 = k
    BY <1>1, <1>5
  <2>2. v[k + 1] = Above(file, v[k])
    BY <2>1 DEF Climbs, n
  <2>3. CASE k + 1 = j
    <3>1. i \in i..(j - 1)
      BY <1>1, <1>5
    <3> QED
      BY <1>5, <2>2, <2>3, <3>1
  <2>4. CASE k + 1 # j
    <3>1. k + 1 \in i..(j - 1)
      BY <1>1, <1>5, <2>4
    <3> QED
      BY <2>2, <3>1
  <2> QED
    BY <2>3, <2>4
<1> DEFINE Within == {k \in 0..n : k >= i => v[k] \in Circle}
<1>7. 0 \in Within
  <2>1. i = 0 => i \in i..(j - 1)
    BY <1>1, <1>5
  <2> QED
    BY <1>1, <1>5, <2>1
<1>8. ASSUME NEW k \in 0..n, k \in Within, k < n PROVE k + 1 \in Within
  <2>1. k + 1 \in 1..n /\ k + 1 \in 0..n /\ k + 1 - 1 = k
    BY <1>1, <1>8
  <2>2. v[k + 1] = Above(file, v[k])
    BY <2>1 DEF Climbs, n
  <2>3. CASE k >= i
    <3>1. v[k] \in Circle
      BY <1>8, <2>3
    <3> QED
      BY <1>6, <2>1, <2>2, <3>1
  <2>4. CASE ~(k >= i)
    <3>1. k + 1 >= i => k + 1 = i /\ i \in i..(j - 1)
      BY <1>1, <1>5, <2>4
    <3> QED
      BY <2>1, <3>1
  <2> QED
    BY <2>3, <2>4
<1>9. v[n] \in Circle
  <2> HIDE DEF Within, Circle
  <2>1. 0..n \subseteq Within
    BY <1>1, <1>7, <1>8, UpTo
  <2>2. n \in Within /\ n >= i
    BY <1>1, <1>5, <2>1
  <2> QED
    BY <2>2 DEF Within
<1>10. Above(file, v[n]) \in Circle
  BY <1>6, <1>9
<1>11. i..(j - 1) \subseteq 0..n
  BY <1>1, <1>5
<1> QED
  BY <1>10, <1>11 DEF n

\* An account is in the company of its parent.
LEMMA CompanyFollows ==
    ASSUME NEW file \in File, NEW row \in Rows(file), InFile(file, row.parent)
    PROVE  CompanyOf(file, row.id) = CompanyOf(file, row.parent)
<1>1. row.id \in Ids(file) /\ row.parent \in Ids(file)
  BY NamedIs, InFileIs
<1>2. Above(file, row.id) = row.parent
  BY NamedIs, InFileIs, TitleAssumption DEF Above
<1>3. PICK v : Climbs(file, row.id, v) /\ RootOf(file, row.id) = v[Len(file)]
  BY <1>1, RootIs
<1>4. PICK w : Climbs(file, row.parent, w) /\ RootOf(file, row.parent) = w[Len(file)]
  BY <1>1, RootIs
<1>5. Len(file) \in Nat \ {0}
  BY FileRows
<1>6. w[Len(file)] = Above(file, v[Len(file)])
  <2> DEFINE Ahead == {k \in 0..(Len(file) - 1) : v[k + 1] = w[k]}
  <2>1. 0 \in Ahead
    BY <1>2, <1>3, <1>4, <1>5 DEF Climbs
  <2>2. ASSUME NEW k \in 0..(Len(file) - 1), k \in Ahead, k < Len(file) - 1
        PROVE  k + 1 \in Ahead
    <3>1. /\ k + 1 \in 1..Len(file) /\ k + 1 - 1 = k /\ k + 1 \in 0..(Len(file) - 1)
          /\ k + 1 + 1 \in 1..Len(file) /\ k + 1 + 1 - 1 = k + 1
      BY <1>5, <2>2
    <3>2. v[k + 1 + 1] = Above(file, v[k + 1]) /\ w[k + 1] = Above(file, w[k])
      BY <1>3, <1>4, <3>1 DEF Climbs
    <3> QED
      BY <2>2, <3>1, <3>2
  <2> HIDE DEF Ahead
  <2>3. 0..(Len(file) - 1) \subseteq Ahead
    <3>1. Len(file) - 1 \in Nat
      BY <1>5
    <3> QED
      BY <2>1, <2>2, <3>1, UpTo
  <2>4. Len(file) - 1 \in Ahead /\ Len(file) - 1 + 1 = Len(file) /\ Len(file) \in 1..Len(file)
    BY <1>5, <2>3
  <2>5. v[Len(file)] = w[Len(file) - 1]
    BY <2>4 DEF Ahead
  <2> QED
    BY <1>4, <2>4, <2>5 DEF Climbs
<1>7. CASE Above(file, v[Len(file)]) = v[Len(file)]
  BY <1>3, <1>4, <1>6, <1>7 DEF CompanyOf
<1>8. CASE Above(file, v[Len(file)]) # v[Len(file)]
  <2>1. \A k \in 0..Len(file) : Above(file, v[k]) # v[k]
    BY <1>3, <1>8, TopStays
  <2>2. \A k \in 0..Len(file) : Named(file, v[k]).parent # NoParent
    BY <2>1 DEF Above
  <2>3. Len(file) \in 0..Len(file)
    BY <1>5
  <2>4. Named(file, RootOf(file, row.id)).parent # NoParent
    BY <1>3, <2>2, <2>3
  <2>5. Named(file, RootOf(file, row.parent)).parent # NoParent
    BY <1>3, <1>4, <1>6, <1>8, <2>2, CirclesGoOn
  <2> QED
    BY <2>4, <2>5 DEF CompanyOf
<1> QED
  BY <1>7, <1>8

-----------------------------------------------------------------------------
(* Names of roles                                                          *)

\* The roles of a company with one title
Peers(names, role) ==
    {n \in names : n.role.company = role.company /\ n.role.title = role.title}

NamedRole == [keys : SUBSET Permission,
              role : [company : Legacy, title : Title, number : Nat \ {0}]]

\* Names that differ, each with a number no higher than those of its title are many:
\* the next number is then new.
Naming == {names \in SUBSET NamedRole :
             /\ IsFiniteSet(names)
             /\ \A n \in names : n.role.number <= Cardinality(Peers(names, n.role))
             /\ \A n, m \in names : n.role = m.role => n = m}

LEMMA PeersFinite ==
    ASSUME NEW names, IsFiniteSet(names), NEW role
    PROVE  IsFiniteSet(Peers(names, role)) /\ Cardinality(Peers(names, role)) \in Nat
<1>1. Peers(names, role) \subseteq names
  BY DEF Peers
<1> QED
  BY <1>1, FS_Subset, FS_CardinalityType

\* A role that is added has a name of its own.
LEMMA NumberIsNew ==
    ASSUME NEW names \in Naming, NEW e \in NamedRole,
           e.role.number = Cardinality(Peers(names, e.role)) + 1
    PROVE  names \cup {e} \in Naming
<1> DEFINE more == names \cup {e}
<1>1. /\ names \in SUBSET NamedRole /\ IsFiniteSet(names)
      /\ \A n \in names : n.role.number <= Cardinality(Peers(names, n.role))
      /\ \A n, m \in names : n.role = m.role => n = m
  BY DEF Naming
<1>2. \A n \in names : n.role # e.role
  <2>1. SUFFICES ASSUME NEW n \in names, n.role = e.role PROVE FALSE
    OBVIOUS
  <2>2. n.role.number <= Cardinality(Peers(names, e.role))
    BY <1>1, <2>1
  <2> QED
    BY <1>1, <2>1, <2>2, PeersFinite
<1>3. IsFiniteSet(more) /\ more \in SUBSET NamedRole
  BY <1>1, FS_AddElement
<1>4. ASSUME NEW n \in names PROVE n.role.number <= Cardinality(Peers(more, n.role))
  <2>1. Peers(names, n.role) \subseteq Peers(more, n.role)
    BY DEF Peers
  <2> HIDE DEF more
  <2>2. /\ Cardinality(Peers(names, n.role)) <= Cardinality(Peers(more, n.role))
        /\ Cardinality(Peers(names, n.role)) \in Nat
        /\ Cardinality(Peers(more, n.role)) \in Nat
    BY <1>1, <1>3, <2>1, PeersFinite, FS_Subset
  <2>3. n.role.number \in Nat
    BY <1>1 DEF NamedRole
  <2> QED
    BY <1>1, <2>2, <2>3
<1>5. e.role.number <= Cardinality(Peers(more, e.role))
  <2>1. Peers(more, e.role) = Peers(names, e.role) \cup {e} /\ e \notin Peers(names, e.role)
    BY <1>2 DEF Peers
  <2> HIDE DEF more
  <2>2. Cardinality(Peers(more, e.role)) = Cardinality(Peers(names, e.role)) + 1
    BY <1>1, <2>1, PeersFinite, FS_AddElement
  <2> QED
    BY <1>1, <2>2, PeersFinite
<1>6. \A n, m \in more : n.role = m.role => n = m
  BY <1>1, <1>2
<1>7. \A n \in more : n.role.number <= Cardinality(Peers(more, n.role))
  BY <1>4, <1>5
<1> HIDE DEF more
<1>8. more \in Naming
  BY <1>3, <1>6, <1>7 DEF Naming
<1> QED
  BY <1>8 DEF more

\* There is a role for the row, where there is to be one.
HasRole(file, names, row) ==
    CompanyOf(file, row.id) # NoRoot /\ ~IsAdmin(row)
      => \E n \in names : n.keys = row.keys /\ n.role.company = CompanyOf(file, row.id)

LEMMA RoleIsAdded ==
    ASSUME NEW file \in File, NEW names \in Naming, NEW row \in Rows(file)
    PROVE  /\ WithRole(file, names, row) \in Naming
           /\ names \subseteq WithRole(file, names, row)
           /\ HasRole(file, WithRole(file, names, row), row)
<1> DEFINE c == CompanyOf(file, row.id)
           here == {n \in names : n.role.company = c}
           taken == {n \in here : n.role.title = row.title}
           role == [company |-> c, title |-> row.title, number |-> Cardinality(taken) + 1]
           e == [keys |-> row.keys, role |-> role]
<1>1. row.keys \in SUBSET Permission /\ row.title \in Title
  BY FileRows DEF Row
<1>2. CASE c = NoRoot \/ IsAdmin(row) \/ \E n \in here : n.keys = row.keys
  <2>1. WithRole(file, names, row) = names
    BY <1>2 DEF WithRole
  <2> QED
    BY <1>2, <2>1 DEF HasRole
<1>3. CASE ~(c = NoRoot \/ IsAdmin(row) \/ \E n \in here : n.keys = row.keys)
  <2>1. WithRole(file, names, row) = names \cup {e}
    BY <1>3 DEF WithRole
  <2>2. c \in Legacy
    BY <1>3, CompanyIs
  <2>3. taken = Peers(names, role)
    BY DEF Peers
  <2> HIDE DEF taken
  <2>4. Cardinality(taken) \in Nat
    BY <2>3, PeersFinite DEF Naming
  <2>5. Cardinality(taken) + 1 \in Nat \ {0}
    BY <2>4
  <2> HIDE DEF c
  <2>6. e \in NamedRole /\ e.role = role /\ e.role.number = Cardinality(taken) + 1
        /\ e.role.company = c /\ e.keys = row.keys
    BY <1>1, <2>2, <2>5 DEF NamedRole
  <2> HIDE DEF e, role
  <2>7. names \cup {e} \in Naming
    BY <2>3, <2>6, NumberIsNew
  <2> QED
    BY <2>1, <2>6, <2>7 DEF HasRole, c
<1> QED
  BY <1>2, <1>3

\* Every row that is to have a role has one, and no two have one name.
LEMMA NamesAre ==
    ASSUME NEW file \in File
    PROVE  /\ RoleNames[file] \in Naming
           /\ \A row \in Rows(file) : HasRole(file, RoleNames[file], row)
<1>1. /\ Len(file) \in Nat
      /\ \A i \in 1..Len(file) : file[i] \in Rows(file)
      /\ \A row \in Rows(file) : \E i \in 1..Len(file) : row = file[i]
  BY FileRows
<1> DEFINE Step == [p \in Naming \X (1..Len(file)) |-> WithRole(file, p[1], file[p[2]])]
           roles[n \in 0..Len(file)] ==
              IF n = 0 THEN {} ELSE WithRole(file, roles[n - 1], file[n])
<1>2. {} \in Naming
  BY FS_EmptySet DEF Naming
<1>3. Step \in [Naming \X (1..Len(file)) -> Naming]
  BY <1>1, RoleIsAdded
<1>4. PICK g \in [0..Len(file) -> Naming] :
        g[0] = {} /\ \A i \in 1..Len(file) : g[i] = Step[<<g[i - 1], i>>]
  <2> HIDE DEF Step
  <2>1. Steps(Len(file), Naming, {}, Step) # {}
    BY <1>1, <1>2, <1>3, StepsExist
  <2> QED
    BY <2>1 DEF Steps
<1>5. \A i \in 1..Len(file) : g[i] = WithRole(file, g[i - 1], file[i])
  <2>1. TAKE i \in 1..Len(file)
  <2>2. g[i - 1] \in Naming
    BY <1>1
  <2> QED
    BY <1>4, <2>2
<1>6. g = [n \in 0..Len(file) |-> IF n = 0 THEN {} ELSE WithRole(file, g[n - 1], file[n])]
  BY <1>1, <1>4, <1>5
<1>7. roles = [n \in 0..Len(file) |-> IF n = 0 THEN {} ELSE WithRole(file, roles[n - 1], file[n])]
  <2>1. roles = CHOOSE f : f = [n \in 0..Len(file) |->
                                  IF n = 0 THEN {} ELSE WithRole(file, f[n - 1], file[n])]
    BY DEF roles
  <2> HIDE DEF roles
  <2> QED
    BY <1>6, <2>1
<1>8. RoleNames[file] = roles[Len(file)]
  BY DEF RoleNames
<1> HIDE DEF roles, Step
<1>9. roles[0] = {} /\ \A n \in 1..Len(file) : roles[n] = WithRole(file, roles[n - 1], file[n])
  <2>1. \A n \in 1..Len(file) : n \in 0..Len(file) /\ n # 0
    OBVIOUS
  <2>2. 0 \in 0..Len(file)
    BY <1>1
  <2> QED
    BY <1>7, <2>1, <2>2
<1> DEFINE Done(n) == \A i \in 1..n : HasRole(file, roles[n], file[i])
           Right == {n \in 0..Len(file) : roles[n] \in Naming /\ Done(n)}
<1>10. 0 \in Right
  <2>1. 1..0 = {}
    OBVIOUS
  <2> QED
    BY <1>1, <1>2, <1>7, <2>1
<1>11. ASSUME NEW k \in 0..Len(file), k \in Right, k < Len(file) PROVE k + 1 \in Right
  <2>1. k \in Nat /\ k + 1 \in 1..Len(file) /\ k + 1 \in 0..Len(file) /\ k + 1 - 1 = k /\ k + 1 # 0
    BY <1>1, <1>11
  <2>2. roles[k + 1] = WithRole(file, roles[k], file[k + 1])
    BY <1>9, <2>1
  <2>3. /\ roles[k + 1] \in Naming /\ roles[k] \subseteq roles[k + 1]
        /\ HasRole(file, roles[k + 1], file[k + 1])
    BY <1>1, <1>11, <2>1, <2>2, RoleIsAdded
  <2>4. \A i \in 1..(k + 1) : i = k + 1 \/ i \in 1..k
    BY <2>1
  <2>5. \A i \in 1..k : HasRole(file, roles[k + 1], file[i])
    BY <1>11, <2>3 DEF HasRole
  <2>6. \A i \in 1..(k + 1) : HasRole(file, roles[k + 1], file[i])
    BY <2>3, <2>4, <2>5
  <2> QED
    BY <2>1, <2>3, <2>6
<1> HIDE DEF Right
<1>12. 0..Len(file) \subseteq Right
  BY <1>1, <1>10, <1>11, UpTo
<1>13. Len(file) \in Right
  BY <1>1, <1>12
<1> QED
  BY <1>1, <1>8, <1>13 DEF Right

-----------------------------------------------------------------------------
(* What a run writes                                                       *)

Grants == [all : BOOLEAN, keys : SUBSET Permission]
JobTable == \A x \in DOMAIN jobs : x \in Job /\ jobs[x] \in Grants
Names(file) == {n.role : n \in RoleNames[file]}

\* The roles of a file are no Administrators.
LEMMA NamesDiffer ==
    ASSUME NEW file \in File, JobTable
    PROVE  /\ Names(file) \subseteq Job
           /\ \A x \in Names(file) : x.title # "Administrator"
           /\ \A x \in Administrators(file) : x \in Job /\ x.title = "Administrator"
           /\ Names(file) \cap Administrators(file) = {}
           /\ \A row \in Rows(file) : IsAdmin(row) => Administrator(row.id) \in Administrators(file)
           /\ \A n \in RoleNames[file] : /\ n.role \in Names(file)
                                         /\ (CHOOSE m \in RoleNames[file] : m.role = n.role) = n
                                         /\ n.keys \in SUBSET Permission
<1>1. RoleNames[file] \in Naming
  BY NamesAre
<1>2. \A n \in RoleNames[file] : /\ n.role \in Job /\ n.role.title \in Title
                                 /\ n.keys \in SUBSET Permission
  BY <1>1 DEF Naming, NamedRole, Job
<1>3. \A x \in Names(file) : x \in Job /\ x.title # "Administrator"
  BY <1>2, TitleAssumption DEF Names
<1>4. \A x \in Administrators(file) : x \in Job /\ x.title = "Administrator"
  <2>1. ASSUME NEW row \in Rows(file)
        PROVE  Administrator(row.id) \in Job /\ Administrator(row.id).title = "Administrator"
    BY NamedIs DEF Administrator, Job, Row
  <2>2. \A x \in DOMAIN jobs : x \in Job
    BY DEF JobTable
  <2> QED
    BY <2>1, <2>2 DEF Administrators
<1>5. \A n \in RoleNames[file] : (CHOOSE m \in RoleNames[file] : m.role = n.role) = n
  BY <1>1 DEF Naming
<1>6. \A row \in Rows(file) : IsAdmin(row) => Administrator(row.id) \in Administrators(file)
  BY DEF Administrators
<1> QED
  BY <1>2, <1>3, <1>4, <1>5, <1>6 DEF Names

LEMMA RolesWritten ==
    ASSUME NEW file \in File, JobTable
    PROVE  /\ DOMAIN JobsAfter(file) = Names(file) \cup Administrators(file) \cup DOMAIN jobs
           /\ JobsAfter(file) = [x \in DOMAIN JobsAfter(file) |-> JobsAfter(file)[x]]
           /\ \A n \in RoleNames[file] :
                JobsAfter(file)[n.role] =
                  IF n.role \in DOMAIN jobs THEN [jobs[n.role] EXCEPT !.keys = n.keys]
                  ELSE Only(n.keys)
           /\ \A x \in Administrators(file) :
                JobsAfter(file)[x] =
                  IF x \in DOMAIN jobs THEN [jobs[x] EXCEPT !.all = TRUE] ELSE Everything
           /\ \A x \in DOMAIN jobs \ (Names(file) \cup Administrators(file)) :
                JobsAfter(file)[x] = jobs[x]
<1> DEFINE named == [x \in Names(file) |->
                       LET keys == (CHOOSE n \in RoleNames[file] : n.role = x).keys
                       IN IF x \in DOMAIN jobs THEN [jobs[x] EXCEPT !.keys = keys] ELSE Only(keys)]
           admins == [x \in Administrators(file) |->
                       IF x \in DOMAIN jobs THEN [jobs[x] EXCEPT !.all = TRUE] ELSE Everything]
<1>1. JobsAfter(file) = Upsert(named, Upsert(admins, jobs))
  BY DEF JobsAfter, Names
<1>2. DOMAIN named = Names(file) /\ DOMAIN admins = Administrators(file)
  OBVIOUS
<1>3. \A n \in RoleNames[file] :
        n.role \in Names(file) /\ named[n.role] =
                  IF n.role \in DOMAIN jobs THEN [jobs[n.role] EXCEPT !.keys = n.keys]
                  ELSE Only(n.keys)
  <2>1. TAKE n \in RoleNames[file]
  <2>2. n.role \in Names(file) /\ (CHOOSE m \in RoleNames[file] : m.role = n.role) = n
    BY NamesDiffer
  <2>3. named[n.role] = LET keys == (CHOOSE m \in RoleNames[file] : m.role = n.role).keys
                        IN IF n.role \in DOMAIN jobs THEN [jobs[n.role] EXCEPT !.keys = keys]
                           ELSE Only(keys)
    BY <2>2
  <2> HIDE DEF named
  <2> QED
    BY <2>2, <2>3
<1>4. \A x \in Administrators(file) :
        x \notin Names(file) /\ admins[x] =
                  IF x \in DOMAIN jobs THEN [jobs[x] EXCEPT !.all = TRUE] ELSE Everything
  BY NamesDiffer
<1> HIDE DEF named, admins
<1>5. JobsAfter(file) = [x \in Names(file) \cup Administrators(file) \cup DOMAIN jobs |->
                           IF x \in Names(file) THEN named[x]
                           ELSE IF x \in Administrators(file) THEN admins[x] ELSE jobs[x]]
  BY <1>1, <1>2 DEF Upsert
<1> QED
  BY <1>3, <1>4, <1>5

\* The role a row is given is one of its company, with the row's permissions.
LEMMA JobIs ==
    ASSUME NEW file \in File, NEW row \in Rows(file), CompanyOf(file, row.id) # NoRoot
    PROVE  /\ JobOf(file, row).company = CompanyOf(file, row.id)
           /\ IsAdmin(row) => JobOf(file, row) = Administrator(row.id)
           /\ ~IsAdmin(row) => \E n \in RoleNames[file] : n.role = JobOf(file, row) /\ n.keys = row.keys
<1>1. CASE IsAdmin(row)
  BY <1>1, CompanyIs DEF JobOf, Administrator
<1>2. CASE ~IsAdmin(row)
  <2>1. \E n \in RoleNames[file] : n.keys = row.keys /\ n.role.company = CompanyOf(file, row.id)
    BY <1>2, NamesAre DEF HasRole
  <2> DEFINE n == CHOOSE m \in RoleNames[file] :
                    m.keys = row.keys /\ m.role.company = CompanyOf(file, row.id)
  <2>2. n \in RoleNames[file] /\ n.keys = row.keys /\ n.role.company = CompanyOf(file, row.id)
    BY <2>1
  <2>3. JobOf(file, row) = n.role
    BY <1>2 DEF JobOf
  <2> HIDE DEF n
  <2> QED
    BY <1>2, <2>2, <2>3
<1> QED
  BY <1>1, <1>2

LEMMA AccountsWritten ==
    ASSUME NEW file \in File
    PROVE  /\ DOMAIN AccountsAfter(file) = Ids(file) \cup DOMAIN accounts
           /\ AccountsAfter(file) = [id \in DOMAIN AccountsAfter(file) |-> AccountsAfter(file)[id]]
           /\ \A row \in Rows(file) : AccountsAfter(file)[row.id] = Written(file, row)
           /\ \A id \in DOMAIN accounts \ Ids(file) : AccountsAfter(file)[id] = accounts[id]
<1> DEFINE rows == [id \in Ids(file) |-> Written(file, Named(file, id))]
<1>1. AccountsAfter(file) = Upsert(rows, accounts)
  BY DEF AccountsAfter, Ids
<1>2. \A row \in Rows(file) : row.id \in Ids(file) /\ rows[row.id] = Written(file, row)
  BY NamedIs
<1>3. DOMAIN rows = Ids(file)
  OBVIOUS
<1> HIDE DEF rows
<1>4. AccountsAfter(file) = [id \in Ids(file) \cup DOMAIN accounts |->
                               IF id \in Ids(file) THEN rows[id] ELSE accounts[id]]
  BY <1>1, <1>3 DEF Upsert
<1> QED
  BY <1>2, <1>4

\* What the run makes of an account, that was there or was not.
LEMMA WrittenIs ==
    ASSUME NEW file \in File, NEW row \in Rows(file), JobTable,
           row.id \in DOMAIN accounts => /\ accounts[row.id] \in Account
                                         /\ accounts[row.id].job \in DOMAIN jobs \cup {NoJob}
    PROVE  /\ Written(file, row) \in Account
           /\ Written(file, row).company = CompanyOf(file, row.id)
           /\ Written(file, row).job \in DOMAIN JobsAfter(file) \cup {NoJob}
           /\ CompanyOf(file, row.id) # NoRoot => Written(file, row).job = JobOf(file, row)
           /\ row.id \in DOMAIN accounts
                => /\ Written(file, row).phone = accounts[row.id].phone
                   /\ Written(file, row).live = accounts[row.id].live
           /\ row.id \notin DOMAIN accounts
                => /\ Written(file, row).phone = IF Keeps(file, row) THEN row.phone ELSE NoPhone
                   /\ Written(file, row).live
<1> DEFINE company == CompanyOf(file, row.id)
           account == IF row.id \in DOMAIN accounts
                      THEN [accounts[row.id] EXCEPT !.company = company]
                      ELSE Fresh(file, row)
<1>1. company \in Legacy \cup {NoRoot}
  BY CompanyIs
<1>2. Fresh(file, row) \in Account
  <2>1. row.phone \in Phone \cup {NoPhone}
    BY FileRows DEF Row
  <2> QED
    BY <1>1, <2>1 DEF Fresh, Account
<1>3. /\ account \in Account /\ account.company = company
      /\ account.job \in DOMAIN jobs \cup {NoJob}
      /\ row.id \in DOMAIN accounts => /\ account.phone = accounts[row.id].phone
                                       /\ account.live = accounts[row.id].live
      /\ row.id \notin DOMAIN accounts
           => /\ account.phone = IF Keeps(file, row) THEN row.phone ELSE NoPhone
              /\ account.live
  <2>1. CASE row.id \in DOMAIN accounts
    <3>1. account = [accounts[row.id] EXCEPT !.company = company]
      BY <2>1
    <3> HIDE DEF account, company
    <3> QED
      BY <1>1, <2>1, <3>1 DEF Account
  <2>2. CASE row.id \notin DOMAIN accounts
    <3>1. account = Fresh(file, row)
      BY <2>2
    <3> HIDE DEF account
    <3> QED
      BY <1>2, <2>2, <3>1 DEF Fresh
  <2> QED
    BY <2>1, <2>2
<1>4. Written(file, row) = IF company = NoRoot THEN account
                           ELSE [account EXCEPT !.job = JobOf(file, row)]
  BY DEF Written
<1> HIDE DEF account
<1>5. DOMAIN jobs \subseteq DOMAIN JobsAfter(file)
  BY RolesWritten
<1>6. CASE company = NoRoot
  BY <1>3, <1>4, <1>5, <1>6
<1>7. CASE company # NoRoot
  <2>1. JobOf(file, row) \in DOMAIN JobsAfter(file) /\ JobOf(file, row) \in Job
    <3>1. JobOf(file, row) \in Names(file) \cup Administrators(file)
      <4>1. CASE IsAdmin(row)
        BY <1>7, <4>1, JobIs, NamesDiffer
      <4>2. CASE ~IsAdmin(row)
        BY <1>7, <4>2, JobIs, NamesDiffer
      <4> QED
        BY <4>1, <4>2
    <3>2. Names(file) \cup Administrators(file) \subseteq Job
      BY NamesDiffer
    <3>3. Names(file) \cup Administrators(file) \subseteq DOMAIN JobsAfter(file)
      BY RolesWritten
    <3> QED
      BY <3>1, <3>2, <3>3
  <2>2. Written(file, row) = [account EXCEPT !.job = JobOf(file, row)]
    BY <1>4, <1>7
  <2> HIDE DEF company
  <2>3. /\ Written(file, row) \in Account
        /\ Written(file, row).company = account.company
        /\ Written(file, row).job = JobOf(file, row)
        /\ Written(file, row).phone = account.phone
        /\ Written(file, row).live = account.live
    BY <1>3, <2>1, <2>2 DEF Account
  <2> QED
    BY <1>3, <2>1, <2>3 DEF company
<1> QED
  BY <1>6, <1>7

-----------------------------------------------------------------------------
(* The tables between two runs                                             *)

\* The tables are what the file makes of them.
Settled(file) ==
    /\ \A row \in Rows(file) :
         /\ row.id \in DOMAIN accounts
         /\ accounts[row.id].company = CompanyOf(file, row.id)
         /\ CompanyOf(file, row.id) # NoRoot => accounts[row.id].job = JobOf(file, row)
    /\ \A n \in RoleNames[file] : n.role \in DOMAIN jobs /\ jobs[n.role].keys = n.keys
    /\ \A x \in Administrators(file) : x \in DOMAIN jobs /\ jobs[x].all

\* None of the properties is inductive: each relates the tables to the file imported
\* last, and needs all of what the file made of them.  As long as the service has
\* redefined nothing, only Administrators are granted everything.
ImportInv ==
    /\ ImportTypeOK
    /\ accounts \in [DOMAIN accounts -> Account]
    /\ jobs \in [DOMAIN jobs -> Grants]
    /\ edits = 0 => \A x \in DOMAIN jobs : jobs[x].all => x.title = "Administrator"
    /\ last # NoFile => Settled(last)

LEMMA InitSettled == ImportInit => ImportInv
<1> SUFFICES ASSUME ImportInit PROVE ImportInv
  OBVIOUS
<1>1. DOMAIN accounts = {} /\ DOMAIN jobs = {} /\ edits = 0 /\ last = NoFile
  BY DEF ImportInit
<1>2. accounts \in [DOMAIN accounts -> Account] /\ jobs \in [DOMAIN jobs -> Grants]
  BY <1>1 DEF ImportInit
<1>3. ImportTypeOK
  BY <1>1, FileAssumption DEF ImportTypeOK
<1> QED
  BY <1>1, <1>2, <1>3 DEF ImportInv

LEMMA RunSettles ==
    ASSUME ImportInv, NEW file \in File, ImportFile(file)
    PROVE  ImportInv' /\ Settled(file)' /\ last' = file
<1>1. /\ accounts' = AccountsAfter(file) /\ jobs' = JobsAfter(file)
      /\ last' = file /\ edits' = edits
  BY DEF ImportFile
<1>2. JobTable
  BY DEF ImportInv, ImportTypeOK, JobTable, Grants
<1>3. ASSUME NEW x \in DOMAIN jobs'
      PROVE  /\ x \in Job /\ jobs'[x] \in Grants
             /\ edits = 0 /\ jobs'[x].all => x.title = "Administrator"
  <2>1. x \in Names(file) \/ x \in Administrators(file)
          \/ x \in DOMAIN jobs \ (Names(file) \cup Administrators(file))
    BY <1>1, <1>2, <1>3, RolesWritten
  <2>2. \A y \in DOMAIN jobs : jobs[y] \in Grants /\ y \in Job
    BY <1>2 DEF JobTable
  <2>3. CASE x \in Names(file)
    <3>1. PICK n \in RoleNames[file] : x = n.role
      BY <2>3 DEF Names
    <3>2. n.keys \in SUBSET Permission /\ x \in Job
      BY <1>2, <2>3, <3>1, NamesDiffer
    <3>3. jobs'[x] = IF x \in DOMAIN jobs THEN [jobs[x] EXCEPT !.keys = n.keys] ELSE Only(n.keys)
      BY <1>1, <1>2, <3>1, RolesWritten
    <3>4. CASE x \in DOMAIN jobs
      <4>1. jobs'[x] \in Grants /\ jobs'[x].all = jobs[x].all
        BY <2>2, <3>2, <3>3, <3>4 DEF Grants
      <4> QED
        BY <3>2, <3>4, <4>1 DEF ImportInv
    <3>5. CASE x \notin DOMAIN jobs
      BY <3>2, <3>3, <3>5 DEF Only, Grants
    <3> QED
      BY <3>4, <3>5
  <2>4. CASE x \in Administrators(file)
    <3>1. x \in Job /\ x.title = "Administrator"
      BY <1>2, <2>4, NamesDiffer
    <3>2. jobs'[x] = IF x \in DOMAIN jobs THEN [jobs[x] EXCEPT !.all = TRUE] ELSE Everything
      BY <1>1, <1>2, <2>4, RolesWritten
    <3>3. jobs'[x] \in Grants
      <4>1. Everything \in Grants
        BY DEF Everything, Grants
      <4> QED
        BY <2>2, <3>2, <4>1 DEF Grants
    <3> QED
      BY <3>1, <3>3
  <2>5. CASE x \in DOMAIN jobs \ (Names(file) \cup Administrators(file))
    <3>1. jobs'[x] = jobs[x]
      BY <1>1, <1>2, <2>5, RolesWritten
    <3> QED
      BY <2>2, <2>5, <3>1 DEF ImportInv
  <2> QED
    BY <2>1, <2>3, <2>4, <2>5
<1>4. jobs' \in [DOMAIN jobs' -> Grants]
  BY <1>1, <1>2, <1>3, RolesWritten
<1>5. ASSUME NEW row \in Rows(file)
      PROVE  /\ row.id \in DOMAIN accounts' /\ row.id \in Legacy
             /\ accounts'[row.id] \in Account
             /\ accounts'[row.id].company = CompanyOf(file, row.id)
             /\ accounts'[row.id].job \in DOMAIN jobs' \cup {NoJob}
             /\ CompanyOf(file, row.id) # NoRoot => accounts'[row.id].job = JobOf(file, row)
  <2>1. row.id \in Ids(file) /\ row.id \in Legacy
    BY NamedIs DEF Row
  <2>2. accounts'[row.id] = Written(file, row) /\ row.id \in DOMAIN accounts'
    BY <1>1, <2>1, AccountsWritten
  <2>3. row.id \in DOMAIN accounts => /\ accounts[row.id] \in Account
                                      /\ accounts[row.id].job \in DOMAIN jobs \cup {NoJob}
    BY DEF ImportInv, ImportTypeOK
  <2> QED
    BY <1>1, <1>2, <2>1, <2>2, <2>3, WrittenIs
<1>6. ASSUME NEW id \in DOMAIN accounts'
      PROVE  /\ id \in Legacy \cup Native /\ accounts'[id] \in Account
             /\ accounts'[id].job \in DOMAIN jobs' \cup {NoJob}
  <2>1. CASE id \in Ids(file)
    <3>1. PICK row \in Rows(file) : id = row.id
      BY <2>1 DEF Ids
    <3> QED
      BY <1>5, <3>1
  <2>2. CASE id \notin Ids(file)
    <3>1. id \in DOMAIN accounts /\ accounts'[id] = accounts[id]
      BY <1>1, <1>6, <2>2, AccountsWritten
    <3>2. DOMAIN jobs \subseteq DOMAIN jobs'
      BY <1>1, <1>2, RolesWritten
    <3> QED
      BY <3>1, <3>2 DEF ImportInv, ImportTypeOK
  <2> QED
    BY <2>1, <2>2
<1>7. accounts' \in [DOMAIN accounts' -> Account]
  BY <1>1, <1>6, AccountsWritten
<1>8. \A n \in RoleNames[file] : n.role \in DOMAIN jobs' /\ jobs'[n.role].keys = n.keys
  <2>1. TAKE n \in RoleNames[file]
  <2>2. jobs'[n.role] = IF n.role \in DOMAIN jobs THEN [jobs[n.role] EXCEPT !.keys = n.keys]
                        ELSE Only(n.keys)
    BY <1>1, <1>2, RolesWritten
  <2>3. n.role \in DOMAIN jobs'
    <3>1. n.role \in Names(file)
      BY DEF Names
    <3> QED
      BY <1>1, <1>2, <3>1, RolesWritten
  <2>4. n.role \in DOMAIN jobs => jobs[n.role] \in Grants
    BY <1>2 DEF JobTable
  <2>5. jobs'[n.role].keys = n.keys
    BY <2>2, <2>4 DEF Grants, Only
  <2> QED
    BY <2>3, <2>5
<1>9. \A x \in Administrators(file) : x \in DOMAIN jobs' /\ jobs'[x].all
  <2>1. TAKE x \in Administrators(file)
  <2>2. /\ x \in DOMAIN jobs'
        /\ jobs'[x] = IF x \in DOMAIN jobs THEN [jobs[x] EXCEPT !.all = TRUE] ELSE Everything
    BY <1>1, <1>2, RolesWritten
  <2>3. x \in DOMAIN jobs => jobs[x] \in Grants
    BY <1>2 DEF JobTable
  <2> QED
    BY <2>2, <2>3 DEF Grants, Everything
<1>10. Administrators(file)' = Administrators(file)
  <2>1. \A x \in DOMAIN jobs' : x.title = "Administrator" => x \in Administrators(file)
    <3>1. TAKE x \in DOMAIN jobs'
    <3>2. x \in Names(file) \/ x \in Administrators(file) \/ x \in DOMAIN jobs
      BY <1>1, <1>2, RolesWritten
    <3>3. x \in Names(file) => x.title # "Administrator"
      BY <1>2, NamesDiffer
    <3> QED
      BY <3>2, <3>3 DEF Administrators
  <2>2. DOMAIN jobs \subseteq DOMAIN jobs'
    BY <1>1, <1>2, RolesWritten
  <2> QED
    BY <2>1, <2>2 DEF Administrators
<1>11. Settled(file)'
  BY <1>5, <1>8, <1>9, <1>10 DEF Settled
<1>12. ImportTypeOK'
  BY <1>1, <1>3, <1>6 DEF ImportTypeOK, ImportInv, Grants
<1>13. Settled(last)'
  BY <1>1, <1>11 DEF Settled
<1> QED
  BY <1>1, <1>3, <1>4, <1>7, <1>11, <1>12, <1>13 DEF ImportInv

LEMMA EditsCount ==
    ASSUME ImportInv, Edit
    PROVE  edits' \in 0..MaxEdits /\ edits' # 0 /\ last' = NoFile
BY FileAssumption DEF ImportInv, ImportTypeOK, Edit

\* What the service does keeps the tables well typed, and leaves no file the last.
LEMMA EditsKeep ==
    ASSUME ImportInv, Edit,
           \A id \in DOMAIN accounts' : /\ id \in Legacy \cup Native
                                        /\ accounts'[id] \in Account
                                        /\ accounts'[id].job \in DOMAIN jobs' \cup {NoJob},
           accounts' = [id \in DOMAIN accounts' |-> accounts'[id]],
           \A x \in DOMAIN jobs' : x \in Job /\ jobs'[x] \in Grants,
           jobs' = [x \in DOMAIN jobs' |-> jobs'[x]]
    PROVE  ImportInv'
<1>1. edits' \in 0..MaxEdits /\ edits' # 0 /\ last' = NoFile
  BY EditsCount
<1>2. ImportTypeOK'
  BY <1>1 DEF ImportTypeOK, Grants
<1>3. accounts' \in [DOMAIN accounts' -> Account] /\ jobs' \in [DOMAIN jobs' -> Grants]
  OBVIOUS
<1> QED
  BY <1>1, <1>2, <1>3 DEF ImportInv

LEMMA ImportStep == ImportInv /\ [ImportNext]_importVars => ImportInv'
<1> SUFFICES ASSUME ImportInv, [ImportNext]_importVars PROVE ImportInv'
  OBVIOUS
<1>1. /\ \A id \in DOMAIN accounts : /\ id \in Legacy \cup Native
                                     /\ accounts[id] \in Account
                                     /\ accounts[id].job \in DOMAIN jobs \cup {NoJob}
      /\ \A x \in DOMAIN jobs : x \in Job /\ jobs[x] \in Grants
      /\ accounts \in [DOMAIN accounts -> Account] /\ jobs \in [DOMAIN jobs -> Grants]
  BY DEF ImportInv, ImportTypeOK, Grants
<1>2. ASSUME NEW file \in File, ImportFile(file) PROVE ImportInv'
  BY <1>2, RunSettles
<1>3. ASSUME NEW id \in Native, NEW c \in Legacy, NEW job \in DOMAIN jobs, NEW phone \in Phone,
             Join(id, c, job, phone)
      PROVE  ImportInv'
  <2> DEFINE new == [company |-> c, job |-> job, live |-> TRUE, phone |-> phone]
  <2>1. new \in Account /\ new.job = job
    BY <1>1 DEF Account
  <2>2. accounts' = Upsert([x \in {id} |-> new], accounts) /\ Edit /\ jobs' = jobs
    BY <1>3 DEF Join
  <2> HIDE DEF new
  <2>3. accounts' = [x \in {id} \cup DOMAIN accounts |-> IF x = id THEN new ELSE accounts[x]]
    BY <2>2 DEF Upsert
  <2>4. ASSUME NEW x \in DOMAIN accounts'
        PROVE  /\ x \in Legacy \cup Native /\ accounts'[x] \in Account
               /\ accounts'[x].job \in DOMAIN jobs' \cup {NoJob}
    BY <1>1, <2>1, <2>2, <2>3, <2>4
  <2>5. accounts' = [x \in DOMAIN accounts' |-> accounts'[x]]
    BY <2>3
  <2> QED
    BY <1>1, <2>2, <2>4, <2>5, EditsKeep
<1>4. ASSUME NEW id \in DOMAIN accounts, NEW job \in DOMAIN jobs, Move(id, job)
      PROVE  ImportInv'
  <2>1. accounts' = [accounts EXCEPT ![id].job = job] /\ Edit /\ jobs' = jobs
    BY <1>4 DEF Move
  <2>2. DOMAIN accounts' = DOMAIN accounts /\ accounts' = [x \in DOMAIN accounts' |-> accounts'[x]]
        /\ \A x \in DOMAIN accounts \ {id} : accounts'[x] = accounts[x]
    BY <1>1, <2>1
  <2>3. accounts'[id] = [accounts[id] EXCEPT !.job = job] /\ job \in Job
    BY <1>1, <2>1
  <2>4. accounts'[id] \in Account /\ accounts'[id].job = job
    BY <1>1, <2>3 DEF Account
  <2>5. \A x \in DOMAIN accounts' : /\ x \in Legacy \cup Native /\ accounts'[x] \in Account
                                    /\ accounts'[x].job \in DOMAIN jobs' \cup {NoJob}
    BY <1>1, <2>1, <2>2, <2>4
  <2> QED
    BY <1>1, <2>1, <2>2, <2>5, EditsKeep
<1>5. ASSUME NEW id \in DOMAIN accounts, NEW phone \in Phone, ChangePhone(id, phone)
      PROVE  ImportInv'
  <2>1. accounts' = [accounts EXCEPT ![id].phone = phone] /\ Edit /\ jobs' = jobs
    BY <1>5 DEF ChangePhone
  <2>2. DOMAIN accounts' = DOMAIN accounts /\ accounts' = [x \in DOMAIN accounts' |-> accounts'[x]]
        /\ \A x \in DOMAIN accounts \ {id} : accounts'[x] = accounts[x]
    BY <1>1, <2>1
  <2>3. accounts'[id] = [accounts[id] EXCEPT !.phone = phone]
    BY <1>1, <2>1
  <2>4. accounts'[id] \in Account /\ accounts'[id].job = accounts[id].job
    BY <1>1, <2>3 DEF Account
  <2>5. \A x \in DOMAIN accounts' : /\ x \in Legacy \cup Native /\ accounts'[x] \in Account
                                    /\ accounts'[x].job \in DOMAIN jobs' \cup {NoJob}
    BY <1>1, <2>1, <2>2, <2>4
  <2> QED
    BY <1>1, <2>1, <2>2, <2>5, EditsKeep
<1>6. ASSUME NEW id \in DOMAIN accounts, Leave(id) PROVE ImportInv'
  <2>1. accounts' = [accounts EXCEPT ![id].live = FALSE] /\ Edit /\ jobs' = jobs
    BY <1>6 DEF Leave
  <2>2. DOMAIN accounts' = DOMAIN accounts /\ accounts' = [x \in DOMAIN accounts' |-> accounts'[x]]
        /\ \A x \in DOMAIN accounts \ {id} : accounts'[x] = accounts[x]
    BY <1>1, <2>1
  <2>3. accounts'[id] = [accounts[id] EXCEPT !.live = FALSE]
    BY <1>1, <2>1
  <2>4. accounts'[id] \in Account /\ accounts'[id].job = accounts[id].job
    BY <1>1, <2>3 DEF Account
  <2>5. \A x \in DOMAIN accounts' : /\ x \in Legacy \cup Native /\ accounts'[x] \in Account
                                    /\ accounts'[x].job \in DOMAIN jobs' \cup {NoJob}
    BY <1>1, <2>1, <2>2, <2>4
  <2> QED
    BY <1>1, <2>1, <2>2, <2>5, EditsKeep
<1>7. ASSUME NEW job \in DOMAIN jobs, NEW all \in BOOLEAN, NEW keys \in SUBSET Permission,
             Redefine(job, [all |-> all, keys |-> keys])
      PROVE  ImportInv'
  <2> DEFINE grants == [all |-> all, keys |-> keys]
  <2>1. grants \in Grants
    BY DEF Grants
  <2>2. jobs' = [jobs EXCEPT ![job] = grants] /\ Edit /\ accounts' = accounts
    BY <1>7 DEF Redefine
  <2> HIDE DEF grants
  <2>3. DOMAIN jobs' = DOMAIN jobs /\ jobs' = [x \in DOMAIN jobs' |-> jobs'[x]]
        /\ \A x \in DOMAIN jobs' : jobs'[x] \in Grants
    BY <1>1, <2>1, <2>2
  <2>4. \A x \in DOMAIN accounts' : /\ x \in Legacy \cup Native /\ accounts'[x] \in Account
                                    /\ accounts'[x].job \in DOMAIN jobs' \cup {NoJob}
    BY <1>1, <2>2, <2>3
  <2>5. accounts' = [x \in DOMAIN accounts' |-> accounts'[x]]
    BY <1>1, <2>2
  <2> QED
    BY <1>1, <2>2, <2>3, <2>4, <2>5, EditsKeep
<1>8. CASE UNCHANGED importVars
  <2>1. UNCHANGED <<accounts, jobs, edits, last>>
    BY <1>8 DEF importVars
  <2>2. Settled(last)' = Settled(last)
    BY <2>1 DEF Settled, Administrators
  <2> QED
    BY <2>1, <2>2 DEF ImportInv, ImportTypeOK
<1> QED
  BY <1>2, <1>3, <1>4, <1>5, <1>6, <1>7, <1>8 DEF ImportNext

LEMMA ImportInvariance == ImportSpec => []ImportInv
BY InitSettled, ImportStep, PTL DEF ImportSpec

LEMMA LastIsAFile == ImportInv /\ last # NoFile => last \in File /\ Settled(last)
BY DEF ImportInv, ImportTypeOK

-----------------------------------------------------------------------------
(* Theorems                                                                *)

\* The tables are well typed, and no account holds a role that is not there, after any
\* runs of the import and whatever the service did between them.
THEOREM ImportTypes == ImportSpec => []ImportTypeOK
<1>1. ImportInv => ImportTypeOK
  BY DEF ImportInv
<1> QED
  BY <1>1, ImportInvariance, PTL

\* A run leaves everybody in the company of his parent, as far as the file has him.
THEOREM ParentsAreFollowed == ImportSpec => []CompaniesFollowParents
<1>1. ASSUME ImportInv PROVE CompaniesFollowParents
  <2>1. SUFFICES ASSUME last # NoFile, NEW row \in Rows(last), InFile(last, row.parent)
                 PROVE  Imported(row).company = Imported(Named(last, row.parent)).company
    BY DEF CompaniesFollowParents
  <2>2. last \in File /\ Settled(last)
    BY <1>1, <2>1, LastIsAFile
  <2>3. Named(last, row.parent) \in Rows(last) /\ Named(last, row.parent).id = row.parent
    BY <2>1, <2>2, InFileIs
  <2>4. Imported(row).company = CompanyOf(last, row.id)
    BY <2>2 DEF Settled, Imported
  <2>5. Imported(Named(last, row.parent)).company = CompanyOf(last, row.parent)
    BY <2>2, <2>3 DEF Settled, Imported
  <2> QED
    BY <2>1, <2>2, <2>4, <2>5, CompanyFollows
<1> QED
  BY <1>1, ImportInvariance, PTL

\* Whatever titles cover whatever permissions, a run gives each account a role of its
\* company that grants what its row held: all of it, and nothing that another row held.
THEOREM RolesGrant == ImportSpec => []RolesGrantWhatWasHeld
<1>1. ASSUME ImportInv PROVE RolesGrantWhatWasHeld
  <2>1. SUFFICES ASSUME last # NoFile, NEW row \in Rows(last), Imported(row).company # NoRoot
                 PROVE  /\ Imported(row).job.company = Imported(row).company
                        /\ IF IsAdmin(row) THEN jobs[Imported(row).job].all
                           ELSE /\ jobs[Imported(row).job].keys = row.keys
                                /\ edits = 0 => ~jobs[Imported(row).job].all
    BY DEF RolesGrantWhatWasHeld
  <2>2. last \in File /\ Settled(last)
    BY <1>1, <2>1, LastIsAFile
  <2>3. /\ Imported(row).company = CompanyOf(last, row.id)
        /\ CompanyOf(last, row.id) # NoRoot
        /\ Imported(row).job = JobOf(last, row)
    BY <2>1, <2>2 DEF Settled, Imported
  <2>4. Imported(row).job.company = Imported(row).company
    BY <2>2, <2>3, JobIs
  <2>5. JobTable
    BY <1>1 DEF ImportInv, ImportTypeOK, JobTable, Grants
  <2>6. CASE IsAdmin(row)
    <3>1. JobOf(last, row) \in Administrators(last)
      BY <2>2, <2>3, <2>5, <2>6, JobIs, NamesDiffer
    <3> QED
      BY <2>2, <2>3, <2>4, <2>6, <3>1 DEF Settled
  <2>7. CASE ~IsAdmin(row)
    <3>1. PICK n \in RoleNames[last] : n.role = JobOf(last, row) /\ n.keys = row.keys
      BY <2>2, <2>3, <2>7, JobIs
    <3>2. n.role \in DOMAIN jobs /\ jobs[n.role].keys = row.keys
      BY <2>2, <3>1 DEF Settled
    <3>3. n.role.title # "Administrator"
      BY <2>2, <2>5, NamesDiffer
    <3>4. edits = 0 => ~jobs[n.role].all
      BY <1>1, <3>2, <3>3 DEF ImportInv
    <3> QED
      BY <2>3, <2>4, <2>7, <3>1, <3>2, <3>4
  <2> QED
    BY <2>6, <2>7
<1> QED
  BY <1>1, ImportInvariance, PTL

\* The file imported last can be imported again, and changes nothing: not an account,
\* a role or the name of one.
THEOREM RerunsDoNothing == ImportSpec => []RerunsChangeNothing
<1>1. ASSUME ImportInv PROVE RerunsChangeNothing
  <2>1. SUFFICES ASSUME last # NoFile
                 PROVE  Importable(last) /\ AccountsAfter(last) = accounts /\ JobsAfter(last) = jobs
    BY DEF RerunsChangeNothing
  <2>2. last \in File /\ Settled(last)
    BY <1>1, <2>1, LastIsAFile
  <2>3. JobTable
    BY <1>1 DEF ImportInv, ImportTypeOK, JobTable, Grants
  <2>4. Importable(last)
    BY <2>2 DEF Settled, Importable
  <2>5. AccountsAfter(last) = accounts
    <3>1. ASSUME NEW row \in Rows(last) PROVE Written(last, row) = accounts[row.id]
      <4>1. /\ row.id \in DOMAIN accounts /\ accounts[row.id] \in Account
            /\ accounts[row.id].company = CompanyOf(last, row.id)
            /\ CompanyOf(last, row.id) # NoRoot => accounts[row.id].job = JobOf(last, row)
        BY <1>1, <2>2 DEF Settled, ImportInv
      <4>2. Written(last, row) =
              IF CompanyOf(last, row.id) = NoRoot
              THEN [accounts[row.id] EXCEPT !.company = CompanyOf(last, row.id)]
              ELSE [[accounts[row.id] EXCEPT !.company = CompanyOf(last, row.id)]
                      EXCEPT !.job = JobOf(last, row)]
        BY <4>1 DEF Written
      <4>3. [accounts[row.id] EXCEPT !.company = CompanyOf(last, row.id)] = accounts[row.id]
        BY <4>1 DEF Account
      <4>4. CompanyOf(last, row.id) # NoRoot
              => [accounts[row.id] EXCEPT !.job = JobOf(last, row)] = accounts[row.id]
        BY <4>1 DEF Account
      <4> QED
        BY <4>2, <4>3, <4>4
    <3>2. Ids(last) \subseteq DOMAIN accounts
      BY <2>2 DEF Settled, Ids
    <3>3. DOMAIN AccountsAfter(last) = DOMAIN accounts
      BY <2>2, <3>2, AccountsWritten
    <3>4. AccountsAfter(last) = [id \in DOMAIN AccountsAfter(last) |-> AccountsAfter(last)[id]]
      BY <2>2, AccountsWritten
    <3>5. ASSUME NEW id \in DOMAIN accounts PROVE AccountsAfter(last)[id] = accounts[id]
      <4>1. CASE id \in Ids(last)
        <5>1. PICK row \in Rows(last) : id = row.id
          BY <4>1 DEF Ids
        <5>2. AccountsAfter(last)[row.id] = Written(last, row)
          BY <2>2, AccountsWritten
        <5> QED
          BY <3>1, <5>1, <5>2
      <4>2. CASE id \notin Ids(last)
        BY <2>2, <4>2, AccountsWritten
      <4> QED
        BY <4>1, <4>2
    <3>6. accounts = [id \in DOMAIN accounts |-> accounts[id]]
      BY <1>1 DEF ImportInv
    <3> QED
      BY <3>3, <3>4, <3>5, <3>6
  <2>6. JobsAfter(last) = jobs
    <3>1. ASSUME NEW n \in RoleNames[last]
          PROVE  n.role \in DOMAIN jobs /\ JobsAfter(last)[n.role] = jobs[n.role]
      <4>1. n.role \in DOMAIN jobs /\ jobs[n.role].keys = n.keys /\ jobs[n.role] \in Grants
        BY <2>2, <2>3 DEF Settled, JobTable
      <4>2. JobsAfter(last)[n.role] = [jobs[n.role] EXCEPT !.keys = n.keys]
        BY <2>2, <2>3, <4>1, RolesWritten
      <4> QED
        BY <4>1, <4>2 DEF Grants
    <3>2. ASSUME NEW x \in Administrators(last)
          PROVE  x \in DOMAIN jobs /\ JobsAfter(last)[x] = jobs[x]
      <4>1. x \in DOMAIN jobs /\ jobs[x].all /\ jobs[x] \in Grants
        BY <2>2, <2>3 DEF Settled, JobTable
      <4>2. JobsAfter(last)[x] = [jobs[x] EXCEPT !.all = TRUE]
        BY <2>2, <2>3, <4>1, RolesWritten
      <4>3. jobs[x].all = TRUE
        BY <4>1 DEF Grants
      <4> QED
        BY <4>1, <4>2, <4>3 DEF Grants
    <3>3. Names(last) \subseteq DOMAIN jobs /\ \A x \in Names(last) : JobsAfter(last)[x] = jobs[x]
      BY <3>1 DEF Names
    <3>4. DOMAIN JobsAfter(last) = DOMAIN jobs
      BY <2>2, <2>3, <3>2, <3>3, RolesWritten
    <3>5. \A x \in DOMAIN jobs : JobsAfter(last)[x] = jobs[x]
      BY <2>2, <2>3, <3>2, <3>3, RolesWritten
    <3>6. jobs = [x \in DOMAIN jobs |-> jobs[x]]
      BY <1>1 DEF ImportInv
    <3>7. JobsAfter(last) = [x \in DOMAIN JobsAfter(last) |-> JobsAfter(last)[x]]
      BY <2>2, <2>3, RolesWritten
    <3> QED
      BY <3>4, <3>5, <3>6, <3>7
  <2> QED
    BY <2>4, <2>5, <2>6
<1> QED
  BY <1>1, ImportInvariance, PTL

-----------------------------------------------------------------------------
(* Numbers                                                                 *)

\* The files are exports of one legacy system, in which nobody's number or date of
\* creation changes from one export to the next.
FilesAgree ==
    \A f, g \in File : \A r \in Rows(f), s \in Rows(g) :
        r.id = s.id => r.phone = s.phone /\ r.created = s.created

Real(phone) == phone \notin Placeholder \cup {NoPhone}

\* id is that of an account older than the row, or of the row itself.
Older(id, row) ==
    \A file \in File : \A other \in Rows(file) : other.id = id => other.created <= row.created

\* Until the service changes something, the accounts are those of the files; no two
\* have one number; and the number of a row that was imported, by whatever file, is
\* with an account that is no younger.
NumberInv ==
    edits = 0 =>
      /\ \A id \in DOMAIN accounts : accounts[id].live /\ accounts[id].phone \notin Placeholder
      /\ \A a, b \in DOMAIN accounts :
            accounts[a].phone = accounts[b].phone /\ accounts[a].phone # NoPhone => a = b
      /\ \A file \in File : \A row \in Rows(file) :
            row.id \in DOMAIN accounts /\ Real(row.phone)
              => \E id \in DOMAIN accounts : accounts[id].phone = row.phone /\ Older(id, row)

\* Of the rows with a real number, the oldest keeps it.
LEMMA OldestExists ==
    ASSUME NEW file \in File, NEW row \in Rows(file), Real(row.phone)
    PROVE  \E first \in Rows(file) :
              /\ Keeps(file, first) /\ first.phone = row.phone
              /\ first.created <= row.created
<1> DEFINE same == {other \in Rows(file) : other.phone = row.phone}
           dates == {other.created : other \in same}
<1>1. \A other \in Rows(file) : other.created \in Nat
  BY FileRows DEF Row
<1>2. row \in same /\ row.created \in dates /\ dates \in SUBSET Nat
  BY <1>1
<1>3. PICK date \in dates : \A other \in dates : <<other, date>> \notin OpToRel(<, Nat)
  <2> HIDE DEF dates, same
  <2> QED
    BY <1>2, WFMin, NatLessThanWellFounded, Zenon
<1>4. \A other \in dates : ~(other < date)
  BY <1>2, <1>3 DEF OpToRel
<1>5. PICK first \in same : first.created = date
  OBVIOUS
<1>6. \A other \in same : first.created <= other.created
  <2>1. TAKE other \in same
  <2>2. other.created \in dates /\ other.created \in Nat /\ date \in Nat
    BY <1>1, <1>2
  <2> QED
    BY <1>4, <1>5, <2>2
<1> QED
  BY <1>2, <1>5, <1>6 DEF Keeps, Real

\* Nobody who is there loses a number or gains one; who is new has that of his row if
\* the row keeps it, and then nobody who was there has it.
LEMMA NumbersWritten ==
    ASSUME ImportInv, NumberInv, edits = 0, NEW file \in File, ImportFile(file)
    PROVE  /\ DOMAIN accounts' = Ids(file) \cup DOMAIN accounts
           /\ \A id \in DOMAIN accounts : /\ accounts'[id].phone = accounts[id].phone
                                          /\ accounts'[id].live = accounts[id].live
           /\ \A row \in Rows(file) : row.id \notin DOMAIN accounts =>
                /\ accounts'[row.id].live
                /\ accounts'[row.id].phone = IF Keeps(file, row) THEN row.phone ELSE NoPhone
                /\ Keeps(file, row) => \A id \in DOMAIN accounts : accounts[id].phone # row.phone
<1>1. accounts' = AccountsAfter(file) /\ Importable(file)
  BY DEF ImportFile
<1>2. JobTable /\ \A id \in DOMAIN accounts : /\ accounts[id] \in Account
                                              /\ accounts[id].job \in DOMAIN jobs \cup {NoJob}
  BY DEF ImportInv, ImportTypeOK, JobTable, Grants
<1>3. DOMAIN accounts' = Ids(file) \cup DOMAIN accounts
  BY <1>1, AccountsWritten
<1>4. ASSUME NEW row \in Rows(file)
      PROVE  /\ row.id \in DOMAIN accounts
                  => /\ accounts'[row.id].phone = accounts[row.id].phone
                     /\ accounts'[row.id].live = accounts[row.id].live
             /\ row.id \notin DOMAIN accounts
                  => /\ accounts'[row.id].live
                     /\ accounts'[row.id].phone = IF Keeps(file, row) THEN row.phone ELSE NoPhone
  <2>1. accounts'[row.id] = Written(file, row)
    BY <1>1, AccountsWritten
  <2> QED
    BY <1>2, <2>1, WrittenIs
<1>5. ASSUME NEW id \in DOMAIN accounts
      PROVE  accounts'[id].phone = accounts[id].phone /\ accounts'[id].live = accounts[id].live
  <2>1. CASE id \in Ids(file)
    <3>1. PICK row \in Rows(file) : id = row.id
      BY <2>1 DEF Ids
    <3> QED
      BY <1>4, <3>1
  <2>2. CASE id \notin Ids(file)
    BY <1>1, <2>2, AccountsWritten
  <2> QED
    BY <2>1, <2>2
<1>6. ASSUME NEW row \in Rows(file), row.id \notin DOMAIN accounts, Keeps(file, row)
      PROVE  \A id \in DOMAIN accounts : accounts[id].phone # row.phone
  <2>1. Fresh(file, row).phone = row.phone /\ row.phone # NoPhone
    BY <1>6 DEF Fresh, Keeps
  <2>2. Free(row.phone)
    BY <1>1, <1>6, <2>1 DEF Importable
  <2> QED
    BY <2>1, <2>2 DEF Free, NumberInv
<1> QED
  BY <1>3, <1>4, <1>5, <1>6

LEMMA RunKeepsNumbers ==
    ASSUME FilesAgree, ImportInv, NumberInv, edits = 0, NEW file \in File, ImportFile(file)
    PROVE  NumberInv'
<1>1. \A id \in DOMAIN accounts' :
        id \in DOMAIN accounts \/ \E row \in Rows(file) : row.id = id /\ row.id \notin DOMAIN accounts
  <2>1. DOMAIN accounts' = Ids(file) \cup DOMAIN accounts
    BY NumbersWritten
  <2> QED
    BY <2>1 DEF Ids
<1>2. ASSUME NEW id \in DOMAIN accounts'
      PROVE  accounts'[id].live /\ accounts'[id].phone \notin Placeholder
  <2>1. CASE id \in DOMAIN accounts
    <3>1. accounts'[id].phone = accounts[id].phone /\ accounts'[id].live = accounts[id].live
      BY <2>1, NumbersWritten
    <3> QED
      BY <2>1, <3>1 DEF NumberInv
  <2>2. CASE id \notin DOMAIN accounts
    <3>1. PICK row \in Rows(file) : row.id = id /\ row.id \notin DOMAIN accounts
      BY <1>1, <2>2
    <3>2. /\ accounts'[id].live
          /\ accounts'[id].phone = IF Keeps(file, row) THEN row.phone ELSE NoPhone
      BY <3>1, NumbersWritten
    <3>3. NoPhone \notin Placeholder
      BY FileAssumption, TitleAssumption
    <3> QED
      BY <3>2, <3>3 DEF Keeps
  <2> QED
    BY <2>1, <2>2
<1>3. ASSUME NEW a \in DOMAIN accounts', NEW b \in DOMAIN accounts',
             accounts'[a].phone = accounts'[b].phone, accounts'[a].phone # NoPhone
      PROVE  a = b
  <2>1. ASSUME NEW c \in DOMAIN accounts', c \notin DOMAIN accounts, accounts'[c].phone # NoPhone
        PROVE  /\ \E row \in Rows(file) : /\ row.id = c /\ Keeps(file, row)
                                          /\ row.phone = accounts'[c].phone
               /\ \A d \in DOMAIN accounts : accounts'[d].phone # accounts'[c].phone
    <3>1. PICK row \in Rows(file) : row.id = c /\ row.id \notin DOMAIN accounts
      BY <1>1, <2>1
    <3>2. /\ accounts'[c].phone = IF Keeps(file, row) THEN row.phone ELSE NoPhone
          /\ Keeps(file, row) => \A id \in DOMAIN accounts : accounts[id].phone # row.phone
      BY <3>1, NumbersWritten
    <3>3. Keeps(file, row) /\ row.phone = accounts'[c].phone
      BY <2>1, <3>2
    <3>4. \A d \in DOMAIN accounts : accounts'[d].phone = accounts[d].phone
      BY NumbersWritten
    <3> QED
      BY <3>1, <3>2, <3>3, <3>4
  <2>2. CASE a \in DOMAIN accounts /\ b \in DOMAIN accounts
    <3>1. accounts'[a].phone = accounts[a].phone /\ accounts'[b].phone = accounts[b].phone
      BY <2>2, NumbersWritten
    <3> QED
      BY <1>3, <2>2, <3>1 DEF NumberInv
  <2>3. CASE a \notin DOMAIN accounts /\ b \notin DOMAIN accounts
    <3>1. PICK r \in Rows(file) : r.id = a /\ Keeps(file, r) /\ r.phone = accounts'[a].phone
      BY <1>3, <2>1, <2>3
    <3>2. PICK s \in Rows(file) : s.id = b /\ Keeps(file, s) /\ s.phone = accounts'[b].phone
      BY <1>3, <2>1, <2>3
    <3>3. r.created <= s.created /\ s.created <= r.created
      BY <1>3, <3>1, <3>2 DEF Keeps
    <3>4. r.created \in Nat /\ s.created \in Nat
      BY FileRows DEF Row
    <3>5. r = s
      BY <3>3, <3>4, NamedIs
    <3> QED
      BY <3>1, <3>2, <3>5
  <2>4. CASE a \in DOMAIN accounts /\ b \notin DOMAIN accounts
    BY <1>3, <2>1, <2>4
  <2>5. CASE a \notin DOMAIN accounts /\ b \in DOMAIN accounts
    BY <1>3, <2>1, <2>5
  <2> QED
    BY <2>2, <2>3, <2>4, <2>5
<1>4. ASSUME NEW g \in File, NEW row \in Rows(g), row.id \in DOMAIN accounts', Real(row.phone)
      PROVE  \E id \in DOMAIN accounts' : accounts'[id].phone = row.phone /\ Older(id, row)
  <2>1. ASSUME NEW f \in File, NEW s \in Rows(f), s.id \in DOMAIN accounts, s.phone = row.phone,
               s.created <= row.created
        PROVE  \E id \in DOMAIN accounts' : accounts'[id].phone = row.phone /\ Older(id, row)
    <3>1. PICK id \in DOMAIN accounts : accounts[id].phone = s.phone /\ Older(id, s)
      BY <1>4, <2>1 DEF NumberInv
    <3>2. id \in DOMAIN accounts' /\ accounts'[id].phone = row.phone
      <4>1. DOMAIN accounts' = Ids(file) \cup DOMAIN accounts
        BY NumbersWritten
      <4>2. accounts'[id].phone = accounts[id].phone
        BY NumbersWritten
      <4> QED
        BY <2>1, <3>1, <4>1, <4>2
    <3>3. Older(id, row)
      <4>1. SUFFICES ASSUME NEW h \in File, NEW other \in Rows(h), other.id = id
                     PROVE  other.created <= row.created
        BY DEF Older
      <4>2. other.created <= s.created
        BY <3>1, <4>1 DEF Older
      <4>3. other.created \in Nat /\ s.created \in Nat /\ row.created \in Nat
        BY FileRows DEF Row
      <4> QED
        BY <2>1, <4>2, <4>3
    <3> QED
      BY <3>2, <3>3
  <2>2. CASE row.id \in DOMAIN accounts
    <3>1. row.created <= row.created
      BY FileRows DEF Row
    <3> QED
      BY <2>1, <2>2, <3>1
  <2>3. CASE row.id \notin DOMAIN accounts
    <3>1. PICK r \in Rows(file) : r.id = row.id
      BY <1>1, <1>4, <2>3
    <3>2. r.phone = row.phone /\ r.created = row.created
      BY <3>1 DEF FilesAgree
    <3>3. PICK first \in Rows(file) : /\ Keeps(file, first) /\ first.phone = row.phone
                                      /\ first.created <= row.created
      BY <1>4, <3>2, OldestExists
    <3>4. CASE first.id \in DOMAIN accounts
      BY <2>1, <3>3, <3>4
    <3>5. CASE first.id \notin DOMAIN accounts
      <4>1. first.id \in DOMAIN accounts'
        <5>1. DOMAIN accounts' = Ids(file) \cup DOMAIN accounts
          BY NumbersWritten
        <5> QED
          BY <5>1, NamedIs
      <4>2. accounts'[first.id].phone = row.phone
        BY <3>3, <3>5, NumbersWritten
      <4>3. Older(first.id, row)
        BY <3>3 DEF Older, FilesAgree
      <4> QED
        BY <4>1, <4>2, <4>3
    <3> QED
      BY <3>4, <3>5
  <2> QED
    BY <2>2, <2>3
<1> QED
  BY <1>2, <1>3, <1>4 DEF NumberInv

\* While the service changes nothing, the number of every row is one account's, the
\* oldest's of those in the file, and a placeholder nobody's, after any runs with any
\* exports of one legacy system.
THEOREM OldestKeep == ASSUME FilesAgree PROVE ImportSpec => []OldestKeepsNumber
<1>1. ImportInit => NumberInv
  BY DEF ImportInit, NumberInv
<1>2. ImportInv /\ NumberInv /\ [ImportNext]_importVars => NumberInv'
  <2> SUFFICES ASSUME ImportInv, NumberInv, [ImportNext]_importVars PROVE NumberInv'
    OBVIOUS
  <2>1. CASE UNCHANGED importVars
    BY <2>1 DEF importVars, NumberInv
  <2>2. ASSUME NEW file \in File, ImportFile(file) PROVE NumberInv'
    <3>1. CASE edits = 0
      BY <2>2, <3>1, RunKeepsNumbers
    <3>2. CASE edits # 0
      BY <2>2, <3>2 DEF ImportFile, NumberInv
    <3> QED
      BY <3>1, <3>2
  <2>3. ASSUME Edit PROVE NumberInv'
    BY <2>3, EditsCount DEF NumberInv
  <2> QED
    BY <2>1, <2>2, <2>3 DEF ImportNext, Join, Move, ChangePhone, Leave, Redefine
<1>3. ASSUME ImportInv, NumberInv PROVE OldestKeepsNumber
  <2>1. SUFFICES ASSUME edits = 0, last # NoFile
                 PROVE  /\ \A row \in Rows(last) : Real(row.phone) =>
                             \E id \in DOMAIN accounts :
                               /\ \A other \in DOMAIN accounts :
                                     accounts[other].phone = row.phone <=> other = id
                               /\ InFile(last, id) => Named(last, id).created <= row.created
                        /\ \A id \in DOMAIN accounts : accounts[id].phone \notin Placeholder
    BY DEF OldestKeepsNumber, Real
  <2>2. last \in File /\ Settled(last)
    BY <1>3, <2>1, LastIsAFile
  <2>3. ASSUME NEW row \in Rows(last), Real(row.phone)
        PROVE  \E id \in DOMAIN accounts :
                 /\ \A other \in DOMAIN accounts : accounts[other].phone = row.phone <=> other = id
                 /\ InFile(last, id) => Named(last, id).created <= row.created
    <3>1. row.id \in DOMAIN accounts
      BY <2>2 DEF Settled
    <3>2. PICK id \in DOMAIN accounts : accounts[id].phone = row.phone /\ Older(id, row)
      BY <1>3, <2>1, <2>2, <2>3, <3>1 DEF NumberInv
    <3>3. \A other \in DOMAIN accounts : accounts[other].phone = row.phone <=> other = id
      BY <1>3, <2>1, <2>3, <3>2 DEF NumberInv, Real
    <3>4. InFile(last, id) => Named(last, id).created <= row.created
      BY <2>2, <3>2, InFileIs DEF Older
    <3> QED
      BY <3>3, <3>4
  <2> QED
    BY <1>3, <2>1, <2>3 DEF NumberInv
<1> QED
  BY <1>1, <1>2, <1>3, ImportInvariance, PTL DEF ImportSpec
=============================================================================
