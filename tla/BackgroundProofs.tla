--------------------------- MODULE BackgroundProofs ---------------------------
(***************************************************************************)
(* Theorems about Archive and LoginLimiter, which share no state.          *)
(*                                                                         *)
(* Archive: for any number of rows, writers and overlapping runs, every    *)
(* batch size, retention and length of a day, whether rows are moved or    *)
(* copied, and any number of crashes.                                      *)
(*                                                                         *)
(* LoginLimiter: what the login counter does for any limit, window,        *)
(* requests and spellings: its state is well typed; a key that counts has  *)
(* an expiry as long as it counts, so that it is taken away in the end; no *)
(* more guesses are let in within a window than the two keys it can touch  *)
(* allow; and the fallback on the table overshoots by no more than the     *)
(* requests that ran at once.  How many attempts are let in is a sum over  *)
(* the ages of the rows: it is the number of cells under the rows, so that *)
(* a step changes it by the cells it adds and takes away.                  *)
(***************************************************************************)
EXTENDS Archive, LoginLimiter, FiniteSetTheorems, WellFoundedInduction, TLAPS

-----------------------------------------------------------------------------
(* The least and the greatest of a set of numbers                          *)

LEMMA LeastExists ==
    ASSUME NEW S \in SUBSET Nat, S # {}
    PROVE  \E x \in S : \A y \in S : x <= y
<1>1. PICK x \in S : \A y \in S : ~ (<<y, x>> \in OpToRel(<, Nat))
  BY WFMin, NatLessThanWellFounded, Zenon
<1>2. \A y \in S : ~ (y < x)
  BY <1>1 DEF OpToRel
<1> QED
  BY <1>2

LEMMA MinOf ==
    ASSUME NEW S \in SUBSET Nat, S # {}
    PROVE  Min(S) \in S /\ \A y \in S : Min(S) <= y
BY LeastExists DEF Min

LEMMA MaxOf ==
    ASSUME NEW n \in Nat, NEW S \in SUBSET (0..n), S # {}
    PROVE  Max(S) \in S /\ \A y \in S : y <= Max(S)
<1> DEFINE T == {n - x : x \in S}
<1>1. T \in SUBSET Nat /\ T # {}
  <2>1. \A x \in S : n - x \in Nat
    OBVIOUS
  <2>2. T \in SUBSET Nat
    BY <2>1
  <2> QED
    BY <2>2, Zenon
<1>2. PICK t \in T : \A y \in T : t <= y
  BY <1>1, LeastExists
<1>3. PICK x \in S : t = n - x
  OBVIOUS
<1>4. \A y \in S : n - y \in T
  OBVIOUS
<1>5. \A y \in S : x >= y
  BY <1>2, <1>3, <1>4
<1>6. \A y \in S : Max(S) >= y /\ Max(S) \in S
  BY <1>5 DEF Max
<1> QED
  BY <1>6

LEMMA IdsAreNumbers ==
    /\ MaxRows \in Nat
    /\ Id \subseteq Nat /\ Id \subseteq 0..MaxRows
    /\ Numbered \subseteq Id
    /\ Time \subseteq Nat
<1>1. MaxRows \in Nat /\ MaxTime \in Nat
  BY ArchiveAssumption
<1> QED
  BY <1>1 DEF Id, Numbered, Time

-----------------------------------------------------------------------------
(* Days                                                                    *)

LEMMA DayType ==
    ASSUME NEW t \in Time
    PROVE  Day(t) \in Days
<1>1. DayLength \in Nat \ {0} /\ MaxTime \in Nat /\ t \in 0..MaxTime
  BY ArchiveAssumption DEF Time
<1>2. Day(t) \in Nat /\ Day(MaxTime) \in Nat
  BY <1>1 DEF Day
<1>3. Day(t) <= Day(MaxTime)
  BY <1>1 DEF Day
<1> QED
  BY <1>2, <1>3 DEF Days

\* What is left of a batch has a first day, and rows of it.
LEMMA FirstDay ==
    ASSUME at \in [Id -> Time \cup {Never}], NEW left \in SUBSET Numbered, left # {}
    PROVE  /\ NextDay(left) \in Days
           /\ DayRows(left) # {}
           /\ DayRows(left) \subseteq left
           /\ \A i \in DayRows(left) : DayOf(i) = NextDay(left)
<1> DEFINE D == {DayOf(i) : i \in left}
<1>1. \A i \in Numbered : at[i] \in Time
  BY DEF Numbered
<1>2. \A i \in left : DayOf(i) \in Days
  BY <1>1, DayType DEF DayOf
<1>3. D \subseteq Days /\ D # {}
  BY <1>2
<1>4. Days \subseteq Nat
  BY DEF Days
<1>5. Min(D) \in D
  <2>1. D \in SUBSET Nat
    BY <1>3, <1>4
  <2> QED
    BY <2>1, <1>3, MinOf
<1>6. NextDay(left) = Min(D)
  BY DEF NextDay
<1>7. PICK i \in left : NextDay(left) = DayOf(i)
  BY <1>5, <1>6
<1> QED
  BY <1>2, <1>7 DEF DayRows

-----------------------------------------------------------------------------
(* Type correctness                                                        *)

Runs == [pc : {"idle", "put", "delete", "purge"}, left : SUBSET Numbered,
         files : [Days -> SUBSET Numbered]]

LEMMA WaitingType == Waiting \in Runs
BY DEF Waiting, Runs

\* A run goes on with some of the rows it had or has read.
LEMMA ProceedType ==
    ASSUME ArchiveTypeOK, NEW r \in Run, NEW left \in SUBSET Numbered, Proceed(r, left),
           at' = at
    PROVE  runs' \in [Run -> Runs']
<1>1. Runs' = Runs
  BY DEF Runs, Numbered
<1>2. [runs[r] EXCEPT !.left = left, !.pc = IF left = {} THEN "purge" ELSE "put"] \in Runs
  BY DEF ArchiveTypeOK, Runs
<1>3. runs' = [runs EXCEPT ![r] = [runs[r] EXCEPT !.left = left,
                                      !.pc = IF left = {} THEN "purge" ELSE "put"]]
  BY DEF ArchiveTypeOK, Proceed
<1> QED
  BY <1>1, <1>2, <1>3 DEF ArchiveTypeOK, Runs

LEMMA OverType ==
    ASSUME ArchiveTypeOK, NEW r \in Run, Over(r), at' = at
    PROVE  runs' \in [Run -> Runs'] /\ filed' \subseteq Numbered'
<1>1. Runs' = Runs /\ Numbered' = Numbered
  BY DEF Runs, Numbered
<1>2. Files(r) \subseteq Numbered
  BY DEF ArchiveTypeOK, Files
<1> QED
  BY <1>1, <1>2, WaitingType DEF ArchiveTypeOK, Over, Runs

\* A row gets a number that no row had, and the others keep theirs.
LEMMA InsertRow ==
    ASSUME ArchiveTypeOK, NEW w \in Writer, Insert(w)
    PROVE  \E i \in Id :
             /\ \A j \in Numbered : j < i /\ at'[j] = at[j]
             /\ at' \in [Id -> Time \cup {Never}]
             /\ at'[i] \in 0..clock
             /\ Numbered' = Numbered \cup {i}
             /\ table' = table \cup {i}
<1>1. PICK i \in Id : /\ Numbered = 1..(i - 1)
                      /\ at' = [at EXCEPT ![i] = pending[w]]
                      /\ table' = table \cup {i}
  BY DEF Insert
<1>2. MaxRows \in Nat /\ MaxTime \in Nat
  BY ArchiveAssumption
<1>3. pending[w] \in 0..clock /\ clock \in Time
  BY DEF ArchiveTypeOK, Insert
<1>4. pending[w] \in Time /\ pending[w] # Never
  BY <1>2, <1>3 DEF Time, Never
<1>5. \A j \in Numbered : j < i
  BY <1>1, <1>2 DEF Id
<1>6. at' \in [Id -> Time \cup {Never}] /\ at'[i] = pending[w]
  BY <1>1, <1>4 DEF ArchiveTypeOK, Id
<1>7. \A j \in Id : j # i => at'[j] = at[j]
  BY <1>1 DEF ArchiveTypeOK, Id
<1>8. \A j \in Numbered : j \in Id /\ j # i
  BY <1>5, <1>2 DEF Numbered, Id
<1>9. Numbered' = Numbered \cup {i}
  BY <1>4, <1>6, <1>7 DEF Numbered
<1> QED
  BY <1>1, <1>3, <1>5, <1>6, <1>7, <1>8, <1>9

\* A batch is made of rows that are cold.
LEMMA BatchOfTable ==
    ASSUME NEW batch \in Oldest(Cold)
    PROVE  batch \subseteq Cold /\ Cold \subseteq table
BY DEF Oldest, Cold

\* The conjuncts of the type, whichever rows are numbered
LEMMA TypeParts ==
    ArchiveTypeOK <=>
        /\ clock \in Time
        /\ pending \in [Writer -> (0..clock) \cup {Never}]
        /\ at \in [Id -> Time \cup {Never}]
        /\ table \in SUBSET Numbered
        /\ runs \in [Run -> Runs]
        /\ filed \in SUBSET Numbered
        /\ session \in [ends : Nat, stored : BOOLEAN]
        /\ faults \in 0..MaxFaults
BY DEF ArchiveTypeOK, Runs

LEMMA TypePartsNext ==
    ArchiveTypeOK' <=>
        /\ clock' \in Time
        /\ pending' \in [Writer -> (0..clock') \cup {Never}]
        /\ at' \in [Id -> Time \cup {Never}]
        /\ table' \in SUBSET Numbered'
        /\ runs' \in [Run -> Runs']
        /\ filed' \in SUBSET Numbered'
        /\ session' \in [ends : Nat, stored : BOOLEAN]
        /\ faults' \in 0..MaxFaults
BY DEF ArchiveTypeOK, Runs

LEMMA TypeInitially == ArchiveInit => ArchiveTypeOK
<1> SUFFICES ASSUME ArchiveInit PROVE ArchiveTypeOK
  OBVIOUS
<1>1. /\ MaxTime \in Nat /\ MaxFaults \in Nat /\ LastWrite \in Nat
  BY ArchiveAssumption
<1>2. session \in [ends : Nat, stored : BOOLEAN]
  BY <1>1 DEF ArchiveInit
<1> QED
  BY <1>1, <1>2, WaitingType, TypeParts DEF ArchiveInit, Time

LEMMA TypeStep == ArchiveTypeOK /\ [ArchiveNext]_archiveVars => ArchiveTypeOK'
<1> SUFFICES ASSUME ArchiveTypeOK, [ArchiveNext]_archiveVars PROVE ArchiveTypeOK'
  OBVIOUS
<1>a. /\ MaxTime \in Nat /\ MaxFaults \in Nat /\ MaxRows \in Nat
  BY ArchiveAssumption
<1>b. at' = at => Numbered' = Numbered /\ Runs' = Runs
  BY DEF Numbered, Runs
<1>1. CASE ArchiveTick
  <2>1. clock' \in Time /\ pending' = pending /\ clock' = clock + 1
    BY <1>1, <1>a DEF ArchiveTick, ArchiveTypeOK, Time
  <2>2. pending' \in [Writer -> (0..clock') \cup {Never}]
    BY <2>1, <1>a DEF ArchiveTypeOK, Time
  <2> QED
    BY <1>1, <2>1, <2>2, <1>b, TypePartsNext, TypeParts DEF ArchiveTick
<1>2. CASE EndSession
  <2>1. session' \in [ends : Nat, stored : BOOLEAN]
    BY <1>2 DEF EndSession, ArchiveTypeOK, Time
  <2> QED
    BY <1>2, <2>1, <1>b, TypePartsNext, TypeParts DEF EndSession
<1>3. ASSUME NEW w \in Writer, Stamp(w) PROVE ArchiveTypeOK'
  <2>1. clock \in 0..clock
    BY <1>a DEF ArchiveTypeOK, Time
  <2>2. pending' \in [Writer -> (0..clock') \cup {Never}]
    BY <1>3, <2>1 DEF Stamp, ArchiveTypeOK
  <2> QED
    BY <1>3, <2>2, <1>b, TypePartsNext, TypeParts DEF Stamp
<1>4. ASSUME NEW w \in Writer, Insert(w) PROVE ArchiveTypeOK'
  <2>1. PICK i \in Id : /\ at' \in [Id -> Time \cup {Never}]
                        /\ Numbered' = Numbered \cup {i}
                        /\ table' = table \cup {i}
    BY <1>4, InsertRow
  <2>2. Runs \subseteq Runs'
    BY <2>1 DEF Runs
  <2>3. runs' \in [Run -> Runs']
    BY <1>4, <2>2 DEF Insert, ArchiveTypeOK, Runs
  <2>4. pending' \in [Writer -> (0..clock') \cup {Never}]
    BY <1>4 DEF Insert, ArchiveTypeOK
  <2> QED
    BY <1>4, <2>1, <2>3, <2>4, TypePartsNext, TypeParts DEF Insert
<1>5. ASSUME NEW r \in Run, Read(r) PROVE ArchiveTypeOK'
  <2>1. PICK batch \in Oldest(Cold) : Proceed(r, batch)
    BY <1>5 DEF Read
  <2>2. batch \in SUBSET Numbered
    BY <2>1, BatchOfTable DEF ArchiveTypeOK
  <2>3. runs' \in [Run -> Runs']
    BY <1>5, <2>1, <2>2, ProceedType DEF Read
  <2> QED
    BY <1>5, <2>3, <1>b, TypePartsNext, TypeParts DEF Read
<1>6. ASSUME NEW r \in Run, PutCold(r) PROVE ArchiveTypeOK'
  <2> DEFINE left == runs[r].left
             files == [runs[r].files EXCEPT ![NextDay(left)] = DayRows(left)]
  <2>1. left \in SUBSET Numbered /\ DayRows(left) \in SUBSET Numbered
    BY DEF ArchiveTypeOK, DayRows
  <2>2. files \in [Days -> SUBSET Numbered]
    BY <2>1 DEF ArchiveTypeOK
  <2>3. \E pc \in {"purge", "put", "delete"}, rest \in SUBSET Numbered :
          runs' = [runs EXCEPT ![r] = [pc |-> pc, left |-> rest, files |-> files]]
    <3>1. CASE KeepAuditRows
      <4>1. runs' = [runs EXCEPT ![r] = [pc |-> IF left = DayRows(left) THEN "purge" ELSE "put",
                                         left |-> left \ DayRows(left), files |-> files]]
        BY <1>6, <3>1, <2>1, TypeParts DEF PutCold, Runs
      <4> QED
        BY <4>1, <2>1
    <3>2. CASE ~KeepAuditRows
      <4>1. runs' = [runs EXCEPT ![r] = [pc |-> "delete", left |-> left, files |-> files]]
        BY <1>6, <3>2, <2>1, TypeParts DEF PutCold, Runs
      <4> QED
        BY <4>1, <2>1
    <3> QED
      BY <3>1, <3>2
  <2>4. runs' \in [Run -> Runs]
    BY <2>2, <2>3 DEF ArchiveTypeOK, Runs
  <2> QED
    BY <1>6, <2>4, <1>b, TypePartsNext, TypeParts DEF PutCold
<1>7. ASSUME NEW r \in Run, DeleteWritten(r) PROVE ArchiveTypeOK'
  <2>1. runs[r].left \ DayRows(runs[r].left) \in SUBSET Numbered
    BY DEF ArchiveTypeOK
  <2>2. runs' \in [Run -> Runs']
    BY <1>7, <2>1, ProceedType DEF DeleteWritten
  <2> QED
    BY <1>7, <2>2, <1>b, TypePartsNext, TypeParts DEF DeleteWritten
<1>8. ASSUME NEW r \in Run, Purge(r) PROVE ArchiveTypeOK'
  <2>1. session' \in [ends : Nat, stored : BOOLEAN]
    BY <1>8 DEF Purge, ArchiveTypeOK, DeadSession
  <2>2. runs' \in [Run -> Runs'] /\ filed' \subseteq Numbered'
    BY <1>8, OverType DEF Purge
  <2> QED
    BY <1>8, <2>1, <2>2, <1>b, TypePartsNext, TypeParts DEF Purge
<1>9. ASSUME NEW r \in Run, Die(r) PROVE ArchiveTypeOK'
  <2>1. faults' \in 0..MaxFaults
    BY <1>9, <1>a DEF Die, ArchiveTypeOK
  <2>2. runs' \in [Run -> Runs'] /\ filed' \subseteq Numbered'
    BY <1>9, OverType DEF Die
  <2> QED
    BY <1>9, <2>1, <2>2, <1>b, TypePartsNext, TypeParts DEF Die
<1>10. CASE UNCHANGED archiveVars
  BY <1>10, <1>b, TypePartsNext, TypeParts DEF archiveVars
<1> QED
  BY <1>1, <1>2, <1>3, <1>4, <1>5, <1>6, <1>7, <1>8, <1>9, <1>10 DEF ArchiveNext

\* Everything the archive holds is what it is declared to be; what runs and files hold
\* are rows that were numbered.
THEOREM ArchiveTypes == ArchiveSpec => []ArchiveTypeOK
BY TypeInitially, TypeStep, PTL DEF ArchiveSpec

-----------------------------------------------------------------------------
(* What is lost                                                            *)

Working(r) == runs[r].pc \in {"put", "delete"}

\* A run that has not begun has no files.
Rested(r) == runs[r].pc = "idle" => \A d \in Days : runs[r].files[d] = {}

WorkIsLeft(r) == Working(r) => runs[r].left # {}

\* The file of a day is written before its rows are deleted, and the files of what is
\* left have yet to be.
FilesToCome(r) ==
    LET left == runs[r].left IN
    /\ runs[r].pc = "put" => \A i \in left : runs[r].files[DayOf(i)] = {}
    /\ runs[r].pc = "delete" =>
         /\ runs[r].files[NextDay(left)] = DayRows(left)
         /\ \A i \in left \ DayRows(left) : runs[r].files[DayOf(i)] = {}

\* A batch is the oldest there was: a row with a lower number that is not in it is no
\* older, of the days that are left.
OldestAreLeft(r) ==
    Working(r) => \A j \in runs[r].left, i \in table \ runs[r].left :
                      i < j /\ DayOf(i) = DayOf(j) => at[j] <= at[i]

RunInv(r) == Rested(r) /\ WorkIsLeft(r) /\ FilesToCome(r) /\ OldestAreLeft(r)

Filed == {i \in Numbered : InAFile(i)}

ArchiveInv ==
    /\ ArchiveTypeOK
    /\ \A r \in Run : RunInv(r)
    /\ OnlyOvertakenRowsAreLost

\* A step that writes no file, deletes nothing and leaves the rows alone loses nothing.
LEMMA NothingMoreIsLost ==
    ASSUME OnlyOvertakenRowsAreLost, at' = at, table' = table,
           \A i \in Numbered : InAFile(i) => InAFile(i)'
    PROVE  OnlyOvertakenRowsAreLost'
<1>1. Numbered' = Numbered /\ \A i \in Numbered : DayOf(i)' = DayOf(i)
  BY DEF Numbered, DayOf
<1> QED
  BY <1>1 DEF OnlyOvertakenRowsAreLost

\* What is in a file stays in one when a run stops.
LEMMA OverKeepsFiles ==
    ASSUME ArchiveTypeOK, NEW r \in Run, Over(r)
    PROVE  \A i \in Numbered : InAFile(i) => InAFile(i)'
<1> SUFFICES ASSUME NEW i \in Numbered, InAFile(i) PROVE InAFile(i)'
  OBVIOUS
<1>1. CASE i \in filed
  BY <1>1 DEF Over, InAFile
<1>2. CASE i \in Files(r)
  BY <1>2 DEF Over, InAFile
<1>3. CASE \E n \in Run : n # r /\ i \in Files(n)
  <2>1. PICK n \in Run : n # r /\ i \in Files(n)
    BY <1>3
  <2>2. runs'[n] = runs[n]
    BY <2>1 DEF Over, ArchiveTypeOK
  <2>3. i \in Files(n)'
    BY <2>1, <2>2 DEF Files
  <2> QED
    BY <2>3 DEF InAFile
<1> QED
  BY <1>1, <1>2, <1>3 DEF InAFile

\* and when it goes on.
LEMMA ProceedKeepsFiles ==
    ASSUME ArchiveTypeOK, NEW r \in Run, NEW left, Proceed(r, left), filed' = filed
    PROVE  /\ \A i \in Numbered : InAFile(i) <=> InAFile(i)'
           /\ \A n \in Run : runs'[n].files = runs[n].files
           /\ \A n \in Run : n # r => runs'[n] = runs[n]
           /\ runs'[r].left = left
           /\ runs'[r].pc = IF left = {} THEN "purge" ELSE "put"
<1>1. runs' = [runs EXCEPT ![r] = [runs[r] EXCEPT !.left = left,
                                      !.pc = IF left = {} THEN "purge" ELSE "put"]]
  BY DEF ArchiveTypeOK, Proceed
<1>2. /\ \A n \in Run : n # r => runs'[n] = runs[n]
      /\ runs'[r].left = left
      /\ runs'[r].pc = IF left = {} THEN "purge" ELSE "put"
      /\ runs'[r].files = runs[r].files
  BY <1>1 DEF ArchiveTypeOK
<1>3. \A n \in Run : runs'[n].files = runs[n].files
  BY <1>2
<1>4. \A n \in Run : Files(n)' = Files(n)
  BY <1>3 DEF Files
<1>5. \A i \in Numbered : InAFile(i) <=> InAFile(i)'
  BY <1>4 DEF InAFile
<1> QED
  BY <1>2, <1>3, <1>5

\* The other runs do not mind what one does, as long as rows are only deleted.
LEMMA OthersStand ==
    ASSUME ArchiveInv, NEW n \in Run, runs'[n] = runs[n], at' = at, table' \subseteq table
    PROVE  RunInv(n)'
<1>1. \A i \in Id : DayOf(i)' = DayOf(i)
  BY DEF DayOf
<1>2. runs[n].left \subseteq Id /\ table \subseteq Id
  BY DEF ArchiveTypeOK, ArchiveInv, Numbered
<1>3. /\ NextDay(runs[n].left)' = NextDay(runs[n].left)
      /\ DayRows(runs[n].left)' = DayRows(runs[n].left)
  BY DEF NextDay, DayRows, DayOf
<1>4. RunInv(n)
  BY DEF ArchiveInv
<1>5. Rested(n)' /\ WorkIsLeft(n)'
  BY <1>4 DEF RunInv, Rested, WorkIsLeft, Working
<1>6. FilesToCome(n)'
  BY <1>1, <1>2, <1>3, <1>4 DEF RunInv, FilesToCome
<1>7. OldestAreLeft(n)'
  BY <1>1, <1>2, <1>4 DEF RunInv, OldestAreLeft, Working
<1> QED
  BY <1>5, <1>6, <1>7 DEF RunInv

\* A new row has a higher number than all that are left.
LEMMA InsertInv ==
    ASSUME ArchiveInv, NEW w \in Writer, Insert(w), ArchiveTypeOK'
    PROVE  ArchiveInv'
<1>1. PICK i \in Id : /\ \A j \in Numbered : j < i /\ at'[j] = at[j]
                      /\ Numbered' = Numbered \cup {i}
                      /\ table' = table \cup {i}
  BY InsertRow DEF ArchiveInv
<1>2. runs' = runs /\ filed' = filed
  BY DEF Insert
<1>3. \A j \in Numbered : DayOf(j)' = DayOf(j)
  BY <1>1 DEF DayOf
<1>a. Numbered \subseteq Nat /\ i \in Nat
  BY IdsAreNumbers
<1>4. ASSUME NEW r \in Run PROVE RunInv(r)'
  <2> DEFINE left == runs[r].left
  <2>1. left \subseteq Numbered /\ table \subseteq Numbered
    BY DEF ArchiveInv, ArchiveTypeOK
  <2>2. left' = left /\ runs'[r] = runs[r]
    BY <1>2
  <2>3. NextDay(left)' = NextDay(left)
    <3>1. {DayOf(j)' : j \in left} = {DayOf(j) : j \in left}
      BY <1>3, <2>1
    <3> QED
      BY <2>2, <3>1 DEF NextDay
  <2>4. DayRows(left)' = DayRows(left)
    BY <1>3, <2>1, <2>2, <2>3 DEF DayRows
  <2>5. RunInv(r)
    BY DEF ArchiveInv
  <2>6. FilesToCome(r)'
    BY <1>3, <2>1, <2>2, <2>3, <2>4, <2>5 DEF RunInv, FilesToCome
  <2>7. OldestAreLeft(r)'
    <3> SUFFICES ASSUME Working(r), NEW j \in left, NEW k \in table' \ left, k < j,
                        DayOf(k)' = DayOf(j)'
                 PROVE  at'[j] <= at'[k]
      BY <2>2 DEF OldestAreLeft, Working
    <3>1. k # i
      <4>1. k \in Nat /\ j \in Nat /\ j < i
        BY <1>1, <1>a, <2>1
      <4> QED
        BY <4>1, <1>a
    <3>2. k \in table /\ k \in Numbered /\ j \in Numbered
      BY <1>1, <2>1, <3>1
    <3> QED
      BY <1>1, <1>3, <2>5, <3>2 DEF RunInv, OldestAreLeft
  <2> QED
    BY <2>2, <2>5, <2>6, <2>7 DEF RunInv, Rested, WorkIsLeft, Working
<1>5. \A k \in Numbered : InAFile(k)' = InAFile(k)
  BY <1>2 DEF InAFile, Files
<1>6. OnlyOvertakenRowsAreLost'
  <2> SUFFICES ASSUME NEW k \in Numbered' \ table'
               PROVE  InAFile(k)' \/ \E j \in Numbered' : /\ k < j /\ at'[j] <= at'[k]
                                                          /\ DayOf(j)' = DayOf(k)' /\ InAFile(j)'
    BY DEF OnlyOvertakenRowsAreLost
  <2>1. k \in Numbered \ table
    BY <1>1
  <2>2. CASE InAFile(k)
    BY <1>5, <2>1, <2>2
  <2>3. CASE \E j \in Numbered : k < j /\ at[j] <= at[k] /\ DayOf(j) = DayOf(k) /\ InAFile(j)
    BY <1>1, <1>3, <1>5, <2>1, <2>3
  <2> QED
    BY <2>1, <2>2, <2>3 DEF ArchiveInv, OnlyOvertakenRowsAreLost
<1> QED
  BY <1>4, <1>6 DEF ArchiveInv

\* The batch is the oldest of what is cold, and what is not cold is no older.
LEMMA ReadInv ==
    ASSUME ArchiveInv, NEW r \in Run, Read(r), ArchiveTypeOK'
    PROVE  ArchiveInv'
<1>1. PICK batch \in Oldest(Cold) : Proceed(r, batch)
  BY DEF Read
<1>2. /\ batch \subseteq Cold /\ Cold \subseteq table
      /\ \A i \in batch, j \in Cold \ batch : at[i] <= at[j]
  BY <1>1, BatchOfTable DEF Oldest
<1>3. /\ \A i \in Numbered : InAFile(i) <=> InAFile(i)'
      /\ \A n \in Run : runs'[n].files = runs[n].files
      /\ \A n \in Run : n # r => runs'[n] = runs[n]
      /\ runs'[r].left = batch
      /\ runs'[r].pc = IF batch = {} THEN "purge" ELSE "put"
  BY <1>1, ProceedKeepsFiles DEF Read, ArchiveInv
<1>4. OnlyOvertakenRowsAreLost'
  BY <1>3, NothingMoreIsLost DEF Read, ArchiveInv
<1>5. \A n \in Run : n # r => RunInv(n)'
  BY <1>3, OthersStand DEF Read
<1>6. \A d \in Days : runs[r].files[d] = {}
  BY DEF ArchiveInv, RunInv, Rested, Read
<1>7. batch \subseteq Numbered /\ table \subseteq Numbered
  BY <1>2 DEF ArchiveInv, ArchiveTypeOK
<1>8. FilesToCome(r)'
  <2>1. \A i \in batch : DayOf(i)' \in Days
    <3>1. \A i \in batch : at'[i] \in Time
      BY <1>7 DEF Read, ArchiveInv, ArchiveTypeOK, Numbered
    <3> QED
      BY <3>1, DayType DEF DayOf
  <2> QED
    BY <1>3, <1>6, <2>1 DEF FilesToCome
<1>9. OldestAreLeft(r)'
  <2> SUFFICES ASSUME NEW j \in batch, NEW i \in table \ batch, i < j
               PROVE  at[j] <= at[i]
    BY <1>3 DEF OldestAreLeft, Working, Read
  <2>1. CASE i \in Cold
    BY <1>2, <2>1
  <2>2. CASE i \notin Cold
    <3>1. at[j] + AuditRetain < clock /\ ~(at[i] + AuditRetain < clock)
      BY <1>2, <2>2 DEF Cold
    <3>2. at[i] \in Nat /\ at[j] \in Nat /\ clock \in Nat /\ AuditRetain \in Nat
      <4>1. i \in Numbered /\ j \in Numbered
        BY <1>7
      <4>2. at[i] \in Time /\ at[j] \in Time /\ clock \in Time
        BY <4>1 DEF ArchiveInv, ArchiveTypeOK, Numbered
      <4> QED
        BY <4>2, IdsAreNumbers, ArchiveAssumption
    <3> QED
      BY <3>1, <3>2
  <2> QED
    BY <2>1, <2>2
<1>10. RunInv(r)'
  BY <1>3, <1>8, <1>9 DEF RunInv, Rested, WorkIsLeft, Working
<1> QED
  BY <1>4, <1>5, <1>10 DEF ArchiveInv

\* A file is written where there is none yet, and has what is deleted next.
LEMMA PutInv ==
    ASSUME ArchiveInv, NEW r \in Run, PutCold(r), ArchiveTypeOK'
    PROVE  ArchiveInv' /\ \A d \in Days : runs[r].files[d] # {} => runs'[r].files[d] = runs[r].files[d]
<1> DEFINE left == runs[r].left
           day == NextDay(left)
           rest == left \ DayRows(left)
           files == [runs[r].files EXCEPT ![day] = DayRows(left)]
<1>1. /\ left \in SUBSET Numbered /\ left # {}
      /\ RunInv(r)
      /\ runs[r].files \in [Days -> SUBSET Numbered]
  BY DEF PutCold, ArchiveInv, RunInv, WorkIsLeft, Working, ArchiveTypeOK
<1>2. /\ day \in Days
      /\ DayRows(left) # {} /\ DayRows(left) \subseteq left
      /\ \A i \in DayRows(left) : DayOf(i) = day
      /\ \A i \in rest : DayOf(i) # day
  <2>1. at \in [Id -> Time \cup {Never}]
    BY DEF ArchiveInv, ArchiveTypeOK
  <2> QED
    BY <1>1, <2>1, FirstDay DEF DayRows
<1>3. runs[r].files[day] = {}
  BY <1>1, <1>2 DEF RunInv, FilesToCome, PutCold
<1>4. /\ files[day] = DayRows(left)
      /\ \A d \in Days : d # day => files[d] = runs[r].files[d]
  BY <1>1, <1>2
<1>5. /\ runs'[r].files = files
      /\ \A n \in Run : n # r => runs'[n] = runs[n]
      /\ IF KeepAuditRows
         THEN runs'[r].left = rest /\ runs'[r].pc = IF left = DayRows(left) THEN "purge" ELSE "put"
         ELSE runs'[r].left = left /\ runs'[r].pc = "delete"
  <2>1. CASE KeepAuditRows
    <3>1. runs' = [runs EXCEPT ![r] = [pc |-> IF left = DayRows(left) THEN "purge" ELSE "put",
                                       left |-> rest, files |-> files]]
      BY <2>1, TypeParts DEF PutCold, Runs, ArchiveInv
    <3> QED
      BY <2>1, <3>1, TypeParts DEF ArchiveInv
  <2>2. CASE ~KeepAuditRows
    <3>1. runs' = [runs EXCEPT ![r] = [pc |-> "delete", left |-> left, files |-> files]]
      BY <2>2, TypeParts DEF PutCold, Runs, ArchiveInv
    <3> QED
      BY <2>2, <3>1, TypeParts DEF ArchiveInv
  <2> QED
    BY <2>1, <2>2
<1>6. \A i \in Numbered : InAFile(i) => InAFile(i)'
  <2> SUFFICES ASSUME NEW i \in Numbered, InAFile(i), i \notin filed PROVE InAFile(i)'
    BY DEF InAFile, PutCold
  <2>1. PICK n \in Run, d \in Days : i \in runs[n].files[d]
    BY DEF InAFile, Files
  <2>2. i \in runs'[n].files[d]
    BY <1>3, <1>4, <1>5, <2>1
  <2> QED
    BY <2>2 DEF InAFile, Files
<1>7. OnlyOvertakenRowsAreLost'
  BY <1>6, NothingMoreIsLost DEF PutCold, ArchiveInv
<1>8. \A n \in Run : n # r => RunInv(n)'
  BY <1>5, OthersStand DEF PutCold
<1>9. \A i \in Id : DayOf(i)' = DayOf(i)
  BY DEF DayOf, PutCold
<1>a. left \subseteq Id
  BY <1>1 DEF Numbered
<1>10. RunInv(r)'
  <2>1. CASE KeepAuditRows
    <3>1. FilesToCome(r)'
      <4> SUFFICES ASSUME NEW i \in rest PROVE files[DayOf(i)] = {}
        BY <1>5, <1>9, <1>a, <2>1 DEF FilesToCome
      <4>1. DayOf(i) # day /\ DayOf(i) \in Days
        <5>1. at[i] \in Time
          BY <1>1 DEF ArchiveInv, ArchiveTypeOK, Numbered
        <5> QED
          BY <1>2, <5>1, DayType DEF DayOf
      <4>2. runs[r].files[DayOf(i)] = {}
        BY <1>1 DEF RunInv, FilesToCome, PutCold
      <4> QED
        BY <1>4, <4>1, <4>2
    <3>2. OldestAreLeft(r)'
      <4> SUFFICES ASSUME NEW j \in rest, NEW i \in table \ rest, i < j, DayOf(i) = DayOf(j)
                   PROVE  at[j] <= at[i]
        BY <1>5, <1>9, <1>a, <2>1 DEF OldestAreLeft, Working, PutCold, DayOf
      <4>1. i \notin left
        BY <1>2
      <4> QED
        BY <1>1, <4>1 DEF RunInv, OldestAreLeft, Working, PutCold
    <3>3. Rested(r)' /\ WorkIsLeft(r)'
      BY <1>2, <1>5, <2>1 DEF Rested, WorkIsLeft, Working
    <3> QED
      BY <3>1, <3>2, <3>3 DEF RunInv
  <2>2. CASE ~KeepAuditRows
    <3>1. NextDay(left)' = day /\ DayRows(left)' = DayRows(left)
      BY <1>5, <2>2 DEF NextDay, DayRows, DayOf, PutCold
    <3>2. FilesToCome(r)'
      <4> SUFFICES /\ files[day] = DayRows(left)
                   /\ \A i \in rest : files[DayOf(i)] = {}
        BY <1>5, <1>9, <1>a, <2>2, <3>1 DEF FilesToCome
      <4> SUFFICES ASSUME NEW i \in rest PROVE files[DayOf(i)] = {}
        BY <1>4
      <4>1. DayOf(i) # day /\ DayOf(i) \in Days
        <5>1. at[i] \in Time
          BY <1>1 DEF ArchiveInv, ArchiveTypeOK, Numbered
        <5> QED
          BY <1>2, <5>1, DayType DEF DayOf
      <4>2. runs[r].files[DayOf(i)] = {}
        BY <1>1 DEF RunInv, FilesToCome, PutCold
      <4> QED
        BY <1>4, <4>1, <4>2
    <3>3. OldestAreLeft(r)'
      BY <1>1, <1>5, <1>9, <2>2 DEF RunInv, OldestAreLeft, Working, PutCold, DayOf
    <3>4. Rested(r)' /\ WorkIsLeft(r)'
      BY <1>1, <1>5, <2>2 DEF Rested, WorkIsLeft, Working
    <3> QED
      BY <3>2, <3>3, <3>4 DEF RunInv
  <2> QED
    BY <2>1, <2>2
<1>11. \A d \in Days : runs[r].files[d] # {} => runs'[r].files[d] = runs[r].files[d]
  BY <1>3, <1>4, <1>5
<1> QED
  BY <1>7, <1>8, <1>10, <1>11 DEF ArchiveInv

\* A row deleted without being in the file has a lower number than the highest that is,
\* and is no older than it.
LEMMA DeleteInv ==
    ASSUME ArchiveInv, NEW r \in Run, DeleteWritten(r), ArchiveTypeOK'
    PROVE  ArchiveInv'
<1> DEFINE left == runs[r].left
           day == NextDay(left)
           dayRows == DayRows(left)
           rest == left \ dayRows
<1>1. /\ left \in SUBSET Numbered /\ left # {}
      /\ RunInv(r)
      /\ at \in [Id -> Time \cup {Never}] /\ table \subseteq Numbered
  BY DEF DeleteWritten, ArchiveInv, RunInv, WorkIsLeft, Working, ArchiveTypeOK
<1>2. /\ day \in Days
      /\ dayRows # {} /\ dayRows \subseteq left
      /\ \A i \in dayRows : DayOf(i) = day
      /\ \A i \in left : DayOf(i) = day => i \in dayRows
      /\ NextDay(dayRows) \in Days
      /\ \A i \in DayRows(dayRows) : DayOf(i) = NextDay(dayRows) /\ i \in dayRows
      /\ DayRows(dayRows) # {}
  <2>1. /\ day \in Days
        /\ dayRows # {} /\ dayRows \subseteq left
        /\ \A i \in dayRows : DayOf(i) = day
    BY <1>1, FirstDay
  <2>2. dayRows \in SUBSET Numbered
    BY <1>1, <2>1
  <2>3. /\ NextDay(dayRows) \in Days
        /\ \A i \in DayRows(dayRows) : DayOf(i) = NextDay(dayRows) /\ i \in dayRows
        /\ DayRows(dayRows) # {}
    BY <1>1, <2>1, <2>2, FirstDay
  <2> QED
    BY <2>1, <2>3 DEF DayRows
<1>3. NextDay(dayRows) = day
  BY <1>2
<1>4. /\ table' = {i \in table : i > Max(dayRows) \/ DayOf(i) # day}
      /\ Proceed(r, rest) /\ at' = at /\ filed' = filed
  BY <1>3 DEF DeleteWritten
<1>5. /\ \A i \in Numbered : InAFile(i) <=> InAFile(i)'
      /\ \A n \in Run : runs'[n].files = runs[n].files
      /\ \A n \in Run : n # r => runs'[n] = runs[n]
      /\ runs'[r].left = rest
      /\ runs'[r].pc = IF rest = {} THEN "purge" ELSE "put"
  BY <1>4, ProceedKeepsFiles DEF ArchiveInv
<1>6. Max(dayRows) \in dayRows /\ \A i \in dayRows : i <= Max(dayRows)
  <2>1. dayRows \in SUBSET (0..MaxRows) /\ MaxRows \in Nat
    BY <1>1, <1>2, IdsAreNumbers
  <2> QED
    BY <1>2, <2>1, MaxOf
<1>7. \A i \in dayRows : InAFile(i)
  <2>1. runs[r].files[day] = dayRows
    BY <1>1 DEF RunInv, FilesToCome, DeleteWritten
  <2> QED
    BY <1>2, <2>1 DEF InAFile, Files
<1>8. Numbered' = Numbered /\ \A i \in Numbered : DayOf(i)' = DayOf(i)
  BY <1>4 DEF Numbered, DayOf
<1>9. OnlyOvertakenRowsAreLost'
  <2> SUFFICES ASSUME NEW i \in Numbered, i \notin table'
               PROVE  InAFile(i) \/ \E j \in Numbered : /\ i < j /\ at[j] <= at[i]
                                                        /\ DayOf(j) = DayOf(i) /\ InAFile(j)
    BY <1>4, <1>5, <1>8 DEF OnlyOvertakenRowsAreLost
  <2>1. CASE i \notin table
    BY <2>1 DEF ArchiveInv, OnlyOvertakenRowsAreLost
  <2>2. CASE i \in dayRows
    BY <2>2, <1>7
  <2>3. CASE i \in table /\ i \notin dayRows
    <3>1. DayOf(i) = day /\ ~(i > Max(dayRows)) /\ i # Max(dayRows)
      BY <1>4, <1>6, <2>3
    <3>2. i \in Nat /\ Max(dayRows) \in Nat /\ Max(dayRows) \in left
      BY <1>1, <1>2, <1>6, IdsAreNumbers
    <3>3. i < Max(dayRows)
      BY <3>1, <3>2
    <3>4. i \notin left
      BY <1>2, <2>3, <3>1
    <3>5. DayOf(Max(dayRows)) = DayOf(i)
      BY <1>2, <1>6, <3>1
    <3>6. at[Max(dayRows)] <= at[i]
      BY <1>1, <2>3, <3>2, <3>3, <3>4, <3>5 DEF RunInv, OldestAreLeft, Working, DeleteWritten
    <3> QED
      BY <1>1, <1>6, <1>7, <3>2, <3>3, <3>5, <3>6
  <2> QED
    BY <2>1, <2>2, <2>3
<1>10. \A n \in Run : n # r => RunInv(n)'
  <2>1. table' \subseteq table
    BY <1>4
  <2> QED
    BY <1>4, <1>5, <2>1, OthersStand
<1>11. RunInv(r)'
  <2>1. FilesToCome(r)'
    <3> SUFFICES ASSUME NEW i \in rest PROVE runs[r].files[DayOf(i)] = {}
      BY <1>1, <1>5, <1>8 DEF FilesToCome
    <3> QED
      BY <1>1 DEF RunInv, FilesToCome, DeleteWritten
  <2>2. OldestAreLeft(r)'
    <3> SUFFICES ASSUME NEW j \in rest, NEW i \in table' \ rest, i < j, DayOf(i) = DayOf(j)
                 PROVE  at[j] <= at[i]
      BY <1>1, <1>4, <1>5, <1>8 DEF OldestAreLeft, Working
    <3>1. i \in table /\ i \notin left
      BY <1>2, <1>4
    <3> QED
      BY <1>1, <3>1 DEF RunInv, OldestAreLeft, Working, DeleteWritten
  <2> QED
    BY <1>5, <2>1, <2>2 DEF RunInv, Rested, WorkIsLeft, Working
<1> QED
  BY <1>9, <1>10, <1>11 DEF ArchiveInv

\* A run that is over is as one that has not begun.
LEMMA OverInv ==
    ASSUME ArchiveInv, NEW r \in Run, Over(r), at' = at, table' = table, ArchiveTypeOK'
    PROVE  ArchiveInv'
<1>1. runs'[r] = Waiting /\ \A n \in Run : n # r => runs'[n] = runs[n]
  BY DEF Over, ArchiveInv, ArchiveTypeOK
<1>2. RunInv(r)'
  BY <1>1 DEF RunInv, Rested, WorkIsLeft, FilesToCome, OldestAreLeft, Working, Waiting
<1>3. OnlyOvertakenRowsAreLost'
  BY OverKeepsFiles, NothingMoreIsLost DEF ArchiveInv
<1> QED
  BY <1>1, <1>2, <1>3, OthersStand DEF ArchiveInv

\* What the service does, the clock, and a step that changes nothing here
LEMMA QuietInv ==
    ASSUME ArchiveInv, UNCHANGED <<at, table, runs, filed>>, ArchiveTypeOK'
    PROVE  ArchiveInv'
<1>1. \A n \in Run : RunInv(n)'
  BY OthersStand
<1>2. \A i \in Numbered : InAFile(i) => InAFile(i)'
  BY DEF InAFile, Files
<1> QED
  BY <1>1, <1>2, NothingMoreIsLost DEF ArchiveInv

LEMMA InvInitially == ArchiveInit => ArchiveInv
<1> SUFFICES ASSUME ArchiveInit PROVE ArchiveInv
  OBVIOUS
<1>1. \A i \in Id : i \notin Numbered
  BY DEF ArchiveInit, Numbered
<1>2. OnlyOvertakenRowsAreLost
  BY <1>1 DEF OnlyOvertakenRowsAreLost, Numbered
<1>3. \A r \in Run : RunInv(r)
  BY DEF ArchiveInit, RunInv, Rested, WorkIsLeft, FilesToCome, OldestAreLeft, Working, Waiting
<1> QED
  BY <1>2, <1>3, TypeInitially DEF ArchiveInv

LEMMA InvStep == ArchiveInv /\ [ArchiveNext]_archiveVars => ArchiveInv'
<1> SUFFICES ASSUME ArchiveInv, [ArchiveNext]_archiveVars PROVE ArchiveInv'
  OBVIOUS
<1>1. ArchiveTypeOK'
  BY TypeStep DEF ArchiveInv
<1>2. CASE ArchiveTick \/ EndSession \/ \E w \in Writer : Stamp(w)
  BY <1>1, <1>2, QuietInv DEF ArchiveTick, EndSession, Stamp
<1>3. CASE \E w \in Writer : Insert(w)
  BY <1>1, <1>3, InsertInv
<1>4. CASE \E r \in Run : Read(r)
  BY <1>1, <1>4, ReadInv
<1>5. CASE \E r \in Run : PutCold(r)
  BY <1>1, <1>5, PutInv
<1>6. CASE \E r \in Run : DeleteWritten(r)
  BY <1>1, <1>6, DeleteInv
<1>7. CASE \E r \in Run : Purge(r) \/ Die(r)
  BY <1>1, <1>7, OverInv DEF Purge, Die
<1>8. CASE UNCHANGED archiveVars
  BY <1>1, <1>8, QuietInv DEF archiveVars
<1> QED
  BY <1>2, <1>3, <1>4, <1>5, <1>6, <1>7, <1>8 DEF ArchiveNext

\* Whatever runs overlap, die and start again, the only rows that are in no file are
\* those numbered before a row of their day that is no younger (archive.go Run: the
\* DELETE that goes by the highest id).
THEOREM OnlyOvertakenAreLost == ArchiveSpec => []OnlyOvertakenRowsAreLost
<1>1. ArchiveInv => OnlyOvertakenRowsAreLost
  BY DEF ArchiveInv
<1> QED
  BY <1>1, InvInitially, InvStep, PTL DEF ArchiveSpec

LEMMA FilesStepOnce ==
    ASSUME ArchiveInv, [ArchiveNext]_archiveVars
    PROVE  [\A r \in Run, d \in Days :
               runs[r].files[d] # {} /\ runs'[r].pc # "idle"
                   => runs'[r].files[d] = runs[r].files[d]]_archiveVars
<1> SUFFICES ASSUME NEW r \in Run, NEW d \in Days,
                    runs[r].files[d] # {}, runs'[r].pc # "idle"
             PROVE  runs'[r].files[d] = runs[r].files[d]
  OBVIOUS
<1>1. CASE runs' = runs
  BY <1>1
<1>2. CASE \E n \in Run : Read(n)
  <2>1. PICK n \in Run, batch \in Oldest(Cold) : Proceed(n, batch) /\ filed' = filed
    BY <1>2 DEF Read
  <2> QED
    BY <2>1, ProceedKeepsFiles DEF ArchiveInv
<1>3. CASE \E n \in Run : DeleteWritten(n)
  <2>1. PICK n \in Run : Proceed(n, runs[n].left \ DayRows(runs[n].left)) /\ filed' = filed
    BY <1>3 DEF DeleteWritten
  <2> QED
    BY <2>1, ProceedKeepsFiles DEF ArchiveInv
<1>4. ASSUME NEW n \in Run, PutCold(n) PROVE runs'[r].files[d] = runs[r].files[d]
  <2>1. ArchiveTypeOK'
    BY TypeStep DEF ArchiveInv
  <2>2. CASE n = r
    BY <1>4, <2>1, <2>2, PutInv
  <2>3. CASE n # r
    <3>1. runs'[r] = runs[r]
      BY <1>4, <2>3 DEF PutCold, ArchiveInv, ArchiveTypeOK
    <3> QED
      BY <3>1
  <2> QED
    BY <2>2, <2>3
<1>5. CASE \E n \in Run : Over(n)
  <2>1. PICK n \in Run : Over(n)
    BY <1>5
  <2>2. n # r
    BY <2>1 DEF Over, Waiting, ArchiveInv, ArchiveTypeOK
  <2>3. runs'[r] = runs[r]
    BY <2>1, <2>2 DEF Over, ArchiveInv, ArchiveTypeOK
  <2> QED
    BY <2>3
<1> QED
  BY <1>1, <1>2, <1>3, <1>4, <1>5
  DEF ArchiveNext, archiveVars, ArchiveTick, EndSession, Stamp, Insert, Purge, Die

\* A run writes each of its files once: what it deletes is in the file for good
\* (archive.go Run: a key for each day of the run).
THEOREM WrittenOnce == ArchiveSpec => FilesAreWrittenOnce
BY InvInitially, InvStep, FilesStepOnce, PTL DEF ArchiveSpec, FilesAreWrittenOnce

-----------------------------------------------------------------------------
(* The login counter                                                       *)

USE SpellingAssumption, LimitAssumption

Key == [attempts : 0..Full, left : 0..Window]

\* A counter that has an expiry exactly while it counts.
Expiring == {c \in Key : c.attempts > 0 <=> c.left > 0}

\* The caps are numbers.
LEMMA Caps == Full \in Nat \ {0} /\ MostRows \in Nat /\ MostAdmitted \in Nat
<1>1. Cardinality(Request) \in Nat
  BY FS_CardinalityType
<1> QED
  BY <1>1 DEF Full, MostRows, MostAdmitted

LEMMA AgeHasZero == 0 \in Age /\ Age \subseteq Nat /\ \A a \in Age \ {0} : a - 1 \in Age
BY DEF Age

\* A row more, and a tick, leave a table of rows a table of rows.
LEMMA RowTypes ==
    ASSUME NEW most \in Nat, NEW rows \in [Age -> 0..most]
    PROVE  /\ Added(rows, most) \in [Age -> 0..most]
           /\ Aged(rows) \in [Age -> 0..most]
<1>1. AtMost(rows[0] + 1, most) \in 0..most
  <2>1. rows[0] \in 0..most
    BY AgeHasZero
  <2> QED
    BY <2>1 DEF AtMost
<1>2. Added(rows, most) \in [Age -> 0..most]
  BY <1>1 DEF Added
<1>3. \A a \in Age : (IF a = 0 THEN 0 ELSE rows[a - 1]) \in 0..most
  BY AgeHasZero
<1>4. Aged(rows) \in [Age -> 0..most]
  BY <1>3 DEF Aged
<1> QED
  BY <1>2, <1>4

LEMMA NoRowsType == \A most \in Nat : NoRows \in [Age -> 0..most]
BY DEF NoRows

LEMMA NoneExpires == None \in Expiring
BY Caps DEF None, Expiring, Key

\* Counting an attempt sets an expiry where there is none, and the attempts of a
\* key never come back to nothing.
LEMMA CountedExpires == ASSUME NEW c \in Expiring PROVE Counted(c) \in Expiring
<1>1. /\ c \in Key
      /\ c.attempts \in 0..Full /\ c.left \in 0..Window
      /\ c.attempts > 0 <=> c.left > 0
  BY DEF Expiring, Key
<1>2. AtMost(c.attempts + 1, Full) \in 1..Full
  BY <1>1, Caps DEF AtMost
<1>3. (IF c.left = 0 THEN Window ELSE c.left) \in 1..Window
  BY <1>1
<1> QED
  BY <1>2, <1>3 DEF Counted, Expiring, Key

\* A tick either ends an expiring key or brings its end nearer.
LEMMA TickedKey ==
    ASSUME NEW c \in Expiring
    PROVE  Ticked(c) = IF c.left <= 1 THEN None ELSE [c EXCEPT !.left = @ - 1]
<1>1. /\ c \in Key /\ c.attempts \in 0..Full /\ c.left \in 0..Window
      /\ c.attempts > 0 <=> c.left > 0
      /\ c = [attempts |-> c.attempts, left |-> c.left]
  BY DEF Expiring, Key
<1>2. CASE c.left = 0
  BY <1>1, <1>2, Caps DEF Ticked, None
<1>3. CASE c.left = 1
  BY <1>3 DEF Ticked
<1>4. CASE c.left > 1
  BY <1>1, <1>4 DEF Ticked
<1> QED
  BY <1>1, <1>2, <1>3, <1>4

\* What is left when a tick has passed still expires.
LEMMA TickExpires == ASSUME NEW c \in Expiring PROVE Ticked(c) \in Expiring
<1>1. c \in Key /\ c.attempts \in 0..Full /\ c.left \in 0..Window
  BY DEF Expiring, Key
<1>2. CASE c.left <= 1
  BY <1>2, NoneExpires, TickedKey
<1>3. CASE ~(c.left <= 1)
  <2>1. Ticked(c) = [c EXCEPT !.left = @ - 1]
    BY <1>3, TickedKey
  <2> QED
    BY <1>1, <1>3, <2>1 DEF Expiring, Key
<1> QED
  BY <1>2, <1>3

-----------------------------------------------------------------------------
(* The invariant                                                           *)

Requests == req \in [Request -> {Idle} \cup [pc : {"log", "compare"}, as : Spelling]]
Rows == /\ failures \in [Spelling -> [Age -> 0..MostRows]]
        /\ admitted \in [Name -> [Age -> 0..MostAdmitted]]

LoginInv ==
    /\ cached \in SUBSET Request
    /\ counter \in [Name -> Expiring]
    /\ Rows
    /\ Requests
    /\ failedCalls \in 0..MaxFailedCalls

LEMMA LoginInvInit == LoginInit => LoginInv
<1>1. NoRows \in [Age -> 0..MostRows] /\ NoRows \in [Age -> 0..MostAdmitted]
  BY NoRowsType, Caps
<1> QED
  BY <1>1, NoneExpires DEF LoginInit, LoginInv, Rows, Requests

\* A request that goes on, or ends, is typed as before.
LEMMA StepTypes ==
    ASSUME Requests, NEW r \in Request, NEW s \in Spelling,
           NEW pc \in {"log", "compare"}, Step(r, pc, s) \/ Finish(r)
    PROVE  Requests'
BY DEF Requests, Step, Finish

LEMMA FaultType ==
    ASSUME failedCalls \in 0..MaxFailedCalls, Fault
    PROVE  failedCalls' \in 0..MaxFailedCalls
BY DEF Fault

\* One who compares a password does so under a spelling.
LEMMA Compares ==
    ASSUME Requests, NEW r \in Request, At(r, "compare")
    PROVE  req[r].as \in Spelling
BY DEF Requests, At, Idle

LEMMA LoginInvNext ==
    ASSUME LoginInv, [LoginNext]_loginVars
    PROVE  LoginInv'
<1>1. ASSUME NEW r \in Request, NEW s \in Spelling, Increment(r, s) PROVE LoginInv'
  <2>1. Counted(counter[Folded[s]]) \in Expiring
    BY CountedExpires DEF LoginInv
  <2>2. counter' \in [Name -> Expiring]
    BY <1>1, <2>1 DEF Increment, LoginInv
  <2>3. Requests'
    <3>1. CASE UNCHANGED req
      BY <3>1 DEF LoginInv, Requests
    <3>2. CASE Step(r, "compare", s)
      BY <3>2, StepTypes DEF LoginInv
    <3> QED
      BY <1>1, <3>1, <3>2 DEF Increment
  <2>4. Rows'
    <3>1. Added(admitted[Folded[s]], MostAdmitted) \in [Age -> 0..MostAdmitted]
      BY Caps, RowTypes DEF LoginInv, Rows
    <3> QED
      BY <1>1, <3>1 DEF Increment, LoginInv, Rows
  <2> QED
    BY <1>1, <2>2, <2>3, <2>4 DEF Increment, LoginInv
<1>2. ASSUME NEW r \in Request, NEW s \in Spelling, IncrementFails(r, s) PROVE LoginInv'
  <2>1. Counted(counter[Folded[s]]) \in Expiring
    BY CountedExpires DEF LoginInv
  <2>2. counter' \in [Name -> Expiring]
    BY <1>2, <2>1 DEF IncrementFails, LoginInv
  <2>3. Requests'
    BY <1>2, StepTypes DEF IncrementFails, LoginInv
  <2> QED
    BY <1>2, <2>2, <2>3, FaultType DEF IncrementFails, LoginInv, Rows
<1>3. ASSUME NEW r \in Request, NEW s \in Spelling, CountFailures(r, s) PROVE LoginInv'
  <2>1. Requests'
    BY <1>3, StepTypes DEF CountFailures, LoginInv
  <2> QED
    BY <1>3, <2>1 DEF CountFailures, LoginInv, Rows
<1>4. ASSUME NEW r \in Request, NEW s \in Spelling, CountFails(r, s) PROVE LoginInv'
  <2>1. Requests'
    BY <1>4, StepTypes DEF CountFails, LoginInv
  <2> QED
    BY <1>4, <2>1, FaultType DEF CountFails, LoginInv, Rows
<1>5. ASSUME NEW r \in Request, RecordFailure(r) PROVE LoginInv'
  <2>1. req[r].as \in Spelling
    BY <1>5, Compares DEF RecordFailure, LoginInv
  <2>2. Requests'
    BY <1>5, <2>1, StepTypes DEF RecordFailure, LoginInv
  <2>3. Added(failures[req[r].as], MostRows) \in [Age -> 0..MostRows]
    BY <2>1, Caps, RowTypes DEF LoginInv, Rows
  <2> QED
    BY <1>5, <2>2, <2>3 DEF RecordFailure, LoginInv, Rows
<1>6. ASSUME NEW r \in Request, ClearRateLimit(r) PROVE LoginInv'
  <2>1. req[r].as \in Spelling
    BY <1>6, Compares DEF ClearRateLimit, LoginInv
  <2>2. Requests'
    BY <1>6, <2>1, StepTypes DEF ClearRateLimit, LoginInv
  <2>3. NoRows \in [Age -> 0..MostAdmitted]
    BY NoRowsType, Caps
  <2>4. counter' \in [Name -> Expiring]
    BY <1>6, NoneExpires DEF ClearRateLimit, LoginInv
  <2>5. admitted' \in [Name -> [Age -> 0..MostAdmitted]]
    BY <1>6, <2>3 DEF ClearRateLimit, LoginInv, Rows
  <2> QED
    BY <1>6, <2>2, <2>4, <2>5 DEF ClearRateLimit, LoginInv, Rows
<1>7. ASSUME NEW r \in Request, Stop(r) PROVE LoginInv'
  <2>1. req[r].as \in Spelling
    BY <1>7, Compares DEF Stop, LoginInv
  <2>2. Requests'
    BY <1>7, <2>1, StepTypes DEF Stop, LoginInv
  <2> QED
    BY <1>7, <2>2, FaultType DEF Stop, LoginInv, Rows
<1>8. CASE LoginTick
  <2>1. counter' \in [Name -> Expiring]
    BY <1>8, TickExpires DEF LoginTick, LoginInv
  <2>2. \A s \in Spelling : Aged(failures[s]) \in [Age -> 0..MostRows]
    BY Caps, RowTypes DEF LoginInv, Rows
  <2>3. \A n \in Name : Aged(admitted[n]) \in [Age -> 0..MostAdmitted]
    BY Caps, RowTypes DEF LoginInv, Rows
  <2> QED
    BY <1>8, <2>1, <2>2, <2>3 DEF LoginTick, LoginInv, Rows, Requests
<1>9. CASE UNCHANGED loginVars
  BY <1>9 DEF loginVars, LoginInv, Rows, Requests
<1> QED
  BY <1>1, <1>2, <1>3, <1>4, <1>5, <1>6, <1>7, <1>8, <1>9 DEF LoginNext

LEMMA LoginInvariance == LoginSpec => []LoginInv
BY LoginInvInit, LoginInvNext, PTL DEF LoginSpec

-----------------------------------------------------------------------------
(* The theorems                                                            *)

\* Every reachable state is well typed: a key never lives longer than the window
\* (redis.go, Increment).
THEOREM LoginTypes == LoginSpec => []LoginTypeOK
<1>1. LoginInv => LoginTypeOK
  BY DEF LoginInv, LoginTypeOK, Rows, Requests, Expiring, Key
<1> QED
  BY <1>1, LoginInvariance, PTL

-----------------------------------------------------------------------------
(* Sums as counts                                                          *)

\* Induction over the subsets of a finite set: what holds of a set when it holds
\* of the set without any one of its members, holds of all.
LEMMA SubsetInduction ==
    ASSUME NEW S, IsFiniteSet(S), NEW T,
           \A A \in SUBSET S : (\A x \in A : A \ {x} \in T) => A \in T
    PROVE  SUBSET S \subseteq T
<1> DEFINE Bad == (SUBSET S) \ T
<1>1. SUFFICES ASSUME Bad # {} PROVE FALSE
  OBVIOUS
<1>2. Bad \subseteq FiniteSubsetsOf(S)
  BY FS_FiniteSubsetsOfFinite
<1>3. PICK A \in Bad : \A B \in Bad : <<B, A>> \notin StrictSubsetOrdering(S)
  <2> HIDE DEF Bad
  <2>1. QED
    BY <1>1, <1>2, WFMin, FS_StrictSubsetOrderingWellFounded
<1>4. \A x \in A : A \ {x} \in T
  <2>1. ASSUME NEW x \in A, A \ {x} \notin T PROVE FALSE
    <3>1. A \ {x} \in Bad
      BY <2>1
    <3>2. <<A \ {x}, A>> \in StrictSubsetOrdering(S)
      BY <2>1 DEF StrictSubsetOrdering
    <3>3. QED
      BY <1>3, <3>1, <3>2
  <2>2. QED
    BY <2>1
<1>5. A \in SUBSET S /\ A \notin T
  OBVIOUS
<1>6. QED
  BY <1>4, <1>5

\* As many cells over each index as the function says.
CellsOver(f, s) == {p \in s \X Nat : p[2] \in 1..f[p[1]]}
Cells(f) == CellsOver(f, DOMAIN f)

LEMMA CellsFinite ==
    ASSUME NEW most \in Nat, NEW D, IsFiniteSet(D), NEW f \in [D -> 0..most], NEW s \in SUBSET D
    PROVE  IsFiniteSet(CellsOver(f, s)) /\ Cardinality(CellsOver(f, s)) \in Nat
<1>1. IsFiniteSet(s) /\ IsFiniteSet(1..most)
  BY FS_Subset, FS_Interval
<1>2. IsFiniteSet(s \X (1..most))
  BY <1>1, FS_Product
<1>3. CellsOver(f, s) \subseteq s \X (1..most)
  BY DEF CellsOver
<1>4. QED
  BY <1>2, <1>3, FS_Subset, FS_CardinalityType

LEMMA CellsOfOneMore ==
    ASSUME NEW most \in Nat, NEW D, IsFiniteSet(D), NEW f \in [D -> 0..most],
           NEW s \in SUBSET D, NEW x \in s
    PROVE  Cardinality(CellsOver(f, s)) = f[x] + Cardinality(CellsOver(f, s \ {x}))
<1> DEFINE rest == CellsOver(f, s \ {x})
           own == {x} \X (1..f[x])
<1>1. f[x] \in Nat
  OBVIOUS
<1>2. IsFiniteSet(own) /\ Cardinality(own) = f[x]
  <2>1. IsFiniteSet(1..f[x]) /\ Cardinality(1..f[x]) = f[x]
    <3>1. PICK n \in Nat : n = f[x]
      BY <1>1
    <3>2. /\ IsFiniteSet(1..n)
          /\ Cardinality(1..n) = n
      <4>1. 1 \in Int /\ n \in Int
        OBVIOUS
      <4>2. /\ IsFiniteSet(1..n)
            /\ Cardinality(1..n) = IF 1 > n THEN 0 ELSE n - 1 + 1
        BY <4>1, FS_Interval
      <4>3. n - 1 + 1 = n /\ (1 > n => n = 0)
        OBVIOUS
      <4>4. QED
        BY <4>2, <4>3
    <3>3. QED
      BY <3>1, <3>2
  <2>2. IsFiniteSet({x}) /\ Cardinality({x}) = 1
    BY FS_Singleton
  <2>3. IsFiniteSet(own) /\ Cardinality(own) = Cardinality({x}) * Cardinality(1..f[x])
    BY <2>1, <2>2, FS_Product
  <2>4. QED
    BY <1>1, <2>1, <2>2, <2>3
<1>3. IsFiniteSet(rest) /\ Cardinality(rest) \in Nat
  BY CellsFinite
<1>4. CellsOver(f, s) = own \cup rest /\ own \cap rest = {}
  BY <1>1 DEF CellsOver
<1> HIDE DEF own, rest
<1>5. Cardinality(own \cup rest) = Cardinality(own) + Cardinality(rest) - Cardinality({})
  BY <1>2, <1>3, <1>4, FS_Union
<1>6. Cardinality(CellsOver(f, s)) = f[x] + Cardinality(rest) - 0
  BY <1>2, <1>4, <1>5, FS_EmptySet
<1>7. Cardinality(CellsOver(f, s)) = f[x] + Cardinality(rest)
  BY <1>1, <1>3, <1>6
<1> QED
  BY <1>7 DEF rest

\* SumFunction adds the values up one index after the other, in an order it
\* chooses: whatever that is, it counts the cells.
LEMMA SumCounts ==
    ASSUME NEW most \in Nat, NEW D, IsFiniteSet(D), NEW f \in [D -> 0..most]
    PROVE  /\ SumFunction(f) = Cardinality(Cells(f))
           /\ SumFunction(f) \in Nat
           /\ IsFiniteSet(Cells(f))
<1> DEFINE Pick(s) == CHOOSE x \in s : TRUE
           iter[s \in SUBSET D] == IF s = {} THEN 0 ELSE f[Pick(s)] + iter[s \ {Pick(s)}]
           count == [s \in SUBSET D |-> Cardinality(CellsOver(f, s))]
<1>1. SumFunction(f) = iter[D]
  BY DEF SumFunction, SumFunctionOnSet, FoldFunctionOnSet, MapThenFoldSet
<1>2. \A s \in SUBSET D : s # {} => Pick(s) \in s
  OBVIOUS
<1>3. count = [s \in SUBSET D |-> IF s = {} THEN 0 ELSE f[Pick(s)] + count[s \ {Pick(s)}]]
  <2>1. ASSUME NEW s \in SUBSET D, s # {}
        PROVE  count[s] = f[Pick(s)] + count[s \ {Pick(s)}]
    <3>1. PICK x \in s : x = Pick(s)
      BY <1>2, <2>1
    <3> HIDE DEF Pick
    <3>2. QED
      BY <3>1, CellsOfOneMore
  <2>2. count[{}] = 0
    <3>1. CellsOver(f, {}) = {}
      BY DEF CellsOver
    <3>2. QED
      BY <3>1, FS_EmptySet
  <2> HIDE DEF Pick
  <2>3. QED
    BY <2>1, <2>2
<1>4. iter = [s \in SUBSET D |-> IF s = {} THEN 0 ELSE f[Pick(s)] + iter[s \ {Pick(s)}]]
  <2>1. iter = CHOOSE g : g = [s \in SUBSET D |->
                   IF s = {} THEN 0 ELSE f[Pick(s)] + g[s \ {Pick(s)}]]
    BY DEF iter
  <2> HIDE DEF Pick, iter, count
  <2>2. QED
    BY <1>3, <2>1
<1>5. \A s \in SUBSET D : iter[s] = count[s]
  <2> DEFINE Same == {s \in SUBSET D : iter[s] = count[s]}
  <2> HIDE DEF iter, count, Pick
  <2>1. ASSUME NEW s \in SUBSET D, \A x \in s : s \ {x} \in Same PROVE s \in Same
    <3>1. s # {} => iter[s \ {Pick(s)}] = count[s \ {Pick(s)}]
      BY <1>2, <2>1
    <3>2. iter[s] = IF s = {} THEN 0 ELSE f[Pick(s)] + iter[s \ {Pick(s)}]
      BY <1>4
    <3>3. count[s] = IF s = {} THEN 0 ELSE f[Pick(s)] + count[s \ {Pick(s)}]
      BY <1>3
    <3>4. QED
      BY <3>1, <3>2, <3>3
  <2> HIDE DEF Same
  <2>2. SUBSET D \subseteq Same
    BY <2>1, SubsetInduction
  <2>3. QED
    BY <2>2 DEF Same
<1>6. SumFunction(f) = count[D]
  BY <1>1, <1>5
<1>7. Cells(f) = CellsOver(f, D) /\ D \in SUBSET D
  BY DEF Cells
<1>8. QED
  BY <1>6, <1>7, CellsFinite

-----------------------------------------------------------------------------
(* Guesses are bounded                                                     *)

\* GuessesAreBounded is not inductive: a window that has just opened could follow
\* one in which twice the limit was let in.  What was let in under the key there is
\* now is at most what the key has counted, and is younger than the key; what was
\* let in before it, under one key more, is within the limit.
Young(rows, w) == {p \in Cells(rows) : p[1] <= w}
Older(rows, w) == {p \in Cells(rows) : p[1] > w}

Guess(c, rows) ==
    IF c = None
    THEN rows[0] = 0 /\ Cardinality(Cells(rows)) <= Limit
    ELSE LET w == Window - c.left IN
         /\ Cardinality(Young(rows, w)) <= AtMost(c.attempts, Limit)
         /\ Cardinality(Older(rows, w)) <= Limit

GuessInv == /\ LoginInv
            /\ \A n \in Name : Guess(counter[n], admitted[n])

Table == [Age -> 0..MostAdmitted]

LEMMA AgesFinite == IsFiniteSet(Age)
<1>1. 0 \in Int /\ Window - 1 \in Int
  OBVIOUS
<1>2. QED
  BY <1>1, FS_Interval DEF Age

\* The cells of a table, and of the two parts of it.
LEMMA RowsCells ==
    ASSUME NEW most \in Nat, NEW rows \in [Age -> 0..most]
    PROVE  /\ SumFunction(rows) = Cardinality(Cells(rows))
           /\ IsFiniteSet(Cells(rows)) /\ Cardinality(Cells(rows)) \in Nat
           /\ Cells(rows) = {p \in Age \X Nat : p[2] \in 1..rows[p[1]]}
<1>1. SumFunction(rows) = Cardinality(Cells(rows)) /\ IsFiniteSet(Cells(rows))
  BY AgesFinite, SumCounts
<1>2. Cells(rows) = {p \in Age \X Nat : p[2] \in 1..rows[p[1]]}
  BY DEF Cells, CellsOver
<1>3. QED
  BY <1>1, <1>2, FS_CardinalityType

LEMMA TableCells ==
    ASSUME NEW rows \in Table, NEW w
    PROVE  /\ SumFunction(rows) = Cardinality(Cells(rows))
           /\ \A part \in {Cells(rows), Young(rows, w), Older(rows, w)} :
                IsFiniteSet(part) /\ Cardinality(part) \in Nat
           /\ Cells(rows) = {p \in Age \X Nat : p[2] \in 1..rows[p[1]]}
<1>1. /\ SumFunction(rows) = Cardinality(Cells(rows)) /\ IsFiniteSet(Cells(rows))
      /\ Cells(rows) = {p \in Age \X Nat : p[2] \in 1..rows[p[1]]}
  BY Caps, RowsCells DEF Table
<1>2. Young(rows, w) \in SUBSET Cells(rows) /\ Older(rows, w) \in SUBSET Cells(rows)
  BY DEF Young, Older
<1>3. IsFiniteSet(Young(rows, w)) /\ IsFiniteSet(Older(rows, w))
  BY <1>1, <1>2, FS_Subset
<1>4. QED
  BY <1>1, <1>3, FS_CardinalityType

LEMMA PartBound ==
    ASSUME NEW A, IsFiniteSet(A), NEW B, B \subseteq A
    PROVE  Cardinality(B) <= Cardinality(A) /\ Cardinality(B) \in Nat /\ Cardinality(A) \in Nat
BY FS_Subset, FS_CardinalityType

LEMMA OneMoreBound ==
    ASSUME NEW A, IsFiniteSet(A), NEW x, NEW B, B \subseteq A \cup {x}
    PROVE  Cardinality(B) <= Cardinality(A) + 1
<1>1. /\ IsFiniteSet(A \cup {x})
      /\ Cardinality(A \cup {x}) = IF x \in A THEN Cardinality(A) ELSE Cardinality(A) + 1
  BY FS_AddElement
<1>2. Cardinality(A) \in Nat
  BY FS_CardinalityType
<1>3. Cardinality(B) <= Cardinality(A \cup {x}) /\ Cardinality(B) \in Nat
  BY <1>1, PartBound
<1>4. QED
  BY <1>1, <1>2, <1>3

\* Cells a tick older are no more than those they come from.
LEMMA ShiftBound ==
    ASSUME NEW A, IsFiniteSet(A), NEW B, B \subseteq Nat \X Nat,
           \A p \in B : <<p[1] - 1, p[2]>> \in A
    PROVE  Cardinality(B) <= Cardinality(A)
<1> DEFINE h == [p \in B |-> <<p[1] - 1, p[2]>>]
<1>1. h \in [B -> A]
  OBVIOUS
<1>2. \A p, q \in B : h[p] = h[q] => p = q
  <2>1. ASSUME NEW p \in B, NEW q \in B, h[p] = h[q] PROVE p = q
    <3>1. p[1] - 1 = q[1] - 1 /\ p[2] = q[2]
      BY <2>1
    <3>2. p[1] \in Nat /\ q[1] \in Nat /\ p = <<p[1], p[2]>> /\ q = <<q[1], q[2]>>
      OBVIOUS
    <3>3. p[1] = q[1]
      BY <3>1, <3>2
    <3>4. QED
      BY <3>1, <3>2, <3>3
  <2>2. QED
    BY <2>1
<1> HIDE DEF h
<1>3. h \in Injection(B, A)
  BY <1>1, <1>2 DEF Injection, IsInjective
<1>4. QED
  BY <1>3, FS_Injection

LEMMA RowsAdded ==
    ASSUME NEW most \in Nat, NEW rows \in [Age -> 0..most]
    PROVE  /\ Added(rows, most) \in [Age -> 0..most]
           /\ Cells(Added(rows, most)) \subseteq Cells(rows) \cup {<<0, rows[0] + 1>>}
<1> DEFINE more == Added(rows, most)
<1>1. more \in [Age -> 0..most]
  BY RowTypes
<1>2. rows[0] \in Nat /\ more[0] \in Nat /\ more[0] <= rows[0] + 1
      /\ \A a \in Age \ {0} : more[a] = rows[a]
  BY AgeHasZero DEF Added, AtMost
<1> HIDE DEF more
<1>3. ASSUME NEW p \in Age \X Nat, p[2] \in 1..more[p[1]]
      PROVE  p[2] \in 1..rows[p[1]] \/ p = <<0, rows[0] + 1>>
  <2>1. CASE p[1] # 0
    BY <1>2, <1>3, <2>1
  <2>2. CASE p[1] = 0
    <3>1. p[2] \in 1..more[0]
      BY <1>3, <2>2
    <3>2. p[2] \in 1..rows[0] \/ p[2] = rows[0] + 1
      BY <1>2, <3>1
    <3>3. p = <<p[1], p[2]>>
      OBVIOUS
    <3>4. QED
      BY <2>2, <3>2, <3>3
  <2>3. QED
    BY <2>1, <2>2
<1>4. QED
  BY <1>1, <1>3, RowsCells DEF more

LEMMA AddedTable ==
    ASSUME NEW rows \in Table
    PROVE  /\ Added(rows, MostAdmitted) \in Table
           /\ Cells(Added(rows, MostAdmitted)) \subseteq Cells(rows) \cup {<<0, rows[0] + 1>>}
BY Caps, RowsAdded DEF Table

LEMMA NothingYoung ==
    ASSUME NEW rows \in Table, rows[0] = 0
    PROVE  Young(rows, 0) = {}
<1>1. ASSUME NEW p \in Young(rows, 0) PROVE FALSE
  <2>1. p \in Age \X Nat /\ p[2] \in 1..rows[p[1]] /\ p[1] <= 0
    BY <1>1, TableCells DEF Young
  <2>2. p[1] = 0
    <3>1. p[1] \in Nat
      BY <2>1, AgeHasZero
    <3>2. QED
      BY <2>1, <3>1
  <2>3. QED
    BY <2>1, <2>2
<1>2. QED
  BY <1>1

LEMMA GuessNone == Guess(None, NoRows)
<1>1. NoRows \in Table
  BY NoRowsType, Caps DEF Table
<1>2. NoRows[0] = 0 /\ \A a \in Age : NoRows[a] = 0
  BY AgeHasZero DEF NoRows
<1>3. Cells(NoRows) = {}
  <2>1. Cells(NoRows) = {p \in Age \X Nat : p[2] \in 1..NoRows[p[1]]}
    BY <1>1, TableCells
  <2>2. \A p \in Age \X Nat : 1..NoRows[p[1]] = {}
    BY <1>2
  <2>3. QED
    BY <2>1, <2>2
<1>4. QED
  BY <1>2, <1>3, FS_EmptySet DEF Guess

LEMMA CountedKey ==
    ASSUME NEW c \in Expiring
    PROVE  /\ c.attempts \in 0..Full /\ c.left \in 0..Window
           /\ c.attempts > 0 <=> c.left > 0
           /\ c = None <=> c.left = 0
           /\ Counted(c) # None
           /\ Counted(c).left = (IF c = None THEN Window ELSE c.left)
           /\ Counted(c).attempts = AtMost(c.attempts + 1, Full)
           /\ c = None => Counted(c).attempts = 1
<1>1. c \in Key /\ (c.attempts > 0 <=> c.left > 0)
  BY DEF Expiring
<1>2. c.attempts \in 0..Full /\ c.left \in 0..Window /\ c = [attempts |-> c.attempts, left |-> c.left]
  BY <1>1 DEF Key
<1>3. c = None <=> c.left = 0
  BY <1>1, <1>2, Caps DEF None
<1>4. Counted(c).left = (IF c = None THEN Window ELSE c.left)
      /\ Counted(c).attempts = AtMost(c.attempts + 1, Full)
  BY <1>3 DEF Counted
<1>5. Counted(c) # None
  BY <1>2, <1>3, <1>4 DEF None
<1>6. c = None => Counted(c).attempts = 1
  <2>1. c = None => c.attempts = 0
    BY DEF None
  <2>2. QED
    BY <1>4, <2>1, Caps DEF AtMost, Full
<1>7. QED
  BY <1>1, <1>2, <1>3, <1>4, <1>5, <1>6

\* An attempt is counted, and not let in.
LEMMA GuessCounted ==
    ASSUME NEW c \in Expiring, NEW rows \in Table, Guess(c, rows)
    PROVE  Guess(Counted(c), rows)
<1> DEFINE d == Counted(c)
           w == Window - d.left
<1>1. d # None
  BY CountedKey
<1>2. CASE c = None
  <2>1. w = 0 /\ d.attempts = 1
    BY <1>2, CountedKey
  <2>2. rows[0] = 0 /\ Cardinality(Cells(rows)) <= Limit
    BY <1>2 DEF Guess
  <2> HIDE DEF d, w
  <2>3. Young(rows, w) = {}
    BY <2>1, <2>2, NothingYoung
  <2>4. Older(rows, w) \subseteq Cells(rows)
    BY DEF Older
  <2>5. Cardinality(Young(rows, w)) = 0
    BY <2>3, FS_EmptySet
  <2>6. Cardinality(Older(rows, w)) <= Limit
    <3>1. IsFiniteSet(Cells(rows))
      BY TableCells
    <3>2. QED
      BY <2>2, <2>4, <3>1, PartBound
  <2>7. QED
    BY <1>1, <2>1, <2>5, <2>6 DEF Guess, AtMost, d, w
<1>3. CASE c # None
  <2>1. /\ Cardinality(Young(rows, w)) <= AtMost(c.attempts, Limit)
        /\ Cardinality(Older(rows, w)) <= Limit
    BY <1>3, CountedKey DEF Guess
  <2>2. AtMost(c.attempts, Limit) <= AtMost(d.attempts, Limit)
    BY CountedKey, Caps DEF AtMost, Full
  <2>3. Cardinality(Young(rows, w)) \in Nat
    BY TableCells
  <2>4. AtMost(c.attempts, Limit) \in Nat /\ AtMost(d.attempts, Limit) \in Nat
    BY CountedKey, Caps DEF AtMost, Full
  <2> HIDE DEF d, w
  <2>5. QED
    BY <1>1, <2>1, <2>2, <2>3, <2>4 DEF Guess, d, w
<1>4. QED
  BY <1>2, <1>3

\* An attempt is counted and let in: it is of the key there is now.
LEMMA GuessAdmitted ==
    ASSUME NEW c \in Expiring, NEW rows \in Table, Guess(c, rows), Admits(Counted(c))
    PROVE  Guess(Counted(c), Added(rows, MostAdmitted))
<1> DEFINE d == Counted(c)
           w == Window - d.left
           more == Added(rows, MostAdmitted)
<1>1. d # None /\ w \in Nat
  BY CountedKey
<1>2. more \in Table /\ Cells(more) \subseteq Cells(rows) \cup {<<0, rows[0] + 1>>}
  BY AddedTable
<1>3. /\ Young(more, w) \subseteq Young(rows, w) \cup {<<0, rows[0] + 1>>}
      /\ Older(more, w) \subseteq Older(rows, w)
  <2> HIDE DEF d, w, more
  <2>1. QED
    BY <1>1, <1>2 DEF Young, Older
<1>4. /\ IsFiniteSet(Young(rows, w)) /\ Cardinality(Young(rows, w)) \in Nat
      /\ IsFiniteSet(Older(rows, w)) /\ Cardinality(Older(rows, w)) \in Nat
  BY TableCells
<1>5. Cardinality(Young(more, w)) <= Cardinality(Young(rows, w)) + 1
  <2> HIDE DEF d, w, more
  <2>1. QED
    BY <1>3, <1>4, OneMoreBound
<1>6. Cardinality(Older(more, w)) <= Cardinality(Older(rows, w))
  <2> HIDE DEF d, w, more
  <2>1. QED
    BY <1>3, <1>4, PartBound
<1>7. d.attempts = c.attempts + 1 /\ d.attempts <= Limit /\ c.attempts \in Nat
  BY CountedKey, Caps DEF Admits, AtMost, Full
<1>8. Cardinality(Young(rows, w)) <= c.attempts /\ Cardinality(Older(rows, w)) <= Limit
  <2>1. Guess(d, rows)
    BY GuessCounted
  <2>2. CASE c = None
    <3>1. w = 0 /\ rows[0] = 0 /\ c.attempts = 0
      BY <2>2, CountedKey DEF Guess
    <3>2. Cardinality(Older(rows, w)) <= Limit
      BY <1>1, <2>1 DEF Guess
    <3> HIDE DEF d, w
    <3>3. Young(rows, w) = {}
      BY <3>1, NothingYoung
    <3>4. QED
      BY <3>1, <3>2, <3>3, FS_EmptySet
  <2>3. CASE c # None
    <3>1. /\ Cardinality(Young(rows, w)) <= AtMost(c.attempts, Limit)
          /\ Cardinality(Older(rows, w)) <= Limit
      BY <2>3, CountedKey DEF Guess
    <3>2. AtMost(c.attempts, Limit) = c.attempts
      BY <1>7 DEF AtMost
    <3>3. QED
      BY <3>1, <3>2
  <2>4. QED
    BY <2>2, <2>3
<1>9. /\ Cardinality(Young(more, w)) \in Nat /\ Cardinality(Older(more, w)) \in Nat
  BY <1>2, TableCells
<1>10. Cardinality(Young(more, w)) <= d.attempts /\ Cardinality(Older(more, w)) <= Limit
  <2> HIDE DEF d, w, more
  <2>1. QED
    BY <1>4, <1>5, <1>6, <1>7, <1>8, <1>9
<1>11. AtMost(d.attempts, Limit) = d.attempts
  BY <1>7 DEF AtMost
<1> HIDE DEF d, more
<1>12. QED
  BY <1>1, <1>10, <1>11 DEF Guess, d, more

\* A tick: every cell is a tick older.
LEMMA RowsAged ==
    ASSUME NEW most \in Nat, NEW rows \in [Age -> 0..most]
    PROVE  /\ Aged(rows) \in [Age -> 0..most]
           /\ Aged(rows)[0] = 0
           /\ Cells(Aged(rows)) \subseteq Nat \X Nat
           /\ \A p \in Cells(Aged(rows)) : <<p[1] - 1, p[2]>> \in Cells(rows)
<1>1. Aged(rows) \in [Age -> 0..most]
  BY RowTypes
<1>2. Aged(rows)[0] = 0 /\ \A a \in Age \ {0} : Aged(rows)[a] = rows[a - 1]
  BY AgeHasZero DEF Aged
<1>3. Cells(Aged(rows)) = {p \in Age \X Nat : p[2] \in 1..Aged(rows)[p[1]]}
  BY <1>1, RowsCells
<1>4. ASSUME NEW a \in Age, NEW i \in Nat, <<a, i>> \in Cells(Aged(rows))
      PROVE  <<a - 1, i>> \in Cells(rows)
  <2>1. i \in 1..Aged(rows)[a]
    BY <1>3, <1>4
  <2>2. a # 0
    BY <1>2, <2>1
  <2>3. a - 1 \in Age /\ i \in 1..rows[a - 1]
    BY <1>2, <2>1, <2>2, AgeHasZero
  <2>4. QED
    BY <2>3, RowsCells
<1>5. Cells(Aged(rows)) \subseteq Age \X Nat
  BY <1>3
<1>6. \A p \in Cells(Aged(rows)) : <<p[1] - 1, p[2]>> \in Cells(rows)
  BY <1>4, <1>5
<1>7. QED
  BY <1>1, <1>2, <1>5, <1>6, AgeHasZero

LEMMA AgedTable ==
    ASSUME NEW rows \in Table
    PROVE  /\ Aged(rows) \in Table
           /\ Aged(rows)[0] = 0
           /\ Cells(Aged(rows)) \subseteq Nat \X Nat
           /\ \A p \in Cells(Aged(rows)) : <<p[1] - 1, p[2]>> \in Cells(rows)
BY Caps, RowsAged DEF Table

\* The key is as much nearer its end.  When it ends, all that is not a window old
\* was let in under it.
LEMMA GuessTick ==
    ASSUME NEW c \in Expiring, NEW rows \in Table, Guess(c, rows)
    PROVE  Guess(IF c.left <= 1 THEN None ELSE [c EXCEPT !.left = @ - 1], Aged(rows))
<1> DEFINE next == Aged(rows)
<1>1. /\ next \in Table /\ next[0] = 0 /\ Cells(next) \subseteq Nat \X Nat
      /\ \A p \in Cells(next) : <<p[1] - 1, p[2]>> \in Cells(rows)
  BY AgedTable
<1>2. c.left \in 0..Window /\ c.attempts \in 0..Full /\ (c = None <=> c.left = 0)
  BY CountedKey
<1>3. IsFiniteSet(Cells(rows)) /\ Cardinality(Cells(rows)) \in Nat
      /\ Cardinality(Cells(next)) \in Nat
  BY <1>1, TableCells
<1> HIDE DEF next
<1>4. Cardinality(Cells(next)) <= Cardinality(Cells(rows))
  BY <1>1, <1>3, ShiftBound
<1>5. CASE c = None
  <2>1. Cardinality(Cells(rows)) <= Limit
    BY <1>5 DEF Guess
  <2>2. Cardinality(Cells(next)) <= Limit
    BY <1>3, <1>4, <2>1
  <2>3. c.left <= 1
    BY <1>2, <1>5
  <2>4. QED
    BY <1>1, <2>2, <2>3 DEF Guess, next
<1>6. CASE c # None /\ c.left <= 1
  <2>1. c.left = 1
    BY <1>2, <1>6
  <2>2. Cardinality(Young(rows, Window - 1)) <= AtMost(c.attempts, Limit)
    BY <1>6, <2>1 DEF Guess
  <2>3. Young(rows, Window - 1) = Cells(rows)
    <3>1. ASSUME NEW p \in Cells(rows) PROVE p[1] <= Window - 1
      <4>1. p[1] \in Age
        BY TableCells
      <4>2. QED
        BY <4>1 DEF Age
    <3>2. QED
      BY <3>1 DEF Young
  <2>4. AtMost(c.attempts, Limit) \in Nat /\ AtMost(c.attempts, Limit) <= Limit
    BY <1>2, Caps DEF AtMost, Full
  <2>5. Cardinality(Cells(next)) <= Limit
    BY <1>3, <1>4, <2>2, <2>3, <2>4
  <2>6. QED
    BY <1>1, <1>6, <2>5 DEF Guess, next
<1>7. CASE c # None /\ ~(c.left <= 1)
  <2> DEFINE d == [c EXCEPT !.left = @ - 1]
             w == Window - c.left
  <2>1. c \in Key
    BY DEF Expiring
  <2>2. d.left = c.left - 1 /\ d.attempts = c.attempts /\ d # None
    BY <1>2, <1>7, <2>1 DEF Key, None
  <2>3. w \in Nat /\ Window - d.left = w + 1
    BY <1>2, <2>2
  <2>4. /\ Cardinality(Young(rows, w)) <= AtMost(c.attempts, Limit)
        /\ Cardinality(Older(rows, w)) <= Limit
    BY <1>7 DEF Guess
  <2> HIDE DEF d, w
  <2>5. /\ IsFiniteSet(Young(rows, w)) /\ Cardinality(Young(rows, w)) \in Nat
        /\ IsFiniteSet(Older(rows, w)) /\ Cardinality(Older(rows, w)) \in Nat
        /\ Cardinality(Young(next, w + 1)) \in Nat
        /\ Cardinality(Older(next, w + 1)) \in Nat
    BY <1>1, TableCells
  <2>6. Cardinality(Young(next, w + 1)) <= Cardinality(Young(rows, w))
    <3>1. ASSUME NEW p \in Young(next, w + 1) PROVE <<p[1] - 1, p[2]>> \in Young(rows, w)
      <4>1. p \in Cells(next) /\ <<p[1] - 1, p[2]>> \in Cells(rows)
        BY <1>1 DEF Young
      <4>2. p[1] \in Nat
        BY <1>1, <4>1
      <4>3. QED
        BY <2>3, <4>1, <4>2 DEF Young
    <3>2. Young(next, w + 1) \subseteq Nat \X Nat
      BY <1>1 DEF Young
    <3>3. QED
      BY <2>5, <3>1, <3>2, ShiftBound
  <2>7. Cardinality(Older(next, w + 1)) <= Cardinality(Older(rows, w))
    <3>1. ASSUME NEW p \in Older(next, w + 1) PROVE <<p[1] - 1, p[2]>> \in Older(rows, w)
      <4>1. p \in Cells(next) /\ <<p[1] - 1, p[2]>> \in Cells(rows)
        BY <1>1 DEF Older
      <4>2. p[1] \in Nat
        BY <1>1, <4>1
      <4>3. QED
        BY <2>3, <4>1, <4>2 DEF Older
    <3>2. Older(next, w + 1) \subseteq Nat \X Nat
      BY <1>1 DEF Older
    <3>3. QED
      BY <2>5, <3>1, <3>2, ShiftBound
  <2>8. AtMost(c.attempts, Limit) \in Nat
    BY <1>2, Caps DEF AtMost, Full
  <2>9. Guess(d, next)
    <3>1. Cardinality(Young(next, w + 1)) <= AtMost(d.attempts, Limit)
      BY <2>2, <2>4, <2>5, <2>6, <2>8
    <3>2. Cardinality(Older(next, w + 1)) <= Limit
      BY <2>4, <2>5, <2>7
    <3>3. QED
      BY <2>2, <2>3, <3>1, <3>2 DEF Guess
  <2>10. QED
    BY <1>7, <2>9 DEF d, next
<1>8. QED
  BY <1>5, <1>6, <1>7

\* Before the key and under it, each within the limit.
LEMMA GuessBound ==
    ASSUME NEW c \in Expiring, NEW rows \in Table, Guess(c, rows)
    PROVE  SumFunction(rows) <= 2 * Limit
<1> DEFINE w == Window - c.left
<1>1. SumFunction(rows) = Cardinality(Cells(rows))
  BY TableCells
<1>2. c.attempts \in 0..Full /\ c.left \in 0..Window
  BY CountedKey
<1>3. CASE c = None
  BY <1>1, <1>3, TableCells DEF Guess
<1>4. CASE c # None
  <2>1. /\ Cardinality(Young(rows, w)) <= AtMost(c.attempts, Limit)
        /\ Cardinality(Older(rows, w)) <= Limit
    BY <1>4 DEF Guess
  <2>2. w \in Int
    BY <1>2
  <2> HIDE DEF w
  <2>3. /\ IsFiniteSet(Young(rows, w)) /\ Cardinality(Young(rows, w)) \in Nat
        /\ IsFiniteSet(Older(rows, w)) /\ Cardinality(Older(rows, w)) \in Nat
    BY TableCells
  <2>4. Cells(rows) = Young(rows, w) \cup Older(rows, w)
        /\ Young(rows, w) \cap Older(rows, w) = {}
    <3>1. \A p \in Cells(rows) : p[1] \in Nat
      <4>1. Cells(rows) = {p \in Age \X Nat : p[2] \in 1..rows[p[1]]}
        BY TableCells
      <4>2. Age \subseteq Nat
        BY AgeHasZero
      <4> QED
        BY <4>1, <4>2
    <3>2. QED
      BY <2>2, <3>1 DEF Young, Older
  <2>5. Cardinality(Cells(rows)) = Cardinality(Young(rows, w)) + Cardinality(Older(rows, w))
    BY <2>3, <2>4, FS_Union, FS_EmptySet
  <2>6. AtMost(c.attempts, Limit) \in Nat /\ AtMost(c.attempts, Limit) <= Limit
    BY <1>2, Caps DEF AtMost, Full
  <2>7. QED
    BY <1>1, <2>1, <2>3, <2>5, <2>6
<1>5. QED
  BY <1>3, <1>4

LEMMA GuessStep ==
    ASSUME GuessInv, [LoginNext]_loginVars
    PROVE  GuessInv'
<1> DEFINE Kept == \A n \in Name : Guess(counter'[n], admitted'[n])
<1>0. LoginInv /\ LoginInv'
  BY LoginInvNext DEF GuessInv
<1> SUFFICES Kept
  BY <1>0 DEF GuessInv
<1>1. \A n \in Name : counter[n] \in Expiring /\ admitted[n] \in Table /\ Guess(counter[n], admitted[n])
  BY <1>0 DEF GuessInv, LoginInv, Rows, Table
<1>2. ASSUME UNCHANGED <<counter, admitted>> PROVE Kept
  BY <1>1, <1>2
<1>3. ASSUME NEW m \in Name, counter' = [counter EXCEPT ![m] = Counted(@)], UNCHANGED admitted
      PROVE  Kept
  <2>1. \A n \in Name : counter'[n] = IF n = m THEN Counted(counter[n]) ELSE counter[n]
    BY <1>0, <1>3 DEF LoginInv
  <2>2. QED
    BY <1>1, <1>3, <2>1, GuessCounted
<1>4. ASSUME NEW r \in Request, NEW s \in Spelling, Increment(r, s) PROVE Kept
  <2>1. PICK m \in Name : m = Folded[s]
    OBVIOUS
  <2>2. counter' = [counter EXCEPT ![m] = Counted(@)]
    BY <1>4, <2>1 DEF Increment
  <2>3. CASE Admits(Counted(counter[m]))
    <3>1. admitted' = [admitted EXCEPT ![m] = Added(@, MostAdmitted)]
      BY <1>4, <2>1, <2>3 DEF Increment
    <3>2. \A n \in Name : /\ counter'[n] = IF n = m THEN Counted(counter[n]) ELSE counter[n]
                          /\ admitted'[n] = IF n = m THEN Added(admitted[n], MostAdmitted)
                                            ELSE admitted[n]
      BY <1>0, <2>2, <3>1 DEF LoginInv, Rows
    <3>3. QED
      BY <1>1, <2>3, <3>2, GuessAdmitted
  <2>4. CASE ~Admits(Counted(counter[m]))
    <3>1. UNCHANGED admitted
      BY <1>4, <2>1, <2>4 DEF Increment
    <3>2. QED
      BY <1>3, <2>2, <3>1
  <2>5. QED
    BY <2>3, <2>4
<1>5. ASSUME NEW r \in Request, NEW s \in Spelling, IncrementFails(r, s) PROVE Kept
  <2>1. PICK m \in Name : m = Folded[s]
    OBVIOUS
  <2>2. UNCHANGED admitted /\ (UNCHANGED counter \/ counter' = [counter EXCEPT ![m] = Counted(@)])
    BY <1>5, <2>1 DEF IncrementFails
  <2>3. QED
    BY <1>2, <1>3, <2>2
<1>6. ASSUME NEW r \in Request, ClearRateLimit(r) PROVE Kept
  <2>1. PICK m \in Name : m = Folded[req[r].as]
    BY <1>0, <1>6, Compares DEF ClearRateLimit, LoginInv
  <2>2. CASE r \in cached
    <3>1. counter' = [counter EXCEPT ![m] = None] /\ admitted' = [admitted EXCEPT ![m] = NoRows]
      BY <1>6, <2>1, <2>2 DEF ClearRateLimit
    <3>2. \A n \in Name : /\ counter'[n] = IF n = m THEN None ELSE counter[n]
                          /\ admitted'[n] = IF n = m THEN NoRows ELSE admitted[n]
      BY <1>0, <3>1 DEF LoginInv, Rows
    <3>3. QED
      BY <1>1, <3>2, GuessNone
  <2>3. CASE r \notin cached
    BY <1>2, <1>6, <2>3 DEF ClearRateLimit
  <2>4. QED
    BY <2>2, <2>3
<1>7. CASE LoginTick
  <2>1. \A n \in Name :
            /\ counter'[n] = Ticked(counter[n])
            /\ admitted'[n] = Aged(admitted[n])
    BY <1>7 DEF LoginTick
  <2>2. ASSUME NEW n \in Name PROVE Guess(counter'[n], admitted'[n])
    <3>1. PICK c \in Expiring, rows \in Table : c = counter[n] /\ rows = admitted[n]
      BY <1>1
    <3>2. Guess(c, rows)
      BY <1>1, <3>1
    <3>3. Guess(Ticked(c), Aged(rows))
      BY <3>2, GuessTick, TickedKey
    <3>4. QED
      BY <2>1, <3>1, <3>3
  <2>3. QED
    BY <2>2
<1>8. ASSUME NEW r \in Request,
             \/ \E s \in Spelling : CountFailures(r, s) \/ CountFails(r, s)
             \/ RecordFailure(r) \/ Stop(r)
      PROVE  Kept
  BY <1>2, <1>8 DEF CountFailures, CountFails, RecordFailure, Stop
<1>9. CASE UNCHANGED loginVars
  BY <1>2, <1>9 DEF loginVars
<1>10. QED
  BY <1>4, <1>5, <1>6, <1>7, <1>8, <1>9 DEF LoginNext

\* Without a success no more than twice the limit is let in by the counter within
\* any span as long as the window, whatever the limit and the window: the key's
\* expiry is set once, with its first attempt (redis.go, Increment).
THEOREM GuessesStayBounded == LoginSpec => []GuessesAreBounded
<1>1. LoginInit => GuessInv
  BY LoginInvInit, GuessNone DEF LoginInit, GuessInv
<1>2. GuessInv /\ [LoginNext]_loginVars => GuessInv'
  BY GuessStep
<1>3. GuessInv => GuessesAreBounded
  BY GuessBound DEF GuessInv, GuessesAreBounded, LoginInv, Rows, Table
<1>4. QED
  BY <1>1, <1>2, <1>3, PTL DEF LoginSpec

-----------------------------------------------------------------------------
(* The fallback overshoots by requests                                     *)

\* A failure recorded is one row more, and a tick makes none.
LEMMA FailuresAdded ==
    ASSUME NEW rows \in [Age -> 0..MostRows]
    PROVE  /\ SumFunction(rows) \in Nat /\ SumFunction(Added(rows, MostRows)) \in Nat
           /\ SumFunction(Added(rows, MostRows)) <= SumFunction(rows) + 1
<1> DEFINE more == Added(rows, MostRows)
<1>1. more \in [Age -> 0..MostRows] /\ Cells(more) \subseteq Cells(rows) \cup {<<0, rows[0] + 1>>}
  BY Caps, RowsAdded
<1> HIDE DEF more
<1>2. /\ SumFunction(rows) = Cardinality(Cells(rows)) /\ IsFiniteSet(Cells(rows))
      /\ SumFunction(more) = Cardinality(Cells(more))
      /\ Cardinality(Cells(rows)) \in Nat /\ Cardinality(Cells(more)) \in Nat
  BY <1>1, Caps, RowsCells
<1>3. Cardinality(Cells(more)) <= Cardinality(Cells(rows)) + 1
  BY <1>1, <1>2, OneMoreBound
<1>4. QED
  BY <1>2, <1>3 DEF more

LEMMA FailuresAged ==
    ASSUME NEW rows \in [Age -> 0..MostRows]
    PROVE  /\ SumFunction(rows) \in Nat /\ SumFunction(Aged(rows)) \in Nat
           /\ SumFunction(Aged(rows)) <= SumFunction(rows)
<1> DEFINE next == Aged(rows)
<1>1. /\ next \in [Age -> 0..MostRows] /\ Cells(next) \subseteq Nat \X Nat
      /\ \A p \in Cells(next) : <<p[1] - 1, p[2]>> \in Cells(rows)
  BY Caps, RowsAged
<1> HIDE DEF next
<1>2. /\ SumFunction(rows) = Cardinality(Cells(rows)) /\ IsFiniteSet(Cells(rows))
      /\ SumFunction(next) = Cardinality(Cells(next))
      /\ Cardinality(Cells(rows)) \in Nat /\ Cardinality(Cells(next)) \in Nat
  BY <1>1, Caps, RowsCells
<1>3. Cardinality(Cells(next)) <= Cardinality(Cells(rows))
  BY <1>1, <1>2, ShiftBound
<1>4. QED
  BY <1>2, <1>3 DEF next

\* Those that were let through by the log and have not compared yet.
Comparing(s) == {r \in Request : At(r, "compare") /\ req[r].as = s}

LEMMA ComparingType ==
    ASSUME NEW s
    PROVE  /\ IsFiniteSet(Comparing(s)) /\ Cardinality(Comparing(s)) \in Nat
           /\ Cardinality(Comparing(s)) <= Cardinality(Request)
           /\ Cardinality(Request) \in Nat
<1>1. Comparing(s) \in SUBSET Request
  BY DEF Comparing
<1>2. QED
  BY <1>1, FS_Subset, FS_CardinalityType

FallbackInv == LoginInv /\ FallbackOvershootsByRequests

LEMMA FallbackStep ==
    ASSUME FallbackInv, [LoginNext]_loginVars
    PROVE  FallbackInv'
<1>0. LoginInv /\ LoginInv'
  BY LoginInvNext DEF FallbackInv
<1> SUFFICES ASSUME cached' = {}, failedCalls' = 0, NEW s \in Spelling
             PROVE  SumFunction(failures'[s]) + Cardinality(Comparing(s)') <
                        Limit + Cardinality(Request)
  BY <1>0 DEF FallbackInv, FallbackOvershootsByRequests, CountRecentFailures, Comparing
<1>1. cached = {}
  BY DEF LoginNext, Increment, IncrementFails, CountFailures, CountFails, RecordFailure,
         ClearRateLimit, Stop, LoginTick, loginVars
<1>2. failedCalls = 0 /\ ~Fault
  <2>1. failedCalls \in Nat /\ failedCalls' \in Nat
    BY <1>0 DEF LoginInv
  <2>2. Fault => failedCalls' = failedCalls + 1
    BY DEF Fault
  <2>3. ~Fault
    BY <2>1, <2>2
  <2>4. UNCHANGED failedCalls
    BY <2>3 DEF LoginNext, Increment, IncrementFails, CountFailures, CountFails, RecordFailure,
         ClearRateLimit, Stop, LoginTick, loginVars
  <2>5. QED
    BY <2>3, <2>4
<1>3. SumFunction(failures[s]) + Cardinality(Comparing(s)) < Limit + Cardinality(Request)
  BY <1>1, <1>2 DEF FallbackInv, FallbackOvershootsByRequests, CountRecentFailures, Comparing
<1>4. /\ IsFiniteSet(Comparing(s)) /\ Cardinality(Comparing(s)) \in Nat
      /\ Cardinality(Comparing(s)) <= Cardinality(Request)
      /\ Cardinality(Request) \in Nat
  BY ComparingType
<1>5. /\ failures[s] \in [Age -> 0..MostRows]
      /\ SumFunction(failures[s]) \in Nat
  BY <1>0, FailuresAdded DEF LoginInv, Rows
<1>6. /\ Cardinality(Comparing(s)') \in Nat
      /\ Cardinality(Comparing(s)') <= Cardinality(Request)
  <2>1. Comparing(s)' \in SUBSET Request
    BY DEF Comparing
  <2>2. QED
    BY <2>1, FS_Subset, FS_CardinalityType
<1>7. ASSUME Comparing(s)' \subseteq Comparing(s), UNCHANGED failures
      PROVE  SumFunction(failures'[s]) + Cardinality(Comparing(s)') < Limit + Cardinality(Request)
  <2>1. Cardinality(Comparing(s)') <= Cardinality(Comparing(s))
    BY <1>4, <1>7, PartBound
  <2>2. QED
    BY <1>3, <1>4, <1>5, <1>6, <1>7, <2>1
<1>8. ASSUME NEW r \in Request, Finish(r), At(r, "compare")
      PROVE  Comparing(s)' = Comparing(s) \ {r}
  <2>1. req'[r] = Idle /\ \A q \in Request \ {r} : req'[q] = req[q]
    BY <1>0, <1>8 DEF Finish, LoginInv, Requests
  <2>2. QED
    BY <2>1 DEF Comparing, At, Idle
<1>9. ASSUME NEW r \in Request, NEW q \in Spelling, CountFailures(r, q)
      PROVE  SumFunction(failures'[s]) + Cardinality(Comparing(s)') < Limit + Cardinality(Request)
  <2>1. UNCHANGED failures /\ ~At(r, "compare")
    BY <1>9 DEF CountFailures, FallsBack, At
  <2>2. CASE q = s /\ ~(SumFunction(failures[s]) >= Limit)
    BY <1>4, <1>5, <1>6, <2>1, <2>2
  <2>3. CASE ~ (q = s /\ ~(SumFunction(failures[s]) >= Limit))
    <3>1. Finish(r) \/ (q # s /\ Step(r, "compare", q))
      BY <1>9, <2>3 DEF CountFailures, CountRecentFailures
    <3>2. /\ req'[r] = Idle \/ (q # s /\ req'[r] = [pc |-> "compare", as |-> q])
          /\ \A p \in Request \ {r} : req'[p] = req[p]
      BY <1>0, <3>1 DEF Finish, Step, LoginInv, Requests
    <3>3. Comparing(s)' \subseteq Comparing(s)
      BY <3>2 DEF Comparing, At, Idle
    <3>4. QED
      BY <1>7, <2>1, <3>3
  <2>4. QED
    BY <2>2, <2>3
<1>10. ASSUME NEW r \in Request, RecordFailure(r)
       PROVE  SumFunction(failures'[s]) + Cardinality(Comparing(s)') < Limit + Cardinality(Request)
  <2>1. Finish(r) /\ At(r, "compare") /\ req[r].as \in Spelling
        /\ failures' = [failures EXCEPT ![req[r].as] = Added(@, MostRows)]
    BY <1>0, <1>10, Compares DEF RecordFailure, LoginInv
  <2>2. Comparing(s)' = Comparing(s) \ {r}
    BY <1>8, <2>1
  <2>3. CASE req[r].as = s
    <3>1. r \in Comparing(s)
      BY <2>1, <2>3 DEF Comparing
    <3>2. Cardinality(Comparing(s)') = Cardinality(Comparing(s)) - 1
      BY <1>4, <2>2, <3>1, FS_RemoveElement
    <3>3. failures'[s] = Added(failures[s], MostRows)
      BY <1>0, <2>1, <2>3 DEF LoginInv, Rows
    <3>4. /\ SumFunction(failures'[s]) \in Nat
          /\ SumFunction(failures'[s]) <= SumFunction(failures[s]) + 1
      BY <1>5, <3>3, FailuresAdded
    <3>5. QED
      BY <1>3, <1>4, <1>5, <3>2, <3>4
  <2>4. CASE req[r].as # s
    <3>1. failures'[s] = failures[s]
      BY <2>1, <2>4
    <3>2. Cardinality(Comparing(s)') <= Cardinality(Comparing(s))
      BY <1>4, <2>2, PartBound
    <3>3. QED
      BY <1>3, <1>4, <1>5, <1>6, <3>1, <3>2
  <2>5. QED
    BY <2>3, <2>4
<1>11. ASSUME NEW r \in Request, ClearRateLimit(r)
       PROVE  SumFunction(failures'[s]) + Cardinality(Comparing(s)') < Limit + Cardinality(Request)
  BY <1>7, <1>8, <1>11 DEF ClearRateLimit
<1>12. CASE LoginTick
  <2>1. failures'[s] = Aged(failures[s]) /\ UNCHANGED req
    BY <1>12 DEF LoginTick
  <2>2. SumFunction(failures'[s]) \in Nat /\ SumFunction(failures'[s]) <= SumFunction(failures[s])
    BY <1>5, <2>1, FailuresAged
  <2>3. Comparing(s)' = Comparing(s)
    BY <2>1 DEF Comparing, At
  <2>4. QED
    BY <1>3, <1>4, <1>5, <2>2, <2>3
<1>13. CASE UNCHANGED loginVars
  <2>1. Comparing(s)' = Comparing(s) /\ UNCHANGED failures
    BY <1>13 DEF loginVars, Comparing, At
  <2>2. QED
    BY <1>7, <2>1
<1>14. \A r \in Request, q \in Spelling :
           ~Increment(r, q) /\ ~IncrementFails(r, q) /\ ~CountFails(r, q) /\ ~Stop(r)
  BY <1>1, <1>2 DEF Increment, IncrementFails, CountFails, Stop
<1>15. QED
  BY <1>9, <1>10, <1>11, <1>12, <1>13, <1>14 DEF LoginNext

\* Where no instance has Redis, the failures recorded within a window go over the
\* limit by no more than the requests there are: the log is read before the password
\* is compared and written after.
THEOREM FallbackOvershootIsBounded == LoginSpec => []FallbackOvershootsByRequests
<1>1. LoginInit => FallbackInv
  <2>1. ASSUME LoginInit, NEW s \in Spelling
        PROVE  SumFunction(failures[s]) + Cardinality(Comparing(s)) < Limit + Cardinality(Request)
    <3>1. failures[s] = NoRows /\ Comparing(s) = {}
      BY <2>1 DEF LoginInit, Comparing, At, Idle
    <3>2. SumFunction(NoRows) = 0
      <4>1. NoRows \in [Age -> 0..MostRows] /\ \A a \in Age : NoRows[a] = 0
        BY NoRowsType, Caps DEF NoRows
      <4>2. SumFunction(NoRows) = Cardinality(Cells(NoRows))
            /\ Cells(NoRows) = {p \in Age \X Nat : p[2] \in 1..NoRows[p[1]]}
        BY <4>1, Caps, RowsCells
      <4>3. \A p \in Age \X Nat : 1..NoRows[p[1]] = {}
        BY <4>1
      <4>4. Cells(NoRows) = {}
        BY <4>2, <4>3
      <4>5. QED
        BY <4>2, <4>4, FS_EmptySet
    <3>3. QED
      BY <3>1, <3>2, FS_EmptySet, FS_CardinalityType
  <2>2. QED
    BY <2>1, LoginInvInit
       DEF FallbackInv, FallbackOvershootsByRequests, CountRecentFailures, Comparing
<1>2. FallbackInv /\ [LoginNext]_loginVars => FallbackInv'
  BY FallbackStep
<1>3. FallbackInv => FallbackOvershootsByRequests
  BY DEF FallbackInv
<1>4. QED
  BY <1>1, <1>2, <1>3, PTL DEF LoginSpec
=============================================================================
