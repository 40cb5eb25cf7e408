-------------------------- MODULE CompaniesProofs --------------------------
(***************************************************************************)
(* Theorems about Companies and Forwarding, for every set of companies,    *)
(* people, tax numbers, links and transactions.                            *)
(***************************************************************************)
EXTENDS Companies, FiniteSetTheorems, TLAPS

-----------------------------------------------------------------------------
(* Type correctness                                                        *)

Table == companies \in [Company -> CompanyRow]
People == users \in [User -> [state : {"none", "live", "deleted"},
                              company : Company \cup {NoCompany}]]
Locks == lock \in [Company -> Request \cup {NoRequest}]
Transactions == req \in [Request -> Pending \cup {Idle}]
Pairs == links \subseteq Company \X Company
Histories == /\ claims \subseteq Link \X User
             /\ dealt \subseteq Company \X Company
             /\ drifted \subseteq Company \X Company
             /\ crowded \subseteq Company

LEMMA TypeParts == TypeOK <=> Table /\ People /\ Locks /\ Transactions /\ Pairs /\ Histories
BY DEF TypeOK, Table, People, Locks, Transactions, Pairs, Histories

LEMMA TypePartsNext ==
    TypeOK' <=> Table' /\ People' /\ Locks' /\ Transactions' /\ Pairs' /\ Histories'
BY DEF TypeOK, Table, People, Locks, Transactions, Pairs, Histories

\* What a transaction under way holds, by what it is about to do.
LEMMA UnderWay ==
    ASSUME TypeOK, NEW r \in Request
    PROVE  /\ req[r].pc \in {"insert", "issue"} => req[r] \in Creating
           /\ req[r].pc \in {"link", "second", "move"} => req[r] \in Pairing
           /\ req[r].pc = "search" => req[r] \in Searching
           /\ req[r].pc \in {"count", "copy", "clear", "fold"} => req[r] \in Folding
           /\ req[r].pc = "settle" => req[r] \in Settling
           /\ req[r].pc = "adopt" => req[r] \in Adopting
BY DEF TypeOK, Idle, Pending, Tx, Creating, Pairing, Searching, Folding, Settling, Adopting

LEMMA BeginType ==
    ASSUME NEW c \in Company, NEW step
    PROVE  Begin(step, c) = [pc |-> step, c |-> c, d |-> NoCompany, n |-> NoTaxNo,
                             link |-> NoLink, user |-> NoUser, moved |-> {}, cleared |-> {}]
BY DEF Begin

\* The rows that match a tax number, the dealers of a company and the pairs
\* resting on one are what their types say.
LEMMA SetTypes ==
    ASSUME TypeOK
    PROVE  /\ \A n : Holders(n) \subseteq Company
           /\ \A c : Dealers(c) \subseteq Company
           /\ \A D : Resting(D) \subseteq Company \X Company
BY DEF TypeOK, Holders, Dealers, Resting

\* A commit or a rollback leaves transactions and locks well typed.
LEMMA ReturnType ==
    ASSUME TypeOK, NEW r \in Request, Return(r)
    PROVE  Transactions' /\ Locks'
BY DEF TypeOK, Return, Transactions, Locks

LEMMA AcquireType ==
    ASSUME TypeOK, NEW r \in Request, NEW S, Acquire(r, S)
    PROVE  Locks'
BY DEF TypeOK, Acquire, Locks

\* A transaction that moves on with a record of its type leaves all well typed.
LEMMA MoveType ==
    ASSUME TypeOK, NEW r \in Request, NEW q \in Pending, req' = [req EXCEPT ![r] = q]
    PROVE  Transactions'
BY DEF TypeOK, Transactions

LEMMA NextType == ASSUME TypeOK, [Next]_vars PROVE TypeOK'
<1> USE TypeParts, TypePartsNext
<1> USE DEF Tx
<1>1. ASSUME NEW r \in Request, NEW t \in Company, NEW n \in TaxNo \cup {NoTaxNo},
             LookUpTaxNo(r, t, n)
      PROVE  TypeOK'
  <2>1. [Begin("insert", t) EXCEPT !.n = n] \in Creating
    BY DEF Begin, Creating
  <2>2. \A d \in Holders(n) : [Begin("link", t) EXCEPT !.d = d] \in Pairing
    BY SetTypes DEF Begin, Pairing
  <2>3. Transactions'
    BY <1>1, <2>1, <2>2 DEF LookUpTaxNo, Transactions, Pending
  <2>4. QED
    BY <1>1, <2>3 DEF LookUpTaxNo, histories, Table, People, Locks, Pairs, Histories
<1>2. ASSUME NEW r \in Request, NEW d \in Company, InsertShipper(r, d) PROVE TypeOK'
  <2>1. req[r] \in Creating
    BY <1>2, UnderWay DEF InsertShipper, At
  <2>2. <<req[r].c, d>> \in Company \X Company
    BY <2>1 DEF Creating
  <2>3. [Absent EXCEPT !.exists = TRUE, !.npwp = req[r].n] \in CompanyRow
    BY <2>1 DEF Creating, Absent, CompanyRow
  <2>4. Transactions' /\ Locks'
    BY <1>2, ReturnType DEF InsertShipper
  <2>5. Table'
    BY <1>2, <2>3 DEF InsertShipper, Table
  <2>6. Pairs' /\ Histories'
    BY <1>2, <2>2 DEF InsertShipper, Pairs, Histories
  <2>7. QED
    BY <1>2, <2>4, <2>5, <2>6 DEF InsertShipper, People
<1>3. ASSUME NEW r \in Request, LinkExisting(r) PROVE TypeOK'
  <2>1. req[r] \in Pairing
    BY <1>3, UnderWay DEF LinkExisting, At
  <2>2. <<req[r].c, req[r].d>> \in Company \X Company
    BY <2>1 DEF Pairing
  <2>3. Transactions' /\ Locks'
    BY <1>3, ReturnType DEF LinkExisting
  <2>4. Pairs' /\ Histories'
    BY <1>3, <2>2 DEF LinkExisting, Pairs, Histories
  <2>5. QED
    BY <1>3, <2>3, <2>4 DEF LinkExisting, Table, People
<1>4. ASSUME NEW r \in Request, NEW c \in Company, CountBeforeIssue(r, c) PROVE TypeOK'
  <2>1. Begin("issue", c) \in Creating
    BY DEF Begin, Creating
  <2>2. Transactions'
    BY <1>4, <2>1, MoveType DEF CountBeforeIssue, Pending
  <2>3. QED
    BY <1>4, <2>2 DEF CountBeforeIssue, histories, Table, People, Locks, Pairs, Histories
<1>5. ASSUME NEW r \in Request, NEW k \in Link, IssueLink(r, k) PROVE TypeOK'
  <2>1. req[r] \in Creating
    BY <1>5, UnderWay DEF IssueLink, At
  <2>2. [companies[req[r].c] EXCEPT !.link = k] \in CompanyRow
    BY <2>1 DEF Creating, Table, CompanyRow
  <2>3. Table'
    BY <1>5, <2>2 DEF IssueLink, Table
  <2>4. Transactions' /\ Locks'
    BY <1>5, ReturnType DEF IssueLink
  <2>5. QED
    BY <1>5, <2>3, <2>4 DEF IssueLink, histories, People, Pairs, Histories
<1>6. ASSUME NEW r \in Request, NEW c \in Company, NEW n \in TaxNo, ClaimLock(r, c, n)
      PROVE  TypeOK'
  <2>1. companies[c].link \in Link
    BY <1>6 DEF ClaimLock, Table, CompanyRow
  <2>2. [Begin("search", c) EXCEPT !.link = companies[c].link, !.n = n] \in Searching
    BY <2>1 DEF Begin, Searching
  <2>3. Transactions' /\ Locks'
    BY <1>6, <2>2, AcquireType, MoveType DEF ClaimLock, Pending
  <2>4. QED
    BY <1>6, <2>3 DEF ClaimLock, histories, Table, People, Pairs, Histories
<1>7. ASSUME NEW r \in Request, FindDuplicate(r) PROVE TypeOK'
  <2>1. req[r] \in Searching
    BY <1>7, UnderWay DEF FindDuplicate, At
  <2>2. CASE Goto(r, "settle") /\ UNCHANGED lock
    <3> DEFINE q == [req[r] EXCEPT !.pc = "settle"]
    <3>1. q \in Settling
      BY <2>1 DEF Searching, Settling
    <3>2. req' = [req EXCEPT ![r] = q]
      BY <2>2 DEF Goto
    <3> HIDE DEF q
    <3>3. q \in Pending
      BY <3>1 DEF Pending
    <3>4. Transactions'
      BY <3>2, <3>3, MoveType
    <3>5. QED
      BY <1>7, <2>2, <3>4 DEF FindDuplicate, histories, Table, People, Locks, Pairs, Histories
  <2>4. ASSUME NEW d \in Holders(req[r].n), UNCHANGED lock,
               req' = [req EXCEPT ![r].pc = "count", ![r].d = d]
        PROVE  TypeOK'
    <3> DEFINE q == [req[r] EXCEPT !.pc = "count", !.d = d]
    <3>1. q \in Folding
      BY <2>1, SetTypes DEF Searching, Folding
    <3>2. req' = [req EXCEPT ![r] = q]
      BY <2>4
    <3> HIDE DEF q
    <3>3. q \in Pending
      BY <3>1 DEF Pending
    <3>4. Transactions'
      BY <3>2, <3>3, MoveType
    <3>5. QED
      BY <1>7, <2>4, <3>4 DEF FindDuplicate, histories, Table, People, Locks, Pairs, Histories
  <2>5. QED
    BY <1>7, <2>2, <2>4 DEF FindDuplicate
<1>7a. ASSUME NEW r \in Request, CountDuplicate(r) PROVE TypeOK'
  <2>1. req[r] \in Folding
    BY <1>7a, UnderWay DEF CountDuplicate, At
  <2>2. CASE Return(r)
    BY <1>7a, <2>2, ReturnType DEF CountDuplicate, histories, Table, People, Pairs, Histories
  <2>3. CASE Goto(r, "copy") /\ UNCHANGED lock
    <3> DEFINE q == [req[r] EXCEPT !.pc = "copy"]
    <3>1. q \in Folding
      BY <2>1 DEF Folding
    <3>2. req' = [req EXCEPT ![r] = q]
      BY <2>3 DEF Goto
    <3> HIDE DEF q
    <3>3. q \in Pending
      BY <3>1 DEF Pending
    <3>4. Transactions'
      BY <3>2, <3>3, MoveType
    <3>5. QED
      BY <1>7a, <2>3, <3>4 DEF CountDuplicate, histories, Table, People, Locks, Pairs, Histories
  <2>4. QED
    BY <1>7a, <2>2, <2>3 DEF CountDuplicate
<1>8. ASSUME NEW r \in Request, CopyLinks(r) PROVE TypeOK'
  <2>1. req[r] \in Folding
    BY <1>8, UnderWay DEF CopyLinks, At
  <2> DEFINE q == [req[r] EXCEPT !.pc = "clear", !.moved = Dealers(req[r].d)]
  <2>2. q \in Folding
    BY <2>1, SetTypes DEF Folding
  <2>3. req' = [req EXCEPT ![r] = q]
    BY <1>8 DEF CopyLinks
  <2> HIDE DEF q
  <2>4. q \in Pending
    BY <2>2 DEF Pending
  <2>5. Transactions'
    BY <2>3, <2>4, MoveType
  <2>6. QED
    BY <1>8, <2>5 DEF CopyLinks, histories, Table, People, Locks, Pairs, Histories
<1>9. ASSUME NEW r \in Request, ClearLinks(r) PROVE TypeOK'
  <2>1. req[r] \in Folding
    BY <1>9, UnderWay DEF ClearLinks, At
  <2> DEFINE q == [req[r] EXCEPT !.pc = "fold", !.cleared = Dealers(req[r].d)]
  <2>2. q \in Folding
    BY <2>1, SetTypes DEF Folding
  <2>3. req' = [req EXCEPT ![r] = q]
    BY <1>9 DEF ClearLinks
  <2> HIDE DEF q
  <2>4. q \in Pending
    BY <2>2 DEF Pending
  <2>5. Transactions'
    BY <2>3, <2>4, MoveType
  <2>6. QED
    BY <1>9, <2>5 DEF ClearLinks, histories, Table, People, Locks, Pairs, Histories
<1>10. ASSUME NEW r \in Request, LockDuplicate(r) PROVE TypeOK'
  <2>1. req[r] \in Folding
    BY <1>10, UnderWay DEF LockDuplicate, At
  <2>2. [req[r] EXCEPT !.pc = "settle"] \in Settling
    BY <2>1 DEF Folding, Settling
  <2>3. Transactions' /\ Locks'
    BY <1>10, <2>2, MoveType, AcquireType DEF LockDuplicate, Goto, Pending
  <2>4. QED
    BY <1>10, <2>3 DEF LockDuplicate, histories, Table, People, Pairs, Histories
<1>11. ASSUME NEW r \in Request, NEW u \in User, Settle(r, u) PROVE TypeOK'
  <2>1. req[r] \in Settling
    BY <1>11, UnderWay DEF Settle, At
  <2>2. Transactions' /\ Locks'
    BY <1>11, ReturnType DEF Settle
  <2>3. CASE Holders(req[r].n) \ {req[r].c, req[r].d} # {}
    BY <1>11, <2>2, <2>3 DEF Settle, Table, People, Pairs, Histories
  <2>4. CASE Holders(req[r].n) \ {req[r].c, req[r].d} = {}
    <3>1. \A c \in Company :
            /\ [companies[c] EXCEPT !.npwp = req[r].n, !.link = NoLink] \in CompanyRow
            /\ [companies[c] EXCEPT !.npwp = NoTaxNo, !.into = req[r].c] \in CompanyRow
      <4>1. req[r].n \in TaxNo \cup {NoTaxNo} /\ req[r].c \in Company
        BY <2>1 DEF Settling
      <4>2. \A c \in Company : companies[c] \in CompanyRow
        BY DEF Table
      <4>3. QED
        BY <4>1, <4>2 DEF CompanyRow
    <3>2. companies' = [c \in Company |->
             CASE c = req[r].c -> [companies[c] EXCEPT !.npwp = req[r].n, !.link = NoLink]
               [] c = req[r].d -> [companies[c] EXCEPT !.npwp = NoTaxNo, !.into = req[r].c]
               [] OTHER -> companies[c]]
      BY <1>11, <2>4 DEF Settle
    <3>3. Table'
      BY <3>1, <3>2 DEF Table
    <3>4. /\ users' = [users EXCEPT ![u] = [state |-> "live", company |-> req[r].c]]
          /\ links' = (links \ (req[r].cleared \X {req[r].d}))
                         \cup (req[r].moved \X {req[r].c})
      BY <1>11, <2>4 DEF Settle
    <3>a. req[r].c \in Company /\ req[r].moved \subseteq Company
      BY <2>1 DEF Settling
    <3>b. People'
      BY <3>4, <3>a DEF People
    <3>5. Pairs'
      BY <3>4, <3>a DEF Pairs
    <3>6. <<req[r].link, u>> \in Link \X User
      BY <2>1 DEF Settling
    <3>7. Histories'
      BY <1>11, <2>4, <3>6, SetTypes DEF Settle, Histories
    <3>8. QED
      BY <2>2, <3>3, <3>b, <3>5, <3>7
  <2>5. QED
    BY <2>3, <2>4
<1>12. ASSUME NEW r \in Request, NEW s \in Company, NEW d \in Company, MergeLock(r, s, d)
       PROVE  TypeOK'
  <2>1. [Begin("second", s) EXCEPT !.d = d] \in Pairing
    BY DEF Begin, Pairing
  <2>2. Transactions' /\ Locks'
    BY <1>12, <2>1, MoveType, AcquireType DEF MergeLock, Pending
  <2>3. QED
    BY <1>12, <2>2 DEF MergeLock, histories, Table, People, Pairs, Histories
<1>13. ASSUME NEW r \in Request, MergeLockSecond(r) PROVE TypeOK'
  <2>1. req[r] \in Pairing
    BY <1>13, UnderWay DEF MergeLockSecond, At
  <2>2. [req[r] EXCEPT !.pc = "move"] \in Pairing
    BY <2>1 DEF Pairing
  <2>3. Transactions' /\ Locks'
    BY <1>13, <2>2, MoveType, AcquireType, ReturnType DEF MergeLockSecond, Goto, Pending
  <2>4. QED
    BY <1>13, <2>3 DEF MergeLockSecond, histories, Table, People, Pairs, Histories
<1>14. ASSUME NEW r \in Request, MergeCommit(r) PROVE TypeOK'
  <2>1. req[r] \in Pairing
    BY <1>14, UnderWay DEF MergeCommit, At
  <2>2. Transactions' /\ Locks'
    BY <1>14, ReturnType DEF MergeCommit
  <2>3. req[r].c \in Company /\ req[r].d \in Company
    BY <2>1 DEF Pairing
  <2>4. Table'
    <3> DEFINE s == req[r].c
               d == req[r].d
               n == IF companies[s].npwp = NoTaxNo
                    THEN companies[d].npwp ELSE companies[s].npwp
               pointed == [companies EXCEPT ![d].npwp = NoTaxNo, ![d].into = s]
    <3>1. companies[d] \in CompanyRow /\ companies[s] \in CompanyRow
      BY <2>3 DEF Table
    <3>2. n \in TaxNo \cup {NoTaxNo}
      BY <3>1 DEF CompanyRow
    <3>3. [companies[d] EXCEPT !.npwp = NoTaxNo, !.into = s] \in CompanyRow
      BY <2>3, <3>1 DEF CompanyRow
    <3>4. pointed \in [Company -> CompanyRow]
      BY <2>3, <3>3 DEF Table
    <3>5. [pointed[s] EXCEPT !.npwp = n] \in CompanyRow
      <4>1. pointed[s] \in CompanyRow
        BY <2>3, <3>4
      <4>2. QED
        BY <3>2, <4>1 DEF CompanyRow
    <3>6. companies' = [pointed EXCEPT ![s].npwp = n]
      BY <1>14 DEF MergeCommit
    <3>7. QED
      BY <3>4, <3>5, <3>6 DEF Table
  <2>5. People'
    BY <1>14, <2>3 DEF MergeCommit, People
  <2>6. Pairs'
    BY <1>14, <2>3, SetTypes DEF MergeCommit, Pairs
  <2>7. Histories'
    BY <1>14, <2>3, SetTypes DEF MergeCommit, Histories
  <2>8. QED
    BY <2>2, <2>4, <2>5, <2>6, <2>7
<1>15. ASSUME NEW u \in User, NEW c \in Company, Register(u, c) PROVE TypeOK'
  BY <1>15 DEF Register, histories, Table, People, Locks, Transactions, Pairs, Histories
<1>16. ASSUME NEW u \in User, RegisterDriver(u) PROVE TypeOK'
  BY <1>16 DEF RegisterDriver, histories, Table, People, Locks, Transactions, Pairs, Histories
<1>17. ASSUME NEW r \in Request, NEW u \in User, NEW c \in Company, AdoptRead(r, u, c)
       PROVE  TypeOK'
  <2>1. [Begin("adopt", c) EXCEPT !.user = u] \in Adopting
    BY DEF Begin, Adopting
  <2>2. Transactions'
    BY <1>17, <2>1, MoveType DEF AdoptRead, Pending
  <2>3. QED
    BY <1>17, <2>2 DEF AdoptRead, histories, Table, People, Locks, Pairs, Histories
<1>18. ASSUME NEW r \in Request, AdoptWrite(r) PROVE TypeOK'
  <2>1. req[r] \in Adopting
    BY <1>18, UnderWay DEF AdoptWrite, At
  <2>2. Transactions' /\ Locks'
    BY <1>18, ReturnType DEF AdoptWrite
  <2>3. People' /\ Histories'
    BY <1>18, <2>1 DEF AdoptWrite, Adopting, People, Histories
  <2>4. QED
    BY <1>18, <2>2, <2>3 DEF AdoptWrite, Table, Pairs
<1>19. ASSUME NEW u \in User, Delete(u) PROVE TypeOK'
  BY <1>19 DEF Delete, histories, Table, People, Locks, Transactions, Pairs, Histories
<1>20. ASSUME NEW c \in Company, NEW n \in TaxNo \cup {NoTaxNo}, UpdateTaxNo(c, n)
       PROVE  TypeOK'
  <2>1. [companies[c] EXCEPT !.npwp = n] \in CompanyRow
    BY DEF Table, CompanyRow
  <2>2. Table'
    BY <1>20, <2>1 DEF UpdateTaxNo, Table
  <2>3. QED
    BY <1>20, <2>2 DEF UpdateTaxNo, histories, People, Locks, Transactions, Pairs, Histories
<1>21. ASSUME NEW r \in Request, Abort(r) PROVE TypeOK'
  BY <1>21, ReturnType DEF Abort, histories, Table, People, Pairs, Histories
<1>22. CASE UNCHANGED vars
  BY <1>22 DEF vars, Table, People, Locks, Transactions, Pairs, Histories
<1>23. QED
  BY <1>1, <1>2, <1>3, <1>4, <1>5, <1>6, <1>7, <1>7a, <1>8, <1>9, <1>10, <1>11, <1>12,
     <1>13, <1>14, <1>15, <1>16, <1>17, <1>18, <1>19, <1>20, <1>21, <1>22
     DEF Next

LEMMA InitType == Init => TypeOK
<1> SUFFICES ASSUME Init PROVE TypeOK
  OBVIOUS
<1>1. ASSUME NEW c \in Company
      PROVE  [Absent EXCEPT !.exists = c \in Opening] \in CompanyRow
  <2>1. (c \in Opening) \in BOOLEAN
    OBVIOUS
  <2>2. \A b \in BOOLEAN : [Absent EXCEPT !.exists = b] \in CompanyRow
    BY DEF Absent, CompanyRow
  <2>3. QED
    BY <2>1, <2>2, Zenon
<1>2. Table
  BY <1>1, Zenon DEF Init, Table
<1>3. People /\ Locks
  BY DEF Init, People, Locks
<1>4. Transactions
  BY DEF Init, Transactions
<1>5. Pairs /\ Histories
  BY DEF Init, Pairs, Histories
<1>6. QED
  BY <1>2, <1>3, <1>4, <1>5, TypeParts

\* Every reachable state is well typed: what a transaction holds at each statement
\* is what that statement needs.
THEOREM CompaniesTypeCorrect == Spec => []TypeOK
<1>1. TypeOK /\ [Next]_vars => TypeOK'
  BY NextType
<1>2. QED
  BY <1>1, InitType, PTL DEF Spec

-----------------------------------------------------------------------------
(* Companies implements Forwarding                                         *)

\* What a transaction about to fold or merge has secured: the two companies are
\* different ones that exist, it holds their rows when it is about to commit, and
\* the one that stays has not been folded away itself.
Secured(r) ==
    /\ req[r].pc \in {"second", "move", "count", "copy", "clear", "fold"}
         => req[r].d # req[r].c /\ companies[req[r].d].exists
    /\ req[r].pc \in {"search", "count", "copy", "clear", "fold", "settle", "move"}
         => /\ lock[req[r].c] = r
            /\ companies[req[r].c].into = NoCompany
    /\ req[r].pc = "settle" /\ req[r].d # NoCompany
         => /\ req[r].d # req[r].c
            /\ companies[req[r].d].exists
            /\ lock[req[r].d] = r
    /\ req[r].pc = "move" => lock[req[r].d] = r

\* Nothing forwards from a row that does not exist.
Placed == \A c \in Company : ~companies[c].exists => companies[c].into = NoCompany

FoldInv == TypeOK /\ Placed /\ \A r \in Request : Secured(r)

\* A step taken for r leaves the other transactions, the rows they hold and what
\* is in those rows alone, and no row ceases to exist.
Minds(r) ==
    /\ \A q \in Request \ {r} : req'[q] = req[q]
    /\ \A c \in Company : lock[c] \notin {r, NoRequest} => lock'[c] = lock[c]
    /\ \A c \in Company : companies'[c].into # companies[c].into => lock[c] = r
    /\ \A c \in Company : companies[c].exists => companies'[c].exists

\* The transactions that wait or hold name real companies.
LEMMA Named ==
    ASSUME TypeOK, NEW r \in Request
    PROVE  /\ req[r].pc # "idle" => req[r].c \in Company
           /\ req[r].pc \in {"link", "second", "move", "count", "copy", "clear", "fold"}
                => req[r].d \in Company
           /\ req[r].pc = "settle" => req[r].d \in Company \cup {NoCompany}
BY DEF TypeOK, Idle, Pending, Tx, Creating, Pairing, Searching, Folding, Settling, Adopting

\* What the others have secured stays secured.
LEMMA OthersSecure ==
    ASSUME FoldInv, NEW r \in Request, Minds(r), NEW q \in Request, q # r
    PROVE  Secured(q)'
<1>1. req'[q] = req[q] /\ Secured(q) /\ q # NoRequest
  BY NothingAssumption DEF Minds, FoldInv
<1>2. \A c \in Company : lock[c] = q => lock'[c] = q /\ companies'[c].into = companies[c].into
  BY <1>1 DEF Minds
<1>3. /\ req[q].pc # "idle" => req[q].c \in Company
      /\ req[q].pc \in {"link", "second", "move", "count", "copy", "clear", "fold"}
           => req[q].d \in Company
      /\ req[q].pc = "settle" => req[q].d \in Company \cup {NoCompany}
  BY Named DEF FoldInv
<1>4. \A c \in Company : companies[c].exists => companies'[c].exists
  BY DEF Minds
<1>5. QED
  BY <1>1, <1>2, <1>3, <1>4 DEF Secured

\* A commit or a rollback of r: its record is dropped and its rows are released.
LEMMA Returned ==
    ASSUME FoldInv, NEW r \in Request, Return(r)
    PROVE  /\ req'[r].pc = "idle"
           /\ \A q \in Request \ {r} : req'[q] = req[q]
           /\ \A c \in Company : lock[c] \notin {r, NoRequest} => lock'[c] = lock[c]
           /\ Secured(r)'
BY DEF Return, FoldInv, TypeOK, Idle, Secured

LEMMA Acquired ==
    ASSUME FoldInv, NEW r \in Request, NEW S \in SUBSET Company, Acquire(r, S),
           \A c \in S : Free(c, r)
    PROVE  /\ \A c \in S : lock'[c] = r
           /\ \A c \in Company : lock[c] = r => lock'[c] = r
           /\ \A c \in Company : lock[c] \notin {r, NoRequest} => lock'[c] = lock[c]
BY DEF Acquire, Free

\* A step that is taken for one transaction only, that secures what it must, keeps
\* the invariant.
LEMMA OneAtATime ==
    ASSUME FoldInv, [Next]_vars, NEW r \in Request, Minds(r), Secured(r)', Placed'
    PROVE  FoldInv'
<1>1. TypeOK'
  BY NextType DEF FoldInv
<1>2. \A q \in Request : Secured(q)'
  BY OthersSecure
<1>3. QED
  BY <1>1, <1>2 DEF FoldInv

\* A step that takes no lock and leaves every pointer alone keeps it too.
Quiet == UNCHANGED <<req, lock>> /\ \A c \in Company :
            companies'[c].into = companies[c].into /\ companies'[c].exists = companies[c].exists

LEMMA QuietKeeps == ASSUME FoldInv, [Next]_vars, Quiet PROVE FoldInv'
<1>1. TypeOK'
  BY NextType DEF FoldInv
<1>2. Placed'
  BY DEF FoldInv, Placed, Quiet
<1>3. ASSUME NEW r \in Request PROVE Secured(r)'
  <2>1. Secured(r) /\ req'[r] = req[r] /\ lock' = lock
    BY DEF FoldInv, Quiet
  <2>2. /\ req[r].pc # "idle" => req[r].c \in Company
        /\ req[r].pc \in {"link", "second", "move", "count", "copy", "clear", "fold"}
             => req[r].d \in Company
        /\ req[r].pc = "settle" => req[r].d \in Company \cup {NoCompany}
    BY Named DEF FoldInv
  <2>3. \A c \in Company : companies'[c].into = companies[c].into
                           /\ companies'[c].exists = companies[c].exists
    BY DEF Quiet
  <2>4. QED
    BY <2>1, <2>2, <2>3 DEF Secured
<1>4. QED
  BY <1>1, <1>2, <1>3 DEF FoldInv

\* One step of the specification as the pointers see it.
PointerStep == \/ Pointers!FNext
               \/ [c \in Company |-> companies[c].into]'
                     = [c \in Company |-> companies[c].into]

LEMMA PointersUnmoved ==
    ASSUME \A c \in Company : companies'[c].into = companies[c].into
    PROVE  PointerStep
BY Zenon DEF PointerStep

LEMMA PointerMoved ==
    ASSUME NEW d \in Company, NEW s \in Company, d # s, companies[s].into = NoCompany,
           companies'[d].into = s,
           \A c \in Company \ {d} : companies'[c].into = companies[c].into
    PROVE  PointerStep
<1>1. Pointers!Fold(d, s)
  BY DEF Pointers!Fold
<1>2. QED
  BY <1>1 DEF PointerStep, Pointers!FNext

\* What the updates of a row leave in it.
LEMMA RowUpdates ==
    ASSUME NEW row \in CompanyRow, NEW n, NEW k, NEW s
    PROVE  /\ [row EXCEPT !.npwp = n].into = row.into
           /\ [row EXCEPT !.npwp = n].exists = row.exists
           /\ [row EXCEPT !.npwp = n, !.link = k].into = row.into
           /\ [row EXCEPT !.npwp = n, !.link = k].exists = row.exists
           /\ [row EXCEPT !.npwp = n, !.into = s].into = s
           /\ [row EXCEPT !.npwp = n, !.into = s].exists = row.exists
BY DEF CompanyRow

\* The invariant holds to begin with.
LEMMA InitFold == Init => FoldInv
<1> SUFFICES ASSUME Init PROVE FoldInv
  OBVIOUS
<1>1. TypeOK
  BY InitType
<1>2. \A c \in Company : companies[c].into = NoCompany
  BY DEF Init, Absent
<1>3. \A r \in Request : req[r].pc = "idle"
  BY DEF Init, Idle
<1>4. QED
  BY <1>1, <1>2, <1>3 DEF FoldInv, Placed, Secured

\* Every step keeps the invariant, and folds at most one company into another
\* that holds its own records.
LEMMA FoldStep == ASSUME FoldInv, [Next]_vars PROVE FoldInv' /\ PointerStep
<1>0. TypeOK /\ TypeOK' /\ Placed /\ \A r \in Request : Secured(r)
  BY NextType DEF FoldInv
<1> DEFINE SameRows == \A c \in Company :
              companies'[c].into = companies[c].into /\ companies'[c].exists = companies[c].exists
<1>a. ASSUME SameRows PROVE Placed' /\ PointerStep
  BY <1>0, <1>a, PointersUnmoved DEF Placed
<1>b. ASSUME Quiet PROVE FoldInv' /\ PointerStep
  BY <1>b, QuietKeeps, PointersUnmoved DEF Quiet
<1>c. ASSUME NEW r \in Request, NEW q, req' = [req EXCEPT ![r] = q],
             UNCHANGED lock, SameRows, Secured(r)'
      PROVE  FoldInv' /\ PointerStep
  <2>1. Minds(r)
    BY <1>0, <1>c DEF Minds, TypeOK
  <2>2. QED
    BY <2>1, <1>a, <1>c, OneAtATime
<1>d. ASSUME NEW r \in Request, Return(r), SameRows PROVE FoldInv' /\ PointerStep
  <2>1. Minds(r) /\ Secured(r)'
    BY <1>d, Returned DEF Minds
  <2>2. QED
    BY <2>1, <1>a, <1>d, OneAtATime
<1>e. UNCHANGED companies => SameRows
  OBVIOUS
<1>1. ASSUME NEW r \in Request, NEW t \in Company, NEW n \in TaxNo \cup {NoTaxNo},
             LookUpTaxNo(r, t, n)
      PROVE  FoldInv' /\ PointerStep
  <2>1. ASSUME req' = [req EXCEPT ![r] = [Begin("insert", t) EXCEPT !.n = n]]
        PROVE  FoldInv' /\ PointerStep
    <3>1. req'[r].pc = "insert"
      BY <1>0, <2>1 DEF Begin, TypeOK
    <3>2. Secured(r)'
      BY <3>1 DEF Secured
    <3>3. QED
      BY <1>1, <2>1, <3>2, <1>c, <1>e DEF LookUpTaxNo
  <2>2. ASSUME NEW d \in Holders(n),
               req' = [req EXCEPT ![r] = [Begin("link", t) EXCEPT !.d = d]]
        PROVE  FoldInv' /\ PointerStep
    <3>1. req'[r].pc = "link"
      BY <1>0, <2>2 DEF Begin, TypeOK
    <3>2. Secured(r)'
      BY <3>1 DEF Secured
    <3>3. QED
      BY <1>1, <2>2, <3>2, <1>c, <1>e DEF LookUpTaxNo
  <2>3. QED
    BY <1>1, <2>1, <2>2 DEF LookUpTaxNo
<1>2. ASSUME NEW r \in Request, NEW d \in Company, InsertShipper(r, d)
      PROVE  FoldInv' /\ PointerStep
  <2>1. Return(r)
    BY <1>2 DEF InsertShipper
  <2>2. CASE UNCHANGED companies
    BY <2>1, <2>2, <1>d, <1>e
  <2>3. ASSUME companies' = [companies EXCEPT ![d] =
                  [Absent EXCEPT !.exists = TRUE, !.npwp = req[r].n]]
        PROVE  FoldInv' /\ PointerStep
    <3>1. companies[d].into = NoCompany
      BY <1>0, <1>2 DEF Placed, InsertShipper
    <3>2. /\ \A c \in Company : companies'[c].into = companies[c].into
          /\ \A c \in Company : companies[c].exists => companies'[c].exists
          /\ \A c \in Company : ~companies'[c].exists => ~companies[c].exists
      BY <1>0, <2>3, <3>1 DEF TypeOK, CompanyRow, Absent
    <3>3. Minds(r) /\ Secured(r)' /\ Placed'
      BY <1>0, <2>1, <3>2, Returned DEF Minds, Placed
    <3>4. QED
      BY <3>2, <3>3, OneAtATime, PointersUnmoved
  <2>4. QED
    BY <1>2, <2>2, <2>3 DEF InsertShipper
<1>3. ASSUME NEW r \in Request, LinkExisting(r) PROVE FoldInv' /\ PointerStep
  BY <1>3, <1>d, <1>e DEF LinkExisting
<1>4. ASSUME NEW r \in Request, NEW c \in Company, CountBeforeIssue(r, c)
      PROVE  FoldInv' /\ PointerStep
  <2>1. req'[r].pc = "issue"
    BY <1>0, <1>4 DEF CountBeforeIssue, Begin, TypeOK
  <2>2. Secured(r)'
    BY <2>1 DEF Secured
  <2>3. QED
    BY <1>4, <2>2, <1>c, <1>e DEF CountBeforeIssue
<1>5. ASSUME NEW r \in Request, NEW k \in Link, IssueLink(r, k) PROVE FoldInv' /\ PointerStep
  <2>1. SameRows
    BY <1>0, <1>5 DEF IssueLink, TypeOK, CompanyRow
  <2>2. QED
    BY <1>5, <2>1, <1>d DEF IssueLink
<1>6. ASSUME NEW r \in Request, NEW c \in Company, NEW n \in TaxNo, ClaimLock(r, c, n)
      PROVE  FoldInv' /\ PointerStep
  <2>1. /\ \A e \in {c} : lock'[e] = r
        /\ \A e \in Company : lock[e] \notin {r, NoRequest} => lock'[e] = lock[e]
    <3>1. {c} \in SUBSET Company /\ Acquire(r, {c}) /\ \A e \in {c} : Free(e, r)
      BY <1>6 DEF ClaimLock
    <3>2. QED
      BY <3>1, Acquired
  <2>2. /\ req'[r].pc = "search" /\ req'[r].c = c
        /\ \A q \in Request \ {r} : req'[q] = req[q]
    BY <1>0, <1>6 DEF ClaimLock, Begin, TypeOK
  <2>3. UNCHANGED companies /\ companies[c].into = NoCompany
    BY <1>6 DEF ClaimLock, Live
  <2>4. Minds(r) /\ Secured(r)'
    BY <2>1, <2>2, <2>3 DEF Minds, Secured
  <2>5. QED
    BY <2>3, <2>4, <1>a, <1>e, OneAtATime
<1>7. ASSUME NEW r \in Request, FindDuplicate(r) PROVE FoldInv' /\ PointerStep
  <2>1. /\ req[r].pc = "search" /\ Secured(r)
        /\ req[r] \in Searching
    BY <1>0, <1>7, UnderWay DEF FindDuplicate, At
  <2>2. CASE Goto(r, "settle") /\ UNCHANGED lock
    <3>1. req'[r].pc = "settle" /\ req'[r].c = req[r].c /\ req'[r].d = NoCompany
      BY <1>0, <2>1, <2>2 DEF Goto, TypeOK, Searching, Tx
    <3>2. Secured(r)'
      BY <1>7, <2>1, <2>2, <3>1 DEF Secured, FindDuplicate
    <3>3. QED
      BY <1>7, <2>2, <3>2, <1>c, <1>e DEF FindDuplicate, Goto
  <2>4. ASSUME NEW d \in Holders(req[r].n) \ {req[r].c}, UNCHANGED lock,
               req' = [req EXCEPT ![r].pc = "count", ![r].d = d]
        PROVE  FoldInv' /\ PointerStep
    <3>1. req'[r].pc = "count" /\ req'[r].c = req[r].c /\ req'[r].d = d
      BY <1>0, <2>1, <2>4 DEF TypeOK, Searching, Tx
    <3>2. companies[d].exists
      BY DEF Holders, Live
    <3>3. Secured(r)'
      BY <1>7, <2>1, <2>4, <3>1, <3>2 DEF Secured, FindDuplicate
    <3>4. QED
      BY <1>7, <2>4, <3>3, <1>c, <1>e DEF FindDuplicate
  <2>5. QED
    BY <1>7, <2>2, <2>4 DEF FindDuplicate
<1>7a. ASSUME NEW r \in Request, CountDuplicate(r) PROVE FoldInv' /\ PointerStep
  <2>1. /\ req[r].pc = "count" /\ Secured(r)
        /\ req[r] \in Folding
    BY <1>0, <1>7a, UnderWay DEF CountDuplicate, At
  <2>2. CASE Return(r)
    BY <1>7a, <2>2, <1>d, <1>e DEF CountDuplicate
  <2>3. CASE Goto(r, "copy") /\ UNCHANGED lock
    <3>1. req'[r].pc = "copy" /\ req'[r].c = req[r].c /\ req'[r].d = req[r].d
      BY <1>0, <2>1, <2>3 DEF Goto, TypeOK, Folding, Tx
    <3>2. Secured(r)'
      BY <1>7a, <2>1, <2>3, <3>1 DEF Secured, CountDuplicate
    <3>3. QED
      BY <1>7a, <2>3, <3>2, <1>c, <1>e DEF CountDuplicate, Goto
  <2>4. QED
    BY <1>7a, <2>2, <2>3 DEF CountDuplicate
<1>8. ASSUME NEW r \in Request, CopyLinks(r) PROVE FoldInv' /\ PointerStep
  <2>1. /\ req[r].pc = "copy" /\ Secured(r)
        /\ req[r] \in Folding
    BY <1>0, <1>8, UnderWay DEF CopyLinks, At
  <2>2. /\ req' = [req EXCEPT ![r].pc = "clear", ![r].moved = Dealers(req[r].d)]
        /\ UNCHANGED <<lock, companies>>
    BY <1>8 DEF CopyLinks
  <2>3. req'[r].pc = "clear" /\ req'[r].c = req[r].c /\ req'[r].d = req[r].d
    BY <1>0, <2>1, <2>2 DEF TypeOK, Folding, Tx
  <2>4. Secured(r)'
    BY <2>1, <2>2, <2>3 DEF Secured
  <2>5. QED
    BY <2>2, <2>4, <1>c, <1>e
<1>9. ASSUME NEW r \in Request, ClearLinks(r) PROVE FoldInv' /\ PointerStep
  <2>1. /\ req[r].pc = "clear" /\ Secured(r)
        /\ req[r] \in Folding
    BY <1>0, <1>9, UnderWay DEF ClearLinks, At
  <2>2. /\ req' = [req EXCEPT ![r].pc = "fold", ![r].cleared = Dealers(req[r].d)]
        /\ UNCHANGED <<lock, companies>>
    BY <1>9 DEF ClearLinks
  <2>3. req'[r].pc = "fold" /\ req'[r].c = req[r].c /\ req'[r].d = req[r].d
    BY <1>0, <2>1, <2>2 DEF TypeOK, Folding, Tx
  <2>4. Secured(r)'
    BY <2>1, <2>2, <2>3 DEF Secured
  <2>5. QED
    BY <2>2, <2>4, <1>c, <1>e
<1>10. ASSUME NEW r \in Request, LockDuplicate(r) PROVE FoldInv' /\ PointerStep
  <2>1. /\ req[r].pc = "fold" /\ Secured(r)
        /\ req[r] \in Folding /\ req[r].d \in Company /\ req[r].c \in Company
    BY <1>0, <1>10, UnderWay, Named DEF LockDuplicate, At
  <2>2. /\ lock'[req[r].d] = r
        /\ \A e \in Company : lock[e] = r => lock'[e] = r
        /\ \A e \in Company : lock[e] \notin {r, NoRequest} => lock'[e] = lock[e]
    <3>1. /\ {req[r].d} \in SUBSET Company /\ Acquire(r, {req[r].d})
          /\ \A e \in {req[r].d} : Free(e, r)
      BY <1>10, <2>1 DEF LockDuplicate
    <3>2. QED
      BY <3>1, Acquired
  <2>3. /\ req'[r].pc = "settle" /\ req'[r].c = req[r].c /\ req'[r].d = req[r].d
        /\ \A q \in Request \ {r} : req'[q] = req[q]
    BY <1>0, <1>10, <2>1 DEF LockDuplicate, Goto, TypeOK, Folding, Tx
  <2>4. UNCHANGED companies
    BY <1>10 DEF LockDuplicate
  <2>5. Minds(r) /\ Secured(r)'
    BY <2>1, <2>2, <2>3, <2>4 DEF Minds, Secured
  <2>6. QED
    BY <2>4, <2>5, <1>a, <1>e, OneAtATime
<1>11. ASSUME NEW r \in Request, NEW u \in User, Settle(r, u) PROVE FoldInv' /\ PointerStep
  <2>1. /\ req[r].pc = "settle" /\ Secured(r)
        /\ req[r].c \in Company /\ req[r].d \in Company \cup {NoCompany}
        /\ Return(r)
    BY <1>0, <1>11, Named DEF Settle, At
  <2>2. CASE UNCHANGED companies
    BY <2>1, <2>2, <1>d, <1>e
  <2>3. ASSUME companies' = [c \in Company |->
             CASE c = req[r].c -> [companies[c] EXCEPT !.npwp = req[r].n, !.link = NoLink]
               [] c = req[r].d -> [companies[c] EXCEPT !.npwp = NoTaxNo, !.into = req[r].c]
               [] OTHER -> companies[c]]
        PROVE  FoldInv' /\ PointerStep
    <3>1. /\ \A c \in Company : companies'[c].exists = companies[c].exists
          /\ \A c \in Company \ {req[r].d} : companies'[c].into = companies[c].into
          /\ req[r].d \in Company /\ req[r].d # req[r].c
                => companies'[req[r].d].into = req[r].c
      <4>1. \A c \in Company : companies[c] \in CompanyRow
        BY <1>0 DEF TypeOK
      <4>a. req[r].d # req[r].c
        BY <2>1, CompanyAssumption DEF Secured
      <4>2. ASSUME NEW c \in Company, c = req[r].c
            PROVE  companies'[c].into = companies[c].into
                   /\ companies'[c].exists = companies[c].exists
        <5>1. companies'[c] = [companies[c] EXCEPT !.npwp = req[r].n, !.link = NoLink]
          BY <2>3, <4>2, <4>a
        <5>2. QED
          BY <4>1, <5>1, RowUpdates
      <4>3. ASSUME NEW c \in Company, c # req[r].c, c = req[r].d
            PROVE  companies'[c].into = req[r].c
                   /\ companies'[c].exists = companies[c].exists
        <5>1. companies'[c] = [companies[c] EXCEPT !.npwp = NoTaxNo, !.into = req[r].c]
          BY <2>3, <4>3
        <5>2. QED
          BY <4>1, <5>1, RowUpdates
      <4>4. ASSUME NEW c \in Company, c # req[r].c, c # req[r].d
            PROVE  companies'[c] = companies[c]
        BY <2>3, <4>4
      <4>5. QED
        BY <4>2, <4>3, <4>4, <4>a
    <3>2. CASE req[r].d = NoCompany
      <4>1. SameRows
        BY <3>1, <3>2, CompanyAssumption
      <4>2. QED
        BY <2>1, <4>1, <1>d
    <3>3. CASE req[r].d \in Company
      <4>1. /\ req[r].d # req[r].c /\ lock[req[r].d] = r
            /\ companies[req[r].d].exists /\ companies[req[r].c].into = NoCompany
        BY <2>1, <3>3, CompanyAssumption DEF Secured
      <4>2. Minds(r) /\ Secured(r)' /\ Placed'
        BY <1>0, <2>1, <3>1, <3>3, <4>1, Returned DEF Minds, Placed
      <4>3. PointerStep
        BY <2>1, <3>1, <3>3, <4>1, PointerMoved
      <4>4. QED
        BY <4>2, <4>3, OneAtATime
    <3>4. QED
      BY <2>1, <3>2, <3>3
  <2>4. QED
    BY <1>11, <2>2, <2>3 DEF Settle
<1>12. ASSUME NEW r \in Request, NEW s \in Company, NEW d \in Company, MergeLock(r, s, d)
       PROVE  FoldInv' /\ PointerStep
  <2>1. \A e \in Company : lock[e] \notin {r, NoRequest} => lock'[e] = lock[e]
    <3>1. /\ {Lowest(s, d)} \in SUBSET Company /\ Acquire(r, {Lowest(s, d)})
          /\ \A e \in {Lowest(s, d)} : Free(e, r)
      BY <1>12 DEF MergeLock, Lowest
    <3>2. QED
      BY <3>1, Acquired
  <2>2. /\ req'[r].pc = "second" /\ req'[r].c = s /\ req'[r].d = d
        /\ \A q \in Request \ {r} : req'[q] = req[q]
    BY <1>0, <1>12 DEF MergeLock, Begin, TypeOK
  <2>3. UNCHANGED companies /\ s # d /\ companies[d].exists
    BY <1>12 DEF MergeLock
  <2>4. Minds(r) /\ Secured(r)'
    BY <2>1, <2>2, <2>3 DEF Minds, Secured
  <2>5. QED
    BY <2>3, <2>4, <1>a, <1>e, OneAtATime
<1>13. ASSUME NEW r \in Request, MergeLockSecond(r) PROVE FoldInv' /\ PointerStep
  <2>1. /\ req[r].pc = "second" /\ Secured(r) /\ req[r] \in Pairing
        /\ req[r].c \in Company /\ req[r].d \in Company
    BY <1>0, <1>13, UnderWay, Named DEF MergeLockSecond, At
  <2>2. UNCHANGED companies
    BY <1>13 DEF MergeLockSecond
  <2>3. CASE Return(r)
    BY <2>2, <2>3, <1>d, <1>e
  <2>4. ASSUME Mergeable(req[r].c, req[r].d), Acquire(r, {req[r].c, req[r].d}),
               Goto(r, "move")
        PROVE  FoldInv' /\ PointerStep
    <3>1. /\ \A e \in {req[r].c, req[r].d} : lock'[e] = r
          /\ \A e \in Company : lock[e] \notin {r, NoRequest} => lock'[e] = lock[e]
      <4>1. /\ {req[r].c, req[r].d} \in SUBSET Company
            /\ \A e \in {req[r].c, req[r].d} : Free(e, r)
        BY <1>13, <2>1 DEF MergeLockSecond
      <4>2. QED
        BY <2>4, <4>1, Acquired
    <3>2. /\ req'[r].pc = "move" /\ req'[r].c = req[r].c /\ req'[r].d = req[r].d
          /\ \A q \in Request \ {r} : req'[q] = req[q]
      BY <1>0, <2>1, <2>4 DEF Goto, TypeOK, Pairing, Tx
    <3>3. companies[req[r].c].into = NoCompany
      BY <2>4 DEF Mergeable
    <3>4. Minds(r) /\ Secured(r)'
      BY <2>1, <2>2, <3>1, <3>2, <3>3 DEF Minds, Secured
    <3>5. QED
      BY <2>2, <3>4, <1>a, <1>e, OneAtATime
  <2>5. QED
    BY <1>13, <2>3, <2>4 DEF MergeLockSecond
<1>14. ASSUME NEW r \in Request, MergeCommit(r) PROVE FoldInv' /\ PointerStep
  <2>1. /\ req[r].pc = "move" /\ Secured(r)
        /\ req[r].c \in Company /\ req[r].d \in Company
        /\ Return(r)
    BY <1>0, <1>14, Named DEF MergeCommit, At
  <2>2. /\ req[r].d # req[r].c /\ lock[req[r].d] = r
        /\ companies[req[r].d].exists /\ companies[req[r].c].into = NoCompany
    BY <2>1 DEF Secured
  <2>3. /\ \A c \in Company : companies'[c].exists = companies[c].exists
        /\ \A c \in Company \ {req[r].d} : companies'[c].into = companies[c].into
        /\ companies'[req[r].d].into = req[r].c
    <3>1. /\ companies'[req[r].d]
               = [companies[req[r].d] EXCEPT !.npwp = NoTaxNo, !.into = req[r].c]
          /\ \E n : companies'[req[r].c] = [companies[req[r].c] EXCEPT !.npwp = n]
          /\ \A c \in Company \ {req[r].c, req[r].d} : companies'[c] = companies[c]
      BY <1>0, <1>14, <2>1, <2>2 DEF MergeCommit, TypeOK
    <3>2. \A c \in Company : companies[c] \in CompanyRow
      BY <1>0 DEF TypeOK
    <3>3. /\ companies'[req[r].d].into = req[r].c
          /\ companies'[req[r].d].exists = companies[req[r].d].exists
      BY <2>1, <3>1, <3>2, RowUpdates
    <3>4. /\ companies'[req[r].c].into = companies[req[r].c].into
          /\ companies'[req[r].c].exists = companies[req[r].c].exists
      BY <2>1, <3>1, <3>2, RowUpdates
    <3>5. QED
      BY <2>2, <3>1, <3>3, <3>4
  <2>4. Minds(r) /\ Secured(r)' /\ Placed'
    BY <1>0, <2>1, <2>2, <2>3, Returned DEF Minds, Placed
  <2>5. PointerStep
    BY <2>1, <2>2, <2>3, PointerMoved
  <2>6. QED
    BY <2>4, <2>5, OneAtATime
<1>15. ASSUME NEW u \in User, NEW c \in Company, Register(u, c) PROVE FoldInv' /\ PointerStep
  BY <1>15, <1>b DEF Register, Quiet
<1>16. ASSUME NEW u \in User, RegisterDriver(u) PROVE FoldInv' /\ PointerStep
  BY <1>16, <1>b DEF RegisterDriver, Quiet
<1>17. ASSUME NEW r \in Request, NEW u \in User, NEW c \in Company, AdoptRead(r, u, c)
       PROVE  FoldInv' /\ PointerStep
  <2>1. req'[r].pc = "adopt"
    BY <1>0, <1>17 DEF AdoptRead, Begin, TypeOK
  <2>2. Secured(r)'
    BY <2>1 DEF Secured
  <2>3. QED
    BY <1>17, <2>2, <1>c, <1>e DEF AdoptRead
<1>18. ASSUME NEW r \in Request, AdoptWrite(r) PROVE FoldInv' /\ PointerStep
  BY <1>18, <1>d, <1>e DEF AdoptWrite
<1>19. ASSUME NEW u \in User, Delete(u) PROVE FoldInv' /\ PointerStep
  BY <1>19, <1>b DEF Delete, Quiet
<1>20. ASSUME NEW c \in Company, NEW n \in TaxNo \cup {NoTaxNo}, UpdateTaxNo(c, n)
       PROVE  FoldInv' /\ PointerStep
  <2>1. SameRows
    BY <1>0, <1>20 DEF UpdateTaxNo, TypeOK, CompanyRow
  <2>2. QED
    BY <1>20, <2>1, <1>b DEF UpdateTaxNo, Quiet
<1>21. ASSUME NEW r \in Request, Abort(r) PROVE FoldInv' /\ PointerStep
  BY <1>21, <1>d, <1>e DEF Abort
<1>22. CASE UNCHANGED vars
  BY <1>22, <1>b DEF vars, Quiet
<1>23. QED
  BY <1>1, <1>2, <1>3, <1>4, <1>5, <1>6, <1>7, <1>7a, <1>8, <1>9, <1>10, <1>11, <1>12,
     <1>13, <1>14, <1>15, <1>16, <1>17, <1>18, <1>19, <1>20, <1>21, <1>22
     DEF Next

\* The merge pointers forward as Forwarding says, whatever merges, claims and
\* profile updates run at once: every fold is of one company into another that
\* holds its own records at the commit (Merge, foldIn).
THEOREM ForwardingRefinement == Spec => ImplementsForwarding
<1>1. Init => FoldInv
  BY InitFold
<1>2. Init => Pointers!FInit
  BY DEF Init, Absent, Pointers!FInit
<1>3. FoldInv /\ [Next]_vars => FoldInv' /\ PointerStep
  BY FoldStep
<1>4. PointerStep => [Pointers!FNext]_([c \in Company |-> companies[c].into])
  BY DEF PointerStep
<1>5. QED
  BY <1>1, <1>2, <1>3, <1>4, PTL DEF Spec, ImplementsForwarding, Pointers!FSpec

\* Following the pointers from any company comes to an end: however long the chain
\* of merges, it leads to a company that holds its own records, so no company's
\* people and links are lost in a cycle (Merge, foldIn).
THEOREM PointersComeToAnEnd == Spec => []Pointers!PointersEnd
<1>1. Init => Pointers!PointersEnd
  BY CompanyAssumption DEF Init, Absent, Pointers!PointersEnd
<1>2. Pointers!PointersEnd /\ PointerStep => Pointers!PointersEnd'
  <2> SUFFICES ASSUME Pointers!PointersEnd, PointerStep,
                      NEW S \in SUBSET Company, S # {}
               PROVE  \E c \in S : companies'[c].into \notin S
    BY DEF Pointers!PointersEnd
  <2>1. PICK e \in S : companies[e].into \notin S
    BY DEF Pointers!PointersEnd
  <2>2. CASE \A c \in Company : companies'[c].into = companies[c].into
    BY <2>1, <2>2
  <2>3. ASSUME NEW d \in Company, NEW s \in Company, Pointers!Fold(d, s)
        PROVE  \E c \in S : companies'[c].into \notin S
    <3>1. /\ companies[s].into = NoCompany
          /\ companies'[d].into = s
          /\ \A c \in Company \ {d} : companies'[c].into = companies[c].into
      BY <2>3 DEF Pointers!Fold
    <3>2. CASE s \in S
      BY <2>3, <3>1, <3>2, CompanyAssumption DEF Pointers!Fold
    <3>3. CASE s \notin S
      BY <2>1, <3>1, <3>3
    <3>4. QED
      BY <3>2, <3>3
  <2>4. QED
    BY <2>2, <2>3 DEF PointerStep, Pointers!FNext
<1>3. FoldInv /\ [Next]_vars => FoldInv' /\ PointerStep
  BY FoldStep
<1>4. QED
  BY <1>1, <1>2, <1>3, InitFold, PTL DEF Spec

-----------------------------------------------------------------------------
(* What a step for one transaction leaves alone                            *)

Acts(r) ==
    \/ \E c \in Company :
         \/ CountBeforeIssue(r, c)
         \/ InsertShipper(r, c)
         \/ \E n \in TaxNo : ClaimLock(r, c, n)
         \/ \E n \in TaxNo \cup {NoTaxNo} : LookUpTaxNo(r, c, n)
         \/ \E d \in Company : MergeLock(r, c, d)
    \/ LinkExisting(r)
    \/ \E k \in Link : IssueLink(r, k)
    \/ FindDuplicate(r)
    \/ CountDuplicate(r)
    \/ CopyLinks(r)
    \/ ClearLinks(r)
    \/ LockDuplicate(r)
    \/ \E u \in User : Settle(r, u)
    \/ MergeLockSecond(r)
    \/ MergeCommit(r)
    \/ \E u \in User, c \in Company : AdoptRead(r, u, c)
    \/ AdoptWrite(r)
    \/ Abort(r)

\* What nobody's transaction does: one statement each, or nothing.
Outside ==
    \/ \E u \in User :
         \/ \E c \in Company : Register(u, c)
         \/ RegisterDriver(u)
         \/ Delete(u)
    \/ \E c \in Company, n \in TaxNo \cup {NoTaxNo} : UpdateTaxNo(c, n)
    \/ UNCHANGED vars

LEMMA OneActor == ASSUME [Next]_vars PROVE Outside \/ \E r \in Request : Acts(r)
BY DEF Next, Acts, Outside

\* A step of r moves r's record only, and takes and gives up rows for r only.
LEMMA ActsForOne ==
    ASSUME TypeOK, NEW r \in Request, Acts(r), NEW q \in Request, q # r
    PROVE  req'[q] = req[q] /\ \A c \in Company : lock'[c] = q <=> lock[c] = q
<1>0. req \in [Request -> Pending \cup {Idle}] /\ q # NoRequest
  BY NothingAssumption DEF TypeOK
<1>1. CASE UNCHANGED lock
  <2>1. req'[q] = req[q]
    BY <1>0, <1>1 DEF Acts, CountBeforeIssue, InsertShipper, ClaimLock, LookUpTaxNo,
       MergeLock, LinkExisting, IssueLink, FindDuplicate, CountDuplicate, CopyLinks,
       ClearLinks, LockDuplicate, Settle, MergeLockSecond, MergeCommit, AdoptRead,
       AdoptWrite, Abort, Return, Goto
  <2> QED
    BY <1>1, <2>1
<1>2. CASE Return(r)
  BY <1>0, <1>2 DEF Return
<1>3. ASSUME NEW S, Acquire(r, S), \A c \in S : Free(c, r)
      PROVE  \A c \in Company : lock'[c] = q <=> lock[c] = q
  BY <1>0, <1>3 DEF Acquire, Free
<1>4. CASE \E c \in Company, n \in TaxNo : ClaimLock(r, c, n)
  BY <1>0, <1>3, <1>4 DEF ClaimLock
<1>5. CASE \E c, d \in Company : MergeLock(r, c, d)
  BY <1>0, <1>3, <1>5 DEF MergeLock
<1>6. CASE LockDuplicate(r)
  BY <1>0, <1>3, <1>6 DEF LockDuplicate, Goto
<1>7. CASE MergeLockSecond(r) /\ ~Return(r)
  BY <1>0, <1>3, <1>7 DEF MergeLockSecond, Goto
<1> QED
  BY <1>1, <1>2, <1>4, <1>5, <1>6, <1>7 DEF Acts, CountBeforeIssue, InsertShipper,
     LookUpTaxNo, LinkExisting, IssueLink, FindDuplicate, CountDuplicate, CopyLinks,
     ClearLinks, Settle, MergeCommit, AdoptRead, AdoptWrite, Abort

\* The row of a company that another transaction holds is left as it is.
LEMMA RowKept ==
    ASSUME FoldInv, NEW r \in Request, Acts(r), NEW c \in Company,
           lock[c] \notin {NoRequest, r}, companies[c].exists
    PROVE  companies'[c] = companies[c]
<1>0. TypeOK /\ companies \in [Company -> CompanyRow] /\ \A q \in Request : Secured(q)
  BY DEF FoldInv, TypeOK
<1>1. CASE UNCHANGED companies
  BY <1>1
<1>2. ASSUME NEW d \in Company, InsertShipper(r, d) PROVE companies'[c] = companies[c]
  BY <1>0, <1>2 DEF InsertShipper
<1>3. ASSUME NEW k \in Link, IssueLink(r, k) PROVE companies'[c] = companies[c]
  BY <1>0, <1>3 DEF IssueLink, Free
<1>4. ASSUME NEW u \in User, Settle(r, u) PROVE companies'[c] = companies[c]
  <2>1. req[r].pc = "settle" /\ Secured(r)
    BY <1>0, <1>4 DEF Settle, At
  <2>2. lock[req[r].c] = r /\ (req[r].d # NoCompany => lock[req[r].d] = r)
    BY <2>1 DEF Secured
  <2>3. c # req[r].c /\ c # req[r].d
    BY <2>2, CompanyAssumption
  <2> QED
    BY <1>4, <2>3 DEF Settle
<1>5. CASE MergeCommit(r)
  <2>1. req[r].pc = "move" /\ Secured(r)
    BY <1>0, <1>5 DEF MergeCommit, At
  <2>2. lock[req[r].c] = r /\ lock[req[r].d] = r
    BY <2>1 DEF Secured
  <2> QED
    BY <1>0, <1>5, <2>2 DEF MergeCommit
<1> QED
  BY <1>1, <1>2, <1>3, <1>4, <1>5 DEF Acts, CountBeforeIssue, ClaimLock, LookUpTaxNo,
     MergeLock, LinkExisting, FindDuplicate, CountDuplicate, CopyLinks, ClearLinks,
     LockDuplicate, MergeLockSecond, AdoptRead, AdoptWrite, Abort

-----------------------------------------------------------------------------
(* A claim finds nobody                                                    *)

Claiming == {"search", "count", "copy", "clear", "fold", "settle"}

\* A claim under way is of a company with nobody in it, by the link its row has.
Chosen(r) ==
    req[r].pc \in Claiming
      => /\ companies[req[r].c].exists
         /\ companies[req[r].c].link = req[r].link
         /\ Members(req[r].c) = {}

\* A link is on one company, and on none once it has been used.
LinksDiffer ==
    \A c, d \in Company :
        companies[c].link = companies[d].link /\ companies[c].link # NoLink => c = d
UsedUp == \A p \in claims : \A c \in Company : companies[c].link # p[1]

ClaimInv == LinksDiffer /\ UsedUp /\ \A r \in Request : Chosen(r)

\* Nobody joins the company of a claim under way.
LEMMA NobodyJoins ==
    ASSUME FoldInv, NEW r \in Request, Acts(r), NEW q \in Request, q # r,
           req[q].pc \in Claiming
    PROVE  Members(req[q].c)' \subseteq Members(req[q].c)
<1> DEFINE c == req[q].c
<1>0. /\ TypeOK /\ (\A p \in Request : Secured(p)) /\ lock[c] = q
      /\ companies \in [Company -> CompanyRow]
      /\ c \in Company /\ q # NoRequest /\ req'[q] = req[q]
  BY NothingAssumption, Named, ActsForOne DEF FoldInv, Secured, Claiming, TypeOK
<1>1. CASE UNCHANGED users
  BY <1>0, <1>1 DEF Members
<1>2. ASSUME NEW u \in User, Settle(r, u) PROVE Members(c)' \subseteq Members(c)
  <2>1. req[r].pc = "settle" /\ Secured(r)
    BY <1>0, <1>2 DEF Settle, At
  <2>2. c # req[r].c
    BY <1>0, <2>1 DEF Secured
  <2>3. \/ UNCHANGED users
        \/ users' = [users EXCEPT ![u] = [state |-> "live", company |-> req[r].c]]
    BY <1>2 DEF Settle
  <2> QED
    BY <1>0, <2>2, <2>3 DEF Members, TypeOK
<1>3. CASE MergeCommit(r)
  <2>1. req[r].pc = "move" /\ Secured(r)
    BY <1>0, <1>3 DEF MergeCommit, At
  <2>2. c # req[r].c
    BY <1>0, <2>1 DEF Secured
  <2>3. users' = [u \in User |-> IF users[u].company = req[r].d
                                 THEN [users[u] EXCEPT !.company = req[r].c] ELSE users[u]]
    BY <1>3 DEF MergeCommit
  <2> QED
    BY <1>0, <2>2, <2>3 DEF Members, TypeOK
<1>4. CASE AdoptWrite(r)
  <2>1. \/ UNCHANGED users
        \/ Referable(req[r].c, r) /\ users' = [users EXCEPT ![req[r].user].company = req[r].c]
    BY <1>4 DEF AdoptWrite
  <2>2. ASSUME Referable(req[r].c, r) PROVE req[r].c # c
    <3>1. ASSUME NEW p \in Request, At(p, "settle"), req[p].d = c PROVE FALSE
      <4>1. Secured(p) /\ c # NoCompany
        BY <1>0, CompanyAssumption
      <4>2. lock[c] = p /\ req[p].d # req[p].c
        BY <3>1, <4>1 DEF Secured, At
      <4> QED
        BY <1>0, <3>1, <4>2
    <3> QED
      BY <1>0, <2>2, <3>1 DEF Referable, Free
  <2>3. Members(c)' \subseteq Members(c)
    BY <1>0, <2>1, <2>2 DEF Members, TypeOK
  <2> QED
    BY <2>3
<1>5. Members(c)' \subseteq Members(c)
  BY <1>1, <1>2, <1>3, <1>4 DEF Acts, CountBeforeIssue, ClaimLock, LookUpTaxNo, histories,
     MergeLock, LinkExisting, FindDuplicate, CountDuplicate, CopyLinks, ClearLinks,
     LockDuplicate, MergeLockSecond, AdoptRead, Abort, InsertShipper, IssueLink
<1> QED
  BY <1>0, <1>5

\* What the other claims under way found stays so.
LEMMA OthersChosen ==
    ASSUME FoldInv, NEW r \in Request, Acts(r), NEW q \in Request, q # r, Chosen(q)
    PROVE  Chosen(q)'
<1>1. req'[q] = req[q]
  BY ActsForOne DEF FoldInv
<1>2. CASE req[q].pc \in Claiming
  <2>1. Secured(q) /\ req[q].c \in Company /\ q # NoRequest
    BY <1>2, Named, NothingAssumption DEF FoldInv, Claiming
  <2>2. lock[req[q].c] = q /\ companies[req[q].c].exists
    BY <1>2, <2>1 DEF Secured, Claiming, Chosen
  <2>3. companies'[req[q].c] = companies[req[q].c]
    BY <2>1, <2>2, RowKept
  <2>4. Members(req[q].c)' = {}
    BY <1>2, NobodyJoins DEF Chosen
  <2> QED
    BY <1>1, <1>2, <2>3, <2>4 DEF Chosen, Members
<1>3. CASE req[q].pc \notin Claiming
  BY <1>1, <1>3 DEF Chosen
<1> QED
  BY <1>2, <1>3

\* What a step does to the links on the rows: a new one that is nowhere is put on
\* one row, some are taken off, and some are used.
LinkStep ==
    \/ \E k \in Link, c \in Company :
         /\ \A e \in Company : companies[e].link # k
         /\ \A p \in claims : p[1] # k
         /\ claims' = claims
         /\ \A e \in Company \ {c} : companies'[e].link = companies[e].link
         /\ companies'[c].link = k
    \/ /\ claims' = claims
       /\ \A e \in Company : companies'[e].link \in {companies[e].link, NoLink}
    \/ \E c \in Company, u \in User :
         /\ claims' = claims \cup {<<companies[c].link, u>>}
         /\ companies[c].link \in Link
         /\ \A e \in Company \ {c} : companies'[e].link = companies[e].link
         /\ companies'[c].link = NoLink

LEMMA LinksStayApart ==
    ASSUME TypeOK, LinksDiffer, UsedUp, LinkStep
    PROVE  LinksDiffer' /\ UsedUp'
<1>0. /\ \A c \in Company : companies[c].link \in Link \cup {NoLink}
      /\ \A p \in claims : p[1] \in Link
      /\ NoLink \notin Link
  BY NothingAssumption DEF TypeOK, CompanyRow
<1>1. ASSUME NEW k \in Link, NEW c \in Company,
             \A e \in Company : companies[e].link # k,
             \A p \in claims : p[1] # k,
             claims' = claims,
             \A e \in Company \ {c} : companies'[e].link = companies[e].link,
             companies'[c].link = k
      PROVE  LinksDiffer' /\ UsedUp'
  BY <1>0, <1>1 DEF LinksDiffer, UsedUp
<1>2. ASSUME claims' = claims,
             \A e \in Company : companies'[e].link \in {companies[e].link, NoLink}
      PROVE  LinksDiffer' /\ UsedUp'
  BY <1>0, <1>2 DEF LinksDiffer, UsedUp
<1>3. ASSUME NEW c \in Company, NEW u \in User,
             claims' = claims \cup {<<companies[c].link, u>>},
             companies[c].link \in Link,
             \A e \in Company \ {c} : companies'[e].link = companies[e].link,
             companies'[c].link = NoLink
      PROVE  LinksDiffer' /\ UsedUp'
  BY <1>0, <1>3 DEF LinksDiffer, UsedUp
<1> QED
  BY <1>1, <1>2, <1>3 DEF LinkStep

\* A claim that settles takes the link off the company that nobody is in.
LEMMA SettledLink ==
    ASSUME TypeOK, \A q \in Request : Secured(q) /\ Chosen(q), NEW r \in Request,
           NEW u \in User, Settle(r, u), ~UNCHANGED <<companies, claims>>
    PROVE  /\ req[r].c \in Company /\ Members(req[r].c) = {}
           /\ companies[req[r].c].link \in Link
           /\ claims' = claims \cup {<<companies[req[r].c].link, u>>}
           /\ users' = [users EXCEPT ![u] = [state |-> "live", company |-> req[r].c]]
           /\ companies'[req[r].c].link = NoLink
           /\ \A e \in Company \ {req[r].c} : companies'[e].link = companies[e].link
<1>1. /\ req[r].pc = "settle" /\ Secured(r) /\ Chosen(r) /\ req[r] \in Settling
      /\ companies \in [Company -> CompanyRow]
  BY UnderWay DEF Settle, At, TypeOK
<1>2. /\ req[r].c \in Company /\ req[r].link \in Link /\ req[r].d # req[r].c
      /\ companies[req[r].c].link = req[r].link /\ Members(req[r].c) = {}
  BY <1>1, CompanyAssumption DEF Settling, Tx, Secured, Chosen, Claiming
<1>3. /\ companies' = [c \in Company |->
             CASE c = req[r].c -> [companies[c] EXCEPT !.npwp = req[r].n, !.link = NoLink]
               [] c = req[r].d -> [companies[c] EXCEPT !.npwp = NoTaxNo, !.into = req[r].c]
               [] OTHER -> companies[c]]
      /\ claims' = claims \cup {<<req[r].link, u>>}
      /\ users' = [users EXCEPT ![u] = [state |-> "live", company |-> req[r].c]]
  BY DEF Settle
<1>4. companies'[req[r].c].link = NoLink
  <2>1. companies'[req[r].c] = [companies[req[r].c] EXCEPT !.npwp = req[r].n, !.link = NoLink]
    BY <1>2, <1>3
  <2> QED
    BY <1>1, <1>2, <2>1 DEF CompanyRow
<1>5. ASSUME NEW e \in Company \ {req[r].c}
      PROVE  companies'[e].link = companies[e].link
  <2>1. CASE e = req[r].d
    <3>1. companies'[e] = [companies[e] EXCEPT !.npwp = NoTaxNo, !.into = req[r].c]
      BY <1>2, <1>3, <2>1
    <3> QED
      BY <1>1, <3>1 DEF CompanyRow
  <2>2. CASE e # req[r].d
    BY <1>3, <2>2
  <2> QED
    BY <2>1, <2>2
<1> QED
  BY <1>2, <1>3, <1>4, <1>5

\* A merge points one row and may fill in the tax number of the other.
LEMMA MergedRows ==
    ASSUME TypeOK, NEW r \in Request, Secured(r), MergeCommit(r)
    PROVE  /\ req[r].c \in Company /\ req[r].d \in Company /\ req[r].c # req[r].d
           /\ companies'[req[r].d]
                  = [companies[req[r].d] EXCEPT !.npwp = NoTaxNo, !.into = req[r].c]
           /\ \E n : companies'[req[r].c] = [companies[req[r].c] EXCEPT !.npwp = n]
           /\ \A e \in Company \ {req[r].c, req[r].d} : companies'[e] = companies[e]
<1>1. req[r].pc = "move" /\ req[r].c \in Company /\ req[r].d \in Company
  BY Named DEF MergeCommit, At
<1>2. req[r].d # req[r].c
  BY <1>1 DEF Secured
<1> QED
  BY <1>1, <1>2 DEF MergeCommit, TypeOK

LEMMA MergedLinks ==
    ASSUME TypeOK, NEW r \in Request, Secured(r), MergeCommit(r)
    PROVE  \A e \in Company : companies'[e].link = companies[e].link
<1>1. \A e \in Company : companies[e] \in CompanyRow
  BY DEF TypeOK
<1>2. companies'[req[r].d].link = companies[req[r].d].link
  <2>1. companies'[req[r].d]
          = [companies[req[r].d] EXCEPT !.npwp = NoTaxNo, !.into = req[r].c]
    BY MergedRows
  <2> QED
    BY <1>1, <2>1, MergedRows DEF CompanyRow
<1>3. companies'[req[r].c].link = companies[req[r].c].link
  <2>1. PICK n : companies'[req[r].c] = [companies[req[r].c] EXCEPT !.npwp = n]
    BY MergedRows
  <2> QED
    BY <1>1, <2>1, MergedRows DEF CompanyRow
<1> QED
  BY <1>2, <1>3, MergedRows

LEMMA LinksMove ==
    ASSUME FoldInv, \A q \in Request : Chosen(q), NEW r \in Request, Acts(r)
    PROVE  LinkStep
<1>0. TypeOK /\ (\A q \in Request : Secured(q)) /\ companies \in [Company -> CompanyRow]
  BY DEF FoldInv, TypeOK
<1>1. CASE UNCHANGED <<companies, claims>>
  BY <1>1 DEF LinkStep
<1>2. ASSUME NEW d \in Company, InsertShipper(r, d) PROVE LinkStep
  <2>1. claims' = claims /\ \A e \in Company : companies'[e].link \in {companies[e].link, NoLink}
    <3>1. CASE companies' = companies
      BY <1>2, <3>1 DEF InsertShipper
    <3>2. CASE companies' = [companies EXCEPT ![d] =
                               [Absent EXCEPT !.exists = TRUE, !.npwp = req[r].n]]
      <4>1. companies'[d].link = NoLink
        BY <1>0, <3>2 DEF Absent
      <4>2. \A e \in Company \ {d} : companies'[e] = companies[e]
        BY <1>0, <3>2
      <4> QED
        BY <1>2, <4>1, <4>2 DEF InsertShipper
    <3> QED
      BY <1>2, <3>1, <3>2 DEF InsertShipper
  <2> QED
    BY <2>1 DEF LinkStep
<1>3. ASSUME NEW k \in Link, IssueLink(r, k) PROVE LinkStep
  <2>1. CASE UNCHANGED companies
    BY <1>3, <2>1 DEF IssueLink, histories, LinkStep
  <2>2. CASE companies' = [companies EXCEPT ![req[r].c].link = k]
    <3>1. req[r].c \in Company
      BY <1>0, <1>3, Named DEF IssueLink, At
    <3>2. companies'[req[r].c].link = k
      BY <1>0, <2>2, <3>1 DEF CompanyRow
    <3>3. \A e \in Company \ {req[r].c} : companies'[e].link = companies[e].link
      BY <1>0, <2>2
    <3> QED
      BY <1>3, <3>1, <3>2, <3>3 DEF IssueLink, histories, LinkStep
  <2> QED
    BY <1>3, <2>1, <2>2 DEF IssueLink
<1>4. ASSUME NEW u \in User, Settle(r, u), ~UNCHANGED <<companies, claims>> PROVE LinkStep
  BY <1>0, <1>4, SettledLink DEF LinkStep
<1>6. CASE MergeCommit(r)
  BY <1>0, <1>6, MergedLinks DEF MergeCommit, LinkStep
<1> QED
  BY <1>1, <1>2, <1>3, <1>4, <1>6 DEF Acts, CountBeforeIssue, ClaimLock, LookUpTaxNo,
     MergeLock, LinkExisting, FindDuplicate, CountDuplicate, CopyLinks, ClearLinks, histories,
     LockDuplicate, MergeLockSecond, AdoptRead, AdoptWrite, Abort

\* What the claim of r itself found stays so, from its lock to its commit.
LEMMA OwnChosen ==
    ASSUME FoldInv, NEW r \in Request, Acts(r), Chosen(r)
    PROVE  Chosen(r)'
<1>0. TypeOK /\ req \in [Request -> Pending \cup {Idle}]
  BY DEF FoldInv, TypeOK
<1>1. CASE req'[r].pc \notin Claiming
  BY <1>1 DEF Chosen
<1>2. ASSUME NEW c \in Company, NEW n \in TaxNo, ClaimLock(r, c, n) PROVE Chosen(r)'
  <2>1. /\ UNCHANGED <<companies, users>> /\ Live(c) /\ Members(c) = {}
        /\ req' = [req EXCEPT ![r] = [Begin("search", c) EXCEPT
                                         !.link = companies[c].link, !.n = n]]
    BY <1>2 DEF ClaimLock
  <2>2. req'[r].c = c /\ req'[r].link = companies[c].link
    BY <1>0, <2>1 DEF Begin
  <2> QED
    BY <2>1, <2>2 DEF Chosen, Live, Members
<1>3. ASSUME req[r].pc \in Claiming, UNCHANGED <<companies, users>>,
             req'[r].c = req[r].c, req'[r].link = req[r].link
      PROVE  Chosen(r)'
  BY <1>3 DEF Chosen, Members
<1>4. CASE FindDuplicate(r)
  <2>1. req[r].pc = "search" /\ req[r] \in Searching
    BY <1>0, <1>4, UnderWay DEF FindDuplicate, At
  <2>2. req'[r].c = req[r].c /\ req'[r].link = req[r].link
    BY <1>0, <1>4, <2>1 DEF FindDuplicate, Goto, Searching, Tx
  <2> QED
    BY <1>3, <1>4, <2>1, <2>2 DEF FindDuplicate, Claiming
<1>5. ASSUME CountDuplicate(r), ~Return(r) PROVE Chosen(r)'
  <2>1. req[r].pc = "count" /\ req[r] \in Folding
    BY <1>0, <1>5, UnderWay DEF CountDuplicate, At
  <2>2. req'[r].c = req[r].c /\ req'[r].link = req[r].link
    BY <1>0, <1>5, <2>1 DEF CountDuplicate, Goto, Folding, Tx
  <2> QED
    BY <1>3, <1>5, <2>1, <2>2 DEF CountDuplicate, Claiming
<1>6. CASE CopyLinks(r)
  <2>1. req[r].pc = "copy" /\ req[r] \in Folding
    BY <1>0, <1>6, UnderWay DEF CopyLinks, At
  <2>2. req'[r].c = req[r].c /\ req'[r].link = req[r].link
    BY <1>0, <1>6, <2>1 DEF CopyLinks, Folding, Tx
  <2> QED
    BY <1>3, <1>6, <2>1, <2>2 DEF CopyLinks, Claiming
<1>7. CASE ClearLinks(r)
  <2>1. req[r].pc = "clear" /\ req[r] \in Folding
    BY <1>0, <1>7, UnderWay DEF ClearLinks, At
  <2>2. req'[r].c = req[r].c /\ req'[r].link = req[r].link
    BY <1>0, <1>7, <2>1 DEF ClearLinks, Folding, Tx
  <2> QED
    BY <1>3, <1>7, <2>1, <2>2 DEF ClearLinks, Claiming
<1>8. CASE LockDuplicate(r)
  <2>1. req[r].pc = "fold" /\ req[r] \in Folding
    BY <1>0, <1>8, UnderWay DEF LockDuplicate, At
  <2>2. req'[r].c = req[r].c /\ req'[r].link = req[r].link
    BY <1>0, <1>8, <2>1 DEF LockDuplicate, Goto, Folding, Tx
  <2> QED
    BY <1>3, <1>8, <2>1, <2>2 DEF LockDuplicate, Claiming
<1>9. Return(r) => req'[r].pc \notin Claiming
  BY <1>0 DEF Return, Idle, Claiming
<1>10. ASSUME NEW c \in Company, NEW n, NEW d,
              \/ LookUpTaxNo(r, c, n)
              \/ CountBeforeIssue(r, c)
              \/ MergeLock(r, c, d)
              \/ AdoptRead(r, d, c)
       PROVE  req'[r].pc \notin Claiming
  BY <1>0, <1>10 DEF LookUpTaxNo, CountBeforeIssue, MergeLock, AdoptRead, Begin, Claiming
<1>11. MergeLockSecond(r) => Return(r) \/ req'[r].pc \notin Claiming
  <2>1. Goto(r, "move") /\ req[r].pc # "idle" => req'[r].pc = "move"
    BY <1>0 DEF Goto, Pending, Tx, Creating, Pairing, Searching, Folding, Settling, Adopting, Idle
  <2> QED
    BY <2>1 DEF MergeLockSecond, At, Claiming
<1> QED
  BY <1>1, <1>2, <1>4, <1>5, <1>6, <1>7, <1>8, <1>9, <1>10, <1>11 DEF Acts, InsertShipper,
     LinkExisting, IssueLink, Settle, MergeCommit, AdoptWrite, Abort

\* A statement outside the transactions leaves what a claim has found alone.
LEMMA OutsideChosen ==
    ASSUME FoldInv, Outside, NEW q \in Request, Chosen(q)
    PROVE  Chosen(q)'
<1>0. /\ TypeOK /\ Secured(q) /\ q # NoRequest
      /\ companies \in [Company -> CompanyRow]
      /\ req[q].pc \in Claiming => req[q].c \in Company /\ lock[req[q].c] = q
  BY NothingAssumption, Named DEF FoldInv, TypeOK, Secured, Claiming
<1>1. ASSUME NEW u \in User, NEW c \in Company, Register(u, c) PROVE Chosen(q)'
  BY <1>0, <1>1 DEF Register, Chosen, Members, TypeOK
<1>2. ASSUME NEW u \in User, RegisterDriver(u) PROVE Chosen(q)'
  BY <1>0, <1>2, CompanyAssumption DEF RegisterDriver, Chosen, Members, TypeOK
<1>3. ASSUME NEW u \in User, Delete(u) PROVE Chosen(q)'
  BY <1>0, <1>3 DEF Delete, Chosen, Members, TypeOK
<1>4. ASSUME NEW c \in Company, NEW n \in TaxNo \cup {NoTaxNo}, UpdateTaxNo(c, n)
      PROVE  Chosen(q)'
  <2>1. \A e \in Company : /\ companies'[e].exists = companies[e].exists
                           /\ companies'[e].link = companies[e].link
    BY <1>0, <1>4 DEF UpdateTaxNo, CompanyRow
  <2> QED
    BY <1>0, <1>4, <2>1 DEF UpdateTaxNo, Chosen, Members
<1>5. CASE UNCHANGED vars
  BY <1>5 DEF vars, Chosen, Members
<1> QED
  BY <1>1, <1>2, <1>3, <1>4, <1>5 DEF Outside

LEMMA OutsideLinks == ASSUME TypeOK, Outside PROVE LinkStep
<1>1. claims' = claims
  BY DEF Outside, Register, RegisterDriver, Delete, UpdateTaxNo, histories, vars
<1>2. \A e \in Company : companies'[e].link = companies[e].link
  BY DEF Outside, Register, RegisterDriver, Delete, UpdateTaxNo, vars, TypeOK, CompanyRow
<1> QED
  BY <1>1, <1>2 DEF LinkStep

LEMMA ClaimStep == ASSUME FoldInv, ClaimInv, [Next]_vars PROVE ClaimInv'
<1>0. TypeOK /\ (\A q \in Request : Chosen(q)) /\ LinksDiffer /\ UsedUp
  BY DEF FoldInv, ClaimInv
<1>1. CASE Outside
  BY <1>0, <1>1, OutsideChosen, OutsideLinks, LinksStayApart DEF ClaimInv
<1>2. ASSUME NEW r \in Request, Acts(r) PROVE ClaimInv'
  <2>1. \A q \in Request : Chosen(q)'
    BY <1>0, <1>2, OwnChosen, OthersChosen
  <2> QED
    BY <1>0, <1>2, <2>1, LinksMove, LinksStayApart DEF ClaimInv
<1> QED
  BY <1>1, <1>2, OneActor

LEMMA InitClaim == Init => ClaimInv
<1> SUFFICES ASSUME Init PROVE ClaimInv
  OBVIOUS
<1>1. (\A c \in Company : companies[c].link = NoLink) /\ claims = {}
  BY DEF Init, Absent
<1>2. \A r \in Request : req[r].pc \notin Claiming
  BY DEF Init, Idle, Claiming
<1> QED
  BY <1>1, <1>2 DEF ClaimInv, Chosen, LinksDiffer, UsedUp

\* A claim link works once, and never for a company that has people, whatever claims,
\* invitations, adoptions and merges run at once: from the count of people to the
\* commit the claim holds the row that whoever joins would need (Claim, IssueClaimLink).
THEOREM ClaimsMeetNobody == Spec => ClaimsFindNobody
<1> DEFINE Alone == \A p \in claims' \ claims :
                       /\ \A q \in claims : q[1] # p[1]
                       /\ Members(users'[p[2]].company) = {}
<1>1. FoldInv /\ ClaimInv /\ [Next]_vars => [Alone]_vars
  <2> SUFFICES ASSUME FoldInv, ClaimInv, [Next]_vars PROVE Alone
    OBVIOUS
  <2>0. TypeOK /\ (\A q \in Request : Secured(q) /\ Chosen(q)) /\ UsedUp
    BY DEF FoldInv, ClaimInv
  <2>1. ASSUME NEW r \in Request, NEW u \in User, Settle(r, u) PROVE Alone
    <3>1. CASE UNCHANGED claims
      BY <3>1
    <3>2. CASE ~UNCHANGED claims
      <4>1. /\ req[r].c \in Company /\ Members(req[r].c) = {}
            /\ claims' = claims \cup {<<companies[req[r].c].link, u>>}
            /\ users' = [users EXCEPT ![u] = [state |-> "live", company |-> req[r].c]]
        BY <2>0, <2>1, <3>2, SettledLink
      <4>2. users'[u].company = req[r].c
        BY <2>0, <4>1 DEF TypeOK
      <4>3. \A q \in claims : q[1] # companies[req[r].c].link
        BY <2>0, <4>1 DEF UsedUp
      <4> QED
        BY <4>1, <4>2, <4>3
    <3> QED
      BY <3>1, <3>2
  <2>2. CASE UNCHANGED claims
    BY <2>2
  <2>3. CASE Outside
    BY <2>2, <2>3 DEF Outside, Register, RegisterDriver, Delete, UpdateTaxNo, histories, vars
  <2>4. ASSUME NEW r \in Request, Acts(r) PROVE Alone
    BY <2>1, <2>2, <2>4 DEF Acts, CountBeforeIssue, ClaimLock, LookUpTaxNo, histories,
       MergeLock, LinkExisting, FindDuplicate, CountDuplicate, CopyLinks, ClearLinks,
       LockDuplicate, MergeLockSecond, MergeCommit, AdoptRead, AdoptWrite, Abort,
       InsertShipper, IssueLink
  <2> QED
    BY <2>3, <2>4, OneActor
<1>2. FoldInv /\ [Next]_vars => FoldInv'
  BY FoldStep
<1>3. FoldInv /\ ClaimInv /\ [Next]_vars => ClaimInv'
  BY ClaimStep
<1> QED
  BY <1>1, <1>2, <1>3, InitFold, InitClaim, PTL DEF Spec, ClaimsFindNobody

-----------------------------------------------------------------------------
(* Seats                                                                   *)

Accounts == {u \in User : users[u].state # "none"}

\* What a step does to the people: at most one account is created, and a company
\* that is not marked as crowded loses people or takes one in, into a free seat.
PeopleStep ==
    /\ crowded \subseteq crowded'
    /\ \E u \in User : Accounts' \subseteq Accounts \cup {u}
    /\ \A c \in Company \ crowded' :
          \/ Members(c)' \subseteq Members(c)
          \/ /\ Members(c) = {} \/ SeatLeft(c)
             /\ \E u \in User : Members(c)' \subseteq Members(c) \cup {u}

SeatInv == IsFiniteSet(Accounts) /\ SeatsHold

LEMMA SeatsKept ==
    ASSUME SeatInv, PeopleStep
    PROVE  SeatInv'
<1>1. IsFiniteSet(Accounts')
  <2>1. PICK u \in User : Accounts' \subseteq Accounts \cup {u}
    BY DEF PeopleStep
  <2>2. IsFiniteSet(Accounts \cup {u})
    BY FS_AddElement DEF SeatInv
  <2> QED
    BY <2>1, <2>2, FS_Subset
<1>2. ASSUME NEW c \in Company, Seats[c] # 0, c \notin crowded'
      PROVE  ~(Cardinality(Members(c)') > Seats[c])
  <2>1. /\ IsFiniteSet(Members(c)) /\ Cardinality(Members(c)) \in Nat
        /\ Seats[c] \in Nat /\ c \notin crowded
        /\ Cardinality(Members(c)) <= Seats[c]
    <3>1. Members(c) \subseteq Accounts
      BY DEF Members, Accounts
    <3>2. IsFiniteSet(Members(c)) /\ Cardinality(Members(c)) \in Nat
      BY <3>1, FS_Subset, FS_CardinalityType DEF SeatInv
    <3> QED
      BY <1>2, <3>2, SeatsAssumption DEF SeatInv, SeatsHold, PeopleStep
  <2>2. CASE Members(c)' \subseteq Members(c)
    <3>1. Cardinality(Members(c)') <= Cardinality(Members(c)) /\ Cardinality(Members(c)') \in Nat
      BY <2>1, <2>2, FS_Subset, FS_CardinalityType
    <3> QED
      BY <2>1, <3>1
  <2>3. ASSUME Members(c) = {} \/ SeatLeft(c), NEW u \in User,
               Members(c)' \subseteq Members(c) \cup {u}
        PROVE  ~(Cardinality(Members(c)') > Seats[c])
    <3> DEFINE more == Members(c) \cup {u}
    <3>1. IsFiniteSet(more) /\ Cardinality(more) <= Cardinality(Members(c)) + 1
      BY <2>1, FS_AddElement
    <3>2. /\ Cardinality(Members(c)') <= Cardinality(more)
          /\ Cardinality(Members(c)') \in Nat /\ Cardinality(more) \in Nat
      BY <2>3, <3>1, FS_Subset, FS_CardinalityType
    <3>3. Cardinality(Members(c)) < Seats[c]
      BY <1>2, <2>1, <2>3, FS_EmptySet DEF SeatLeft
    <3> HIDE DEF more
    <3> QED
      BY <2>1, <3>1, <3>2, <3>3
  <2> QED
    BY <1>2, <2>2, <2>3 DEF PeopleStep
<1> QED
  BY <1>1, <1>2 DEF SeatInv, SeatsHold

LEMMA PeopleMove ==
    ASSUME FoldInv, \A q \in Request : Chosen(q), [Next]_vars, User # {}
    PROVE  PeopleStep
<1>0. TypeOK /\ \A u \in User : users[u] \in [state : {"none", "live", "deleted"},
                                              company : Company \cup {NoCompany}]
  BY DEF FoldInv, TypeOK
<1>1. CASE UNCHANGED <<users, crowded>>
  BY <1>1 DEF PeopleStep, Members, Accounts
<1>2. ASSUME NEW r \in Request, NEW u \in User, Settle(r, u) PROVE PeopleStep
  <2>1. CASE UNCHANGED <<companies, claims>>
    <3>1. UNCHANGED users
      <4>1. /\ req[r].pc = "settle" /\ req[r] \in Settling /\ Secured(r) /\ Chosen(r)
        BY <1>0, <1>2, UnderWay DEF Settle, At, FoldInv
      <4>2. /\ companies[req[r].c].link # NoLink /\ req[r].c \in Company /\ req[r].d # req[r].c
            /\ companies[req[r].c] \in CompanyRow
        <5>1. req[r].c \in Company /\ req[r].d \in Company \cup {NoCompany} /\ req[r].link \in Link
          BY <4>1 DEF Settling, Tx
        <5>2. companies[req[r].c].link # NoLink
          <6>1. companies[req[r].c].link = req[r].link
            BY <4>1 DEF Chosen, Claiming
          <6> QED
            BY <5>1, <6>1, NothingAssumption
        <5>3. req[r].d # req[r].c
          <6>1. req[r].d # NoCompany => req[r].d # req[r].c
            BY <4>1 DEF Secured
          <6> QED
            BY <5>1, <6>1, CompanyAssumption
        <5>4. companies[req[r].c] \in CompanyRow
          BY <1>0, <5>1 DEF TypeOK
        <5> QED
          BY <5>1, <5>2, <5>3, <5>4
      <4>3. CASE companies' = [c \in Company |->
                   CASE c = req[r].c -> [companies[c] EXCEPT !.npwp = req[r].n, !.link = NoLink]
                     [] c = req[r].d -> [companies[c] EXCEPT !.npwp = NoTaxNo, !.into = req[r].c]
                     [] OTHER   -> companies[c]]
        <5>1. companies'[req[r].c] = [companies[req[r].c] EXCEPT !.npwp = req[r].n, !.link = NoLink]
          BY <4>2, <4>3
        <5>2. companies'[req[r].c].link = NoLink
          BY <4>2, <5>1 DEF CompanyRow
        <5> QED
          BY <2>1, <4>2, <5>2
      <4> QED
        BY <1>2, <4>3 DEF Settle
    <3> QED
      BY <1>1, <1>2, <3>1 DEF Settle
  <2>2. CASE ~UNCHANGED <<companies, claims>>
    <3>1. /\ req[r].c \in Company /\ Members(req[r].c) = {}
          /\ users' = [users EXCEPT ![u] = [state |-> "live", company |-> req[r].c]]
      BY <1>0, <1>2, <2>2, SettledLink DEF FoldInv
    <3>2. Accounts' \subseteq Accounts \cup {u}
      BY <1>0, <3>1 DEF Accounts, TypeOK
    <3>a. users'[u].company = req[r].c /\ \A v \in User \ {u} : users'[v] = users[v]
      BY <1>0, <3>1 DEF TypeOK
    <3>3. \A c \in Company : c = req[r].c => Members(c)' \subseteq {u}
      BY <3>1, <3>a DEF Members
    <3>4. \A c \in Company \ {req[r].c} : Members(c)' \subseteq Members(c)
      BY <3>a DEF Members
    <3> QED
      BY <1>2, <3>1, <3>2, <3>3, <3>4 DEF PeopleStep, Settle
  <2> QED
    BY <2>1, <2>2
<1>3. ASSUME NEW r \in Request, MergeCommit(r) PROVE PeopleStep
  <2>1. /\ req[r].c \in Company /\ req[r].d \in Company /\ req[r].c # req[r].d
        /\ users' = [u \in User |-> IF users[u].company = req[r].d
                                    THEN [users[u] EXCEPT !.company = req[r].c] ELSE users[u]]
        /\ crowded' = IF Members(req[r].d) = {} THEN crowded ELSE crowded \cup {req[r].c}
    BY <1>0, <1>3, MergedRows DEF MergeCommit, FoldInv
  <2>2. \A u \in User : users'[u].state = users[u].state
    BY <1>0, <2>1
  <2>3. \A c \in Company \ {req[r].c} : Members(c)' \subseteq Members(c)
    BY <1>0, <2>1 DEF Members
  <2>4. Members(req[r].d) = {} =>
          \A c \in Company : c = req[r].c => Members(c)' \subseteq Members(c)
    BY <1>0, <2>1, <2>2 DEF Members
  <2>5. Accounts' = Accounts
    BY <2>2 DEF Accounts
  <2>6. /\ crowded \subseteq crowded'
        /\ Members(req[r].d) # {} => req[r].c \in crowded'
    BY <2>1
  <2>7. \A c \in Company \ crowded' : Members(c)' \subseteq Members(c)
    BY <2>3, <2>4, <2>6
  <2>8. \E u \in User : Accounts' \subseteq Accounts \cup {u}
    BY <2>5
  <2> QED
    BY <2>6, <2>7, <2>8 DEF PeopleStep
<1>4. ASSUME NEW r \in Request, AdoptWrite(r), ~UNCHANGED <<users, crowded>> PROVE PeopleStep
  <2>1. /\ req[r].c \in Company /\ req[r].user \in User
        /\ users' = [users EXCEPT ![req[r].user].company = req[r].c]
        /\ crowded' = crowded \cup {req[r].c}
    BY <1>0, <1>4, UnderWay DEF AdoptWrite, At, Adopting, Tx
  <2>2. \A u \in User : users'[u].state = users[u].state
    BY <1>0, <2>1 DEF TypeOK
  <2>3. \A c \in Company \ {req[r].c} : Members(c)' \subseteq Members(c)
    BY <1>0, <2>1 DEF Members, TypeOK
  <2> QED
    BY <2>1, <2>2, <2>3 DEF PeopleStep, Accounts
<1>5. ASSUME NEW u \in User, NEW c \in Company, Register(u, c) PROVE PeopleStep
  <2>1. /\ SeatLeft(c) /\ UNCHANGED crowded
        /\ users' = [users EXCEPT ![u] = [state |-> "live", company |-> c]]
    BY <1>5 DEF Register, histories
  <2>2. Accounts' \subseteq Accounts \cup {u}
    BY <1>0, <2>1 DEF Accounts, TypeOK
  <2>3. Members(c)' \subseteq Members(c) \cup {u}
    BY <1>0, <2>1 DEF Members, TypeOK
  <2>4. \A e \in Company \ {c} : Members(e)' \subseteq Members(e)
    BY <1>0, <2>1 DEF Members, TypeOK
  <2> QED
    BY <2>1, <2>2, <2>3, <2>4 DEF PeopleStep
<1>6. ASSUME NEW u \in User, RegisterDriver(u) PROVE PeopleStep
  <2>1. Accounts' \subseteq Accounts \cup {u}
    BY <1>0, <1>6 DEF Accounts, TypeOK, RegisterDriver
  <2>2. \A e \in Company : Members(e)' \subseteq Members(e)
    BY <1>0, <1>6, CompanyAssumption DEF Members, TypeOK, RegisterDriver
  <2> QED
    BY <1>6, <2>1, <2>2 DEF PeopleStep, RegisterDriver, histories
<1>7. ASSUME NEW u \in User, Delete(u) PROVE PeopleStep
  <2>1. Accounts' \subseteq Accounts \cup {u}
    BY <1>0, <1>7 DEF Accounts, TypeOK, Delete
  <2>2. \A e \in Company : Members(e)' \subseteq Members(e)
    BY <1>0, <1>7 DEF Members, TypeOK, Delete
  <2> QED
    BY <1>7, <2>1, <2>2 DEF PeopleStep, Delete, histories
<1>8. ASSUME NEW r \in Request, Acts(r) PROVE PeopleStep
  BY <1>1, <1>2, <1>3, <1>4, <1>8 DEF Acts, CountBeforeIssue, ClaimLock, LookUpTaxNo, histories,
     MergeLock, LinkExisting, FindDuplicate, CountDuplicate, CopyLinks, ClearLinks,
     LockDuplicate, MergeLockSecond, AdoptRead, Abort, InsertShipper, IssueLink
<1> QED
  BY <1>1, <1>5, <1>6, <1>7, <1>8, OneActor DEF Outside, UpdateTaxNo, histories, vars

\* A company is never over its seats unless it adopted a driver or absorbed another
\* company's people: a registration counts with the row locked, and a claim adds its
\* one Administrator to a company that still has nobody (Register, Claim).
THEOREM SeatsAreCounted == Spec => []SeatsHold
<1>1. Init => SeatInv
  <2> SUFFICES ASSUME Init PROVE SeatInv
    OBVIOUS
  <2>1. Accounts = {} /\ \A c \in Company : Members(c) = {}
    BY DEF Init, Accounts, Members
  <2> QED
    BY <2>1, FS_EmptySet, SeatsAssumption DEF SeatInv, SeatsHold
<1>2. FoldInv /\ ClaimInv /\ SeatInv /\ [Next]_vars => SeatInv'
  <2> SUFFICES ASSUME FoldInv, ClaimInv, SeatInv, [Next]_vars PROVE SeatInv'
    OBVIOUS
  <2>1. CASE User # {}
    BY <2>1, PeopleMove, SeatsKept DEF ClaimInv
  <2>2. CASE User = {}
    <3>1. Accounts' = {} /\ \A c \in Company : Members(c)' = {}
      BY <2>2 DEF Accounts, Members
    <3> QED
      BY <3>1, FS_EmptySet, SeatsAssumption DEF SeatInv, SeatsHold
  <2> QED
    BY <2>1, <2>2
<1>3. FoldInv /\ [Next]_vars => FoldInv'
  BY FoldStep
<1>4. FoldInv /\ ClaimInv /\ [Next]_vars => ClaimInv'
  BY ClaimStep
<1>5. SeatInv => SeatsHold
  BY DEF SeatInv
<1> QED
  BY <1>1, <1>2, <1>3, <1>4, <1>5, InitFold, InitClaim, PTL DEF Spec

-----------------------------------------------------------------------------
(* Merges                                                                  *)

\* The rows a transaction holds before it is about to write: none, and for a merge
\* that waits for its second row the lower of the two.
Holding(r) ==
    /\ req[r].pc \in {"idle", "insert", "issue", "link", "adopt"}
         => \A c \in Company : lock[c] # r
    /\ req[r].pc = "second"
         => \A c \in Company : lock[c] = r <=> c = Lowest(req[r].c, req[r].d)

HoldInv == \A r \in Request : Holding(r)

LEMMA OwnHolding ==
    ASSUME TypeOK, NEW r \in Request, Acts(r), Holding(r)
    PROVE  Holding(r)'
<1>0. req \in [Request -> Pending \cup {Idle}] /\ r # NoRequest
  BY NothingAssumption DEF TypeOK
<1>1. CASE Return(r)
  BY <1>0, <1>1 DEF Return, Idle, Holding
<1>2. ASSUME UNCHANGED lock, req[r].pc = "idle",
             req'[r].pc \in {"insert", "issue", "link", "adopt"}
      PROVE  Holding(r)'
  BY <1>2 DEF Holding
<1>3. ASSUME NEW c \in Company, NEW d \in Company, MergeLock(r, c, d) PROVE Holding(r)'
  <2>1. req'[r].pc = "second" /\ req'[r].c = c /\ req'[r].d = d
    BY <1>0, <1>3 DEF MergeLock, Begin
  <2>2. \A e \in Company : lock[e] # r
    BY <1>3 DEF MergeLock, At, Holding
  <2>3. \A e \in Company : lock'[e] = r <=> e = Lowest(c, d)
    BY <1>3, <2>2 DEF MergeLock, Acquire
  <2> QED
    BY <2>1, <2>3 DEF Holding, Lowest
<1>4. ASSUME req'[r].pc \in Claiming \cup {"move"} PROVE Holding(r)'
  BY <1>4 DEF Holding, Claiming
<1>5. ASSUME NEW c \in Company, NEW n, NEW u,
             LookUpTaxNo(r, c, n) \/ CountBeforeIssue(r, c) \/ AdoptRead(r, u, c)
      PROVE  Holding(r)'
  <2>1. UNCHANGED lock /\ req[r].pc = "idle"
    BY <1>5 DEF LookUpTaxNo, CountBeforeIssue, AdoptRead, At
  <2>2. req'[r].pc \in {"insert", "issue", "link", "adopt"}
    BY <1>0, <1>5 DEF LookUpTaxNo, CountBeforeIssue, AdoptRead, Begin
  <2> QED
    BY <1>2, <2>1, <2>2
<1>6. ASSUME NEW c \in Company, NEW n, ClaimLock(r, c, n) PROVE Holding(r)'
  BY <1>0, <1>4, <1>6 DEF ClaimLock, Begin, Claiming
<1>7. ASSUME NEW step \in Claiming \cup {"move"}, Goto(r, step), ~At(r, "idle")
      PROVE  Holding(r)'
  <2>1. req'[r].pc = step
    BY <1>0, <1>7 DEF Goto, At, Pending, Tx, Creating, Pairing, Searching, Folding,
       Settling, Adopting, Idle
  <2> QED
    BY <1>4, <2>1
<1>8. CASE FindDuplicate(r)
  <2>1. req[r] \in Searching
    BY <1>8, UnderWay DEF FindDuplicate, At
  <2>2. \/ Goto(r, "settle")
        \/ \E d : req' = [req EXCEPT ![r].pc = "count", ![r].d = d]
    BY <1>8 DEF FindDuplicate
  <2>3. ASSUME NEW d, req' = [req EXCEPT ![r].pc = "count", ![r].d = d]
        PROVE  req'[r].pc = "count"
    BY <1>0, <2>1, <2>3 DEF Searching, Tx
  <2> QED
    BY <1>4, <1>7, <1>8, <2>2, <2>3 DEF FindDuplicate, At, Claiming
<1>9. CASE CopyLinks(r)
  <2>1. req[r] \in Folding
    BY <1>9, UnderWay DEF CopyLinks, At
  <2>2. req'[r].pc = "clear"
    BY <1>0, <1>9, <2>1 DEF CopyLinks, Folding, Tx
  <2> QED
    BY <1>4, <2>2 DEF Claiming
<1>10. CASE ClearLinks(r)
  <2>1. req[r] \in Folding
    BY <1>10, UnderWay DEF ClearLinks, At
  <2>2. req'[r].pc = "fold"
    BY <1>0, <1>10, <2>1 DEF ClearLinks, Folding, Tx
  <2> QED
    BY <1>4, <2>2 DEF Claiming
<1>11. CASE CountDuplicate(r) \/ LockDuplicate(r) \/ MergeLockSecond(r)
  BY <1>1, <1>7, <1>11 DEF CountDuplicate, LockDuplicate, MergeLockSecond, At, Claiming
<1> QED
  BY <1>1, <1>3, <1>5, <1>6, <1>8, <1>9, <1>10, <1>11 DEF Acts, InsertShipper,
     LinkExisting, IssueLink, Settle, MergeCommit, AdoptWrite, Abort

LEMMA HoldStep == ASSUME TypeOK, HoldInv, [Next]_vars PROVE HoldInv'
<1>1. CASE Outside
  <2>1. UNCHANGED <<req, lock>>
    BY <1>1 DEF Outside, Register, RegisterDriver, Delete, UpdateTaxNo, vars
  <2> QED
    BY <2>1 DEF HoldInv, Holding
<1>2. ASSUME NEW r \in Request, Acts(r), NEW q \in Request PROVE Holding(q)'
  <2>1. CASE q = r
    BY <1>2, <2>1, OwnHolding DEF HoldInv
  <2>2. CASE q # r
    <3>1. req'[q] = req[q] /\ \A c \in Company : lock'[c] = q <=> lock[c] = q
      BY <1>2, <2>2, ActsForOne
    <3> QED
      BY <3>1 DEF HoldInv, Holding
  <2> QED
    BY <2>1, <2>2
<1> QED
  BY <1>1, <1>2, OneActor DEF HoldInv

\* Two merges never wait for each other's rows: one that waits holds the lower of its
\* two, so the one that waits for a row of the other's waits for a higher one (Merge).
THEOREM MergesLockInOrder == Spec => []MergesDoNotCross
<1>1. Init => HoldInv
  BY NothingAssumption DEF Init, Idle, HoldInv, Holding
<1>2. TypeOK /\ HoldInv /\ [Next]_vars => HoldInv'
  BY HoldStep
<1>3. TypeOK /\ HoldInv => MergesDoNotCross
  <2> SUFFICES ASSUME TypeOK, HoldInv, NEW q \in Request, NEW r \in Request,
                      At(q, "second"), At(r, "second"), q # r,
                      NEW c \in {req[q].c, req[q].d}, lock[c] = r,
                      NEW d \in {req[r].c, req[r].d}, lock[d] = q
               PROVE  FALSE
    BY DEF MergesDoNotCross
  <2>1. /\ req[q].c \in Nat /\ req[q].d \in Nat /\ req[r].c \in Nat /\ req[r].d \in Nat
        /\ c \in Company /\ d \in Company
    BY Named, CompanyAssumption DEF At
  <2>2. c = Lowest(req[r].c, req[r].d) /\ d = Lowest(req[q].c, req[q].d)
    BY <2>1 DEF HoldInv, Holding, At
  <2>3. c = d
    BY <2>1, <2>2 DEF Lowest
  <2> QED
    BY <2>3
<1>4. TypeOK /\ [Next]_vars => TypeOK'
  BY NextType
<1> QED
  BY <1>1, <1>2, <1>3, <1>4, InitType, PTL DEF Spec

-----------------------------------------------------------------------------
(* Where the pointers lead                                                 *)

Forwards == [Company -> Company \cup {NoCompany}]

\* Leads, for any table of pointers.
Reach(f, x) == {d \in Company : \A S \in SUBSET Company :
                   (x \in S /\ \A e \in S : f[e] \in S \cup {NoCompany}) => d \in S}

Into == [c \in Company |-> companies[c].into]

LEMMA LeadsIsReach ==
    \A x : Leads(x) = Reach(Into, x) /\ Leads(x)' = Reach(Into', x)
BY DEF Leads, Reach, Into

LEMMA ReachWithin ==
    ASSUME NEW f \in Forwards, NEW S \in SUBSET Company, NEW x \in S,
           \A e \in S : f[e] \in S \cup {NoCompany}
    PROVE  Reach(f, x) \subseteq S
BY DEF Reach

LEMMA ReachClosed ==
    ASSUME NEW f \in Forwards, NEW x \in Company
    PROVE  /\ x \in Reach(f, x) /\ Reach(f, x) \in SUBSET Company
           /\ \A e \in Reach(f, x) : f[e] \in Reach(f, x) \cup {NoCompany}
<1>1. x \in Reach(f, x) /\ Reach(f, x) \in SUBSET Company
  BY DEF Reach
<1>2. ASSUME NEW e \in Reach(f, x), f[e] # NoCompany PROVE f[e] \in Reach(f, x)
  <2>1. f[e] \in Company
    BY <1>1, <1>2 DEF Forwards
  <2>2. ASSUME NEW S \in SUBSET Company, x \in S,
               \A y \in S : f[y] \in S \cup {NoCompany}
        PROVE  f[e] \in S
    <3>1. e \in S
      BY <2>2 DEF Reach
    <3> QED
      BY <1>2, <2>2, <3>1
  <2> QED
    BY <2>1, <2>2 DEF Reach
<1> QED
  BY <1>1, <1>2

\* A company that holds its own records leads nowhere else.
LEMMA ReachAtEnd ==
    ASSUME NEW f \in Forwards, NEW x \in Company, f[x] = NoCompany
    PROVE  Reach(f, x) = {x}
<1> DEFINE S == {x}
<1>0. S \in SUBSET Company /\ x \in S /\ \A e \in S : f[e] \in S \cup {NoCompany}
  OBVIOUS
<1> HIDE DEF S
<1>1. Reach(f, x) \subseteq S
  BY <1>0, ReachWithin
<1> QED
  BY <1>1, ReachClosed DEF S

\* Following one pointer loses only the company it starts from.
LEMMA ReachOneOn ==
    ASSUME NEW f \in Forwards, NEW x \in Company, f[x] # NoCompany
    PROVE  f[x] \in Company /\ Reach(f, x) \subseteq {x} \cup Reach(f, f[x])
<1> DEFINE S == {x} \cup Reach(f, f[x])
<1>1. f[x] \in Company
  BY DEF Forwards
<1>2. /\ f[x] \in Reach(f, f[x]) /\ Reach(f, f[x]) \in SUBSET Company
      /\ \A e \in Reach(f, f[x]) : f[e] \in Reach(f, f[x]) \cup {NoCompany}
  BY <1>1, ReachClosed
<1>3. S \in SUBSET Company /\ x \in S /\ \A e \in S : f[e] \in S \cup {NoCompany}
  BY <1>2
<1> HIDE DEF S
<1>4. Reach(f, x) \subseteq S
  BY <1>3, ReachWithin
<1> QED
  BY <1>1, <1>4 DEF S

\* The pointers lead from a company to one end at most.
LEMMA OneEnd ==
    ASSUME NEW f \in Forwards, NEW x \in Company,
           NEW v \in Reach(f, x), f[v] = NoCompany,
           NEW w \in Reach(f, x), f[w] = NoCompany
    PROVE  v = w
<1> DEFINE S == {y \in Reach(f, x) : w \in Reach(f, y)}
<1>0. /\ x \in Reach(f, x) /\ Reach(f, x) \in SUBSET Company
      /\ \A e \in Reach(f, x) : f[e] \in Reach(f, x) \cup {NoCompany}
  BY ReachClosed
<1>1. ASSUME NEW y \in S, f[y] # NoCompany PROVE f[y] \in S
  <2>1. f[y] \in Reach(f, x) /\ y \in Company
    BY <1>0, <1>1
  <2>2. w \in {y} \cup Reach(f, f[y])
    BY <1>1, <2>1, ReachOneOn
  <2>3. w # y
    BY <1>1
  <2> QED
    BY <2>1, <2>2, <2>3
<1>2. S \in SUBSET Company /\ x \in S
  BY <1>0
<1> HIDE DEF S
<1>3. Reach(f, x) \subseteq S
  BY <1>1, <1>2, ReachWithin
<1>4. w \in Reach(f, v) /\ v \in Company
  BY <1>0, <1>3 DEF S
<1> QED
  BY <1>4, ReachAtEnd

\* What changes where the pointers lead when d is pointed at s, which holds its own
\* records: nothing for those that did not lead to d, and for the others, if d held its
\* own until then, they now lead to s too.
LEMMA ReachMoved ==
    ASSUME NEW f \in Forwards, NEW g \in Forwards, NEW d \in Company, NEW s \in Company,
           d # s, f[s] = NoCompany, g[d] = s,
           \A e \in Company \ {d} : g[e] = f[e],
           NEW x \in Company
    PROVE  /\ d \notin Reach(f, x) => Reach(g, x) = Reach(f, x)
           /\ d \in Reach(f, x) /\ f[d] = NoCompany
                => /\ Reach(f, x) \subseteq Reach(g, x)
                   /\ Reach(g, x) \subseteq Reach(f, x) \cup {s}
                   /\ s \in Reach(g, x)
<1> DEFINE F == Reach(f, x)
           G == Reach(g, x)
<1>1. /\ x \in F /\ F \in SUBSET Company /\ \A e \in F : f[e] \in F \cup {NoCompany}
      /\ x \in G /\ G \in SUBSET Company /\ \A e \in G : g[e] \in G \cup {NoCompany}
  BY ReachClosed
<1>f. ASSUME NEW S \in SUBSET Company, x \in S, \A e \in S : f[e] \in S \cup {NoCompany}
      PROVE  F \subseteq S
  BY <1>f, ReachWithin
<1>g. ASSUME NEW S \in SUBSET Company, x \in S, \A e \in S : g[e] \in S \cup {NoCompany}
      PROVE  G \subseteq S
  BY <1>g, ReachWithin
<1> HIDE DEF F, G
<1>2. CASE d \notin F
  <2>1. \A e \in F : g[e] \in F \cup {NoCompany}
    BY <1>1, <1>2
  <2>2. G \subseteq F
    BY <1>1, <1>g, <2>1
  <2>3. \A e \in G : f[e] \in G \cup {NoCompany}
    BY <1>1, <1>2, <2>2
  <2>4. F \subseteq G
    BY <1>1, <1>f, <2>3
  <2> QED
    BY <1>2, <2>2, <2>4 DEF F, G
<1>3. CASE d \in F /\ f[d] = NoCompany
  <2>1. \A e \in G : f[e] \in G \cup {NoCompany}
    BY <1>1, <1>3
  <2>2. F \subseteq G
    BY <1>1, <1>f, <2>1
  <2>3. s \in G
    <3>1. g[d] \in G \cup {NoCompany} /\ s # NoCompany
      BY <1>1, <1>3, <2>2, CompanyAssumption
    <3> QED
      BY <3>1
  <2>4. G \subseteq F \cup {s}
    <3> DEFINE S == F \cup {s}
    <3>1. S \in SUBSET Company /\ x \in S /\ \A e \in S : g[e] \in S \cup {NoCompany}
      BY <1>1
    <3> HIDE DEF S
    <3>2. G \subseteq S
      BY <1>g, <3>1
    <3> QED
      BY <3>2 DEF S
  <2> QED
    BY <1>3, <2>2, <2>3, <2>4 DEF F, G
<1> QED
  BY <1>2, <1>3 DEF F

-----------------------------------------------------------------------------
(* Links follow the pointers                                               *)

Afoot == {"count", "copy", "clear", "fold", "settle"}

\* A claim that is folding a company away finds the pairs resting on it where they
\* were: the company is live, and once its links are copied their dealers are among
\* those it moves.
FoldAway(r) ==
    req[r].pc \in Afoot /\ req[r].d # NoCompany =>
        \A p \in dealt \ drifted :
            req[r].d \in Leads(p[2]) =>
                /\ Live(req[r].d)
                /\ req[r].pc \in {"clear", "fold", "settle"} => p[1] \in req[r].moved

\* A merge is of two companies that exist, and about to commit the one it folds away
\* has not been folded away already.
Merging(r) ==
    /\ req[r].pc \in {"second", "move"} => companies[req[r].c].exists
    /\ req[r].pc = "move" => companies[req[r].d].into = NoCompany

FollowInv == LinksFollow /\ \A r \in Request : FoldAway(r) /\ Merging(r)

\* A step that moves no pointer, takes no link away and deals the pairs D, whose
\* shippers are live and linked.
Steady(D) ==
    /\ Into' = Into
    /\ \A c \in Company : companies[c].exists => companies'[c].exists
    /\ links \subseteq links' /\ drifted \subseteq drifted'
    /\ dealt' \ drifted' \subseteq dealt \cup D
    /\ \A p \in D : p[2] \in Company /\ Live(p[2])' /\ p \in links'

\* A step of r that points d at c, which holds its own records, and moves the links.
Folds(r, c, d) ==
    /\ Into[c] = NoCompany /\ Into'[d] = c
    /\ \A e \in Company \ {d} : Into'[e] = Into[e]
    /\ \A e \in Company : companies[e].exists => companies'[e].exists
    /\ companies[c].exists
    /\ dealt' = dealt /\ drifted \subseteq drifted'
    /\ BeingFolded({c, d}, r) => Resting({c, d}) \subseteq drifted'
    /\ \A p \in links : p[2] # d => p \in links'
    /\ \A p \in dealt \ drifted : d \in Leads(p[2]) =>
          Live(d) /\ (<<p[1], d>> \in links => <<p[1], c>> \in links')

LEMMA IntoType ==
    ASSUME TypeOK, TypeOK'
    PROVE  /\ Into \in Forwards /\ Into' \in Forwards
           /\ \A c \in Company : Into[c] = companies[c].into /\ Into'[c] = companies'[c].into
BY DEF Into, Forwards, TypeOK, CompanyRow

LEMMA SteadyFollows ==
    ASSUME TypeOK, TypeOK', NEW D, Steady(D), LinksFollow
    PROVE  LinksFollow'
<1> SUFFICES ASSUME NEW p \in dealt' \ drifted'
             PROVE  \E c \in Leads(p[2])' : Live(c)' /\ <<p[1], c>> \in links'
  BY DEF LinksFollow
<1>0. /\ Into \in Forwards /\ Into' \in Forwards
      /\ \A c \in Company : Into[c] = companies[c].into /\ Into'[c] = companies'[c].into
      /\ \A x : Leads(x)' = Leads(x)
  BY IntoType, LeadsIsReach DEF Steady
<1>a. p \in Company \X Company /\ Leads(p[2]) \in SUBSET Company
  BY DEF TypeOK, Leads
<1>1. CASE p \in dealt
  <2>1. PICK c \in Leads(p[2]) : Live(c) /\ <<p[1], c>> \in links
    BY <1>1 DEF LinksFollow, Steady
  <2>2. c \in Company /\ Live(c)'
    BY <1>0, <1>a, <2>1 DEF Steady, Live
  <2> QED
    BY <1>0, <2>1, <2>2 DEF Steady
<1>2. CASE p \in D
  <2>1. p[2] \in Leads(p[2])'
    BY <1>0, <1>a, ReachClosed, LeadsIsReach
  <2>2. p = <<p[1], p[2]>>
    BY <1>a
  <2> QED
    BY <1>2, <2>1, <2>2 DEF Steady
<1> QED
  BY <1>1, <1>2 DEF Steady

LEMMA SteadyAway ==
    ASSUME TypeOK, TypeOK', NEW D, Steady(D), NEW q \in Request, FoldAway(q),
           req'[q] = req[q],
           req[q].pc \in Afoot => \A p \in D : p[2] # req[q].d
    PROVE  FoldAway(q)'
<1> SUFFICES ASSUME req[q].pc \in Afoot, req[q].d # NoCompany,
                    NEW p \in dealt' \ drifted', req[q].d \in Leads(p[2])'
             PROVE  /\ Live(req[q].d)'
                    /\ req[q].pc \in {"clear", "fold", "settle"} => p[1] \in req[q].moved
  BY DEF FoldAway, Live
<1>0. /\ Into \in Forwards /\ Into' \in Forwards
      /\ \A c \in Company : Into[c] = companies[c].into /\ Into'[c] = companies'[c].into
      /\ \A x : Leads(x)' = Leads(x)
      /\ req[q].d \in Company
  BY IntoType, LeadsIsReach DEF Steady, Leads
<1>1. p \in dealt \ drifted
  <2>1. CASE p \in D
    <3>1. p[2] \in Company /\ Into'[p[2]] = NoCompany
      BY <1>0, <2>1 DEF Steady, Live
    <3>2. Leads(p[2])' = {p[2]}
      BY <1>0, <3>1, ReachAtEnd, LeadsIsReach
    <3> QED
      BY <2>1, <3>2
  <2> QED
    BY <2>1 DEF Steady
<1>2. /\ Live(req[q].d)
      /\ req[q].pc \in {"clear", "fold", "settle"} => p[1] \in req[q].moved
  BY <1>0, <1>1 DEF FoldAway
<1>3. companies'[req[q].d].exists /\ companies'[req[q].d].into = NoCompany
  BY <1>0, <1>2 DEF Live, Steady
<1> QED
  BY <1>2, <1>3 DEF Live

\* Where the pointers lead from the shipper of a pair once d has been pointed at c.
LEMMA LeadsMoved ==
    ASSUME TypeOK, TypeOK', NEW r \in Request, NEW c \in Company, NEW d \in Company, c # d,
           Folds(r, c, d), NEW p \in dealt \ drifted
    PROVE  /\ d \notin Leads(p[2]) => Leads(p[2])' = Leads(p[2])
           /\ d \in Leads(p[2]) => /\ Leads(p[2]) \subseteq Leads(p[2])'
                                   /\ Leads(p[2])' \subseteq Leads(p[2]) \cup {c}
                                   /\ c \in Leads(p[2])'
<1>1. /\ Into \in Forwards /\ Into' \in Forwards
      /\ \A e \in Company : Into[e] = companies[e].into /\ Into'[e] = companies'[e].into
  BY IntoType
<1>2. p[2] \in Company
  BY DEF TypeOK
<1>3. d \in Leads(p[2]) => Into[d] = NoCompany
  BY <1>1 DEF Folds, Live
<1>4. /\ d \notin Reach(Into, p[2]) => Reach(Into', p[2]) = Reach(Into, p[2])
      /\ d \in Reach(Into, p[2]) /\ Into[d] = NoCompany
           => /\ Reach(Into, p[2]) \subseteq Reach(Into', p[2])
              /\ Reach(Into', p[2]) \subseteq Reach(Into, p[2]) \cup {c}
              /\ c \in Reach(Into', p[2])
  BY <1>1, <1>2, ReachMoved DEF Folds
<1>5. Leads(p[2]) = Reach(Into, p[2]) /\ Leads(p[2])' = Reach(Into', p[2])
  BY LeadsIsReach
<1> QED
  BY <1>3, <1>4, <1>5

LEMMA FoldFollows ==
    ASSUME TypeOK, TypeOK', NEW r \in Request, NEW c \in Company, NEW d \in Company, c # d,
           Folds(r, c, d), LinksFollow
    PROVE  LinksFollow'
<1> SUFFICES ASSUME NEW p \in dealt' \ drifted'
             PROVE  \E e \in Leads(p[2])' : Live(e)' /\ <<p[1], e>> \in links'
  BY DEF LinksFollow
<1>0. /\ p \in dealt \ drifted
      /\ \A e \in Company : Into[e] = companies[e].into /\ Into'[e] = companies'[e].into
  BY IntoType DEF Folds
<1>1. PICK w \in Leads(p[2]) : Live(w) /\ <<p[1], w>> \in links
  BY <1>0 DEF LinksFollow
<1>2. w \in Company
  BY <1>1 DEF Leads
<1>3. CASE w # d
  <2>1. Live(w)' /\ <<p[1], w>> \in links'
    BY <1>0, <1>1, <1>2, <1>3 DEF Folds, Live
  <2>2. w \in Leads(p[2])'
    BY <1>0, <1>1, LeadsMoved
  <2> QED
    BY <2>1, <2>2
<1>4. CASE w = d
  <2>1. c \in Leads(p[2])' /\ <<p[1], c>> \in links'
    BY <1>0, <1>1, <1>4, LeadsMoved DEF Folds
  <2>2. Live(c)'
    BY <1>0 DEF Folds, Live
  <2> QED
    BY <2>1, <2>2
<1> QED
  BY <1>3, <1>4

LEMMA FoldAwayOthers ==
    ASSUME TypeOK, TypeOK', NEW r \in Request, NEW c \in Company, NEW d \in Company, c # d,
           Folds(r, c, d), NEW q \in Request, q # r, req'[q] = req[q], FoldAway(q)
    PROVE  FoldAway(q)'
<1> SUFFICES ASSUME req[q].pc \in Afoot, req[q].d # NoCompany,
                    NEW p \in dealt' \ drifted', req[q].d \in Leads(p[2])'
             PROVE  /\ Live(req[q].d)'
                    /\ req[q].pc \in {"clear", "fold", "settle"} => p[1] \in req[q].moved
  BY DEF FoldAway, Live
<1>0. /\ p \in dealt \ drifted
      /\ \A e \in Company : Into[e] = companies[e].into /\ Into'[e] = companies'[e].into
      /\ req[q].d \in Company
  BY IntoType, Named DEF Folds, Afoot
<1>1. \/ req[q].d \in Leads(p[2])
      \/ req[q].d = c /\ d \in Leads(p[2])
  BY <1>0, LeadsMoved
<1>2. req[q].d \notin {c, d}
  <2> SUFFICES ASSUME req[q].d \in {c, d} PROVE FALSE
    OBVIOUS
  <2>1. BeingFolded({c, d}, r)
    BY DEF BeingFolded, Afoot
  <2>2. p \in Resting({c, d})
    BY <1>0, <1>1 DEF Resting
  <2> QED
    BY <2>1, <2>2 DEF Folds
<1>3. /\ Live(req[q].d)
      /\ req[q].pc \in {"clear", "fold", "settle"} => p[1] \in req[q].moved
  BY <1>0, <1>1, <1>2 DEF FoldAway
<1>4. companies'[req[q].d].exists /\ companies'[req[q].d].into = NoCompany
  BY <1>0, <1>2, <1>3 DEF Live, Folds
<1> QED
  BY <1>3, <1>4 DEF Live

\* A claim that settles points the duplicate it found, if any, at its company.
LEMMA SettledRows ==
    ASSUME TypeOK, NEW r \in Request, Secured(r), NEW u \in User, Settle(r, u),
           ~UNCHANGED <<companies, links, drifted>>
    PROVE  /\ req[r].c \in Company /\ req[r].d \in Company \cup {NoCompany}
           /\ req[r].d # req[r].c
           /\ \A e \in Company : companies'[e].exists = companies[e].exists
           /\ \A e \in Company \ {req[r].d} : companies'[e].into = companies[e].into
           /\ req[r].d \in Company => companies'[req[r].d].into = req[r].c
           /\ links' = (links \ (req[r].cleared \X {req[r].d}))
                          \cup (req[r].moved \X {req[r].c})
           /\ drifted' = IF BeingFolded({req[r].c, req[r].d} \ {NoCompany}, r)
                         THEN drifted \cup Resting({req[r].c, req[r].d}) ELSE drifted
<1>1. /\ req[r].pc = "settle"
      /\ companies' = [c \in Company |->
             CASE c = req[r].c -> [companies[c] EXCEPT !.npwp = req[r].n, !.link = NoLink]
               [] c = req[r].d -> [companies[c] EXCEPT !.npwp = NoTaxNo, !.into = req[r].c]
               [] OTHER -> companies[c]]
      /\ links' = (links \ (req[r].cleared \X {req[r].d})) \cup (req[r].moved \X {req[r].c})
      /\ drifted' = IF BeingFolded({req[r].c, req[r].d} \ {NoCompany}, r)
                    THEN drifted \cup Resting({req[r].c, req[r].d}) ELSE drifted
  BY DEF Settle, At
<1>2. /\ req[r].c \in Company /\ req[r].d \in Company \cup {NoCompany}
      /\ req[r].d # req[r].c
  BY <1>1, Named, CompanyAssumption DEF Secured
<1>3. \A e \in Company : companies[e] \in CompanyRow
  BY DEF TypeOK
<1>4. ASSUME NEW e \in Company, e = req[r].c
      PROVE  companies'[e].into = companies[e].into /\ companies'[e].exists = companies[e].exists
  <2>1. companies'[e] = [companies[e] EXCEPT !.npwp = req[r].n, !.link = NoLink]
    BY <1>1, <1>2, <1>4
  <2> QED
    BY <1>3, <2>1, RowUpdates
<1>5. ASSUME NEW e \in Company, e = req[r].d
      PROVE  companies'[e].into = req[r].c /\ companies'[e].exists = companies[e].exists
  <2>1. companies'[e] = [companies[e] EXCEPT !.npwp = NoTaxNo, !.into = req[r].c]
    BY <1>1, <1>2, <1>5
  <2> QED
    BY <1>3, <2>1, RowUpdates
<1>6. ASSUME NEW e \in Company, e # req[r].c, e # req[r].d PROVE companies'[e] = companies[e]
  BY <1>1, <1>6
<1> QED
  BY <1>1, <1>2, <1>4, <1>5, <1>6
Apart(D, r) == \A q \in Request \ {r} :
                  req[q].pc \in Afoot => \A p \in D : p[2] # req[q].d

\* Every step of a transaction is one or the other.
LEMMA SteadyOrFolds ==
    ASSUME FoldInv, FoldInv', \A q \in Request : Chosen(q) /\ FoldAway(q) /\ Merging(q),
           NEW r \in Request, Acts(r)
    PROVE  \/ \E D \in SUBSET (Company \X Company) : Steady(D) /\ Apart(D, r)
           \/ \E c, d \in Company : c # d /\ Folds(r, c, d)
<1>0. /\ TypeOK /\ TypeOK' /\ Placed /\ \A q \in Request : Secured(q)
      /\ \A e \in Company : Into[e] = companies[e].into /\ Into'[e] = companies'[e].into
      /\ Into = [c \in Company |-> Into[c]] /\ Into' = [c \in Company |-> Into'[c]]
  BY IntoType DEF FoldInv, Into
<1>a. ASSUME \A e \in Company : /\ companies'[e].into = companies[e].into
                                /\ companies[e].exists => companies'[e].exists,
             links \subseteq links', drifted \subseteq drifted', dealt' = dealt
      PROVE  \E D \in SUBSET (Company \X Company) : Steady(D) /\ Apart(D, r)
  <2>1. Into' = Into
    BY <1>0, <1>a
  <2>2. Steady({}) /\ Apart({}, r)
    BY <1>a, <2>1 DEF Steady, Apart
  <2> QED
    BY <2>2
<1>1. CASE UNCHANGED <<companies, links, dealt, drifted>>
  BY <1>a, <1>1
<1>2. ASSUME NEW d \in Company, InsertShipper(r, d), ~UNCHANGED <<companies, links, dealt>>
      PROVE  \E D \in SUBSET (Company \X Company) : Steady(D) /\ Apart(D, r)
  <2>1. /\ req[r].pc = "insert" /\ ~companies[d].exists
        /\ companies' = [companies EXCEPT ![d] =
               [Absent EXCEPT !.exists = TRUE, !.npwp = req[r].n]]
        /\ links' = links \cup {<<req[r].c, d>>}
        /\ dealt' = dealt \cup {<<req[r].c, d>>}
        /\ drifted' = drifted
    BY <1>2 DEF InsertShipper, At
  <2>2. req[r].c \in Company
    BY <1>0, <2>1, Named
  <2>3. /\ companies'[d].exists /\ companies'[d].into = NoCompany
        /\ \A e \in Company \ {d} : companies'[e] = companies[e]
    BY <1>0, <2>1 DEF TypeOK, Absent
  <2>4. companies[d].into = NoCompany
    BY <1>0, <2>1 DEF Placed
  <2>5. Into' = Into
    BY <1>0, <2>3, <2>4
  <2> DEFINE D == {<<req[r].c, d>>}
  <2>6. Steady(D)
    <3>1. \A e \in Company : companies[e].exists => companies'[e].exists
      BY <2>3
    <3>2. Live(d)'
      BY <2>3 DEF Live
    <3>3. \A p \in D : p[2] \in Company /\ Live(p[2])' /\ p \in links'
      BY <2>1, <3>2
    <3> QED
      BY <2>1, <2>5, <3>1, <3>3 DEF Steady
  <2>7. Apart(D, r)
    <3> SUFFICES ASSUME NEW q \in Request \ {r}, req[q].pc \in Afoot PROVE d # req[q].d
      BY DEF Apart
    <3>1. Secured(q)
      BY <1>0
    <3> QED
      BY <2>1, <3>1, CompanyAssumption DEF Secured, Afoot
  <2>8. D \in SUBSET (Company \X Company)
    BY <2>2
  <2> QED
    BY <2>6, <2>7, <2>8
<1>3. CASE LinkExisting(r)
  <2> DEFINE pair == <<req[r].c, req[r].d>>
  <2>1. /\ req[r].pc = "link"
        /\ links' = links \cup {pair} /\ dealt' = dealt \cup {pair}
        /\ drifted' = IF Live(pair[2]) /\ ~BeingFolded({pair[2]}, r)
                      THEN drifted ELSE drifted \cup {pair}
        /\ UNCHANGED companies
    BY <1>3 DEF LinkExisting, At
  <2>2. req[r].c \in Company /\ req[r].d \in Company /\ pair[2] = req[r].d
    BY <1>0, <2>1, Named
  <2>3. Into' = Into
    BY <1>0, <2>1
  <2>4. CASE Live(req[r].d) /\ ~BeingFolded({req[r].d}, r)
    <3>1. Steady({pair})
      <4>1. \A p \in {pair} : p[2] \in Company /\ Live(p[2])' /\ p \in links'
        BY <2>1, <2>2, <2>4 DEF Live
      <4> QED
        BY <2>1, <2>2, <2>3, <2>4, <4>1 DEF Steady
    <3>2. Apart({pair}, r)
      BY <2>2, <2>4 DEF Apart, BeingFolded, Afoot
    <3> QED
      BY <2>2, <3>1, <3>2
  <2>5. CASE ~(Live(req[r].d) /\ ~BeingFolded({req[r].d}, r))
    <3>1. Steady({}) /\ Apart({}, r)
      BY <2>1, <2>2, <2>3, <2>5 DEF Steady, Apart
    <3> QED
      BY <3>1
  <2> QED
    BY <2>4, <2>5
<1>4. ASSUME NEW k \in Link, IssueLink(r, k)
      PROVE  \E D \in SUBSET (Company \X Company) : Steady(D) /\ Apart(D, r)
  <2>1. \A e \in Company : /\ companies'[e].into = companies[e].into
                           /\ companies[e].exists => companies'[e].exists
    BY <1>0, <1>4 DEF IssueLink, TypeOK, CompanyRow
  <2> QED
    BY <1>4, <1>a, <2>1 DEF IssueLink, histories
<1>5. ASSUME NEW u \in User, Settle(r, u), ~UNCHANGED <<companies, links, drifted>>
      PROVE  \/ \E D \in SUBSET (Company \X Company) : Steady(D) /\ Apart(D, r)
             \/ \E c, d \in Company : c # d /\ Folds(r, c, d)
  <2>1. /\ req[r].c \in Company /\ req[r].d \in Company \cup {NoCompany}
        /\ req[r].d # req[r].c
        /\ \A e \in Company : companies'[e].exists = companies[e].exists
        /\ \A e \in Company \ {req[r].d} : companies'[e].into = companies[e].into
        /\ req[r].d \in Company => companies'[req[r].d].into = req[r].c
        /\ links' = (links \ (req[r].cleared \X {req[r].d})) \cup (req[r].moved \X {req[r].c})
        /\ drifted' = IF BeingFolded({req[r].c, req[r].d} \ {NoCompany}, r)
                      THEN drifted \cup Resting({req[r].c, req[r].d}) ELSE drifted
    BY <1>0, <1>5, SettledRows
  <2>2. dealt' = dealt /\ drifted \subseteq drifted' /\ req[r].pc = "settle"
    BY <1>5, <2>1 DEF Settle, At
  <2>3. CASE req[r].d = NoCompany
    <3>1. \A p \in links : p[2] # NoCompany
      BY <1>0, CompanyAssumption DEF TypeOK
    <3>2. links \subseteq links'
      BY <2>1, <2>3, <3>1
    <3>3. \A e \in Company : companies'[e].into = companies[e].into
      BY <2>1, <2>3, CompanyAssumption
    <3> QED
      BY <1>a, <2>1, <2>2, <3>2, <3>3
  <2>4. CASE req[r].d \in Company
    <3>0. NoCompany \notin {req[r].c, req[r].d} /\ Secured(r) /\ Chosen(r) /\ FoldAway(r)
      BY <1>0, <2>1, <2>4, CompanyAssumption
    <3>1. /\ companies[req[r].c].into = NoCompany /\ companies[req[r].c].exists
      BY <2>2, <3>0 DEF Secured, Chosen, Claiming
    <3>2. BeingFolded({req[r].c, req[r].d}, r)
             => Resting({req[r].c, req[r].d}) \subseteq drifted'
      <4>1. {req[r].c, req[r].d} \ {NoCompany} = {req[r].c, req[r].d}
        BY <3>0
      <4> QED
        BY <2>1, <4>1
    <3>3. \A p \in links : p[2] # req[r].d => p \in links'
      BY <2>1
    <3>4. ASSUME NEW p \in dealt \ drifted, req[r].d \in Leads(p[2])
          PROVE  Live(req[r].d) /\ <<p[1], req[r].c>> \in links'
      <4>1. Live(req[r].d) /\ p[1] \in req[r].moved
        BY <2>2, <3>0, <3>4 DEF FoldAway, Afoot
      <4> QED
        BY <2>1, <4>1
    <3>5. /\ Into[req[r].c] = NoCompany /\ Into'[req[r].d] = req[r].c
          /\ \A e \in Company \ {req[r].d} : Into'[e] = Into[e]
          /\ \A e \in Company : companies[e].exists => companies'[e].exists
      BY <1>0, <2>1, <2>4, <3>1
    <3>6. Folds(r, req[r].c, req[r].d)
      BY <2>2, <3>1, <3>2, <3>3, <3>4, <3>5 DEF Folds
    <3> QED
      BY <2>1, <2>4, <3>6
  <2> QED
    BY <2>1, <2>3, <2>4
<1>6. CASE MergeCommit(r)
  <2>1. /\ req[r].c \in Company /\ req[r].d \in Company /\ req[r].c # req[r].d
        /\ companies'[req[r].d]
               = [companies[req[r].d] EXCEPT !.npwp = NoTaxNo, !.into = req[r].c]
        /\ \E n : companies'[req[r].c] = [companies[req[r].c] EXCEPT !.npwp = n]
        /\ \A e \in Company \ {req[r].c, req[r].d} : companies'[e] = companies[e]
    BY <1>0, <1>6, MergedRows
  <2>2. /\ \A e \in Company : companies'[e].exists = companies[e].exists
        /\ \A e \in Company \ {req[r].d} : companies'[e].into = companies[e].into
        /\ companies'[req[r].d].into = req[r].c
    <3>1. \A e \in Company : companies[e] \in CompanyRow
      BY <1>0 DEF TypeOK
    <3>2. /\ companies'[req[r].d].into = req[r].c
          /\ companies'[req[r].d].exists = companies[req[r].d].exists
      BY <2>1, <3>1, RowUpdates
    <3>3. /\ companies'[req[r].c].into = companies[req[r].c].into
          /\ companies'[req[r].c].exists = companies[req[r].c].exists
      BY <2>1, <3>1, RowUpdates
    <3> QED
      BY <2>1, <3>2, <3>3
  <2>3. /\ links' = {p \in links : p[2] # req[r].d} \cup (Dealers(req[r].d) \X {req[r].c})
        /\ drifted' = IF BeingFolded({req[r].c, req[r].d}, r)
                      THEN drifted \cup Resting({req[r].c, req[r].d}) ELSE drifted
        /\ dealt' = dealt /\ req[r].pc = "move"
    BY <1>6 DEF MergeCommit, At
  <2>4. /\ companies[req[r].c].into = NoCompany /\ companies[req[r].c].exists
        /\ Live(req[r].d)
    <3>1. Secured(r) /\ Merging(r)
      BY <1>0
    <3> QED
      BY <2>3, <3>1 DEF Secured, Merging, Live
  <2>5. /\ \A p \in links : p[2] # req[r].d => p \in links'
        /\ \A p \in dealt : <<p[1], req[r].d>> \in links => <<p[1], req[r].c>> \in links'
    BY <1>0, <2>3 DEF Dealers, TypeOK
  <2>6. /\ Into[req[r].c] = NoCompany /\ Into'[req[r].d] = req[r].c
        /\ \A e \in Company \ {req[r].d} : Into'[e] = Into[e]
    <3>1. req[r].c \in Company /\ req[r].d \in Company
      BY <2>1
    <3>2. \A e \in Company : Into[e] = companies[e].into /\ Into'[e] = companies'[e].into
      BY <1>0
    <3> QED
      BY <2>2, <2>4, <3>1, <3>2
  <2>7. Folds(r, req[r].c, req[r].d)
    BY <2>2, <2>3, <2>4, <2>5, <2>6 DEF Folds
  <2> QED
    BY <2>1, <2>7
<1> QED
  BY <1>1, <1>2, <1>3, <1>4, <1>5, <1>6 DEF Acts, CountBeforeIssue, ClaimLock, LookUpTaxNo,
     MergeLock, FindDuplicate, CountDuplicate, CopyLinks, ClearLinks, histories, InsertShipper,
     LockDuplicate, MergeLockSecond, AdoptRead, AdoptWrite, Abort, Settle
\* What a transaction that begins is about to do.
LEMMA Begun ==
    ASSUME TypeOK, NEW r \in Request, NEW c \in Company, NEW n, NEW d
    PROVE  /\ LookUpTaxNo(r, c, n) => req'[r].pc \in {"insert", "link"}
           /\ CountBeforeIssue(r, c) => req'[r].pc = "issue"
           /\ ClaimLock(r, c, n) => req'[r].pc = "search"
           /\ MergeLock(r, c, d) => req'[r].pc = "second"
           /\ AdoptRead(r, d, c) => req'[r].pc = "adopt"
<1>0. req \in [Request -> Pending \cup {Idle}]
  BY DEF TypeOK
<1>1. LookUpTaxNo(r, c, n) => req'[r].pc \in {"insert", "link"}
  BY <1>0 DEF LookUpTaxNo, Begin
<1>2. CountBeforeIssue(r, c) => req'[r].pc = "issue"
  BY <1>0 DEF CountBeforeIssue, Begin
<1>3. ClaimLock(r, c, n) => req'[r].pc = "search"
  BY <1>0 DEF ClaimLock, Begin
<1>4. MergeLock(r, c, d) => req'[r].pc = "second"
  BY <1>0 DEF MergeLock, Begin
<1>5. AdoptRead(r, d, c) => req'[r].pc = "adopt"
  BY <1>0 DEF AdoptRead, Begin
<1> QED
  BY <1>1, <1>2, <1>3, <1>4, <1>5

\* A step of the claim itself: what it moves is what it copied.
LEMMA OwnFoldAway ==
    ASSUME TypeOK, TypeOK', LinksFollow, NEW r \in Request, Acts(r), FoldAway(r)
    PROVE  FoldAway(r)'
<1>0. req \in [Request -> Pending \cup {Idle}]
  BY DEF TypeOK
<1>1. ASSUME req'[r].pc \notin Afoot \/ req'[r].d = NoCompany PROVE FoldAway(r)'
  BY <1>1 DEF FoldAway
<1>2. Return(r) => FoldAway(r)'
  BY <1>0, <1>1 DEF Return, Idle, Afoot
<1>3. ASSUME UNCHANGED <<companies, dealt, drifted>>,
             \A p \in dealt \ drifted : req'[r].d \in Leads(p[2]) =>
                /\ Live(req'[r].d)
                /\ req'[r].pc \in {"clear", "fold", "settle"} => p[1] \in req'[r].moved
      PROVE  FoldAway(r)'
  <2>1. \A x : Leads(x)' = Leads(x)
    BY <1>3, LeadsIsReach DEF Into
  <2> QED
    BY <1>3, <2>1 DEF FoldAway, Live
<1>4. ASSUME UNCHANGED <<companies, dealt, drifted>>, req[r].pc \in Afoot,
             req[r].d # NoCompany, req'[r].d = req[r].d, req'[r].moved = req[r].moved,
             req'[r].pc \in {"clear", "fold", "settle"}
                 => req[r].pc \in {"clear", "fold", "settle"}
      PROVE  FoldAway(r)'
  BY <1>3, <1>4 DEF FoldAway
<1>5. CASE FindDuplicate(r)
  <2>1. req[r].pc = "search" /\ req[r] \in Searching
    BY <1>5, UnderWay DEF FindDuplicate, At
  <2>2. ASSUME NEW d \in Holders(req[r].n) \ {req[r].c},
               req' = [req EXCEPT ![r].pc = "count", ![r].d = d]
        PROVE  FoldAway(r)'
    <3>1. req'[r].pc = "count" /\ req'[r].d = d
      BY <1>0, <2>1, <2>2 DEF Searching, Tx
    <3>2. Live(d)
      BY DEF Holders
    <3> QED
      BY <1>3, <1>5, <3>1, <3>2 DEF FindDuplicate, histories
  <2>3. ASSUME Goto(r, "settle") PROVE FoldAway(r)'
    <3>1. req'[r].d = NoCompany
      BY <1>0, <2>1, <2>3 DEF Searching, Tx, Goto
    <3> QED
      BY <1>1, <3>1
  <2> QED
    BY <1>5, <2>2, <2>3 DEF FindDuplicate
<1>6. ASSUME CountDuplicate(r), ~Return(r) PROVE FoldAway(r)'
  <2>1. req[r].pc = "count" /\ req[r] \in Folding /\ req[r].d # NoCompany
    BY <1>6, UnderWay, CompanyAssumption DEF CountDuplicate, At, Folding, Tx
  <2>2. req'[r].pc = "copy" /\ req'[r].d = req[r].d /\ req'[r].moved = req[r].moved
    BY <1>0, <1>6, <2>1 DEF CountDuplicate, Goto, Folding, Tx
  <2> QED
    BY <1>4, <1>6, <2>1, <2>2 DEF CountDuplicate, histories, Afoot
<1>7. CASE CopyLinks(r)
  <2>1. req[r].pc = "copy" /\ req[r] \in Folding /\ req[r].d # NoCompany
    BY <1>7, UnderWay, CompanyAssumption DEF CopyLinks, At, Folding, Tx
  <2>2. req'[r].d = req[r].d /\ req'[r].moved = Dealers(req[r].d)
    BY <1>0, <1>7, <2>1 DEF CopyLinks, Folding, Tx
  <2>3. ASSUME NEW p \in dealt \ drifted, req[r].d \in Leads(p[2])
        PROVE  Live(req[r].d) /\ p[1] \in Dealers(req[r].d)
    <3>1. Live(req[r].d)
      BY <2>1, <2>3 DEF FoldAway, Afoot
    <3>2. PICK w \in Leads(p[2]) : Live(w) /\ <<p[1], w>> \in links
      BY DEF LinksFollow
    <3>3. /\ Into \in Forwards /\ p[2] \in Company /\ p[1] \in Company
          /\ w \in Company /\ req[r].d \in Company
          /\ Into[w] = NoCompany /\ Into[req[r].d] = NoCompany
      BY <2>3, <3>1, <3>2, IntoType DEF TypeOK, Leads, Live
    <3>4. w \in Reach(Into, p[2]) /\ req[r].d \in Reach(Into, p[2])
      BY <2>3, LeadsIsReach
    <3>5. w = req[r].d
      BY <3>3, <3>4, OneEnd
    <3> QED
      BY <3>1, <3>2, <3>3, <3>5 DEF Dealers
  <2> QED
    BY <1>3, <1>7, <2>2, <2>3 DEF CopyLinks, histories
<1>8. CASE ClearLinks(r)
  <2>1. req[r].pc = "clear" /\ req[r] \in Folding /\ req[r].d # NoCompany
    BY <1>8, UnderWay, CompanyAssumption DEF ClearLinks, At, Folding, Tx
  <2>2. req'[r].d = req[r].d /\ req'[r].moved = req[r].moved
    BY <1>0, <1>8, <2>1 DEF ClearLinks, Folding, Tx
  <2> QED
    BY <1>4, <1>8, <2>1, <2>2 DEF ClearLinks, histories, Afoot
<1>9. CASE LockDuplicate(r)
  <2>1. req[r].pc = "fold" /\ req[r] \in Folding /\ req[r].d # NoCompany
    BY <1>9, UnderWay, CompanyAssumption DEF LockDuplicate, At, Folding, Tx
  <2>2. req'[r].d = req[r].d /\ req'[r].moved = req[r].moved
    BY <1>0, <1>9, <2>1 DEF LockDuplicate, Goto, Folding, Tx
  <2> QED
    BY <1>4, <1>9, <2>1, <2>2 DEF LockDuplicate, histories, Afoot
<1>10. ASSUME NEW c \in Company, NEW n, NEW d,
              \/ LookUpTaxNo(r, c, n)
              \/ CountBeforeIssue(r, c)
              \/ ClaimLock(r, c, n)
              \/ MergeLock(r, c, d)
              \/ AdoptRead(r, d, c)
       PROVE  req'[r].pc \notin Afoot
  BY <1>10, Begun DEF Afoot
<1>11. MergeLockSecond(r) => Return(r) \/ req'[r].pc \notin Afoot
  <2>1. Goto(r, "move") /\ req[r].pc # "idle" => req'[r].pc = "move"
    BY <1>0 DEF Goto, Pending, Tx, Creating, Pairing, Searching, Folding, Settling, Adopting, Idle
  <2> QED
    BY <2>1 DEF MergeLockSecond, At, Afoot
<1> QED
  BY <1>1, <1>2, <1>5, <1>6, <1>7, <1>8, <1>9, <1>10, <1>11 DEF Acts, InsertShipper,
     LinkExisting, IssueLink, Settle, MergeCommit, AdoptWrite, Abort

\* Merges go on being of companies that exist, and of one that is still to be folded.
LEMMA MergingKept ==
    ASSUME FoldInv, FoldInv', NEW r \in Request, Acts(r), NEW q \in Request, Merging(q),
           \A e \in Company : companies[e].exists => companies'[e].exists
    PROVE  Merging(q)'
<1>0. /\ TypeOK /\ req \in [Request -> Pending \cup {Idle}] /\ q # NoRequest
      /\ Secured(q) /\ \A e \in Company : companies[e] \in CompanyRow
  BY NothingAssumption DEF FoldInv, TypeOK
<1>n. req[q].pc \in {"second", "move"} => req[q].c \in Company /\ req[q].d \in Company
  BY <1>0, Named
<1>1. CASE q # r
  <2>1. req'[q] = req[q]
    BY <1>0, <1>1, ActsForOne
  <2>2. CASE req[q].pc = "move"
    <3>1. lock[req[q].d] = q /\ companies[req[q].d].exists
      BY <1>0, <2>2 DEF Secured
    <3>2. companies'[req[q].d] = companies[req[q].d]
      BY <1>0, <1>1, <1>n, <2>2, <3>1, RowKept
    <3> QED
      BY <1>n, <2>1, <2>2, <3>2 DEF Merging
  <2> QED
    BY <1>n, <2>1, <2>2 DEF Merging
<1>2. CASE q = r
  <2>1. ASSUME req'[r].pc \notin {"second", "move"} PROVE Merging(r)'
    BY <2>1 DEF Merging
  <2>2. Return(r) => Merging(r)'
    BY <1>0, <2>1 DEF Return, Idle
  <2>3. ASSUME NEW c \in Company, NEW d \in Company, MergeLock(r, c, d) PROVE Merging(r)'
    <3>1. req'[r].pc = "second" /\ req'[r].c = c /\ companies'[c].exists
      BY <1>0, <2>3 DEF MergeLock, Begin
    <3> QED
      BY <3>1 DEF Merging
  <2>4. ASSUME MergeLockSecond(r), ~Return(r) PROVE Merging(r)'
    <3>1. req[r].pc = "second" /\ req[r] \in Pairing
      BY <1>0, <2>4, UnderWay DEF MergeLockSecond, At
    <3>2. req'[r].c = req[r].c /\ req'[r].d = req[r].d
      BY <1>0, <2>4, <3>1 DEF MergeLockSecond, Goto, Pairing, Tx
    <3>3. companies[req[r].d].into = NoCompany /\ companies[req[r].c].exists
      BY <1>2, <2>4, <3>1 DEF MergeLockSecond, Mergeable, Merging
    <3> QED
      BY <2>4, <3>2, <3>3 DEF MergeLockSecond, Merging
  <2>5. ASSUME NEW c \in Company, NEW n, NEW d,
               \/ LookUpTaxNo(r, c, n)
               \/ CountBeforeIssue(r, c)
               \/ ClaimLock(r, c, n)
               \/ AdoptRead(r, d, c)
        PROVE  req'[r].pc \notin {"second", "move"}
    BY <1>0, <2>5, Begun
  <2>6. ASSUME \/ FindDuplicate(r)
               \/ CountDuplicate(r) /\ ~Return(r)
               \/ CopyLinks(r)
               \/ ClearLinks(r)
               \/ LockDuplicate(r)
        PROVE  req'[r].pc \notin {"second", "move"}
    <3>1. req[r] \in Searching \cup Folding
      BY <1>0, <2>6, UnderWay DEF FindDuplicate, CountDuplicate, CopyLinks, ClearLinks,
         LockDuplicate, At
    <3> QED
      BY <1>0, <2>6, <3>1 DEF FindDuplicate, CountDuplicate, CopyLinks, ClearLinks,
         LockDuplicate, Goto, Searching, Folding, Tx
  <2> QED
    BY <1>2, <2>1, <2>2, <2>3, <2>4, <2>5, <2>6 DEF Acts, InsertShipper,
       LinkExisting, IssueLink, Settle, MergeCommit, AdoptWrite, Abort
<1> QED
  BY <1>1, <1>2

LEMMA ActsFollow ==
    ASSUME FoldInv, FoldInv', ClaimInv, FollowInv, NEW r \in Request, Acts(r)
    PROVE  FollowInv'
<1>0. /\ TypeOK /\ TypeOK' /\ LinksFollow
      /\ \A q \in Request : Chosen(q) /\ FoldAway(q) /\ Merging(q)
      /\ \A q \in Request \ {r} : req'[q] = req[q]
  BY ActsForOne DEF FoldInv, ClaimInv, FollowInv
<1>1. FoldAway(r)'
  BY <1>0, OwnFoldAway
<1>2. ASSUME NEW D \in SUBSET (Company \X Company), Steady(D), Apart(D, r)
      PROVE  /\ LinksFollow' /\ \A q \in Request \ {r} : FoldAway(q)'
             /\ \A e \in Company : companies[e].exists => companies'[e].exists
  <2>1. \A q \in Request \ {r} : FoldAway(q)'
    BY <1>0, <1>2, SteadyAway DEF Apart
  <2> QED
    BY <1>0, <1>2, <2>1, SteadyFollows DEF Steady
<1>3. ASSUME NEW c \in Company, NEW d \in Company, c # d, Folds(r, c, d)
      PROVE  /\ LinksFollow' /\ \A q \in Request \ {r} : FoldAway(q)'
             /\ \A e \in Company : companies[e].exists => companies'[e].exists
  <2>1. \A q \in Request \ {r} : FoldAway(q)'
    BY <1>0, <1>3, FoldAwayOthers
  <2> QED
    BY <1>0, <1>3, <2>1, FoldFollows DEF Folds
<1>4. /\ LinksFollow' /\ \A q \in Request \ {r} : FoldAway(q)'
      /\ \A e \in Company : companies[e].exists => companies'[e].exists
  BY <1>0, <1>2, <1>3, SteadyOrFolds
<1>5. \A q \in Request : Merging(q)'
  BY <1>0, <1>4, MergingKept
<1> QED
  BY <1>1, <1>4, <1>5 DEF FollowInv

LEMMA OutsideFollow ==
    ASSUME TypeOK, TypeOK', FollowInv, Outside
    PROVE  FollowInv'
<1>1. /\ UNCHANGED <<req, links, dealt, drifted>>
      /\ \A e \in Company : companies'[e].into = companies[e].into
                            /\ companies'[e].exists = companies[e].exists
  BY DEF Outside, Register, RegisterDriver, Delete, UpdateTaxNo, vars, histories, TypeOK,
     CompanyRow
<1>2. Into' = Into
  BY <1>1 DEF Into
<1>3. Steady({})
  BY <1>1, <1>2 DEF Steady
<1>4. LinksFollow'
  BY <1>3, SteadyFollows DEF FollowInv
<1>5. ASSUME NEW q \in Request PROVE FoldAway(q)' /\ Merging(q)'
  <2>1. FoldAway(q)'
    BY <1>1, <1>3, SteadyAway DEF FollowInv
  <2>2. req[q].pc \in {"second", "move"} => req[q].c \in Company /\ req[q].d \in Company
    BY Named
  <2>3. Merging(q)'
    BY <1>1, <2>2 DEF FollowInv, Merging
  <2> QED
    BY <2>1, <2>3
<1> QED
  BY <1>4, <1>5 DEF FollowInv

\* A transporter goes on reaching every shipper it was linked to, whatever claims and
\* merges run at once, unless the link was made or moved under a company that a claim
\* was folding away: what a claim copies before it has the row is all there is to move,
\* because no pair it does not know of can come to rest there unmarked (Merge, foldIn,
\* CreateShipper).
THEOREM LinksAreNotLost == Spec => []LinksFollow
<1>1. Init => FollowInv
  BY DEF Init, Idle, FollowInv, LinksFollow, FoldAway, Merging, Afoot
<1>2. FoldInv /\ FoldInv' /\ ClaimInv /\ FollowInv /\ [Next]_vars => FollowInv'
  BY OneActor, ActsFollow, OutsideFollow DEF FoldInv
<1>3. FoldInv /\ [Next]_vars => FoldInv'
  BY FoldStep
<1>4. FoldInv /\ ClaimInv /\ [Next]_vars => ClaimInv'
  BY ClaimStep
<1>5. FollowInv => LinksFollow
  BY DEF FollowInv
<1> QED
  BY <1>1, <1>2, <1>3, <1>4, <1>5, InitFold, InitClaim, PTL DEF Spec
=============================================================================
