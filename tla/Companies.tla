------------------------------ MODULE Companies ------------------------------
(***************************************************************************)
(* Companies, the people in them and who deals with whom                   *)
(* (internal/services/shipper_service.go, merge_service.go,                *)
(* user_service.go Register, driver_account_service.go Adopt).             *)
(*                                                                         *)
(* These operations are PostgreSQL transactions at READ COMMITTED: a       *)
(* statement sees what is committed when it runs, what a transaction       *)
(* writes is seen when it commits, and the only protection in between is   *)
(* the row locks it holds.  So a step is a statement that locks, or that   *)
(* reads what a later one relies on, or the commit.  "lock" holds the      *)
(* company rows locked by SELECT ... FOR UPDATE or by an uncommitted       *)
(* UPDATE; a row that refers to a company (a member, a link) waits for the *)
(* former, because its foreign key needs a key share, and not for the      *)
(* latter, because no UPDATE here touches a key.                           *)
(*                                                                         *)
(* Refused requests that have locked and written nothing are left out, and *)
(* an expired claim link is one that nobody uses.                          *)
(***************************************************************************)
EXTENDS Naturals, FiniteSets

CONSTANTS
    Company,     \* company ids, in the order the uuids sort
    NoCompany,
    Opening,     \* the companies that exist to begin with
    TaxNo,       \* normalised tax numbers
    NoTaxNo,
    Link,        \* claim links (32 random bytes, never reused)
    NoLink,
    User,        \* account ids
    NoUser,
    Request,     \* transactions
    NoRequest,
    Seats,       \* companies.max_users; 0 is unlimited
    Recorder,    \* the companies whose people record shippers
    Ops          \* the operations the environment asks for

Operations == {"record", "issue", "claim", "merge", "register", "adopt",
               "delete", "profile"}

ASSUME CompanyAssumption == Company \subseteq Nat /\ NoCompany \notin Company
ASSUME OpeningAssumption == Opening \subseteq Company
ASSUME NothingAssumption == /\ NoTaxNo \notin TaxNo
                            /\ NoLink \notin Link
                            /\ NoUser \notin User
                            /\ NoRequest \notin Request
ASSUME RecorderAssumption == Recorder \subseteq Company
ASSUME SeatsAssumption == Seats \in [Company -> Nat]
ASSUME OpsAssumption == Ops \subseteq Operations

VARIABLES
    companies,  \* the companies table
    links,      \* company_links: <<transporter, shipper>>
    users,      \* the users table: not created, live or deleted, and the company
    lock,       \* per company: the transaction holding its row
    req,        \* the transactions under way, each with what it has read
    claims,     \* history: <<link, user>> for every completed claim
    dealt,      \* history: every pair CreateShipper ever linked
    drifted,    \* history: pairs linked under a company being folded away
    crowded     \* history: companies that adopted or absorbed somebody

vars == <<companies, links, users, lock, req, claims, dealt, drifted, crowded>>
histories == <<claims, dealt, drifted, crowded>>

-----------------------------------------------------------------------------
(* Rows                                                                    *)

Absent == [exists |-> FALSE, into |-> NoCompany, npwp |-> NoTaxNo, link |-> NoLink]

CompanyRow == [exists : BOOLEAN, into : Company \cup {NoCompany},
               npwp : TaxNo \cup {NoTaxNo}, link : Link \cup {NoLink}]

\* deleted_at IS NULL: a row is deleted by being merged into another, only.
Live(c) == companies[c].exists /\ companies[c].into = NoCompany

Members(c) == {u \in User : users[u].state = "live" /\ users[u].company = c}

\* The rows the tax number matches; idx_companies_npwp allows one.
Holders(n) == {c \in Company : Live(c) /\ n # NoTaxNo /\ companies[c].npwp = n}

\* MergeService.Resolve
Resolve(c) == IF companies[c].into = NoCompany THEN c ELSE companies[c].into

-----------------------------------------------------------------------------
(* Transactions                                                            *)

Idle == [pc |-> "idle"]

\* A transaction about to do one of steps: its company, the other company it is
\* about, the tax number, the claim link and the account it was given, and the
\* dealers whose links a fold has copied and deleted.
Tx(steps, others, tokens, accounts) ==
    [pc : steps, c : Company, d : others, n : TaxNo \cup {NoTaxNo},
     link : tokens, user : accounts,
     moved : SUBSET Company, cleared : SUBSET Company]

Creating == Tx({"insert", "issue"}, {NoCompany}, {NoLink}, {NoUser})
Pairing == Tx({"link", "second", "move"}, Company, {NoLink}, {NoUser})
Searching == Tx({"search"}, {NoCompany}, Link, {NoUser})
Folding == Tx({"count", "copy", "clear", "fold"}, Company, Link, {NoUser})
Settling == Tx({"settle"}, Company \cup {NoCompany}, Link, {NoUser})
Adopting == Tx({"adopt"}, {NoCompany}, {NoLink}, User)

Pending == Creating \cup Pairing \cup Searching \cup Folding \cup Settling \cup Adopting

Begin(step, c) == [pc |-> step, c |-> c, d |-> NoCompany, n |-> NoTaxNo,
                   link |-> NoLink, user |-> NoUser, moved |-> {}, cleared |-> {}]

At(r, step) == req[r].pc = step
Goto(r, step) == req' = [req EXCEPT ![r].pc = step]
Free(c, r) == lock[c] \in {NoRequest, r}

\* What an INSERT that refers to c waits for: not for a claim's UPDATE of it.
Referable(c, r) == Free(c, r) \/ \E q \in Request : At(q, "settle") /\ req[q].d = c

Acquire(r, S) == lock' = [c \in Company |-> IF c \in S THEN r ELSE lock[c]]

\* COMMIT or ROLLBACK
Return(r) == /\ req' = [req EXCEPT ![r] = Idle]
             /\ lock' = [c \in Company |-> IF lock[c] = r THEN NoRequest ELSE lock[c]]

\* A claim other than r has found one of the companies D to be a duplicate and is
\* folding it away.
BeingFolded(D, r) ==
    \E q \in Request \ {r} : /\ req[q].pc \in {"count", "copy", "clear", "fold", "settle"}
                            /\ req[q].d \in D

\* The companies the pointers lead to from c, c included.
Leads(c) == {d \in Company : \A S \in SUBSET Company :
                 (c \in S /\ \A e \in S : companies[e].into \in S \cup {NoCompany})
                     => d \in S}

\* The pairs whose shipper now rests on one of the companies D.
Resting(D) == {p \in dealt : Leads(p[2]) \cap D # {}}

Init ==
    /\ companies = [c \in Company |-> [Absent EXCEPT !.exists = c \in Opening]]
    /\ links = {}
    /\ users = [u \in User |-> [state |-> "none", company |-> NoCompany]]
    /\ lock = [c \in Company |-> NoRequest]
    /\ req = [r \in Request |-> Idle]
    /\ claims = {}
    /\ dealt = {}
    /\ drifted = {}
    /\ crowded = {}

-----------------------------------------------------------------------------
(* CreateShipper                                                           *)

\* Company t records a shipper: the lookup by tax number, if it has one.
LookUpTaxNo(r, t, n) ==
    /\ "record" \in Ops
    /\ At(r, "idle")
    /\ t \in Recorder
    /\ companies[t].exists
    /\ IF Holders(n) = {}
       THEN req' = [req EXCEPT ![r] = [Begin("insert", t) EXCEPT !.n = n]]
       ELSE \E d \in Holders(n) :
                req' = [req EXCEPT ![r] = [Begin("link", t) EXCEPT !.d = d]]
    /\ UNCHANGED <<companies, links, users, lock, histories>>

\* INSERT the company and its link.  A number taken since the lookup is refused
\* by the unique index (ErrShipperExists).
InsertShipper(r, d) ==
    /\ At(r, "insert")
    /\ Referable(req[r].c, r)
    /\ ~companies[d].exists
    /\ IF Holders(req[r].n) # {}
       THEN UNCHANGED <<companies, links, dealt>>
       ELSE /\ companies' = [companies EXCEPT ![d] =
                   [Absent EXCEPT !.exists = TRUE, !.npwp = req[r].n]]
            /\ links' = links \cup {<<req[r].c, d>>}
            /\ dealt' = dealt \cup {<<req[r].c, d>>}
    /\ Return(r)
    /\ UNCHANGED <<users, claims, drifted, crowded>>

\* Link to the company the lookup found, whatever has become of it since.
LinkExisting(r) ==
    /\ At(r, "link")
    /\ LET pair == <<req[r].c, req[r].d>> IN
         /\ Referable(pair[1], r)
         /\ Referable(pair[2], r)
         /\ links' = links \cup {pair}
         /\ dealt' = dealt \cup {pair}
         /\ drifted' = IF Live(pair[2]) /\ ~BeingFolded({pair[2]}, r)
                       THEN drifted ELSE drifted \cup {pair}
    /\ Return(r)
    /\ UNCHANGED <<companies, users, claims, crowded>>

-----------------------------------------------------------------------------
(* IssueClaimLink                                                          *)

\* A company with people in it is refused.
CountBeforeIssue(r, c) ==
    /\ "issue" \in Ops
    /\ At(r, "idle")
    /\ companies[c].exists
    /\ Members(c) = {}
    /\ req' = [req EXCEPT ![r] = Begin("issue", c)]
    /\ UNCHANGED <<companies, links, users, lock, histories>>

\* UPDATE ... WHERE deleted_at IS NULL: the new link replaces the old one.
IssueLink(r, k) ==
    /\ At(r, "issue")
    /\ Free(req[r].c, r)
    /\ \A c \in Company : companies[c].link # k
    /\ \A p \in claims : p[1] # k
    /\ companies' = IF Live(req[r].c)
                    THEN [companies EXCEPT ![req[r].c].link = k] ELSE companies
    /\ Return(r)
    /\ UNCHANGED <<links, users, histories>>

-----------------------------------------------------------------------------
(* Claim                                                                   *)

\* Mutant: the people of the company are not counted again.
ClaimLock_NoRecount(r, c, n) ==
    /\ "claim" \in Ops
    /\ At(r, "idle")
    /\ companies[c].link # NoLink
    /\ Live(c)
    /\ Free(c, r)
    /\ Acquire(r, {c})
    /\ req' = [req EXCEPT ![r] = [Begin("search", c) EXCEPT
                                      !.link = companies[c].link, !.n = n]]
    /\ UNCHANGED <<companies, links, users, histories>>

\* SELECT ... WHERE claim_token_hash = ? FOR UPDATE, and the count of people.
ClaimLock(r, c, n) ==
    /\ "claim" \in Ops
    /\ At(r, "idle")
    /\ companies[c].link # NoLink
    /\ Live(c)
    /\ Free(c, r)
    /\ Members(c) = {}
    /\ Acquire(r, {c})
    /\ req' = [req EXCEPT ![r] = [Begin("search", c) EXCEPT
                                      !.link = companies[c].link, !.n = n]]
    /\ UNCHANGED <<companies, links, users, histories>>

\* Another company with the tax number: a read that locks nothing.
FindDuplicate(r) ==
    /\ At(r, "search")
    /\ LET others == Holders(req[r].n) \ {req[r].c} IN
       IF others = {} THEN Goto(r, "settle") /\ UNCHANGED lock
       ELSE /\ \E d \in others : req' = [req EXCEPT ![r].pc = "count", ![r].d = d]
            /\ UNCHANGED lock
    /\ UNCHANGED <<companies, links, users, histories>>

\* foldIn: whether it has people, with its row still not locked.
CountDuplicate(r) ==
    /\ At(r, "count")
    /\ IF Members(req[r].d) # {} THEN Return(r) ELSE Goto(r, "copy") /\ UNCHANGED lock
    /\ UNCHANGED <<companies, links, users, histories>>

Dealers(c) == {t \in Company : <<t, c>> \in links}

\* Mutant: the links are copied after they have been deleted.
CopyLinks_TooLate(r) ==
    /\ At(r, "copy")
    /\ Goto(r, "clear")
    /\ UNCHANGED <<companies, links, users, lock, histories>>

\* foldIn: INSERT INTO company_links ... SELECT
CopyLinks(r) ==
    /\ At(r, "copy")
    /\ \A t \in Dealers(req[r].d) : Referable(t, r)
    /\ req' = [req EXCEPT ![r].pc = "clear", ![r].moved = Dealers(req[r].d)]
    /\ UNCHANGED <<companies, links, users, lock, histories>>

\* foldIn: DELETE FROM company_links, whatever is there by now.
ClearLinks(r) ==
    /\ At(r, "clear")
    /\ req' = [req EXCEPT ![r].pc = "fold", ![r].cleared = Dealers(req[r].d)]
    /\ UNCHANGED <<companies, links, users, lock, histories>>

\* foldIn: UPDATE the duplicate, waiting for whoever holds its row.
LockDuplicate(r) ==
    /\ At(r, "fold")
    /\ Free(req[r].d, r)
    /\ Acquire(r, {req[r].d})
    /\ Goto(r, "settle")
    /\ UNCHANGED <<companies, links, users, histories>>

\* The tax number, the Administrator and the commit.  A number that is held
\* elsewhere by now undoes the whole claim.
Settle(r, u) ==
    /\ At(r, "settle")
    /\ users[u].state = "none"
    /\ LET q == req[r] IN
       IF Holders(q.n) \ {q.c, q.d} # {}
       THEN UNCHANGED <<companies, links, users, claims, drifted>>
       ELSE /\ companies' = [c \in Company |->
                   CASE c = q.c -> [companies[c] EXCEPT !.npwp = q.n, !.link = NoLink]
                     [] c = q.d -> [companies[c] EXCEPT !.npwp = NoTaxNo, !.into = q.c]
                     [] OTHER   -> companies[c]]
            /\ links' = (links \ (q.cleared \X {q.d})) \cup (q.moved \X {q.c})
            /\ users' = [users EXCEPT ![u] = [state |-> "live", company |-> q.c]]
            /\ claims' = claims \cup {<<q.link, u>>}
            /\ drifted' = IF BeingFolded({q.c, q.d} \ {NoCompany}, r)
                          THEN drifted \cup Resting({q.c, q.d}) ELSE drifted
    /\ Return(r)
    /\ UNCHANGED <<dealt, crowded>>

-----------------------------------------------------------------------------
(* Merge                                                                   *)

\* Mutant: the survivor is locked first.
Lowest_Survivor(s, d) == s

Lowest(s, d) == IF s < d THEN s ELSE d

\* Mutant: nobody asks whether the survivor has itself been merged.
Mergeable_Duplicate(s, d) ==
    /\ companies[d].into = NoCompany
    /\ Members(d) = {} \/ Members(s) = {}

\* Neither has been merged before, and only one of the two has people.
Mergeable(s, d) ==
    /\ companies[d].into = NoCompany
    /\ companies[s].into = NoCompany
    /\ Members(d) = {} \/ Members(s) = {}

\* Mutant: which two companies it is about is not kept.
MergeLock_Forgetful(r, s, d) ==
    /\ "merge" \in Ops
    /\ At(r, "idle")
    /\ s # d
    /\ companies[s].exists /\ companies[d].exists
    /\ Free(Lowest(s, d), r)
    /\ Acquire(r, {Lowest(s, d)})
    /\ Goto(r, "second")
    /\ UNCHANGED <<companies, links, users, histories>>

\* Staff merge d into s: SELECT ... ORDER BY id FOR UPDATE, its first row.
MergeLock(r, s, d) ==
    /\ "merge" \in Ops
    /\ At(r, "idle")
    /\ s # d
    /\ companies[s].exists /\ companies[d].exists
    /\ Free(Lowest(s, d), r)
    /\ Acquire(r, {Lowest(s, d)})
    /\ req' = [req EXCEPT ![r] = [Begin("second", s) EXCEPT !.d = d]]
    /\ UNCHANGED <<companies, links, users, histories>>

\* Its second row, and what is checked with both in hand.
MergeLockSecond(r) ==
    /\ At(r, "second")
    /\ Free(req[r].c, r) /\ Free(req[r].d, r)
    /\ IF Mergeable(req[r].c, req[r].d)
       THEN Acquire(r, {req[r].c, req[r].d}) /\ Goto(r, "move")
       ELSE Return(r)
    /\ UNCHANGED <<companies, links, users, histories>>

\* Move the people and the links, mark the duplicate, carry its tax number over
\* to a survivor that has none, commit.
MergeCommit(r) ==
    /\ At(r, "move")
    /\ LET s == req[r].c
           d == req[r].d
       IN  /\ \A t \in Dealers(d) : Referable(t, r)
           /\ users' = [u \in User |-> IF users[u].company = d
                                       THEN [users[u] EXCEPT !.company = s] ELSE users[u]]
           /\ links' = {p \in links : p[2] # d} \cup (Dealers(d) \X {s})
           /\ companies' = [companies EXCEPT
                  ![d].npwp = NoTaxNo, ![d].into = s,
                  ![s].npwp = IF @ = NoTaxNo THEN companies[d].npwp ELSE @]
           /\ drifted' = IF BeingFolded({s, d}, r)
                         THEN drifted \cup Resting({s, d}) ELSE drifted
           /\ crowded' = IF Members(d) = {} THEN crowded ELSE crowded \cup {s}
    /\ Return(r)
    /\ UNCHANGED <<claims, dealt>>

-----------------------------------------------------------------------------
(* People and profiles                                                     *)

\* Mutant: one seat too many.
SeatLeft_OneMore(c) == Seats[c] = 0 \/ Cardinality(Members(c)) <= Seats[c]

\* The seat check of Register, made with the company row locked.
SeatLeft(c) == Seats[c] = 0 \/ Cardinality(Members(c)) < Seats[c]

\* Register into a company: lock, count, insert, commit.  The lock is held from
\* the count to the commit, so nothing comes between.
Register(u, c) ==
    /\ "register" \in Ops
    /\ users[u].state = "none"
    /\ companies[c].exists
    /\ lock[c] = NoRequest
    /\ SeatLeft(c)
    /\ users' = [users EXCEPT ![u] = [state |-> "live", company |-> c]]
    /\ UNCHANGED <<companies, links, lock, req, histories>>

\* Register with Unaffiliated: a driver of no company yet.
RegisterDriver(u) ==
    /\ "adopt" \in Ops
    /\ users[u].state = "none"
    /\ users' = [users EXCEPT ![u] = [state |-> "live", company |-> NoCompany]]
    /\ UNCHANGED <<companies, links, lock, req, histories>>

\* Adopt: FindByID, and a refusal if the account has another company.
AdoptRead(r, u, c) ==
    /\ "adopt" \in Ops
    /\ At(r, "idle")
    /\ users[u].state = "live"
    /\ users[u].company \in {NoCompany, c}
    /\ companies[c].exists
    /\ req' = [req EXCEPT ![r] = [Begin("adopt", c) EXCEPT !.user = u]]
    /\ UNCHANGED <<companies, links, users, lock, histories>>

\* UpdateFields(company_id, role_id): whatever the account's company is by now,
\* and however many seats are taken.
AdoptWrite(r) ==
    /\ At(r, "adopt")
    /\ LET u == req[r].user
           c == req[r].c
       IN  IF users[u].state = "deleted" THEN UNCHANGED <<users, crowded>>
           ELSE /\ Referable(c, r)
                /\ users' = [users EXCEPT ![u].company = c]
                /\ crowded' = crowded \cup {c}
    /\ Return(r)
    /\ UNCHANGED <<companies, links, claims, dealt, drifted>>

\* users.SoftDelete
Delete(u) ==
    /\ "delete" \in Ops
    /\ users[u].state = "live"
    /\ users' = [users EXCEPT ![u].state = "deleted"]
    /\ UNCHANGED <<companies, links, lock, req, histories>>

\* UpdateMe: the profile form sets the tax number too.
UpdateTaxNo(c, n) ==
    /\ "profile" \in Ops
    /\ Live(c)
    /\ lock[c] = NoRequest
    /\ Holders(n) \subseteq {c}
    /\ companies' = [companies EXCEPT ![c].npwp = n]
    /\ UNCHANGED <<links, users, lock, req, histories>>

\* A statement fails, the client goes away, or PostgreSQL breaks a deadlock.
Abort(r) ==
    /\ ~At(r, "idle")
    /\ Return(r)
    /\ UNCHANGED <<companies, links, users, histories>>

-----------------------------------------------------------------------------

Next ==
    \/ \E r \in Request :
         \/ \E c \in Company :
              \/ CountBeforeIssue(r, c)
              \/ InsertShipper(r, c)
              \/ \E n \in TaxNo : ClaimLock(r, c, n)
              \/ \E n \in TaxNo \cup {NoTaxNo} : LookUpTaxNo(r, c, n)
              \/ \E d \in Company : MergeLock(r, c, d)
         \/ LinkExisting(r)
         \/ \E k \in Link : IssueLink(r, k)
         \/ FindDuplicate(r)
         \/ CountDuplicate(r)
         \/ CopyLinks(r)
         \/ ClearLinks(r)
         \/ LockDuplicate(r)
         \/ \E u \in User : Settle(r, u)
         \/ MergeLockSecond(r)
         \/ MergeCommit(r)
         \/ \E u \in User, c \in Company : AdoptRead(r, u, c)
         \/ AdoptWrite(r)
         \/ Abort(r)
    \/ \E u \in User :
         \/ \E c \in Company : Register(u, c)
         \/ RegisterDriver(u)
         \/ Delete(u)
    \/ \E c \in Company, n \in TaxNo \cup {NoTaxNo} : UpdateTaxNo(c, n)

Spec == Init /\ [][Next]_vars

-----------------------------------------------------------------------------
(* Properties                                                              *)

TypeOK ==
    /\ companies \in [Company -> CompanyRow]
    /\ links \subseteq Company \X Company
    /\ users \in [User -> [state : {"none", "live", "deleted"},
                           company : Company \cup {NoCompany}]]
    /\ lock \in [Company -> Request \cup {NoRequest}]
    /\ req \in [Request -> Pending \cup {Idle}]
    /\ claims \subseteq Link \X User
    /\ dealt \subseteq Company \X Company
    /\ drifted \subseteq Company \X Company
    /\ crowded \subseteq Company

Pointers == INSTANCE Forwarding WITH
    Nobody <- NoCompany, forward <- [c \in Company |-> companies[c].into]

\* The merge pointers of the table forward as Forwarding says, so following them
\* from any company comes to an end (Merge, foldIn).
ImplementsForwarding == Pointers!FSpec

\* A transporter goes on reaching every shipper it was linked to, under whatever
\* company that shipper now is, unless the link was made or moved while a claim
\* was folding that company away (Merge, foldIn, CreateShipper).
LinksFollow ==
    \A p \in dealt \ drifted :
        \E c \in Leads(p[2]) : Live(c) /\ <<p[1], c>> \in links

\* A claim link works once, and never for a company that has people: two people
\* who open one link, or an old and a new one, do not both become its
\* Administrator (Claim, IssueClaimLink).
ClaimsFindNobody ==
    [][\A p \in claims' \ claims :
          /\ \A q \in claims : q[1] # p[1]
          /\ Members(users'[p[2]].company) = {}]_vars

\* A company is never over its seats unless it adopted a driver or absorbed
\* another company's people, neither of which counts seats (Register).
SeatsHold ==
    \A c \in Company : /\ Seats[c] # 0
                       /\ Cardinality(Members(c)) > Seats[c]
                       => c \in crowded

\* Two merges never wait for each other's rows (Merge: lowest id first).
MergesDoNotCross ==
    \A q, r \in Request :
        /\ At(q, "second") /\ At(r, "second") /\ q # r
        => ~ /\ \E c \in {req[q].c, req[q].d} : lock[c] = r
             /\ \E c \in {req[r].c, req[r].d} : lock[c] = q

\* "One hop only, because Merge refuses to create chains" (merge_service.go:238):
\* what Resolve returns holds its own records.
ResolveFindsTheSurvivor ==
    \A c \in Company : companies[c].exists => Live(Resolve(c))
=============================================================================
