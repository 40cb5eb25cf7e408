---------------------------- MODULE TenancyProofs ----------------------------
(***************************************************************************)
(* What Tenancy does for any people, companies, keys, callers, shells and  *)
(* bounds: its state is well typed, staff are found in Karlo's own company *)
(* only, and runs of `server bootstrap` that take turns make one of them.  *)
(*                                                                         *)
(* Staff are made in two places, each some steps after the row was         *)
(* written.  What makes them Karlo's is what was known when that step was  *)
(* set up: a token that says "staff" was minted for an account of Karlo's, *)
(* and the account to be marked was put into a company of Karlo's (Trust). *)
(***************************************************************************)
EXTENDS Tenancy, FiniteSetTheorems, TLAPS

USE TenancyAssumption

\* Who is to mark somebody staff knows whom.
Aimed ==
    /\ \A r \in Caller : Doing(r, "grant") => calls[r].target \in Person
    /\ \A b \in Shell : In(b, "mark") => shells[b].user \in Person
    /\ \A b \in Shell : In(b, "register") => shells[b].mail \in Address

Typed == TenancyTypeOK /\ Aimed

\* What the two steps that mark somebody staff rest on.
Trust ==
    /\ \A u \in Person : tokens[u].staff => tokens[u].company \in karlo
    /\ \A r \in Caller : calls[r].staff => calls[r].own \in karlo
    /\ \A r \in Caller : Doing(r, "grant") => people[calls[r].target].company \in karlo
    /\ \A b \in Shell : In(b, "mark") => people[shells[b].user].company \in karlo

\* uq_users_email, for the addresses bootstrap may be given
Unshared ==
    \A u, v \in Person :
        u # v /\ Live(u) /\ Live(v) /\ people[u].mail = people[v].mail => people[u].mail = Own

\* Staff by a run of bootstrap
MadeStaff(u) == FromShell(u) /\ people[u].staff

\* Runs that take turns: a run begins where there is no staff, and while it is under
\* way nobody but itself makes any of an account of bootstrap's.
InTurn ==
    ~overlapped =>
        /\ \A b, other \in Shell : b # other /\ ~In(b, "idle") => In(other, "idle")
        /\ \A b \in Shell : ~In(b, "idle") => \A u \in Person : ~MadeStaff(u)
        /\ \A u, v \in Person : MadeStaff(u) /\ MadeStaff(v) => u = v

\* A request marks only whom it has invited.
Invited ==
    \A r \in Caller : Doing(r, "grant") => people[calls[r].target].shell = NoAddress

ShellInv == Unshared /\ InTurn /\ Invited

TenancyInv == Typed /\ Trust /\ StaffAreKarlos /\ ShellInv

-----------------------------------------------------------------------------
(* Type correctness                                                        *)

LEMMA TypedInit == TenancyInit => Typed
<1> SUFFICES ASSUME TenancyInit PROVE Typed
  OBVIOUS
<1>1. Unborn \in Account
  BY DEF Unborn, Account
<1>2. NoToken \in [company : Company \cup {NoCompany}, staff : BOOLEAN]
  BY DEF NoToken
<1>3. Waits \in Request
  BY DEF Waits, Request
<1>4. NoRun \in BootstrapRun
  BY DEF NoRun, BootstrapRun
<1>5. TenancyTypeOK
  <2>1. people \in [Person -> Account]
    BY <1>1 DEF TenancyInit
  <2>2. tokens \in [Person -> [company : Company \cup {NoCompany}, staff : BOOLEAN]]
    BY <1>2 DEF TenancyInit
  <2>3. calls \in [Caller -> Request] /\ shells \in [Shell -> BootstrapRun]
    BY <1>3, <1>4 DEF TenancyInit
  <2>4. /\ administrator \in [Company -> {"none", "absent", "all", "less"}]
        /\ mergedInto \in [Company -> Company \cup {NoCompany}]
    BY DEF TenancyInit
  <2>5. karlo \subseteq Company /\ overlapped \in BOOLEAN
    BY DEF TenancyInit
  <2>6. asked \in 0..MaxAsked /\ crashes \in 0..MaxCrashes
    BY DEF TenancyInit, TenancyAssumption
  <2>7. QED
    BY <2>1, <2>2, <2>3, <2>4, <2>5, <2>6 DEF TenancyTypeOK
<1>6. Aimed
  BY DEF TenancyInit, Aimed, Waits, NoRun, Doing, In
<1>7. QED
  BY <1>5, <1>6 DEF Typed

\* Marking somebody staff touches that and nothing else of the row.
LEMMA Marking ==
    ASSUME Typed, NEW u \in Person,
           people' = [people EXCEPT ![u].staff = TRUE] \/ people' = people
    PROVE  /\ people' \in [Person -> Account]
           /\ \A v \in Person : /\ people'[v].company = people[v].company
                                /\ people'[v].state = people[v].state
                                /\ people'[v].shell = people[v].shell
                                /\ people'[v].mail = people[v].mail
                                /\ people'[v].staff => people[v].staff \/ v = u
<1>1. people \in [Person -> Account]
  BY DEF Typed, TenancyTypeOK
<1>2. CASE people' = people
  BY <1>1, <1>2
<1>3. CASE people' = [people EXCEPT ![u].staff = TRUE]
  <2>1. /\ people[u] \in Account
        /\ people'[u] = [people[u] EXCEPT !.staff = TRUE]
        /\ \A v \in Person \ {u} : people'[v] = people[v]
    BY <1>1, <1>3
  <2>2. /\ people'[u] \in Account
        /\ people'[u].company = people[u].company
        /\ people'[u].state = people[u].state
        /\ people'[u].shell = people[u].shell
        /\ people'[u].mail = people[u].mail
    BY <2>1 DEF Account
  <2>3. people' \in [Person -> Account]
    BY <1>1, <1>3, <2>1, <2>2
  <2> QED
    BY <2>1, <2>2, <2>3
<1> QED
  BY <1>2, <1>3

LEMMA RequestTyped == ASSUME Typed, NEW r \in Caller PROVE calls[r] \in Request
BY DEF Typed, TenancyTypeOK

\* A request goes on with q.
LEMMA Proceeding ==
    ASSUME Typed, NEW r \in Caller, NEW q \in Request, Proceed(r, q)
    PROVE  /\ calls' \in [Caller -> Request]
           /\ calls'[r] = q
           /\ \A other \in Caller \ {r} : calls'[other] = calls[other]
BY DEF Typed, TenancyTypeOK, Proceed

LEMMA DoneProceeds ==
    ASSUME NEW r \in Caller, Done(r)
    PROVE  /\ Waits \in Request
           /\ Waits.pc = "idle"
           /\ Waits.staff = FALSE
           /\ Proceed(r, Waits)
BY DEF Done, Waits, Request

\* A request begins with what its token says, and marks nobody yet.
LEMMA Beginning ==
    ASSUME Typed, NEW r \in Caller,
           NEW token \in [company : Company \cup {NoCompany}, staff : BOOLEAN],
           Begin(r, token)
    PROVE  /\ asked' \in 0..MaxAsked
           /\ \E q \in Request : /\ Proceed(r, q)
                                 /\ q.pc \in MemberWork \cup StaffWork
                                 /\ q.staff = token.staff
                                 /\ q.own = token.company
<1>1. asked' \in 0..MaxAsked
  BY DEF Begin, Typed, TenancyTypeOK
<1>2. PICK work \in MemberWork \cup IF token.staff THEN StaffWork ELSE {},
           c \in Scopes(token) :
         Proceed(r, [Waits EXCEPT !.pc = work, !.staff = token.staff,
                                  !.own = token.company, !.company = c])
  BY DEF Begin
<1>3. work \in MemberWork \cup StaffWork
  BY <1>2
<1>4. c \in Company \cup {NoCompany}
  BY <1>2 DEF Scopes
<1> DEFINE q == [Waits EXCEPT !.pc = work, !.staff = token.staff,
                              !.own = token.company, !.company = c]
<1>5. /\ q \in Request
      /\ q.pc = work
      /\ q.staff = token.staff
      /\ q.own = token.company
  BY <1>3, <1>4 DEF Waits, Request, MemberWork, StaffWork
<1> QED
  BY <1>1, <1>2, <1>3, <1>5

\* A new address touches nothing else of the row, and is nobody else's.
LEMMA Readdressing ==
    ASSUME Typed, NEW r \in Caller, NEW u \in Person, AdminUpdate(r, u)
    PROVE  /\ people' \in [Person -> Account]
           /\ \A v \in Person \ {u} : people'[v] = people[v]
           /\ people'[u].company = people[u].company
           /\ people'[u].state = people[u].state
           /\ people'[u].shell = people[u].shell
           /\ people'[u].staff = people[u].staff
           /\ \/ people'[u].mail \in {Own, people[u].mail}
              \/ ~EmailTaken(people'[u].mail)
<1>1. people \in [Person -> Account] /\ people[u] \in Account
  BY DEF Typed, TenancyTypeOK
<1>2. PICK mail \in {Own, people[u].mail} \cup {a \in Address : ~EmailTaken(a)} :
          people' = [people EXCEPT ![u].mail = mail]
  BY DEF AdminUpdate
<1>3. mail \in Address \cup {Own}
  BY <1>1 DEF Account
<1>4. /\ people'[u] = [people[u] EXCEPT !.mail = mail]
      /\ \A v \in Person \ {u} : people'[v] = people[v]
  BY <1>1, <1>2
<1>5. /\ people'[u] \in Account
      /\ people'[u].company = people[u].company
      /\ people'[u].state = people[u].state
      /\ people'[u].shell = people[u].shell
      /\ people'[u].staff = people[u].staff
      /\ people'[u].mail = mail
  BY <1>1, <1>3, <1>4 DEF Account
<1>6. people' \in [Person -> Account]
  BY <1>1, <1>2, <1>4, <1>5
<1> QED
  BY <1>2, <1>4, <1>5, <1>6

LEMMA TypedNext ==
    ASSUME Typed, [TenancyNext]_tenancyVars
    PROVE  Typed'
<1>1. ASSUME NEW u \in Person, NEW c \in Company, Register(u, c) PROVE Typed'
  BY <1>1 DEF Typed, Aimed, TenancyTypeOK, Account, Register, Found, Doing, In
<1>2. ASSUME NEW u \in Person, NEW c \in Company, Claim(u, c) PROVE Typed'
  <2>1. [Unborn EXCEPT !.state = "live", !.company = c, !.role = c] \in Account
    BY DEF Unborn, Account
  <2> QED
    BY <1>2, <2>1 DEF Claim, Typed, Aimed, TenancyTypeOK, Doing, In
<1>3. ASSUME NEW c \in Company, RecordShipper(c) PROVE Typed'
  BY <1>3 DEF Typed, Aimed, TenancyTypeOK, RecordShipper, Doing, In
<1>4. ASSUME NEW u \in Person, SignIn(u) PROVE Typed'
  BY <1>4 DEF Typed, Aimed, TenancyTypeOK, Account, SignIn, Doing, In
<1>5. ASSUME NEW u \in Person, Expire(u) PROVE Typed'
  BY <1>5 DEF Typed, Aimed, TenancyTypeOK, Expire, NoToken, Doing, In
<1>6. ASSUME NEW b \in Shell, NEW mail \in Address, CountStaff(b, mail) PROVE Typed'
  BY <1>6 DEF Typed, Aimed, TenancyTypeOK, BootstrapRun, CountStaff, Steps, NoRun, Doing, In
<1>7. ASSUME NEW b \in Shell, NEW u \in Person, NEW c \in Company,
            CreateAdministrator(b, u, c)
     PROVE  Typed'
  <2>1. shells[b].mail \in Address
    BY <1>7 DEF CreateAdministrator, Found, Typed, Aimed, In
  <2>2. people' \in [Person -> Account]
    BY <1>7, <2>1 DEF CreateAdministrator, Found, Typed, TenancyTypeOK, Account
  <2>3. shells' \in [Shell -> BootstrapRun]
    BY <1>7 DEF CreateAdministrator, Typed, TenancyTypeOK, BootstrapRun, Steps, NoRun
  <2>4. administrator' \in [Company -> {"none", "absent", "all", "less"}] /\ karlo' \subseteq Company
    BY <1>7 DEF CreateAdministrator, Found, Typed, TenancyTypeOK
  <2>5. Aimed'
    BY <1>7 DEF CreateAdministrator, Typed, TenancyTypeOK, Aimed, Steps, NoRun, Doing, In
  <2> QED
    BY <1>7, <2>2, <2>3, <2>4, <2>5 DEF CreateAdministrator, Typed, TenancyTypeOK
<1>8. ASSUME NEW b \in Shell, RefuseAdministrator(b) PROVE Typed'
  BY <1>8 DEF Typed, Aimed, TenancyTypeOK, BootstrapRun, RefuseAdministrator, Steps, NoRun,
         Doing, In
<1>9. ASSUME NEW b \in Shell, MarkStaff(b) PROVE Typed'
  <2>1. shells[b].user \in Person
    BY <1>9 DEF Typed, Aimed, MarkStaff
  <2>2. people' \in [Person -> Account]
    BY <1>9, <2>1, Marking DEF MarkStaff
  <2> QED
    BY <1>9, <2>2 DEF Typed, Aimed, TenancyTypeOK, BootstrapRun, MarkStaff, Steps, NoRun,
           Doing, In
<1>10. ASSUME NEW b \in Shell, ShellDies(b) PROVE Typed'
  BY <1>10 DEF Typed, Aimed, TenancyTypeOK, BootstrapRun, ShellDies, Steps, NoRun, Doing, In
<1>11. ASSUME NEW r \in Caller, NEW u \in Person, Ask(r, u) PROVE Typed'
  <2>1. tokens[u] \in [company : Company \cup {NoCompany}, staff : BOOLEAN]
    BY DEF Typed, TenancyTypeOK
  <2>2. /\ Begin(r, tokens[u])
        /\ UNCHANGED tokens
    BY <1>11 DEF Ask, Begin
  <2>3. /\ asked' \in 0..MaxAsked
        /\ \E q \in Request : Proceed(r, q) /\ q.pc \in MemberWork \cup StaffWork
    BY <2>1, <2>2, Beginning
  <2>4. /\ calls' \in [Caller -> Request]
        /\ calls'[r].pc # "grant"
        /\ \A other \in Caller \ {r} : calls'[other] = calls[other]
    BY <2>3, Proceeding DEF MemberWork, StaffWork
  <2> QED
    BY <2>2, <2>3, <2>4 DEF Begin, Typed, Aimed, TenancyTypeOK, Doing, In
<1>12. ASSUME NEW r \in Caller, NEW k \in Key, AskByKey(r, k) PROVE Typed'
  <2> DEFINE token == [company |-> KeyCompany[k], staff |-> FALSE]
  <2>1. token \in [company : Company \cup {NoCompany}, staff : BOOLEAN]
    OBVIOUS
  <2>2. Begin(r, token) /\ UNCHANGED tokens
    BY <1>12 DEF AskByKey
  <2> HIDE DEF token
  <2>3. /\ asked' \in 0..MaxAsked
        /\ \E q \in Request : Proceed(r, q) /\ q.pc \in MemberWork \cup StaffWork
    BY <2>1, <2>2, Beginning
  <2>4. /\ calls' \in [Caller -> Request]
        /\ calls'[r].pc # "grant"
        /\ \A other \in Caller \ {r} : calls'[other] = calls[other]
    BY <2>3, Proceeding DEF MemberWork, StaffWork
  <2> QED
    BY <2>2, <2>3, <2>4 DEF Begin, Typed, Aimed, TenancyTypeOK, Doing, In
<1>13. ASSUME NEW r \in Caller, NEW u \in Person, Invite(r, u) PROVE Typed'
  <2>1. people' \in [Person -> Account]
    <3>1. calls[r].company \in Company \cup {NoCompany}
      BY DEF Typed, TenancyTypeOK, Request
    <3>2. PICK role \in Company \cup {NoCompany} :
             people' = [people EXCEPT ![u] = [Unborn EXCEPT !.state = "live",
                                                !.company = calls[r].company, !.role = role]]
      BY <1>13, <3>1 DEF Invite
    <3>3. [Unborn EXCEPT !.state = "live", !.company = calls[r].company, !.role = role]
             \in Account
      BY <3>1 DEF Unborn, Account
    <3>4. people \in [Person -> Account]
      BY DEF Typed, TenancyTypeOK
    <3> QED
      BY <3>2, <3>3, <3>4
  <2>2. PICK q \in Request : Proceed(r, q) /\ (q.pc = "grant" => q.target = u)
    <3> DEFINE q == [calls[r] EXCEPT !.pc = "grant", !.target = u]
    <3>1. q \in Request /\ q.target = u
      BY RequestTyped DEF Request
    <3>2. CASE Proceed(r, q)
      BY <3>1, <3>2
    <3>3. CASE Done(r)
      BY <3>3, DoneProceeds
    <3> QED
      BY <1>13, <3>2, <3>3 DEF Invite
  <2>3. /\ calls' \in [Caller -> Request]
        /\ calls'[r] = q
        /\ \A other \in Caller \ {r} : calls'[other] = calls[other]
    BY <2>2, Proceeding
  <2> QED
    BY <1>13, <2>1, <2>2, <2>3 DEF Invite, Typed, Aimed, TenancyTypeOK, Doing, In
<1>14. ASSUME NEW r \in Caller, NEW u \in Person, ChangePerson(r, u) PROVE Typed'
  <2>1. people' \in [Person -> Account]
    BY SMTT(30), <1>14 DEF ChangePerson, Typed, TenancyTypeOK, Account
  <2>2. /\ calls' \in [Caller -> Request]
        /\ calls'[r] = Waits
        /\ Waits.pc = "idle"
        /\ \A other \in Caller \ {r} : calls'[other] = calls[other]
    BY <1>14, DoneProceeds, Proceeding DEF ChangePerson
  <2> QED
    BY <1>14, <2>1, <2>2 DEF ChangePerson, Typed, Aimed, TenancyTypeOK, Doing, In
<1>15. ASSUME NEW r \in Caller, GrantPlatformStaff(r) PROVE Typed'
  <2>1. people' \in [Person -> Account]
    BY <1>15, Marking DEF GrantPlatformStaff, Typed, Aimed
  <2>2. /\ calls' \in [Caller -> Request]
        /\ calls'[r] = Waits
        /\ Waits.pc = "idle"
        /\ \A other \in Caller \ {r} : calls'[other] = calls[other]
    BY <1>15, DoneProceeds, Proceeding DEF GrantPlatformStaff
  <2> QED
    BY <1>15, <2>1, <2>2 DEF GrantPlatformStaff, Typed, Aimed, TenancyTypeOK, Doing, In
<1>16. ASSUME NEW r \in Caller, ReadRole(r) PROVE Typed'
  <2>1. PICK q \in Request : Proceed(r, q) /\ q.pc # "grant"
    <3>1. PICK all \in BOOLEAN :
             Done(r) \/ Proceed(r, [calls[r] EXCEPT !.pc = "save", !.all = all])
      BY <1>16 DEF ReadRole
    <3> DEFINE q == [calls[r] EXCEPT !.pc = "save", !.all = all]
    <3>2. q \in Request /\ q.pc = "save"
      BY RequestTyped DEF Request
    <3>3. CASE Proceed(r, q)
      BY <3>2, <3>3
    <3>4. CASE Done(r)
      BY <3>4, DoneProceeds
    <3> QED
      BY <3>1, <3>3, <3>4
  <2>2. /\ calls' \in [Caller -> Request]
        /\ calls'[r] = q
        /\ \A other \in Caller \ {r} : calls'[other] = calls[other]
    BY <2>1, Proceeding
  <2> QED
    BY <1>16, <2>1, <2>2 DEF ReadRole, Typed, Aimed, TenancyTypeOK, Doing, In
<1>17. ASSUME NEW r \in Caller, SaveRole(r) PROVE Typed'
  BY <1>17 DEF Typed, Aimed, TenancyTypeOK, Request, SaveRole, Done, Proceed, Waits,
         Doing, In
<1>18. ASSUME NEW r \in Caller, NEW survivor \in Company, NEW duplicate \in Company,
            Merge(r, survivor, duplicate)
     PROVE  Typed'
  <2>1. people' \in [Person -> Account]
    <3>1. \A u \in Person : people[u] \in Account
      BY DEF Typed, TenancyTypeOK
    <3>2. \A u \in Person : [people[u] EXCEPT !.company = survivor] \in Account
      BY <3>1 DEF Account
    <3> QED
      BY <1>18, <3>1, <3>2 DEF Merge
  <2>2. /\ calls' \in [Caller -> Request]
        /\ calls'[r] = Waits
        /\ Waits.pc = "idle"
        /\ \A other \in Caller \ {r} : calls'[other] = calls[other]
    BY <1>18, DoneProceeds, Proceeding DEF Merge
  <2> QED
    BY <1>18, <2>1, <2>2 DEF Merge, Typed, Aimed, TenancyTypeOK, Doing, In
<1>19. ASSUME NEW r \in Caller, Abandon(r) PROVE Typed'
  BY <1>19 DEF Typed, Aimed, TenancyTypeOK, Request, Abandon, Done, Proceed, Waits,
         Doing, In
<1>20. CASE UNCHANGED tenancyVars
  BY <1>20 DEF Typed, Aimed, TenancyTypeOK, tenancyVars, Doing, In
<1>21. ASSUME NEW r \in Caller, NEW u \in Person, AdminUpdate(r, u) PROVE Typed'
  <2>1. people' \in [Person -> Account]
    BY <1>21, Readdressing DEF Typed, TenancyTypeOK
  <2>2. /\ calls' \in [Caller -> Request]
        /\ calls'[r] = Waits
        /\ Waits.pc = "idle"
        /\ \A other \in Caller \ {r} : calls'[other] = calls[other]
    BY <1>21, DoneProceeds, Proceeding DEF AdminUpdate
  <2> QED
    BY <1>21, <2>1, <2>2 DEF AdminUpdate, Typed, Aimed, TenancyTypeOK, Doing, In
<1> QED
  BY <1>1, <1>2, <1>3, <1>4, <1>5, <1>6, <1>7, <1>8, <1>9, <1>10, <1>11, <1>12,
     <1>13, <1>14, <1>15, <1>16, <1>17, <1>18, <1>19, <1>20, <1>21
  DEF TenancyNext, ShellStep, CallStep

-----------------------------------------------------------------------------
(* Staff                                                                   *)

LEMMA TrustInit == TenancyInit => Trust /\ StaffAreKarlos
BY DEF TenancyInit, Trust, StaffAreKarlos, Unborn, NoToken, NoRun, Waits, Doing, In

LEMMA TrustNext ==
    ASSUME Typed, Trust, StaffAreKarlos, [TenancyNext]_tenancyVars
    PROVE  Trust' /\ StaffAreKarlos'
<1>1. ASSUME NEW u \in Person, NEW c \in Company,
            Register(u, c)
     PROVE  Trust' /\ StaffAreKarlos'
  BY <1>1 DEF Typed, Aimed, TenancyTypeOK, Trust, StaffAreKarlos, Register, Found, Unborn,
         Doing, In
<1>2. ASSUME NEW u \in Person, NEW c \in Company, Claim(u, c) PROVE Trust' /\ StaffAreKarlos'
  <2>1. /\ people[u] = Unborn
        /\ people'[u].staff = FALSE
        /\ \A v \in Person \ {u} : people'[v] = people[v]
    BY <1>2 DEF Claim, Typed, TenancyTypeOK, Unborn
  <2>2. NoCompany \notin karlo
    BY DEF Typed, TenancyTypeOK
  <2>3. UNCHANGED <<tokens, calls, shells, karlo>>
    BY <1>2 DEF Claim
  <2> QED
    BY <2>1, <2>2, <2>3 DEF Trust, StaffAreKarlos, Typed, Aimed, Doing, In, Unborn
<1>3. ASSUME NEW c \in Company, RecordShipper(c) PROVE Trust' /\ StaffAreKarlos'
  BY <1>3 DEF Trust, StaffAreKarlos, RecordShipper, Doing, In
<1>4. ASSUME NEW u \in Person, SignIn(u) PROVE Trust' /\ StaffAreKarlos'
  BY <1>4 DEF Typed, TenancyTypeOK, Trust, StaffAreKarlos, SignIn, Doing, In
<1>5. ASSUME NEW u \in Person, Expire(u) PROVE Trust' /\ StaffAreKarlos'
  BY <1>5 DEF Typed, TenancyTypeOK, Trust, StaffAreKarlos, Expire, NoToken, Doing, In
<1>6. ASSUME NEW b \in Shell, NEW mail \in Address,
            CountStaff(b, mail)
     PROVE  Trust' /\ StaffAreKarlos'
  BY <1>6 DEF Typed, TenancyTypeOK, Trust, StaffAreKarlos, CountStaff, Steps, NoRun, Doing, In
<1>7. ASSUME NEW b \in Shell, NEW u \in Person, NEW c \in Company,
            CreateAdministrator(b, u, c)
     PROVE  Trust' /\ StaffAreKarlos'
  BY <1>7 DEF Typed, Aimed, TenancyTypeOK, Trust, StaffAreKarlos, CreateAdministrator, Found,
         Unborn, Steps, NoRun, Doing, In
<1>8. ASSUME NEW b \in Shell, RefuseAdministrator(b) PROVE Trust' /\ StaffAreKarlos'
  BY <1>8 DEF Typed, TenancyTypeOK, Trust, StaffAreKarlos, RefuseAdministrator, Steps, NoRun,
         Doing, In
<1>9. ASSUME NEW b \in Shell, MarkStaff(b) PROVE Trust' /\ StaffAreKarlos'
  <2> DEFINE u == shells[b].user
  <2>1. u \in Person /\ people[u].company \in karlo
    BY <1>9 DEF Typed, Aimed, Trust, MarkStaff
  <2>2. \A v \in Person : /\ people'[v].company = people[v].company
                          /\ people'[v].staff => people[v].staff \/ v = u
    BY <1>9, <2>1, Marking DEF MarkStaff
  <2>3. \A other \in Shell : In(other, "mark")' => In(other, "mark") /\ UNCHANGED shells[other]
    BY <1>9 DEF Typed, TenancyTypeOK, MarkStaff, Steps, NoRun, In
  <2>4. UNCHANGED <<tokens, calls, karlo>>
    BY <1>9 DEF MarkStaff
  <2> QED
    BY <2>1, <2>2, <2>3, <2>4 DEF Typed, Aimed, Trust, StaffAreKarlos, Doing, In
<1>10. ASSUME NEW b \in Shell, ShellDies(b) PROVE Trust' /\ StaffAreKarlos'
  BY <1>10 DEF Typed, TenancyTypeOK, Trust, StaffAreKarlos, ShellDies, Steps, NoRun, Doing, In
<1>11. ASSUME NEW r \in Caller, NEW u \in Person,
            Ask(r, u)
     PROVE  Trust' /\ StaffAreKarlos'
  <2>1. tokens[u] \in [company : Company \cup {NoCompany}, staff : BOOLEAN]
    BY DEF Typed, TenancyTypeOK
  <2>2. /\ Begin(r, tokens[u])
        /\ UNCHANGED <<people, tokens, shells, karlo>>
    BY <1>11 DEF Ask, Begin
  <2>3. PICK q \in Request : /\ Proceed(r, q)
                             /\ q.pc \in MemberWork \cup StaffWork
                             /\ q.staff = tokens[u].staff
                             /\ q.own = tokens[u].company
    BY <2>1, <2>2, Beginning
  <2>4. /\ calls'[r] = q
        /\ \A other \in Caller \ {r} : calls'[other] = calls[other]
    BY <2>3, Proceeding
  <2> QED
    BY <2>2, <2>3, <2>4 DEF Trust, StaffAreKarlos, MemberWork, StaffWork, Doing, In
<1>12. ASSUME NEW r \in Caller, NEW k \in Key,
            AskByKey(r, k)
     PROVE  Trust' /\ StaffAreKarlos'
  <2> DEFINE token == [company |-> KeyCompany[k], staff |-> FALSE]
  <2>1. token \in [company : Company \cup {NoCompany}, staff : BOOLEAN] /\ token.staff = FALSE
    OBVIOUS
  <2>2. /\ Begin(r, token)
        /\ UNCHANGED <<people, tokens, shells, karlo>>
    BY <1>12 DEF AskByKey, Begin
  <2> HIDE DEF token
  <2>3. PICK q \in Request : /\ Proceed(r, q)
                             /\ q.pc \in MemberWork \cup StaffWork
                             /\ q.staff = FALSE
    BY <2>1, <2>2, Beginning
  <2>4. /\ calls'[r] = q
        /\ \A other \in Caller \ {r} : calls'[other] = calls[other]
    BY <2>3, Proceeding
  <2> QED
    BY <2>2, <2>3, <2>4 DEF Trust, StaffAreKarlos, MemberWork, StaffWork, Doing, In
<1>13. ASSUME NEW r \in Caller, NEW u \in Person,
            Invite(r, u)
     PROVE  Trust' /\ StaffAreKarlos'
  <2> DEFINE c == calls[r].company
  <2>1. /\ people[u] = Unborn
        /\ people'[u].company = c /\ people'[u].staff = FALSE
        /\ \A v \in Person \ {u} : people'[v] = people[v]
    BY <1>13 DEF Invite, Typed, TenancyTypeOK, Unborn
  <2>2. NoCompany \notin karlo
    BY DEF Typed, TenancyTypeOK
  <2>3. UNCHANGED <<tokens, shells, karlo>>
    BY <1>13 DEF Invite
  <2>4. PICK q \in Request : /\ Proceed(r, q)
                             /\ q.staff => q.own \in karlo
                             /\ q.pc = "grant" => q.target = u /\ c \in karlo
    <3> DEFINE q == [calls[r] EXCEPT !.pc = "grant", !.target = u]
    <3>1. /\ q \in Request
          /\ q.staff = calls[r].staff /\ q.own = calls[r].own /\ q.target = u
      BY RequestTyped DEF Request
    <3>2. CASE calls[r].staff /\ calls[r].own = c
      <4>1. Proceed(r, q)
        BY <1>13, <3>2 DEF Invite
      <4>2. c \in karlo
        BY <3>2 DEF Trust
      <4> QED
        BY <3>1, <3>2, <4>1, <4>2
    <3>3. CASE ~(calls[r].staff /\ calls[r].own = c)
      BY <1>13, <3>3, DoneProceeds DEF Invite
    <3> QED
      BY <3>2, <3>3
  <2>5. /\ calls'[r] = q
        /\ \A other \in Caller \ {r} : calls'[other] = calls[other]
    BY <2>4, Proceeding
  <2>6. \A other \in Caller :
            Doing(other, "grant")' => people'[calls'[other].target].company \in karlo'
    <3> SUFFICES ASSUME NEW other \in Caller, Doing(other, "grant")'
                 PROVE  people'[calls'[other].target].company \in karlo
      BY <2>3
    <3>1. CASE other = r
      BY <2>1, <2>4, <2>5, <3>1 DEF Doing
    <3>2. CASE other # r
      <4>1. Doing(other, "grant") /\ calls'[other] = calls[other]
        BY <2>5, <3>2 DEF Doing
      <4>2. calls[other].target \in Person /\ people[calls[other].target].company \in karlo
        BY <4>1 DEF Trust, Typed, Aimed
      <4>3. calls[other].target # u
        BY <2>1, <2>2, <4>2 DEF Unborn
      <4> QED
        BY <2>1, <4>1, <4>2, <4>3
    <3> QED
      BY <3>1, <3>2
  <2>7. \A b \in Shell : In(b, "mark")' => people'[shells'[b].user].company \in karlo'
    BY <2>1, <2>2, <2>3 DEF Trust, Typed, Aimed, In, Unborn
  <2>8. \A other \in Caller : calls'[other].staff => calls'[other].own \in karlo'
    BY <2>3, <2>4, <2>5 DEF Trust
  <2>9. StaffAreKarlos'
    BY <2>1, <2>3 DEF StaffAreKarlos
  <2> QED
    BY <2>3, <2>6, <2>7, <2>8, <2>9 DEF Trust
<1>14. ASSUME NEW r \in Caller, NEW u \in Person,
            ChangePerson(r, u)
     PROVE  Trust' /\ StaffAreKarlos'
  <2>1. \A v \in Person : people'[v].company = people[v].company /\ people'[v].staff = people[v].staff
    BY <1>14 DEF ChangePerson, Typed, TenancyTypeOK, Account
  <2>2. /\ calls'[r] = Waits
        /\ Waits.pc = "idle" /\ Waits.staff = FALSE
        /\ \A other \in Caller \ {r} : calls'[other] = calls[other]
    BY <1>14, DoneProceeds, Proceeding DEF ChangePerson
  <2>3. UNCHANGED <<tokens, shells, karlo>>
    BY <1>14 DEF ChangePerson
  <2> QED
    BY <2>1, <2>2, <2>3 DEF Trust, StaffAreKarlos, Typed, Aimed, Doing, In
<1>15. ASSUME NEW r \in Caller, GrantPlatformStaff(r) PROVE Trust' /\ StaffAreKarlos'
  <2> DEFINE u == calls[r].target
  <2>1. u \in Person /\ people[u].company \in karlo
    BY <1>15 DEF Typed, Aimed, Trust, GrantPlatformStaff
  <2>2. \A v \in Person : /\ people'[v].company = people[v].company
                          /\ people'[v].staff => people[v].staff \/ v = u
    BY <1>15, <2>1, Marking DEF GrantPlatformStaff
  <2>3. /\ calls'[r] = Waits
        /\ Waits.pc = "idle" /\ Waits.staff = FALSE
        /\ \A other \in Caller \ {r} : calls'[other] = calls[other]
    BY <1>15, DoneProceeds, Proceeding DEF GrantPlatformStaff
  <2>4. UNCHANGED <<tokens, shells, karlo>>
    BY <1>15 DEF GrantPlatformStaff
  <2> QED
    BY <2>1, <2>2, <2>3, <2>4 DEF Trust, StaffAreKarlos, Typed, Aimed, Doing, In
<1>16. ASSUME NEW r \in Caller, ReadRole(r) PROVE Trust' /\ StaffAreKarlos'
  <2>1. PICK q \in Request : /\ Proceed(r, q)
                             /\ q.pc # "grant"
                             /\ q.staff => q.own \in karlo
    <3>1. PICK all \in BOOLEAN :
             Done(r) \/ Proceed(r, [calls[r] EXCEPT !.pc = "save", !.all = all])
      BY <1>16 DEF ReadRole
    <3> DEFINE q == [calls[r] EXCEPT !.pc = "save", !.all = all]
    <3>2. /\ q \in Request /\ q.pc = "save"
          /\ q.staff = calls[r].staff /\ q.own = calls[r].own
      BY RequestTyped DEF Request
    <3>3. CASE Proceed(r, q)
      BY <3>2, <3>3 DEF Trust
    <3>4. CASE Done(r)
      BY <3>4, DoneProceeds
    <3> QED
      BY <3>1, <3>3, <3>4
  <2>2. /\ calls'[r] = q
        /\ \A other \in Caller \ {r} : calls'[other] = calls[other]
    BY <2>1, Proceeding
  <2>3. UNCHANGED <<people, tokens, shells, karlo>>
    BY <1>16 DEF ReadRole
  <2> QED
    BY <2>1, <2>2, <2>3 DEF Trust, StaffAreKarlos, Doing, In
<1>17. ASSUME NEW r \in Caller, SaveRole(r) PROVE Trust' /\ StaffAreKarlos'
  <2>1. /\ calls'[r] = Waits
        /\ Waits.pc = "idle" /\ Waits.staff = FALSE
        /\ \A other \in Caller \ {r} : calls'[other] = calls[other]
    BY <1>17, DoneProceeds, Proceeding DEF SaveRole
  <2> QED
    BY <1>17, <2>1 DEF SaveRole, Trust, StaffAreKarlos, Doing, In
<1>18. ASSUME NEW r \in Caller, NEW survivor \in Company, NEW duplicate \in Company,
            Merge(r, survivor, duplicate)
     PROVE  Trust' /\ StaffAreKarlos'
  <2>1. /\ karlo \subseteq karlo'
        /\ duplicate \in karlo => survivor \in karlo'
    BY <1>18 DEF Merge
  <2>2. \A v \in Person : /\ people[v].company \in karlo => people'[v].company \in karlo'
                          /\ people'[v].staff = people[v].staff
    BY <1>18, <2>1 DEF Merge, Typed, TenancyTypeOK, Account
  <2>3. /\ calls'[r] = Waits
        /\ Waits.pc = "idle" /\ Waits.staff = FALSE
        /\ \A other \in Caller \ {r} : calls'[other] = calls[other]
    BY <1>18, DoneProceeds, Proceeding DEF Merge
  <2>4. UNCHANGED <<tokens, shells>>
    BY <1>18 DEF Merge
  <2> QED
    BY <2>1, <2>2, <2>3, <2>4 DEF Trust, StaffAreKarlos, Typed, Aimed, Doing, In
<1>19. ASSUME NEW r \in Caller, Abandon(r) PROVE Trust' /\ StaffAreKarlos'
  <2>1. /\ calls'[r] = Waits
        /\ Waits.pc = "idle" /\ Waits.staff = FALSE
        /\ \A other \in Caller \ {r} : calls'[other] = calls[other]
    BY <1>19, DoneProceeds, Proceeding DEF Abandon
  <2> QED
    BY <1>19, <2>1 DEF Abandon, Trust, StaffAreKarlos, Doing, In
<1>20. CASE UNCHANGED tenancyVars
  BY <1>20 DEF Trust, StaffAreKarlos, tenancyVars, Doing, In
<1>21. ASSUME NEW r \in Caller, NEW u \in Person,
            AdminUpdate(r, u)
     PROVE  Trust' /\ StaffAreKarlos'
  <2>1. \A v \in Person : people'[v].company = people[v].company /\ people'[v].staff = people[v].staff
    BY <1>21, Readdressing
  <2>2. /\ calls'[r] = Waits
        /\ Waits.pc = "idle" /\ Waits.staff = FALSE
        /\ \A other \in Caller \ {r} : calls'[other] = calls[other]
    BY <1>21, DoneProceeds, Proceeding DEF AdminUpdate
  <2>3. UNCHANGED <<tokens, shells, karlo>>
    BY <1>21 DEF AdminUpdate
  <2> QED
    BY <2>1, <2>2, <2>3 DEF Trust, StaffAreKarlos, Typed, Aimed, Doing, In
<1> QED
  BY <1>1, <1>2, <1>3, <1>4, <1>5, <1>6, <1>7, <1>8, <1>9, <1>10, <1>11, <1>12,
     <1>13, <1>14, <1>15, <1>16, <1>17, <1>18, <1>19, <1>20, <1>21
  DEF TenancyNext, ShellStep, CallStep

-----------------------------------------------------------------------------
(* One administrator                                                       *)

LEMMA ShellInit == TenancyInit => ShellInv
BY DEF TenancyInit, ShellInv, Unshared, InTurn, Invited, MadeStaff, FromShell, Live, Unborn,
       NoRun, Waits, Doing, In

\* A step of no run, by which nobody gets an address that another may have, or becomes
\* staff who is bootstrap's.
LEMMA QuietStep ==
    ASSUME Typed, ShellInv, UNCHANGED <<shells, overlapped>>,
           \A v \in Person :
               /\ people'[v].shell = people[v].shell
               /\ MadeStaff(v)' => MadeStaff(v)
               /\ Live(v)' /\ people'[v].mail # Own =>
                      Live(v) /\ people'[v].mail = people[v].mail,
           \A r \in Caller :
               Doing(r, "grant")' => \/ Doing(r, "grant") /\ calls'[r].target = calls[r].target
                                     \/ people'[calls'[r].target].shell = NoAddress
    PROVE  ShellInv'
<1>1. Unshared'
  BY DEF ShellInv, Unshared
<1>2. InTurn'
  BY DEF ShellInv, InTurn, In
<1>3. Invited'
  <2> SUFFICES ASSUME NEW r \in Caller, Doing(r, "grant")'
               PROVE  people'[calls'[r].target].shell = NoAddress
    BY DEF Invited
  <2>1. CASE Doing(r, "grant") /\ calls'[r].target = calls[r].target
    <3>1. calls[r].target \in Person /\ people[calls[r].target].shell = NoAddress
      BY <2>1 DEF ShellInv, Invited, Typed, Aimed
    <3> QED
      BY <2>1, <3>1
  <2> QED
    BY <2>1
<1> QED
  BY <1>1, <1>2, <1>3 DEF ShellInv

\* A step that leaves accounts and runs alone, and sets no request to mark anybody.
LEMMA SameAccounts ==
    ASSUME Typed, ShellInv, UNCHANGED <<people, shells, overlapped>>,
           \A r \in Caller :
               Doing(r, "grant")' => Doing(r, "grant") /\ calls'[r].target = calls[r].target
    PROVE  ShellInv'
<1>1. \A v \in Person : (MadeStaff(v)' => MadeStaff(v)) /\ (Live(v)' => Live(v))
  BY DEF MadeStaff, FromShell, Live
<1> QED
  BY <1>1, QuietStep

LEMMA DoneMarksNobody ==
    ASSUME Typed, NEW r \in Caller, Done(r)
    PROVE  \A other \in Caller :
               Doing(other, "grant")' =>
                   Doing(other, "grant") /\ calls'[other].target = calls[other].target
<1>1. calls'[r] = Waits /\ Waits.pc = "idle" /\ \A other \in Caller \ {r} : calls'[other] = calls[other]
  BY DoneProceeds, Proceeding
<1> QED
  BY <1>1 DEF Doing

\* Somebody registers, is invited or claims: a row is born with an address of its own.
LEMMA Birth ==
    ASSUME Typed, ShellInv, UNCHANGED <<shells, overlapped>>,
           NEW u \in Person, people[u] = Unborn,
           people'[u].mail = Own, people'[u].shell = NoAddress,
           \A v \in Person \ {u} : people'[v] = people[v],
           \A r \in Caller :
               Doing(r, "grant")' => \/ Doing(r, "grant") /\ calls'[r].target = calls[r].target
                                     \/ calls'[r].target = u
    PROVE  ShellInv'
<1>1. \A v \in Person : /\ people'[v].shell = people[v].shell
                        /\ MadeStaff(v)' => MadeStaff(v)
                        /\ Live(v)' /\ people'[v].mail # Own =>
                               Live(v) /\ people'[v].mail = people[v].mail
  BY DEF MadeStaff, FromShell, Live, Unborn
<1> QED
  BY <1>1, QuietStep

\* A run that is under way goes no further than before: others are in no worse turn.
LEMMA RunEnds ==
    ASSUME Typed, ShellInv, NEW b \in Shell, Steps(b, NoRun), UNCHANGED <<people, calls, overlapped>>
    PROVE  ShellInv'
<1>1. /\ In(b, "idle")'
      /\ \A other \in Shell \ {b} : shells'[other] = shells[other]
  BY DEF Typed, TenancyTypeOK, Steps, NoRun, In
<1>2. \A v \in Person : (MadeStaff(v)' <=> MadeStaff(v)) /\ (Live(v)' <=> Live(v))
  BY DEF MadeStaff, FromShell, Live
<1>3. InTurn'
  BY <1>1, <1>2 DEF ShellInv, InTurn, In
<1>4. Unshared' /\ Invited'
  BY <1>2 DEF ShellInv, Unshared, Invited, Doing
<1> QED
  BY <1>3, <1>4 DEF ShellInv

\* A run begins, where there is no staff.
LEMMA RunBegins ==
    ASSUME Typed, ShellInv, NEW b \in Shell, NEW mail \in Address, CountStaff(b, mail)
    PROVE  ShellInv'
<1>1. /\ \A other \in Shell \ {b} : shells'[other] = shells[other]
      /\ UNCHANGED <<people, calls>>
      /\ ~overlapped' => /\ ~overlapped
                         /\ \A other \in Shell : In(other, "idle")
  BY DEF CountStaff, Typed, TenancyTypeOK, Steps
<1>2. \A v \in Person : ~MadeStaff(v)' /\ (Live(v)' <=> Live(v))
  BY <1>1 DEF CountStaff, Staff, MadeStaff, FromShell, Live
<1>3. InTurn'
  BY <1>1, <1>2 DEF InTurn, In
<1>4. Unshared' /\ Invited'
  BY <1>1, <1>2 DEF ShellInv, Unshared, Invited, Doing
<1> QED
  BY <1>3, <1>4 DEF ShellInv

\* It makes its account under an address nobody alive has.
LEMMA RunCreates ==
    ASSUME Typed, Trust, ShellInv, NEW b \in Shell, NEW u \in Person, NEW c \in Company,
           CreateAdministrator(b, u, c)
    PROVE  ShellInv'
<1>1. /\ people[u] = Unborn
      /\ ~people'[u].staff
      /\ people'[u].mail = shells[b].mail
      /\ \A v \in Person \ {u} : people'[v] = people[v]
  BY DEF CreateAdministrator, Found, Typed, TenancyTypeOK
<1>2. /\ ~In(b, "idle")
      /\ \A other \in Shell \ {b} : shells'[other] = shells[other]
      /\ UNCHANGED <<calls, overlapped>>
  BY DEF CreateAdministrator, Typed, TenancyTypeOK, Steps, In
<1>3. \A v \in Person : MadeStaff(v)' => MadeStaff(v)
  BY <1>1 DEF MadeStaff, FromShell, Live
<1>4. InTurn'
  BY <1>2, <1>3 DEF ShellInv, InTurn, In
<1>5. \A v \in Person \ {u} : Live(v)' => Live(v) /\ people'[v].mail = people[v].mail
  BY <1>1 DEF Live
<1>6. \A v \in Person : Live(v) => people[v].mail # shells[b].mail
  BY DEF CreateAdministrator, EmailTaken
<1>7. Unshared'
  BY <1>1, <1>5, <1>6 DEF ShellInv, Unshared
<1>8. Invited'
  <2> SUFFICES ASSUME NEW r \in Caller, Doing(r, "grant")
               PROVE  people'[calls[r].target].shell = NoAddress
    BY <1>2 DEF Invited, Doing
  <2>1. /\ calls[r].target \in Person
        /\ people[calls[r].target].company \in karlo
        /\ people[calls[r].target].shell = NoAddress
    BY DEF Typed, Aimed, Trust, ShellInv, Invited
  <2>2. NoCompany \notin karlo
    BY DEF Typed, TenancyTypeOK
  <2>3. calls[r].target # u
    BY <1>1, <2>1, <2>2 DEF Unborn
  <2> QED
    BY <1>1, <2>1, <2>3
<1> QED
  BY <1>4, <1>7, <1>8 DEF ShellInv

\* It marks the one it made: where runs take turns there was none before.
LEMMA RunMarks ==
    ASSUME Typed, ShellInv, NEW b \in Shell, MarkStaff(b)
    PROVE  ShellInv'
<1> DEFINE u == shells[b].user
<1>1. u \in Person /\ ~In(b, "idle")
  BY DEF MarkStaff, Typed, Aimed, In
<1>2. \A v \in Person : /\ people'[v].state = people[v].state
                        /\ people'[v].shell = people[v].shell
                        /\ people'[v].mail = people[v].mail
                        /\ people'[v].staff => people[v].staff \/ v = u
  BY <1>1, Marking DEF MarkStaff
<1> HIDE DEF u
<1>3. \A v \in Person : /\ Live(v)' <=> Live(v)
                        /\ MadeStaff(v)' => MadeStaff(v) \/ v = u
  BY <1>2 DEF MadeStaff, FromShell, Live
<1>4. /\ In(b, "idle")'
      /\ \A other \in Shell \ {b} : shells'[other] = shells[other]
      /\ UNCHANGED <<calls, overlapped>>
  BY DEF MarkStaff, Typed, TenancyTypeOK, Steps, NoRun, In
<1>5. InTurn'
  <2> SUFFICES ASSUME ~overlapped
               PROVE  /\ \A other \in Shell : In(other, "idle")'
                      /\ \A v, w \in Person : MadeStaff(v)' /\ MadeStaff(w)' => v = w
    BY <1>4 DEF InTurn
  <2>1. /\ \A other \in Shell \ {b} : In(other, "idle")
        /\ \A v \in Person : ~MadeStaff(v)
    BY <1>1 DEF ShellInv, InTurn
  <2> QED
    BY <1>3, <1>4, <2>1 DEF In
<1>6. Unshared'
  BY <1>2, <1>3 DEF ShellInv, Unshared
<1>7. Invited'
  BY <1>2, <1>4 DEF ShellInv, Invited, Typed, Aimed, Doing
<1> QED
  BY <1>5, <1>6, <1>7 DEF ShellInv

LEMMA ShellNext ==
    ASSUME Typed, Trust, ShellInv, [TenancyNext]_tenancyVars
    PROVE  ShellInv'
<1>1. ASSUME NEW u \in Person, NEW c \in Company, Register(u, c) PROVE ShellInv'
  <2>1. /\ people[u] = Unborn
        /\ people'[u].mail = Own /\ people'[u].shell = NoAddress
        /\ \A v \in Person \ {u} : people'[v] = people[v]
        /\ UNCHANGED <<calls, shells, overlapped>>
    BY <1>1 DEF Register, Found, Typed, TenancyTypeOK
  <2> QED
    BY <2>1, Birth DEF Doing
<1>2. ASSUME NEW u \in Person, NEW c \in Company, Claim(u, c) PROVE ShellInv'
  <2>1. /\ people[u] = Unborn
        /\ people'[u].mail = Own /\ people'[u].shell = NoAddress
        /\ \A v \in Person \ {u} : people'[v] = people[v]
        /\ UNCHANGED <<calls, shells, overlapped>>
    BY <1>2 DEF Claim, Typed, TenancyTypeOK, Unborn
  <2> QED
    BY <2>1, Birth DEF Doing
<1>3. ASSUME NEW c \in Company, RecordShipper(c) PROVE ShellInv'
  BY <1>3, SameAccounts DEF RecordShipper, Doing
<1>4. ASSUME NEW u \in Person, SignIn(u) \/ Expire(u) PROVE ShellInv'
  BY <1>4, SameAccounts DEF SignIn, Expire, Doing
<1>5. ASSUME NEW b \in Shell, NEW mail \in Address, CountStaff(b, mail) PROVE ShellInv'
  BY <1>5, RunBegins
<1>6. ASSUME NEW b \in Shell, NEW u \in Person, NEW c \in Company,
             CreateAdministrator(b, u, c)
      PROVE  ShellInv'
  BY <1>6, RunCreates
<1>7. ASSUME NEW b \in Shell, RefuseAdministrator(b) \/ ShellDies(b) PROVE ShellInv'
  BY <1>7, RunEnds DEF RefuseAdministrator, ShellDies
<1>8. ASSUME NEW b \in Shell, MarkStaff(b) PROVE ShellInv'
  BY <1>8, RunMarks
<1>9. ASSUME NEW r \in Caller,
             NEW token \in [company : Company \cup {NoCompany}, staff : BOOLEAN],
             Begin(r, token)
      PROVE  ShellInv'
  <2>1. UNCHANGED <<people, shells, overlapped>>
    BY <1>9 DEF Begin
  <2>2. PICK q \in Request : Proceed(r, q) /\ q.pc \in MemberWork \cup StaffWork
    BY <1>9, Beginning
  <2>3. /\ calls'[r] = q /\ q.pc # "grant"
        /\ \A other \in Caller \ {r} : calls'[other] = calls[other]
    BY <2>2, Proceeding DEF MemberWork, StaffWork
  <2> QED
    BY <2>1, <2>3, SameAccounts DEF Doing
<1>10. ASSUME NEW r \in Caller, NEW u \in Person, Ask(r, u) PROVE ShellInv'
  <2>1. tokens[u] \in [company : Company \cup {NoCompany}, staff : BOOLEAN]
    BY DEF Typed, TenancyTypeOK
  <2> QED
    BY <1>9, <1>10, <2>1 DEF Ask
<1>11. ASSUME NEW r \in Caller, NEW k \in Key, AskByKey(r, k) PROVE ShellInv'
  <2>1. [company |-> KeyCompany[k], staff |-> FALSE]
            \in [company : Company \cup {NoCompany}, staff : BOOLEAN]
    OBVIOUS
  <2> QED
    BY <1>9, <1>11, <2>1 DEF AskByKey
<1>12. ASSUME NEW r \in Caller, NEW u \in Person, Invite(r, u) PROVE ShellInv'
  <2>1. /\ people[u] = Unborn
        /\ people'[u].mail = Own /\ people'[u].shell = NoAddress
        /\ \A v \in Person \ {u} : people'[v] = people[v]
        /\ UNCHANGED <<shells, overlapped>>
    BY <1>12 DEF Invite, Typed, TenancyTypeOK, Unborn
  <2>2. CASE Done(r)
    BY <2>1, <2>2, DoneMarksNobody, Birth
  <2>3. CASE Proceed(r, [calls[r] EXCEPT !.pc = "grant", !.target = u])
    <3> DEFINE q == [calls[r] EXCEPT !.pc = "grant", !.target = u]
    <3>1. q \in Request /\ q.target = u
      BY RequestTyped DEF Request
    <3>2. calls'[r] = q /\ \A other \in Caller \ {r} : calls'[other] = calls[other]
      BY <2>3, <3>1, Proceeding
    <3>3. \A other \in Caller :
              Doing(other, "grant")' =>
                  \/ Doing(other, "grant") /\ calls'[other].target = calls[other].target
                  \/ calls'[other].target = u
      BY <3>1, <3>2 DEF Doing
    <3> QED
      BY <2>1, <3>3, Birth
  <2> QED
    BY <1>12, <2>2, <2>3 DEF Invite
<1>13. ASSUME NEW r \in Caller, NEW u \in Person, ChangePerson(r, u) PROVE ShellInv'
  <2>1. \A v \in Person : /\ people'[v].shell = people[v].shell
                          /\ people'[v].mail = people[v].mail
                          /\ people'[v].staff = people[v].staff
                          /\ Live(v)' => Live(v)
    BY <1>13 DEF ChangePerson, Typed, TenancyTypeOK, Account, Live
  <2>2. \A v \in Person : MadeStaff(v)' => MadeStaff(v)
    BY <2>1 DEF MadeStaff, FromShell
  <2>3. Done(r) /\ UNCHANGED <<shells, overlapped>>
    BY <1>13 DEF ChangePerson
  <2> QED
    BY <2>1, <2>2, <2>3, DoneMarksNobody, QuietStep
<1>14. ASSUME NEW r \in Caller, NEW u \in Person, AdminUpdate(r, u) PROVE ShellInv'
  <2>1. \A v \in Person : /\ people'[v].shell = people[v].shell
                          /\ Live(v)' <=> Live(v)
                          /\ MadeStaff(v)' <=> MadeStaff(v)
    BY <1>14, Readdressing DEF MadeStaff, FromShell, Live
  <2>2. Done(r) /\ UNCHANGED <<shells, overlapped>>
    BY <1>14 DEF AdminUpdate
  <2>3. InTurn'
    BY <2>1, <2>2 DEF ShellInv, InTurn, In
  <2>4. Invited'
    BY <2>1, <2>2, DoneMarksNobody DEF ShellInv, Invited, Typed, Aimed
  <2>5. Unshared'
    <3>1. ASSUME NEW v \in Person \ {u}, NEW w \in Person \ {v}, Live(v)', Live(w)',
                 people'[v].mail = people'[w].mail
          PROVE  people'[v].mail = Own
      <4>1. people'[v].mail = people[v].mail /\ Live(v) /\ Live(w)
        BY <1>14, <2>1, <3>1, Readdressing
      <4>2. CASE w # u
        BY <1>14, <3>1, <4>1, <4>2, Readdressing DEF ShellInv, Unshared
      <4>3. CASE w = u
        <5>1. \/ people'[w].mail \in {Own, people[w].mail}
              \/ ~EmailTaken(people'[w].mail)
          BY <1>14, <4>3, Readdressing
        <5>2. EmailTaken(people[v].mail)
          BY <4>1 DEF EmailTaken
        <5>3. people'[w].mail \in {Own, people[w].mail}
          BY <3>1, <4>1, <5>1, <5>2
        <5> QED
          BY <3>1, <4>1, <5>3 DEF ShellInv, Unshared
      <4> QED
        BY <4>2, <4>3
    <3> QED
      BY <3>1 DEF Unshared
  <2> QED
    BY <2>3, <2>4, <2>5 DEF ShellInv
<1>15. ASSUME NEW r \in Caller, GrantPlatformStaff(r) PROVE ShellInv'
  <2> DEFINE u == calls[r].target
  <2>1. u \in Person /\ people[u].shell = NoAddress
    BY <1>15 DEF Typed, Aimed, GrantPlatformStaff, ShellInv, Invited
  <2>2. \A v \in Person : /\ people'[v].state = people[v].state
                          /\ people'[v].shell = people[v].shell
                          /\ people'[v].mail = people[v].mail
                          /\ people'[v].staff => people[v].staff \/ v = u
    BY <1>15, <2>1, Marking DEF GrantPlatformStaff
  <2>3. \A v \in Person : (MadeStaff(v)' => MadeStaff(v)) /\ (Live(v)' => Live(v))
    BY <2>1, <2>2 DEF MadeStaff, FromShell, Live
  <2>4. Done(r) /\ UNCHANGED <<shells, overlapped>>
    BY <1>15 DEF GrantPlatformStaff
  <2> QED
    BY <2>2, <2>3, <2>4, DoneMarksNobody, QuietStep
<1>16. ASSUME NEW r \in Caller, ReadRole(r) PROVE ShellInv'
  <2>1. UNCHANGED <<people, shells, overlapped>>
    BY <1>16 DEF ReadRole
  <2>2. CASE Done(r)
    BY <2>1, <2>2, DoneMarksNobody, SameAccounts
  <2>3. ASSUME NEW all \in BOOLEAN, Proceed(r, [calls[r] EXCEPT !.pc = "save", !.all = all])
        PROVE  ShellInv'
    <3>1. [calls[r] EXCEPT !.pc = "save", !.all = all] \in Request
      BY RequestTyped DEF Request
    <3>2. /\ calls'[r].pc = "save"
          /\ \A other \in Caller \ {r} : calls'[other] = calls[other]
      BY <2>3, <3>1, RequestTyped, Proceeding DEF Request
    <3> QED
      BY <2>1, <3>2, SameAccounts DEF Doing
  <2> QED
    BY <1>16, <2>2, <2>3 DEF ReadRole
<1>17. ASSUME NEW r \in Caller, SaveRole(r) \/ Abandon(r) PROVE ShellInv'
  <2>1. Done(r) /\ UNCHANGED <<people, shells, overlapped>>
    BY <1>17 DEF SaveRole, Abandon
  <2> QED
    BY <2>1, DoneMarksNobody, SameAccounts
<1>18. ASSUME NEW r \in Caller, NEW survivor \in Company, NEW duplicate \in Company,
              Merge(r, survivor, duplicate)
       PROVE  ShellInv'
  <2>1. \A v \in Person : /\ people'[v].state = people[v].state
                          /\ people'[v].shell = people[v].shell
                          /\ people'[v].mail = people[v].mail
                          /\ people'[v].staff = people[v].staff
    BY <1>18 DEF Merge, Typed, TenancyTypeOK, Account
  <2>2. \A v \in Person : (MadeStaff(v)' => MadeStaff(v)) /\ (Live(v)' => Live(v))
    BY <2>1 DEF MadeStaff, FromShell, Live
  <2>3. Done(r) /\ UNCHANGED <<shells, overlapped>>
    BY <1>18 DEF Merge
  <2> QED
    BY <2>1, <2>2, <2>3, DoneMarksNobody, QuietStep
<1>19. CASE UNCHANGED tenancyVars
  BY <1>19, SameAccounts DEF tenancyVars, Doing
<1> QED
  BY <1>1, <1>2, <1>3, <1>4, <1>5, <1>6, <1>7, <1>8, <1>10, <1>11, <1>12,
     <1>13, <1>14, <1>15, <1>16, <1>17, <1>18, <1>19
  DEF TenancyNext, ShellStep, CallStep

LEMMA OneFromTurns == Typed /\ ShellInv => OneAdministratorFromTheShell
<1> SUFFICES ASSUME Typed, ShellInv, NEW u \in Person, NEW v \in Person,
                    u # v, FromShell(u), FromShell(v)
             PROVE  /\ people[u].staff /\ people[v].staff => overlapped
                    /\ people[u].shell = people[v].shell => Readdressed(u) \/ Readdressed(v)
  BY DEF OneAdministratorFromTheShell
<1>1. people[u].staff /\ people[v].staff => overlapped
  BY DEF ShellInv, InTurn, MadeStaff
<1>2. people[u].shell \in Address
  BY DEF Typed, TenancyTypeOK, Account, FromShell
<1>3. ASSUME people[u].shell = people[v].shell, ~Readdressed(u), ~Readdressed(v)
      PROVE  FALSE
  BY <1>2, <1>3 DEF ShellInv, Unshared, FromShell, Readdressed
<1> QED
  BY <1>1, <1>3

-----------------------------------------------------------------------------
(* The theorems                                                            *)

LEMMA Invariance == TenancySpec => []TenancyInv
<1>1. TenancyInit => TenancyInv
  BY TypedInit, TrustInit, ShellInit DEF TenancyInv
<1>2. TenancyInv /\ [TenancyNext]_tenancyVars => TenancyInv'
  BY TypedNext, TrustNext, ShellNext DEF TenancyInv
<1> QED
  BY <1>1, <1>2, PTL DEF TenancySpec

\* Every reachable state is well typed: no row is taken out of the tables, and no
\* request holds what a row never was.
THEOREM TenancyTypes == TenancySpec => []TenancyTypeOK
<1>1. TenancyInv => TenancyTypeOK
  BY DEF TenancyInv, Typed
<1> QED
  BY <1>1, Invariance, PTL

\* Only people of Karlo's company are staff (GrantPlatformStaff, bootstrap.Run), for
\* every number of requests on tokens however old, merges and bootstrap runs.
THEOREM StaffStayKarlos == TenancySpec => []StaffAreKarlos
<1>1. TenancyInv => StaffAreKarlos
  BY DEF TenancyInv
<1> QED
  BY <1>1, Invariance, PTL

\* Runs of bootstrap.Run that take turns mark one account alive at most, whichever of
\* them die and whatever addresses they are given; and no two live accounts of theirs
\* have the address both were made with, even where runs overlap.
THEOREM OneFromTheShell == TenancySpec => []OneAdministratorFromTheShell
<1>1. TenancyInv => OneAdministratorFromTheShell
  BY OneFromTurns DEF TenancyInv
<1> QED
  BY <1>1, Invariance, PTL
=============================================================================
