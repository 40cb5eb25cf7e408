-------------------------------- MODULE Tenancy --------------------------------
(***************************************************************************)
(* Who Karlo's staff are, who act for any company: the account that        *)
(* `server bootstrap` makes, the members that staff add to Karlo's own     *)
(* company, and the requests, the suspensions, the merges and the machine  *)
(* keys that run beside them (internal/platform/bootstrap,                 *)
(* internal/routes, internal/platform/authctx, internal/handlers,          *)
(* internal/services user_service.go, merge_service.go, shipper_service.go *)
(* and auth_service.go ValidateToken).                                     *)
(*                                                                         *)
(* A request carries what its token said when it was minted, and what the  *)
(* services do rests on the rows.  A token may outlive what it says for as *)
(* long as it takes to be refused (Revocation) or to expire.  Each         *)
(* transaction or statement is a step.                                     *)
(*                                                                         *)
(* Of permissions there is one, which the Administrator role grants; which *)
(* keys a role grants is the module Access.  Of e-mail addresses, those    *)
(* are told apart that bootstrap may be given; an account starts with one  *)
(* of its own, unless bootstrap makes it, and AdminUpdate may give it any. *)
(* Drivers, who join a company by being adopted, are left out (Access,     *)
(* Companies).                                                             *)
(***************************************************************************)
EXTENDS Naturals, FiniteSets

CONSTANTS
    Person,
    Nobody,
    Company,
    NoCompany,
    Key,        \* machine keys, of the Administrator role of their company
    KeyCompany, \* api_keys.company_id
    Caller,     \* goroutines that serve a request
    Shell,      \* processes of `server bootstrap`
    Address,    \* what BOOTSTRAP_ADMIN_EMAIL may be, from run to run
    Own,        \* an e-mail address nobody else has
    NoAddress,
    MaxAsked,   \* bound: requests
    MaxCrashes  \* bound: runs of bootstrap that die

ASSUME TenancyAssumption ==
    /\ Nobody \notin Person
    /\ NoCompany \notin Company
    /\ Own \notin Address /\ NoAddress \notin Address
    /\ KeyCompany \in [Key -> Company]
    /\ MaxAsked \in Nat /\ MaxCrashes \in Nat

VARIABLES
    people,        \* the users table
    administrator, \* a company's Administrator role: grants_all or not, or not there
    mergedInto,    \* merged_into_company_id
    tokens,        \* an access token of a person, as minted
    calls,         \* the requests under way
    shells,        \* the bootstrap runs under way
    karlo,         \* history: the companies bootstrap made, and those they were merged into
    overlapped,    \* history: a run of bootstrap began while another was under way
    asked,
    crashes

tenancyVars == <<people, administrator, mergedInto, tokens, calls, shells, karlo,
                 overlapped, asked, crashes>>

\* role: the company whose Administrator role is held; any other role is NoCompany.
\* shell: history, the address the run of bootstrap was given that made the account.
Unborn == [state |-> "none", company |-> NoCompany, role |-> NoCompany,
           staff |-> FALSE, mail |-> Own, shell |-> NoAddress]

Live(u) == people[u].state \in {"live", "suspended"}
Founded(c) == administrator[c] # "none"
Staff == {u \in Person : Live(u) /\ people[u].staff}
PeopleOf(c) == {u \in Person : Live(u) /\ people[u].company = c}

\* HasPermission for the keys of member management
Manages(u) == people[u].role # NoCompany /\ administrator[people[u].role] = "all"

NoToken == [company |-> NoCompany, staff |-> FALSE]

\* A request: what it is about to do, what its token says, for which company, of
\* whom; and what it has read.
Waits == [pc |-> "idle", staff |-> FALSE, own |-> NoCompany,
          company |-> NoCompany, target |-> Nobody, all |-> FALSE]

Proceed(r, q) == calls' = [calls EXCEPT ![r] = q]
Done(r) == Proceed(r, Waits)
Doing(r, pc) == calls[r].pc = pc

NoRun == [pc |-> "idle", user |-> Nobody, mail |-> NoAddress]

TenancyInit ==
    /\ people = [u \in Person |-> Unborn]
    /\ administrator = [c \in Company |-> "none"]
    /\ mergedInto = [c \in Company |-> NoCompany]
    /\ tokens = [u \in Person |-> NoToken]
    /\ calls = [r \in Caller |-> Waits]
    /\ shells = [b \in Shell |-> NoRun]
    /\ karlo = {}
    /\ overlapped = FALSE
    /\ asked = 0
    /\ crashes = 0

-----------------------------------------------------------------------------
(* Registration                                                            *)

\* Register without a company: the company, its Administrator role and the account
\* that holds it, in one transaction.
Found(u, c, mail, shell) ==
    /\ people[u] = Unborn
    /\ ~Founded(c)
    /\ people' = [people EXCEPT ![u] = [state |-> "live", company |-> c, role |-> c,
                                        staff |-> FALSE, mail |-> mail, shell |-> shell]]
    /\ administrator' = [administrator EXCEPT ![c] = "all"]

\* POST /auth/register
Register(u, c) ==
    /\ Found(u, c, Own, NoAddress)
    /\ UNCHANGED <<mergedInto, tokens, calls, shells, karlo, overlapped, asked, crashes>>

\* ShipperService: a transporter records a company that nobody is in.
RecordShipper(c) ==
    /\ ~Founded(c)
    /\ administrator' = [administrator EXCEPT ![c] = "absent"]
    /\ UNCHANGED <<people, mergedInto, tokens, calls, shells, karlo, overlapped, asked, crashes>>

\* Claim, of a company with nobody in it, and foldIn of another that has its tax
\* number; who has a link to claim, and which number, is Companies.
Claim(u, c) ==
    /\ people[u] = Unborn
    /\ Founded(c) /\ mergedInto[c] = NoCompany
    /\ PeopleOf(c) = {}
    /\ people' = [people EXCEPT ![u] = [Unborn EXCEPT !.state = "live", !.company = c, !.role = c]]
    /\ administrator' = [administrator EXCEPT ![c] = "all"]
    /\ \/ UNCHANGED mergedInto
       \/ \E other \in Company \ {c} :
            /\ Founded(other) /\ mergedInto[other] = NoCompany
            /\ PeopleOf(other) = {}
            /\ mergedInto' = [mergedInto EXCEPT ![other] = c]
    /\ UNCHANGED <<tokens, calls, shells, karlo, overlapped, asked, crashes>>

-----------------------------------------------------------------------------
(* bootstrap.Run                                                           *)

Steps(b, run) == shells' = [shells EXCEPT ![b] = run]
In(b, pc) == shells[b].pc = pc

\* Mutant: a suspended administrator is not counted.
CountStaff_Unsuspended(b, mail) ==
    /\ In(b, "idle")
    /\ \A u \in Staff : people[u].state = "suspended"
    /\ Steps(b, [NoRun EXCEPT !.pc = "register", !.mail = mail])
    /\ overlapped' = (overlapped \/ \E other \in Shell : ~In(other, "idle"))
    /\ UNCHANGED <<people, administrator, mergedInto, tokens, calls, karlo, asked, crashes>>

\* A process starts, with the address in its environment, and CountPlatformStaff
\* finds no live staff, suspended or not.
CountStaff(b, mail) ==
    /\ In(b, "idle")
    /\ Staff = {}
    /\ Steps(b, [NoRun EXCEPT !.pc = "register", !.mail = mail])
    /\ overlapped' = (overlapped \/ \E other \in Shell : ~In(other, "idle"))
    /\ UNCHANGED <<people, administrator, mergedInto, tokens, calls, karlo, asked, crashes>>

\* ExistsByEmail, and uq_users_email behind it: live accounts only
EmailTaken(mail) == \E u \in Person : Live(u) /\ people[u].mail = mail

\* Mutant: the address was free when it was looked up, and nothing else is asked.
CreateAdministrator_Unchecked(b, u, c) ==
    LET mail == shells[b].mail IN
    /\ In(b, "register")
    /\ Found(u, c, mail, mail)
    /\ karlo' = karlo \cup {c}
    /\ Steps(b, [NoRun EXCEPT !.pc = "mark", !.user = u])
    /\ UNCHANGED <<mergedInto, tokens, calls, overlapped, asked, crashes>>

CreateAdministrator(b, u, c) ==
    LET mail == shells[b].mail IN
    /\ In(b, "register")
    /\ ~EmailTaken(mail)
    /\ Found(u, c, mail, mail)
    /\ karlo' = karlo \cup {c}
    /\ Steps(b, [NoRun EXCEPT !.pc = "mark", !.user = u])
    /\ UNCHANGED <<mergedInto, tokens, calls, overlapped, asked, crashes>>

\* "already registered": the run ends in an error.
RefuseAdministrator(b) ==
    /\ In(b, "register")
    /\ EmailTaken(shells[b].mail)
    /\ Steps(b, NoRun)
    /\ UNCHANGED <<people, administrator, mergedInto, tokens, calls, karlo, overlapped,
                   asked, crashes>>

\* is_platform_staff, which Register has no reason to hand out; the abbreviation of
\* the company, which follows, is left out.
MarkStaff(b) ==
    /\ In(b, "mark")
    /\ IF Live(shells[b].user)
       THEN people' = [people EXCEPT ![shells[b].user].staff = TRUE]
       ELSE UNCHANGED people
    /\ Steps(b, NoRun)
    /\ UNCHANGED <<administrator, mergedInto, tokens, calls, karlo, overlapped, asked, crashes>>

ShellDies(b) ==
    /\ ~In(b, "idle")
    /\ crashes < MaxCrashes
    /\ crashes' = crashes + 1
    /\ Steps(b, NoRun)
    /\ UNCHANGED <<people, administrator, mergedInto, tokens, calls, karlo, overlapped, asked>>

-----------------------------------------------------------------------------
(* Authentication                                                          *)

\* Login or Refresh: the claims are those of the row.  A token that allows nothing
\* here is like none.
SignIn(u) ==
    /\ people[u].state = "live"
    /\ people[u].staff \/ Manages(u)
    /\ tokens[u] = NoToken
    /\ tokens' = [tokens EXCEPT ![u] = [company |-> people[u].company, staff |-> people[u].staff]]
    /\ UNCHANGED <<people, administrator, mergedInto, calls, shells, karlo, overlapped, asked, crashes>>

\* It expires, or it is refused.
Expire(u) ==
    /\ tokens[u] # NoToken
    /\ tokens' = [tokens EXCEPT ![u] = NoToken]
    /\ UNCHANGED <<people, administrator, mergedInto, calls, shells, karlo, overlapped, asked, crashes>>

\* scopeCompany: the token's company, or the one a staff member acts for.
Scopes(token) == IF token.staff THEN {token.company} \cup {c \in Company : Founded(c)}
                 ELSE {token.company}

\* What a request may be for, once RequireModule or RequirePlatformStaff let it by
MemberWork == {"invite", "change", "redefine"}
StaffWork == {"merge"}

Begin(r, token) ==
    /\ asked < MaxAsked
    /\ asked' = asked + 1
    /\ Doing(r, "idle")
    /\ \E work \in MemberWork \cup IF token.staff THEN StaffWork ELSE {},
          c \in Scopes(token) :
         /\ work \in {"change", "merge"} => c = token.company
         /\ Proceed(r, [Waits EXCEPT !.pc = work, !.staff = token.staff,
                                     !.own = token.company, !.company = c])
    /\ UNCHANGED <<people, administrator, mergedInto, tokens, shells, karlo, overlapped, crashes>>

\* A person, by the token alone
Ask(r, u) == tokens[u] # NoToken /\ Begin(r, tokens[u])

\* validateMachineKey: the rows as they are; the principal is no account.
AskByKey(r, k) ==
    LET c == KeyCompany[k] IN
    /\ mergedInto[c] = NoCompany
    /\ administrator[c] = "all"
    /\ Begin(r, [company |-> c, staff |-> FALSE])
    /\ UNCHANGED tokens

-----------------------------------------------------------------------------
(* What a request does                                                     *)

\* Mutant: whoever a staff member creates is staff.
Invite_AlwaysStaff(r, u) ==
    LET c == calls[r].company IN
    /\ Doing(r, "invite")
    /\ Founded(c)
    /\ people[u] = Unborn
    /\ \E role \in {NoCompany} \cup IF administrator[c] = "absent" THEN {} ELSE {c} :
         people' = [people EXCEPT ![u] = [Unborn EXCEPT !.state = "live", !.company = c, !.role = role]]
    /\ IF calls[r].staff
       THEN Proceed(r, [calls[r] EXCEPT !.pc = "grant", !.target = u])
       ELSE Done(r)
    /\ UNCHANGED <<administrator, mergedInto, tokens, shells, karlo, overlapped, asked, crashes>>

\* RegisterMember: Register with a company, which may have been merged since, and
\* one of its roles; a member of Karlo's own company is to be staff.
Invite(r, u) ==
    LET c == calls[r].company IN
    /\ Doing(r, "invite")
    /\ Founded(c)
    /\ people[u] = Unborn
    /\ \E role \in {NoCompany} \cup IF administrator[c] = "absent" THEN {} ELSE {c} :
         people' = [people EXCEPT ![u] = [Unborn EXCEPT !.state = "live", !.company = c, !.role = role]]
    /\ IF calls[r].staff /\ calls[r].own = c
       THEN Proceed(r, [calls[r] EXCEPT !.pc = "grant", !.target = u])
       ELSE Done(r)
    /\ UNCHANGED <<administrator, mergedInto, tokens, shells, karlo, overlapped, asked, crashes>>

\* GrantPlatformStaff
GrantPlatformStaff(r) ==
    LET u == calls[r].target IN
    /\ Doing(r, "grant")
    /\ IF Live(u) THEN people' = [people EXCEPT ![u].staff = TRUE] ELSE UNCHANGED people
    /\ Done(r)
    /\ UNCHANGED <<administrator, mergedInto, tokens, shells, karlo, overlapped, asked, crashes>>

\* Mutant: the row is taken out of the table, and what refers to it stays.
ChangePerson_Remove(r, u) ==
    /\ Doing(r, "change")
    /\ Live(u)
    /\ people' = [people EXCEPT ![u].state = "removed"]
    /\ Done(r)
    /\ UNCHANGED <<administrator, mergedInto, tokens, shells, karlo, overlapped, asked, crashes>>

\* SetSuspended and Delete: the id in the path is all they go by.
ChangePerson(r, u) ==
    /\ Doing(r, "change")
    /\ Live(u)
    /\ \E state \in {"suspended", "live", "deleted"} :
         people' = [people EXCEPT ![u].state = state]
    /\ Done(r)
    /\ UNCHANGED <<administrator, mergedInto, tokens, shells, karlo, overlapped, asked, crashes>>

\* AdminUpdate, which goes by the same: it may write the e-mail address, and fails on
\* one that is taken.
AdminUpdate(r, u) ==
    /\ Doing(r, "change")
    /\ Live(u)
    /\ \E mail \in {Own, people[u].mail} \cup {a \in Address : ~EmailTaken(a)} :
         people' = [people EXCEPT ![u].mail = mail]
    /\ Done(r)
    /\ UNCHANGED <<administrator, mergedInto, tokens, shells, karlo, overlapped, asked, crashes>>

\* RoleHandler.Update of the Administrator role: existing is read and vetted,
ReadRole(r) ==
    LET c == calls[r].company IN
    /\ Doing(r, "redefine")
    /\ administrator[c] \in {"all", "less"}
    /\ \E all \in BOOLEAN :
         IF administrator[c] = "less" /\ all
         THEN Done(r)
         ELSE Proceed(r, [calls[r] EXCEPT !.pc = "save", !.all = all])
    /\ UNCHANGED <<people, administrator, mergedInto, tokens, shells, karlo, overlapped, asked, crashes>>

\* and what was asked for is written.
SaveRole(r) ==
    /\ Doing(r, "save")
    /\ administrator' = [administrator EXCEPT ![calls[r].company] =
                            IF calls[r].all THEN "all" ELSE "less"]
    /\ Done(r)
    /\ UNCHANGED <<people, mergedInto, tokens, shells, karlo, overlapped, asked, crashes>>

\* MergeService.Merge, one transaction: at most one of the two has people.
Merge(r, survivor, duplicate) ==
    /\ Doing(r, "merge")
    /\ survivor # duplicate
    /\ \A c \in {survivor, duplicate} : Founded(c) /\ mergedInto[c] = NoCompany
    /\ PeopleOf(survivor) = {} \/ PeopleOf(duplicate) = {}
    /\ people' = [u \in Person |-> IF people[u].company = duplicate
                                   THEN [people[u] EXCEPT !.company = survivor] ELSE people[u]]
    /\ mergedInto' = [mergedInto EXCEPT ![duplicate] = survivor]
    /\ karlo' = IF duplicate \in karlo THEN karlo \cup {survivor} ELSE karlo
    /\ Done(r)
    /\ UNCHANGED <<administrator, tokens, shells, overlapped, asked, crashes>>

\* It is refused, fails, or dies.
Abandon(r) ==
    /\ ~Doing(r, "idle")
    /\ Done(r)
    /\ UNCHANGED <<people, administrator, mergedInto, tokens, shells, karlo, overlapped, asked, crashes>>

ShellStep(b) ==
    \/ \E mail \in Address : CountStaff(b, mail)
    \/ \E u \in Person, c \in Company : CreateAdministrator(b, u, c)
    \/ RefuseAdministrator(b)
    \/ MarkStaff(b)
    \/ ShellDies(b)

CallStep(r) ==
    \/ \E u \in Person :
         Ask(r, u) \/ Invite(r, u) \/ ChangePerson(r, u) \/ AdminUpdate(r, u)
    \/ \E k \in Key : AskByKey(r, k)
    \/ GrantPlatformStaff(r) \/ ReadRole(r) \/ SaveRole(r)
    \/ \E survivor, duplicate \in Company : Merge(r, survivor, duplicate)
    \/ Abandon(r)

TenancyNext ==
    \/ \E u \in Person, c \in Company : Register(u, c) \/ Claim(u, c)
    \/ \E c \in Company : RecordShipper(c)
    \/ \E u \in Person : SignIn(u) \/ Expire(u)
    \/ \E b \in Shell : ShellStep(b)
    \/ \E r \in Caller : CallStep(r)

TenancySpec == TenancyInit /\ [][TenancyNext]_tenancyVars

-----------------------------------------------------------------------------
(* Properties                                                              *)

Account == [state : {"none", "live", "suspended", "deleted"},
            company : Company \cup {NoCompany}, role : Company \cup {NoCompany},
            staff : BOOLEAN, mail : Address \cup {Own}, shell : Address \cup {NoAddress}]

Request == [pc : {"idle", "invite", "change", "redefine", "merge", "grant", "save"},
            staff : BOOLEAN, own : Company \cup {NoCompany},
            company : Company \cup {NoCompany}, target : Person \cup {Nobody}, all : BOOLEAN]

BootstrapRun == [pc : {"idle", "register", "mark"}, user : Person \cup {Nobody},
                 mail : Address \cup {NoAddress}]

TenancyTypeOK ==
    /\ people \in [Person -> Account]
    /\ administrator \in [Company -> {"none", "absent", "all", "less"}]
    /\ mergedInto \in [Company -> Company \cup {NoCompany}]
    /\ tokens \in [Person -> [company : Company \cup {NoCompany}, staff : BOOLEAN]]
    /\ calls \in [Caller -> Request]
    /\ shells \in [Shell -> BootstrapRun]
    /\ karlo \subseteq Company
    /\ overlapped \in BOOLEAN
    /\ asked \in 0..MaxAsked
    /\ crashes \in 0..MaxCrashes

\* Staff are found in Karlo's own company only ("a user created into any customer's
\* company — by staff acting for it, or by the customer's own administrator — is
\* not", GrantPlatformStaff), whatever is merged and whoever's token is old.
StaffAreKarlos == \A u \in Person : people[u].staff => people[u].company \in karlo

FromShell(u) == Live(u) /\ people[u].shell # NoAddress
Readdressed(u) == people[u].mail # people[u].shell

\* "it cannot be used later to mint a second administrator from a shell" (bootstrap.go):
\* only runs that overlap can both mark an account, and two accounts of runs that were
\* given one address are not alive at once unless one has been given another since.
OneAdministratorFromTheShell == \A u, v \in Person :
    u # v /\ FromShell(u) /\ FromShell(v) =>
        /\ people[u].staff /\ people[v].staff => overlapped
        /\ people[u].shell = people[v].shell => Readdressed(u) \/ Readdressed(v)

\* "changing what it grants is not [harmless], because "administrator" is what the
\* company falls back on" (role_handler.go, Update).
AdministratorsStand == \A c \in Company : administrator[c] # "less"

\* "Idempotent" (bootstrap.go): where a run made an account, either there is staff, or
\* a run is still to mark it.
BootstrapIsIdempotent ==
    (\E u \in Person : FromShell(u)) => Staff # {} \/ \E b \in Shell : In(b, "mark")
=============================================================================
