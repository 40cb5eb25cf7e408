-------------------------------- MODULE Access --------------------------------
(***************************************************************************)
(* What a person may do: what their company has bought, what their role    *)
(* and their extra permissions give them, and the copy of the answer that  *)
(* every access token carries                                              *)
(* (internal/repository/access_repository.go, module_repository.go,        *)
(* role_repository.go, internal/services/user_service.go,                  *)
(* entitlement_service.go, driver_account_service.go, auth_service.go      *)
(* mintAccessToken, internal/handlers/role_handler.go).                    *)
(*                                                                         *)
(* A token is stamped with its time of issue first and filled by three     *)
(* reads after that; a change is a check, a write and an announcement that *)
(* refuses the tokens stamped so far.  Each of them is a step.  How an     *)
(* announcement reaches the services is the module Revocation.  A token    *)
(* bound to one device is asked of no list: the store says whether its     *)
(* session has ended (middleware.go, ValidateToken).                       *)
(*                                                                         *)
(* Karlo's own staff, whom every key is allowed, appear as the ones asking *)
(* for changes only.  Requests that are refused having written nothing are *)
(* left out.                                                               *)
(***************************************************************************)
EXTENDS Naturals, FiniteSets

CONSTANTS
    Product,        \* tms, fms
    Shared,         \* the section for what belongs to neither
    Tms,            \* the product registration grants into
    NoProduct,
    Module,         \* names of features
    Sellable,       \* the registry: the features of each section, the shared ones in
                    \* every one of them, those only announced in none
    Key,            \* catalogue keys, qualified with their product
    ProductOf,      \* the product a key is qualified with
    Gate,           \* the feature that gates it: ValidateCatalogs wants one of each
    Company,
    NoCompany,
    Platform,       \* Karlo's own company
    Mode,           \* company_product_settings: what an absent row means
    Sales,          \* <<company, section, feature>>: what staff sell and withdraw
    Defaults,       \* <<section, feature>>: what a new tenant starts with
    Term,           \* the validity windows sold
    LastDay,        \* bound: days 0..LastDay
    User,
    NoUser,
    Role,
    NoRole,
    DriverKeys,     \* what the driver app needs
    Token,
    Request,
    OpeningRoles,   \* the rows there are to begin with
    OpeningUsers,
    MaxChanges      \* bound: changes asked for

Section == Product \cup {Shared}
Offer == {o \in Section \X Module : o[2] \in Sellable[o[1]]}
Day == 0..LastDay
Name == {"Driver", "Other"}
Window == [from : Day, until : Day]

ModuleRow == [state : {"none", "on", "off"}, term : Window]
RoleRow == [company : Company \cup {NoCompany}, name : Name, system : BOOLEAN,
            all : BOOLEAN, keys : SUBSET Key]
ExtraRow == [state : {"none", "on", "off"}, keys : SUBSET Key]
UserRow == [exists : BOOLEAN, company : Company \cup {NoCompany},
            role : Role \cup {NoRole}, extras : [Product -> ExtraRow]]

ASSUME NothingAssumption == /\ NoCompany \notin Company
                            /\ NoUser \notin User
                            /\ NoRole \notin Role
                            /\ NoProduct \notin Product
                            /\ Shared \notin Product
ASSUME CatalogueAssumption == /\ Tms \in Product
                              /\ Sellable \in [Section -> SUBSET Module]
                              /\ \A p \in Product : Sellable[Shared] \subseteq Sellable[p]
                              /\ ProductOf \in [Key -> Product]
                              /\ Gate \in [Key -> Module]
                              /\ DriverKeys \subseteq Key
ASSUME CompanyAssumption == /\ Platform \in Company
                            /\ Mode \in [Company -> [Section -> {"grant", "revoke"}]]
                            /\ Sales \subseteq Company \X Section \X Module
                            /\ \A s \in Sales : <<s[2], s[3]>> \in Offer
                            /\ Defaults \subseteq Offer
ASSUME BoundAssumption == /\ LastDay \in Nat
                          /\ MaxChanges \in Nat
                          /\ Term \subseteq Window
\* Nobody holds a role of another company to begin with, or one that is not there.
ASSUME OpeningAssumption ==
    /\ OpeningRoles \in [Role -> RoleRow]
    /\ OpeningUsers \in [User -> UserRow]
    /\ \A u \in User :
         OpeningUsers[u].role # NoRole =>
             /\ OpeningUsers[u].company # NoCompany
             /\ OpeningRoles[OpeningUsers[u].role].company = OpeningUsers[u].company

VARIABLES
    modules,    \* company_modules
    day,        \* CURRENT_DATE
    roles,      \* the roles table; company NoCompany is no row
    users,      \* the users table, with user_product_access
    tokens,     \* access tokens, from the read of the account to their expiry
    req,        \* the changes under way
    changes,    \* how many have been asked for
    strayed     \* history: people moved from under their role

vars == <<modules, day, roles, users, tokens, req, changes, strayed>>

-----------------------------------------------------------------------------
(* Entitlement                                                             *)

Always == [from |-> 0, until |-> LastDay]
NoRow == [state |-> "none", term |-> Always]

\* The rows entitlementFor reads: those whose dates include today.
InForce(row) == /\ row.state # "none"
                /\ row.term.from <= day
                /\ day <= row.term.until

\* entitlementFor: under "revoke" everything sellable but what is withdrawn,
\* under "grant" what was sold.
Held(c, s) ==
    IF c = NoCompany THEN {}
    ELSE IF Mode[c][s] = "revoke"
    THEN {f \in Sellable[s] : ~ (/\ InForce(modules[c][<<s, f>>])
                                 /\ modules[c][<<s, f>>].state = "off")}
    ELSE {f \in Sellable[s] : /\ InForce(modules[c][<<s, f>>])
                              /\ modules[c][<<s, f>>].state = "on"}

\* ActiveForCompany, and the feature list of a product in a token: shared
\* entitlements count in every product.
Active(c, p) == Held(c, p) \cup Held(c, Shared)

KeysOf(p) == {k \in Key : ProductOf[k] = p}

\* GrantableFrom, and what assertGrantable lets through
Grantable(c, p) == {k \in KeysOf(p) : Gate[k] \in Active(c, p)}

\* What has been read of a person: the role's keys with those of the enabled
\* extras, whether the role grants all, and the products with an extras row.
Grant(x, extras) ==
    LET on == {p \in Product : extras[p].state = "on"}
    IN [all  |-> x # NoRole /\ roles[x].all,
        keys |-> (IF x = NoRole THEN {} ELSE roles[x].keys)
                     \cup UNION {extras[p].keys : p \in on},
        seen |-> on]

With(g, extra) == [all |-> g.all, keys |-> g.keys \cup extra.keys, seen |-> extra.seen]

\* assemble: a product is in the map if the company holds something of it or the
\* person was given something in it.
Visible(c, g) == {p \in Product : \/ Held(c, p) # {}
                                  \/ p \in g.seen
                                  \/ g.keys \cap KeysOf(p) # {}}

\* HasPermission over the map assemble returns
Allowed(c, g) == {k \in Key : /\ ProductOf[k] \in Visible(c, g)
                              /\ g.all \/ k \in g.keys
                              /\ Gate[k] \in Active(c, ProductOf[k])}

\* CheckPermission: what the person may do by the rows as they are.
Access(u) == Allowed(users[u].company, Grant(users[u].role, users[u].extras))

-----------------------------------------------------------------------------
(* Tokens and requests                                                     *)

Nobody == [all |-> FALSE, keys |-> {}, seen |-> {}]
Grants == [all : BOOLEAN, keys : SUBSET Key, seen : SUBSET Product]

NoToken == [step |-> "none", user |-> NoUser, company |-> NoCompany, single |-> FALSE,
            grant |-> Nobody, allows |-> {}, refused |-> FALSE, excuse |-> {}]

Why == {"role edit", "unannounced", "single device"}

\* single: the session is bound to one device.  excuse: history, the changes since the
\* stamp that refuse nothing.
TokenRow == {NoToken} \cup
    [step : {"user", "stored", "stamped", "role", "extras", "issued"},
     user : User, company : Company \cup {NoCompany}, single : BOOLEAN,
     grant : Grants, allows : SUBSET Key, refused : BOOLEAN, excuse : SUBSET Why]

Stamped(t) == tokens[t].step \in {"stamped", "role", "extras", "issued"}
HasSession(t) == tokens[t].step = "stored" \/ Stamped(t)

Refused(t) == [tokens[t] EXCEPT !.refused = TRUE]
Excused(t, why) == [tokens[t] EXCEPT !.excuse = @ \cup {why}]

Excuse(T, why) == tokens' = [t \in Token |->
    IF t \in T /\ Stamped(t) THEN Excused(t, why) ELSE tokens[t]]

TokensOf(u) == {t \in Token : tokens[t].user = u}
TokensAt(c) == {t \in Token : tokens[t].company = c}

Idle == [pc |-> "idle", user |-> NoUser, company |-> NoCompany, role |-> NoRole,
         product |-> NoProduct, keys |-> {}, on |-> FALSE, name |-> "Other"]

\* A change about to do one of steps.  "on" is the new value of enabled or of
\* grants_all, or that an account is new.
Change(steps, people, companies, held, products) ==
    [pc : steps, user : people, company : companies, role : held,
     product : products, keys : SUBSET Key, on : BOOLEAN, name : Name]

Extending == Change({"grant"}, User, {NoCompany}, {NoRole}, Product)
Assigning == Change({"assign"}, User, Company, Role, {NoProduct})
Ending == Change({"end"}, User, {NoCompany}, {NoRole}, {NoProduct})
Announcing == Change({"announce"}, {NoUser}, Company, {NoRole}, {NoProduct})
Editing == Change({"edit"}, {NoUser}, Company, Role, Product)
Driving == Change({"driver"}, User, Company, {NoRole}, {NoProduct})
Placing == Change({"topup", "place"}, User, Company, Role, {NoProduct})

Pending == Extending \cup Assigning \cup Ending \cup Announcing \cup Editing
               \cup Driving \cup Placing

At(r, step) == req[r].pc = step
Become(r, q) == req' = [req EXCEPT ![r] = q]
Finish(r) == Become(r, Idle)

\* Left to do: end the person's sessions, or announce for the company.
End(u) == [Idle EXCEPT !.pc = "end", !.user = u]
Announce(c) == [Idle EXCEPT !.pc = "announce", !.company = c]

MayAsk == changes < MaxChanges
Asked == MayAsk /\ changes' = changes + 1

Exists(x) == roles[x].company # NoCompany

\* Ids are random and never come back, not even one a request still holds.
Unused(x) == ~Exists(x) /\ \A r \in Request : req[r].role # x

Opened(c) == \E x \in Role : roles[x].company = c

\* roles_name_unique; "Other" stands for any number of different names.
NameFree(c, x, n) == n = "Driver" =>
    \A y \in Role \ {x} : ~ (roles[y].company = c /\ roles[y].name = "Driver")

Init ==
    /\ modules = [c \in Company |-> [o \in Offer |-> NoRow]]
    /\ day = 0
    /\ roles = OpeningRoles
    /\ users = OpeningUsers
    /\ tokens = [t \in Token |-> NoToken]
    /\ req = [r \in Request |-> Idle]
    /\ changes = 0
    /\ strayed = {}

-----------------------------------------------------------------------------
(* The mint of a token                                                     *)

Mint(t, row) == tokens' = [tokens EXCEPT ![t] = row]

\* issueSession has the account, with its company, in hand.
ReadUser(t, u) ==
    /\ tokens[t].step = "none"
    /\ users[u].exists
    /\ Mint(t, [NoToken EXCEPT !.step = "user", !.user = u, !.company = users[u].company])
    /\ UNCHANGED <<modules, day, roles, users, req, changes, strayed>>

\* The session: of one device if the account or its company is capped at one, or if
\* the session it renews was.
CreateSession(t, single) ==
    /\ tokens[t].step = "user"
    /\ Mint(t, [tokens[t] EXCEPT !.step = "stored", !.single = single])
    /\ UNCHANGED <<modules, day, roles, users, req, changes, strayed>>

\* mintAccessToken: now := time.Now(), before anything is read
StampToken(t) ==
    /\ tokens[t].step = "stored"
    /\ Mint(t, [tokens[t] EXCEPT !.step = "stamped"])
    /\ UNCHANGED <<modules, day, roles, users, req, changes, strayed>>

NoExtras == [p \in Product |-> [state |-> "none", keys |-> {}]]

\* BuildAccess: the account's role, by its id alone
ReadRole(t) ==
    /\ tokens[t].step = "stamped"
    /\ Mint(t, [tokens[t] EXCEPT !.step = "role",
                    !.grant = Grant(users[tokens[t].user].role, NoExtras)])
    /\ UNCHANGED <<modules, day, roles, users, req, changes, strayed>>

\* BuildAccess: the enabled extras
ReadExtras(t) ==
    /\ tokens[t].step = "role"
    /\ Mint(t, [tokens[t] EXCEPT !.step = "extras",
                    !.grant = With(@, Grant(NoRole, users[tokens[t].user].extras))])
    /\ UNCHANGED <<modules, day, roles, users, req, changes, strayed>>

\* assemble, with the company the account had; and the signature
Sign(t) ==
    /\ tokens[t].step = "extras"
    /\ Mint(t, [tokens[t] EXCEPT !.step = "issued", !.grant = Nobody,
                    !.allows = Allowed(tokens[t].company, tokens[t].grant)])
    /\ UNCHANGED <<modules, day, roles, users, req, changes, strayed>>

\* A read fails: the token carries no access at all.
SignWithout(t) ==
    /\ tokens[t].step \in {"stamped", "role", "extras"}
    /\ Mint(t, [tokens[t] EXCEPT !.step = "issued", !.grant = Nobody])
    /\ UNCHANGED <<modules, day, roles, users, req, changes, strayed>>

\* It expires, or the login comes to nothing.
Expire(t) ==
    /\ tokens[t].step \in {"user", "stored", "issued"}
    /\ Mint(t, NoToken)
    /\ UNCHANGED <<modules, day, roles, users, req, changes, strayed>>

-----------------------------------------------------------------------------
(* What ends a change                                                      *)

\* Mutant: only the tokens already issued are refused.
EndSessions_IssuedOnly(r) ==
    /\ At(r, "end")
    /\ tokens' = [t \in Token |-> IF t \in TokensOf(req[r].user) /\ tokens[t].step = "issued"
                                 THEN Refused(t) ELSE tokens[t]]
    /\ Finish(r)
    /\ UNCHANGED <<modules, day, roles, users, changes, strayed>>

\* RevokeAllForUser: the UPDATE ends the sessions there are, which ValidateToken asks
\* of; the cutoff refuses what was issued before it, finished or not.
EndSessions(r) ==
    /\ At(r, "end")
    /\ tokens' = [t \in Token |->
           IF t \in TokensOf(req[r].user) /\ IF tokens[t].single THEN HasSession(t) ELSE Stamped(t)
           THEN Refused(t) ELSE tokens[t]]
    /\ Finish(r)
    /\ UNCHANGED <<modules, day, roles, users, changes, strayed>>

\* Its Publish fails, which is logged only.
EndQuietly(r) ==
    /\ At(r, "end")
    /\ tokens' = [t \in Token |->
           IF t \notin TokensOf(req[r].user) THEN tokens[t]
           ELSE IF tokens[t].single /\ HasSession(t) THEN Refused(t)
           ELSE IF Stamped(t) THEN Excused(t, "unannounced") ELSE tokens[t]]
    /\ Finish(r)
    /\ UNCHANGED <<modules, day, roles, users, changes, strayed>>

\* announceCompany: a cutoff, and no session is ended.  The list is not asked of a
\* single-device token, and ValidateToken takes what it says of modules as it is.
AnnounceCompany(r) ==
    /\ At(r, "announce")
    /\ tokens' = [t \in Token |->
           IF ~ (t \in TokensAt(req[r].company) /\ Stamped(t)) THEN tokens[t]
           ELSE IF tokens[t].single THEN Excused(t, "single device") ELSE Refused(t)]
    /\ Finish(r)
    /\ UNCHANGED <<modules, day, roles, users, changes, strayed>>

\* The request dies here: a statement fails, a Publish fails, the process ends.
Stop(r) ==
    /\ ~At(r, "idle")
    /\ CASE At(r, "end")      -> Excuse(TokensOf(req[r].user), "unannounced")
         [] At(r, "announce") -> Excuse(TokensAt(req[r].company), "unannounced")
         [] OTHER             -> UNCHANGED tokens
    /\ Finish(r)
    /\ UNCHANGED <<modules, day, roles, users, changes, strayed>>

-----------------------------------------------------------------------------
(* Extra permissions                                                       *)

\* SetPermission: somebody of the company who is not an administrator already,
\* and keys the company's entitlement covers.
SetPermission(r, u, p, K) ==
    /\ At(r, "idle")
    /\ Asked
    /\ users[u].exists
    /\ users[u].company # NoCompany
    /\ ~ (/\ users[u].role # NoRole
          /\ roles[users[u].role].company = users[u].company
          /\ roles[users[u].role].all)
    /\ K \subseteq Grantable(users[u].company, p)
    /\ Become(r, [Idle EXCEPT !.pc = "grant", !.user = u, !.product = p,
                      !.keys = K, !.on = TRUE])
    /\ UNCHANGED <<modules, day, roles, users, tokens, strayed>>

\* SetProductAccess: for somebody of a company that holds something there; for
\* somebody of none, by Karlo staff, unchecked.
SetProductAccess(r, u, p, K, on) ==
    /\ At(r, "idle")
    /\ Asked
    /\ users[u].exists
    /\ users[u].company # NoCompany => /\ Active(users[u].company, p) # {}
                                       /\ K \subseteq Grantable(users[u].company, p)
    /\ Become(r, [Idle EXCEPT !.pc = "grant", !.user = u, !.product = p,
                      !.keys = K, !.on = on])
    /\ UNCHANGED <<modules, day, roles, users, tokens, strayed>>

SetExtras(u, p, state, K) ==
    users' = [users EXCEPT ![u].extras[p] = [state |-> state, keys |-> K]]

\* GrantProductAccess: the row replaces the one there was.
GrantProductAccess(r) ==
    /\ At(r, "grant")
    /\ SetExtras(req[r].user, req[r].product, IF req[r].on THEN "on" ELSE "off", req[r].keys)
    /\ Become(r, End(req[r].user))
    /\ UNCHANGED <<modules, day, roles, tokens, changes, strayed>>

\* RevokeProductAccess: the row stays, disabled.
RevokeProductAccess(r, u, p) ==
    /\ At(r, "idle")
    /\ Asked
    /\ users[u].extras[p].state # "none"
    /\ SetExtras(u, p, "off", users[u].extras[p].keys)
    /\ Become(r, End(u))
    /\ UNCHANGED <<modules, day, roles, tokens, strayed>>

-----------------------------------------------------------------------------
(* Entitlements                                                            *)

\* EntitlementService.Grant
GrantModule(r, sale, term) ==
    LET c == sale[1]  o == <<sale[2], sale[3]>> IN
    /\ At(r, "idle")
    /\ Asked
    /\ sale \in Sales
    /\ modules' = [modules EXCEPT ![c][o] = [state |-> "on", term |-> term]]
    /\ Become(r, Announce(c))
    /\ UNCHANGED <<day, roles, users, tokens, strayed>>

\* ModuleRepository.Revoke: a row is disabled, dates and all; where there is none
\* one is written if the company holds by default.
RevokeModule(r, sale) ==
    LET c == sale[1]  o == <<sale[2], sale[3]>> IN
    /\ At(r, "idle")
    /\ Asked
    /\ sale \in Sales
    /\ modules[c][o].state # "none" \/ Mode[c][sale[2]] = "revoke"
    /\ modules' = [modules EXCEPT ![c][o].state = "off"]
    /\ Become(r, Announce(c))
    /\ UNCHANGED <<day, roles, users, tokens, strayed>>

\* Midnight: what starts and ends with the date does so in the next token.
DayPasses ==
    /\ day < LastDay
    /\ day' = day + 1
    /\ Excuse(Token, "unannounced")
    /\ UNCHANGED <<modules, roles, users, req, changes, strayed>>

-----------------------------------------------------------------------------
(* Roles                                                                   *)

Put(x, row) == roles' = [roles EXCEPT ![x] = row]

\* RoleHandler.Create: an administrator role lists nothing.  The keys are vetted
\* against the caller's token, that of staff allows any.
CreateRole(x, c, p, K, all, n) ==
    /\ Asked
    /\ Opened(c)
    /\ Unused(x)
    /\ NameFree(c, x, n)
    /\ K \subseteq KeysOf(p)
    /\ all => K = {}
    /\ Put(x, [company |-> c, name |-> n, system |-> FALSE, all |-> all, keys |-> K])
    /\ UNCHANGED <<modules, day, users, tokens, req, strayed>>

\* RoleHandler.Update, up to its UPDATE: a system role that does not grant all is
\* not made to.
EditRole(r, x, p, K, all, n) ==
    /\ At(r, "idle")
    /\ Asked
    /\ Exists(x)
    /\ ~ (roles[x].system /\ ~roles[x].all /\ all)
    /\ K \subseteq KeysOf(p)
    /\ all => K = {}
    /\ Become(r, [Idle EXCEPT !.pc = "edit", !.company = roles[x].company, !.role = x,
                      !.product = p, !.keys = K, !.on = all, !.name = n])
    /\ UNCHANGED <<modules, day, roles, users, tokens, strayed>>

HoldersOf(x) == {u \in User : users[u].role = x}

\* Mutant: the editor's keys replace the whole list.
SaveRole_WholeList(r) ==
    LET q == req[r]  x == q.role IN
    /\ At(r, "edit")
    /\ IF Exists(x) /\ NameFree(q.company, x, q.name)
       THEN /\ Put(x, [roles[x] EXCEPT !.name = q.name, !.all = q.on, !.keys = q.keys])
            /\ Excuse(UNION {TokensOf(u) : u \in HoldersOf(x)}, "role edit")
       ELSE UNCHANGED <<roles, tokens>>
    /\ Finish(r)
    /\ UNCHANGED <<modules, day, users, changes, strayed>>

\* The UPDATE with ReplaceProductKeys: this product's keys, on the row as it is.
\* Nothing is announced.
SaveRole(r) ==
    LET q == req[r]  x == q.role IN
    /\ At(r, "edit")
    /\ IF Exists(x) /\ NameFree(q.company, x, q.name)
       THEN /\ Put(x, [roles[x] EXCEPT !.name = q.name, !.all = q.on,
                           !.keys = (@ \ KeysOf(q.product)) \cup q.keys])
            /\ Excuse(UNION {TokensOf(u) : u \in HoldersOf(x)}, "role edit")
       ELSE UNCHANGED <<roles, tokens>>
    /\ Finish(r)
    /\ UNCHANGED <<modules, day, users, changes, strayed>>

\* RoleRepository.Delete: not a system role, and users.role_id is ON DELETE
\* RESTRICT.
DeleteRole(x) ==
    /\ Asked
    /\ Exists(x)
    /\ ~roles[x].system
    /\ HoldersOf(x) = {}
    /\ Put(x, [roles[x] EXCEPT !.company = NoCompany])
    /\ UNCHANGED <<modules, day, users, tokens, req, strayed>>

\* The company whose roles a person may be given: Karlo staff place those of no
\* company in their own.
RoleOwner(u) == IF users[u].company = NoCompany THEN Platform ELSE users[u].company

\* Mutant: whose role it is is not asked.
AssignRole_AnyRole(r, u, x) ==
    /\ At(r, "idle")
    /\ Asked
    /\ users[u].exists
    /\ Exists(x)
    /\ Become(r, [Idle EXCEPT !.pc = "assign", !.user = u, !.role = x,
                      !.company = RoleOwner(u)])
    /\ UNCHANGED <<modules, day, roles, users, tokens, strayed>>

\* AssignRole, up to its UPDATE
AssignRole(r, u, x) ==
    /\ At(r, "idle")
    /\ Asked
    /\ users[u].exists
    /\ roles[x].company = RoleOwner(u)
    /\ Become(r, [Idle EXCEPT !.pc = "assign", !.user = u, !.role = x,
                      !.company = RoleOwner(u)])
    /\ UNCHANGED <<modules, day, roles, users, tokens, strayed>>

\* The UPDATE, whatever has become of the person since; users.role_id refers to
\* a role that exists.
SaveAssignment(r) ==
    LET q == req[r] IN
    /\ At(r, "assign")
    /\ IF Exists(q.role)
       THEN /\ users' = [users EXCEPT ![q.user].role = q.role]
            /\ strayed' = IF RoleOwner(q.user) = q.company
                          THEN strayed \ {q.user} ELSE strayed \cup {q.user}
            /\ Become(r, End(q.user))
       ELSE Finish(r) /\ UNCHANGED <<users, strayed>>
    /\ UNCHANGED <<modules, day, roles, tokens, changes>>

-----------------------------------------------------------------------------
(* Drivers                                                                 *)

\* Adopt: an account of no company, or of this one already.  Create: a new one.
PlanDriver(r, u, c) ==
    /\ At(r, "idle")
    /\ Asked
    /\ Opened(c)
    /\ users[u].exists => users[u].company \in {NoCompany, c}
    /\ Become(r, [Idle EXCEPT !.pc = "driver", !.user = u, !.company = c,
                      !.on = ~users[u].exists])
    /\ UNCHANGED <<modules, day, roles, users, tokens, strayed>>

IsDriverRole(c, x) == roles[x].company = c /\ roles[x].name = "Driver"

\* Mutant: which role was found is not kept.
FindDriverRole_Forgetful(r, x) ==
    LET q == req[r] IN
    /\ At(r, "driver")
    /\ IsDriverRole(q.company, x)
    /\ Become(r, [q EXCEPT !.pc = "place"])
    /\ UNCHANGED <<modules, day, roles, users, tokens, changes, strayed>>

\* ensureDriverRole, of a company that has the role: what the app needs since is
\* to be added to the keys read here.
FindDriverRole(r, x) ==
    LET q == req[r] IN
    /\ At(r, "driver")
    /\ IsDriverRole(q.company, x)
    /\ LET lacking == roles[x].system /\ ~ (DriverKeys \subseteq roles[x].keys) IN
       Become(r, [q EXCEPT !.pc = IF lacking THEN "topup" ELSE "place", !.role = x,
                      !.keys = IF lacking THEN roles[x].keys \cup DriverKeys ELSE {}])
    /\ UNCHANGED <<modules, day, roles, users, tokens, changes, strayed>>

\* ensureDriverRole, of a company that has not
CreateDriverRole(r, x) ==
    LET q == req[r] IN
    /\ At(r, "driver")
    /\ \A y \in Role : ~IsDriverRole(q.company, y)
    /\ Unused(x)
    /\ Put(x, [company |-> q.company, name |-> "Driver", system |-> TRUE,
               all |-> FALSE, keys |-> DriverKeys])
    /\ Become(r, [q EXCEPT !.pc = "place", !.role = x])
    /\ UNCHANGED <<modules, day, users, tokens, changes, strayed>>

\* The whole list is written back as it was read, and nothing announced.
TopUpRole(r) ==
    LET q == req[r] IN
    /\ At(r, "topup")
    /\ Exists(q.role)
    /\ Put(q.role, [roles[q.role] EXCEPT !.keys = q.keys])
    /\ Excuse(UNION {TokensOf(u) : u \in HoldersOf(q.role)}, "role edit")
    /\ Become(r, [q EXCEPT !.pc = "place", !.keys = {}])
    /\ UNCHANGED <<modules, day, users, changes, strayed>>

\* Adopt's UPDATE, or the registration of the new account: its company and role.
\* Nobody's sessions are ended.
PlaceDriver(r) ==
    LET q == req[r] IN
    /\ At(r, "place")
    /\ Exists(q.role)
    /\ q.on = ~users[q.user].exists
    /\ users' = [users EXCEPT ![q.user] =
                    [@ EXCEPT !.exists = TRUE, !.company = q.company, !.role = q.role]]
    /\ strayed' = strayed \ {q.user}
    /\ Excuse(TokensOf(q.user), "unannounced")
    /\ Finish(r)
    /\ UNCHANGED <<modules, day, roles, changes>>

-----------------------------------------------------------------------------
(* Accounts and companies                                                  *)

NewUser(c, x) == [exists |-> TRUE, company |-> c, role |-> x, extras |-> NoExtras]

\* Register of a member: a role of the company, and any extra keys the inviter
\* names, unchecked.
RegisterMember(u, c, x, K) ==
    /\ Asked
    /\ ~users[u].exists
    /\ roles[x].company = c
    /\ K \subseteq KeysOf(Tms)
    /\ users' = [users EXCEPT ![u] =
           [NewUser(c, x) EXCEPT !.extras[Tms] =
               [state |-> IF K = {} THEN "none" ELSE "on", keys |-> K]]]
    /\ UNCHANGED <<modules, day, roles, tokens, req, strayed>>

\* Register of somebody without a company: a driver, from the app.
RegisterAlone(u) ==
    /\ Asked
    /\ ~users[u].exists
    /\ users' = [users EXCEPT ![u] = NewUser(NoCompany, NoRole)]
    /\ UNCHANGED <<modules, day, roles, tokens, req, strayed>>

\* Register of a company, or the claim of one that was only recorded: what every
\* company starts with, EnsureAdministrator, and its first account.
RegisterTenant(u, c, x) ==
    /\ Asked
    /\ ~users[u].exists
    /\ ~Opened(c)
    /\ Unused(x)
    /\ modules' = [modules EXCEPT ![c] = [o \in Offer |->
           IF o \in Defaults /\ @[o].state = "none"
           THEN [state |-> "on", term |-> Always] ELSE @[o]]]
    /\ Put(x, [company |-> c, name |-> "Other", system |-> TRUE, all |-> TRUE, keys |-> {}])
    /\ users' = [users EXCEPT ![u] = NewUser(c, x)]
    /\ UNCHANGED <<day, tokens, req, strayed>>

\* MergeService.Merge moves the people and leaves them the role they had.
MergeCompanies(s, d) ==
    LET moved == {u \in User : users[u].company = d}
        there == {u \in User : users[u].company = s} IN
    /\ Asked
    /\ s # d
    /\ moved # {}
    /\ there = {}
    /\ users' = [u \in User |->
           IF u \in moved THEN [users[u] EXCEPT !.company = s] ELSE users[u]]
    /\ strayed' = strayed \cup moved
    /\ Excuse(UNION {TokensOf(u) : u \in moved}, "unannounced")
    /\ UNCHANGED <<modules, day, roles, req>>

-----------------------------------------------------------------------------
Minting == \E t \in Token :
    \/ \E u \in User : ReadUser(t, u)
    \/ \E single \in BOOLEAN : CreateSession(t, single)
    \/ StampToken(t) \/ ReadRole(t) \/ ReadExtras(t) \/ Sign(t)
    \/ SignWithout(t) \/ Expire(t)

Saving == \E r \in Request :
    \/ GrantProductAccess(r) \/ SaveRole(r) \/ SaveAssignment(r)
    \/ TopUpRole(r) \/ PlaceDriver(r)
    \/ EndSessions(r) \/ EndQuietly(r) \/ AnnounceCompany(r) \/ Stop(r)
    \/ \E x \in Role : FindDriverRole(r, x) \/ CreateDriverRole(r, x)

ChangingPeople == MayAsk /\ \E r \in Request, u \in User :
    \/ \E p \in Product, K \in SUBSET Key : SetPermission(r, u, p, K)
    \/ \E p \in Product, K \in SUBSET Key, on \in BOOLEAN : SetProductAccess(r, u, p, K, on)
    \/ \E p \in Product : RevokeProductAccess(r, u, p)
    \/ \E x \in Role : AssignRole(r, u, x)
    \/ \E c \in Company : PlanDriver(r, u, c)

Selling == MayAsk /\ \E r \in Request, sale \in Sales :
    \/ \E term \in Term : GrantModule(r, sale, term)
    \/ RevokeModule(r, sale)

ChangingRoles == MayAsk /\ \E x \in Role, p \in Product, K \in SUBSET Key, all \in BOOLEAN, n \in Name :
    \/ \E c \in Company : CreateRole(x, c, p, K, all, n)
    \/ \E r \in Request : EditRole(r, x, p, K, all, n)

Joining == MayAsk /\ \E u \in User :
    \/ RegisterAlone(u)
    \/ \E c \in Company, x \in Role :
         \/ \E K \in SUBSET Key : RegisterMember(u, c, x, K)
         \/ RegisterTenant(u, c, x)

Next == \/ Minting
        \/ Saving
        \/ ChangingPeople
        \/ Selling
        \/ ChangingRoles
        \/ \E x \in Role : DeleteRole(x)
        \/ Joining
        \/ \E s, d \in Company : MergeCompanies(s, d)
        \/ DayPasses

Spec == Init /\ [][Next]_vars

-----------------------------------------------------------------------------
(* Properties                                                              *)

\* Every row, token and change is well typed: a change holds at each of its steps
\* what that step writes, whatever was asked for beside it.
TypeOK ==
    /\ modules \in [Company -> [Offer -> ModuleRow]]
    /\ day \in Day
    /\ roles \in [Role -> RoleRow]
    /\ users \in [User -> UserRow]
    /\ tokens \in [Token -> TokenRow]
    /\ req \in [Request -> {Idle} \cup Pending]
    /\ changes \in 0..MaxChanges
    /\ strayed \in SUBSET User

\* What is written about its holder has been announced.
Settled(t) == \A r \in Request :
    /\ ~ (At(r, "end") /\ req[r].user = tokens[t].user)
    /\ ~ (At(r, "announce") /\ req[r].company = tokens[t].company)

\* Nothing has happened since the stamp of a token that is still accepted, but for what
\* is spared, and all about its holder has been announced.
Answerable(t, spared) ==
    /\ tokens[t].step = "issued"
    /\ ~tokens[t].refused
    /\ tokens[t].excuse \subseteq spared
    /\ tokens[t].company = users[tokens[t].user].company
    /\ Settled(t)

\* A token allows no more than the rows do, once every change to them has been
\* announced: wherever in the mint a change of extras, of role or of entitlement
\* fell, the token was either filled afterwards or is refused.  (mintAccessToken
\* takes the time of issue before it reads; SetPermission, SetProductAccess,
\* AssignRole, Grant and Revoke announce after they write.)  Left out are the
\* tokens a change never reached: role edits, adoptions, merges, dates that pass,
\* failures, and of single-device tokens changes of the company's entitlement.
OutdatedTokensAreRefused == \A t \in Token :
    Answerable(t, {}) => tokens[t].allows \subseteq Access(tokens[t].user)

\* "withdrawing a module must stop working for everyone at once, not person by person
\* as each token happens to expire" (announceCompany).  Not for those who are bound to
\* one device.
WithdrawalsReachEveryone == \A t \in Token :
    Answerable(t, {"single device"}) => tokens[t].allows \subseteq Access(tokens[t].user)

\* A person holds a role of the company they are in, that exists, however
\* assignments, adoptions, registrations and deletions of roles interleave:
\* AssignRole and Register check it, Adopt writes both.  Not those whom a merge
\* moved, or who changed company between the check and the write of an
\* assignment.
RolesStayInTheCompany == \A u \in User \ strayed :
    users[u].role # NoRole => roles[users[u].role].company = RoleOwner(u)

\* An editor that knows one product never loses another product's keys of a role
\* (ReplaceProductKeys): a key goes only with a save of its own product, or where
\* ensureDriverRole writes back a list it read before the key was there.
OtherProductsKeysStand == [][
    \A x \in Role, k \in Key :
        (k \in roles[x].keys /\ k \notin roles'[x].keys /\ roles'[x].company = roles[x].company)
        => \E r \in Request :
               \/ At(r, "edit") /\ req[r].role = x /\ req[r].product = ProductOf[k]
               \/ At(r, "topup") /\ req[r].role = x /\ k \notin req[r].keys]_vars

\* What access_repository.go says of a company that holds by default: a module is
\* held unless a row disables it, a disabled row is the thing that carries the
\* information.  Not of a row that was sold for a term: outside the term nobody
\* reads it, and what was withdrawn is held again.
WithdrawnIsNotHeld == \A sale \in Sales :
    LET c == sale[1]  s == sale[2]  f == sale[3] IN
    Mode[c][s] = "revoke" /\ modules[c][<<s, f>>].state = "off" => f \notin Held(c, s)
=============================================================================
