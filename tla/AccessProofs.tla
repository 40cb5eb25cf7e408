----------------------------- MODULE AccessProofs -----------------------------
(***************************************************************************)
(* Theorems about Access, for every set of companies, people, roles, keys, *)
(* tokens and requests, and every registry of features.                    *)
(***************************************************************************)
EXTENDS Access, TLAPS

-----------------------------------------------------------------------------
(* Type correctness                                                        *)

Entitlements == modules \in [Company -> [Offer -> ModuleRow]]
Roles == roles \in [Role -> RoleRow]
People == users \in [User -> UserRow]
Tokens == tokens \in [Token -> TokenRow]
Changes == req \in [Request -> {Idle} \cup Pending]
Steps == {"user", "stored", "stamped", "role", "extras", "issued"}
Counts == day \in Day /\ changes \in 0..MaxChanges /\ strayed \in SUBSET User

LEMMA TypeParts ==
    TypeOK <=> Entitlements /\ Roles /\ People /\ Tokens /\ Changes /\ Counts
BY DEF TypeOK, Entitlements, Roles, People, Tokens, Changes, Counts

LEMMA TypePartsNext ==
    TypeOK' <=> Entitlements' /\ Roles' /\ People' /\ Tokens' /\ Changes' /\ Counts'
BY DEF TypeOK, Entitlements, Roles, People, Tokens, Changes, Counts

\* What a change under way holds, by what it is about to do.
LEMMA UnderWay ==
    ASSUME TypeOK, NEW r \in Request
    PROVE  /\ At(r, "grant") => req[r] \in Extending
           /\ At(r, "assign") => req[r] \in Assigning
           /\ At(r, "end") => req[r] \in Ending
           /\ At(r, "announce") => req[r] \in Announcing
           /\ At(r, "edit") => req[r] \in Editing
           /\ At(r, "driver") => req[r] \in Driving
           /\ At(r, "topup") => req[r] \in Placing
           /\ At(r, "place") => req[r] \in Placing
BY DEF TypeOK, At, Idle, Pending, Change, Extending, Assigning, Ending, Announcing,
       Editing, Driving, Placing

LEMMA BecomeType ==
    ASSUME TypeOK, NEW r, NEW q \in {Idle} \cup Pending, Become(r, q)
    PROVE  Changes'
BY DEF TypeOK, Become, Changes

LEMMA FinishType == ASSUME TypeOK, NEW r, Finish(r) PROVE Changes'
BY BecomeType DEF Finish

LEMMA EndType == ASSUME NEW u \in User PROVE End(u) \in Pending
<1>1. End(u) \in Ending
  BY DEF End, Idle, Ending, Change, Name
<1>2. QED
  BY <1>1 DEF Pending

LEMMA AnnounceType == ASSUME NEW c \in Company PROVE Announce(c) \in Pending
<1>1. Announce(c) \in Announcing
  BY DEF Announce, Idle, Announcing, Change, Name
<1>2. QED
  BY <1>1 DEF Pending

LEMMA AskedType == ASSUME TypeOK, Asked PROVE changes' \in 0..MaxChanges
BY BoundAssumption DEF TypeOK, Asked, MayAsk

\* A token being filled or issued is somebody's.
LEMMA TokenParts ==
    ASSUME TypeOK, NEW t \in Token, tokens[t].step # "none"
    PROVE  /\ tokens[t].step \in Steps
           /\ tokens[t].user \in User
           /\ tokens[t].company \in Company \cup {NoCompany}
           /\ tokens[t].grant \in Grants
           /\ Refused(t) \in TokenRow
           /\ \A why \in Why : Excused(t, why) \in TokenRow
           /\ \A step \in Steps, single \in BOOLEAN, grant \in Grants, allows \in SUBSET Key :
                /\ [tokens[t] EXCEPT !.step = step] \in TokenRow
                /\ [tokens[t] EXCEPT !.step = step, !.single = single] \in TokenRow
                /\ [tokens[t] EXCEPT !.step = step, !.grant = grant] \in TokenRow
                /\ [tokens[t] EXCEPT !.step = step, !.grant = grant, !.allows = allows]
                       \in TokenRow
<1> DEFINE Row == [step : Steps, user : User, company : Company \cup {NoCompany},
                   single : BOOLEAN, grant : Grants, allows : SUBSET Key,
                   refused : BOOLEAN, excuse : SUBSET Why]
<1>1. tokens[t] \in Row
  <2>1. tokens[t] \in TokenRow /\ tokens[t] # NoToken
    BY DEF TypeOK, NoToken
  <2>2. QED
    BY <2>1 DEF TokenRow, Steps
<1>2. Row \subseteq TokenRow
  BY DEF TokenRow, Steps
<1>3. \A why \in Why : Excused(t, why) \in Row
  BY <1>1 DEF Excused
<1>4. Refused(t) \in Row
  BY <1>1 DEF Refused
<1>5. \A step \in Steps, single \in BOOLEAN, grant \in Grants, allows \in SUBSET Key :
          /\ [tokens[t] EXCEPT !.step = step] \in Row
          /\ [tokens[t] EXCEPT !.step = step, !.single = single] \in Row
          /\ [tokens[t] EXCEPT !.step = step, !.grant = grant] \in Row
          /\ [tokens[t] EXCEPT !.step = step, !.grant = grant, !.allows = allows] \in Row
  BY <1>1
<1>6. /\ tokens[t].step \in Steps
      /\ tokens[t].user \in User
      /\ tokens[t].company \in Company \cup {NoCompany}
      /\ tokens[t].grant \in Grants
  BY <1>1
<1> HIDE DEF Row
<1>7. QED
  BY <1>2, <1>3, <1>4, <1>5, <1>6

\* What a step does to the tokens other than filling them: those of T that are
\* stamped are refused or excused; so may be others that have a session.
Marking(T, t) ==
    \/ tokens'[t] = tokens[t] /\ ~ (t \in T /\ Stamped(t))
    \/ HasSession(t) /\ tokens'[t] = Refused(t)
    \/ HasSession(t) /\ \E why \in Why : tokens'[t] = Excused(t, why)

Sweeps(T) ==
    \/ T = {} /\ UNCHANGED tokens
    \/ tokens' = [t \in Token |-> tokens'[t]] /\ \A t \in Token : Marking(T, t)

LEMMA ExcuseSweeps ==
    ASSUME NEW T, NEW why \in Why, Excuse(T, why)
    PROVE  Sweeps(T)
BY DEF Excuse, Sweeps, Marking, HasSession

LEMMA EndSweeps ==
    ASSUME NEW r, EndSessions(r) \/ EndQuietly(r)
    PROVE  Sweeps(TokensOf(req[r].user))
<1> DEFINE T == TokensOf(req[r].user)
<1>1. tokens' = [t \in Token |-> tokens'[t]]
  BY DEF EndSessions, EndQuietly
<1>2. ASSUME NEW t \in Token PROVE Marking(T, t)
  <2>1. CASE EndSessions(r)
    BY <2>1 DEF EndSessions, Marking, HasSession
  <2>2. CASE EndQuietly(r)
    BY <2>2 DEF EndQuietly, Marking, HasSession, Why
  <2>3. QED
    BY <2>1, <2>2
<1>3. QED
  BY <1>1, <1>2 DEF Sweeps

LEMMA AnnounceSweeps ==
    ASSUME NEW r, AnnounceCompany(r)
    PROVE  Sweeps(TokensAt(req[r].company))
<1> DEFINE T == TokensAt(req[r].company)
<1>1. tokens' = [t \in Token |-> tokens'[t]]
  BY DEF AnnounceCompany
<1>2. ASSUME NEW t \in Token PROVE Marking(T, t)
  BY DEF AnnounceCompany, Marking, HasSession, Why
<1>3. QED
  BY <1>1, <1>2 DEF Sweeps

\* A cutoff, and a change that refuses nothing, leave the tokens well typed.
LEMMA SweepType == ASSUME TypeOK, NEW T, Sweeps(T) PROVE Tokens'
<1>1. CASE UNCHANGED tokens
  BY <1>1 DEF TypeOK, Tokens
<1>2. CASE tokens' = [t \in Token |-> tokens'[t]] /\ \A t \in Token : Marking(T, t)
  <2>1. ASSUME NEW t \in Token PROVE tokens'[t] \in TokenRow
    <3>1. HasSession(t) => /\ Refused(t) \in TokenRow
                           /\ \A why \in Why : Excused(t, why) \in TokenRow
      BY TokenParts DEF HasSession, Stamped
    <3>2. tokens[t] \in TokenRow
      BY DEF TypeOK
    <3>3. QED
      BY <1>2, <3>1, <3>2 DEF Marking
  <2>2. QED
    BY <1>2, <2>1 DEF Tokens
<1>3. QED
  BY <1>1, <1>2 DEF Sweeps

LEMMA ExcuseType ==
    ASSUME TypeOK, NEW T, NEW why \in Why, Excuse(T, why)
    PROVE  Tokens'
BY ExcuseSweeps, SweepType

LEMMA WhyParts == "role edit" \in Why /\ "unannounced" \in Why
BY DEF Why

LEMMA MintType ==
    ASSUME TypeOK, NEW t, NEW row \in TokenRow, Mint(t, row)
    PROVE  Tokens'
BY DEF TypeOK, Mint, Tokens

LEMMA NoTokenType == NoToken \in TokenRow
BY DEF TokenRow

\* What is read of a person is a grant.
LEMMA GrantType ==
    ASSUME TypeOK, NEW x \in Role \cup {NoRole}, NEW extras \in [Product -> ExtraRow]
    PROVE  Grant(x, extras) \in Grants
<1>1. x # NoRole => roles[x].all \in BOOLEAN /\ roles[x].keys \subseteq Key
  BY DEF TypeOK, RoleRow
<1>2. \A p \in Product : extras[p].keys \subseteq Key
  BY DEF ExtraRow
<1>3. UNION {extras[p].keys : p \in {p \in Product : extras[p].state = "on"}} \subseteq Key
  BY <1>2
<1>4. (x # NoRole /\ roles[x].all) \in BOOLEAN
  BY <1>1
<1>5. (IF x = NoRole THEN {} ELSE roles[x].keys) \subseteq Key
  BY <1>1
<1>6. QED
  BY <1>3, <1>4, <1>5 DEF Grant, Grants

LEMMA NoExtrasType == NoExtras \in [Product -> ExtraRow]
BY DEF NoExtras, ExtraRow

LEMMA AlwaysType == Always \in Window
BY BoundAssumption DEF Always, Window, Day

LEMMA NewUserType ==
    ASSUME NEW c \in Company \cup {NoCompany}, NEW x \in Role \cup {NoRole}
    PROVE  NewUser(c, x) \in UserRow
BY NoExtrasType DEF NewUser, UserRow

LEMMA PutType ==
    ASSUME TypeOK, NEW x, NEW row \in RoleRow, Put(x, row)
    PROVE  Roles'
BY DEF TypeOK, Put, Roles

LEMMA InitType == Init => TypeOK
<1> SUFFICES ASSUME Init PROVE TypeOK
  OBVIOUS
<1>1. Entitlements
  BY AlwaysType DEF Init, Entitlements, NoRow, ModuleRow
<1>2. Roles /\ People
  BY OpeningAssumption DEF Init, Roles, People
<1>3. Tokens
  BY NoTokenType DEF Init, Tokens
<1>4. Changes
  BY DEF Init, Changes
<1>5. Counts
  BY BoundAssumption DEF Init, Counts, Day
<1>6. QED
  BY <1>1, <1>2, <1>3, <1>4, <1>5, TypeParts

LEMMA MintingType == ASSUME TypeOK, Minting PROVE TypeOK'
<1> USE TypeParts, TypePartsNext
<1>1. PICK t \in Token :
          \/ \E u \in User : ReadUser(t, u)
          \/ \E single \in BOOLEAN : CreateSession(t, single)
          \/ StampToken(t) \/ ReadRole(t) \/ ReadExtras(t) \/ Sign(t)
          \/ SignWithout(t) \/ Expire(t)
  BY DEF Minting
<1> DEFINE others == UNCHANGED <<modules, day, roles, users, req, changes, strayed>>
<1>2. ASSUME others, Tokens' PROVE TypeOK'
  BY <1>2 DEF Entitlements, Roles, People, Changes, Counts
<1>3. Nobody \in Grants
  BY DEF Nobody, Grants
<1>4. ASSUME NEW u \in User, ReadUser(t, u) PROVE TypeOK'
  <2>1. users[u].company \in Company \cup {NoCompany}
    BY DEF People, UserRow
  <2>2. [NoToken EXCEPT !.step = "user", !.user = u, !.company = users[u].company]
            \in TokenRow
    BY <1>3, <2>1 DEF TokenRow, NoToken
  <2>3. QED
    BY <1>2, <1>4, <2>2, MintType DEF ReadUser
<1>5. CASE StampToken(t)
  <2>1. [tokens[t] EXCEPT !.step = "stamped"] \in TokenRow
    BY <1>3, <1>5, TokenParts DEF StampToken, Steps
  <2>2. QED
    BY <1>2, <1>5, <2>1, MintType DEF StampToken
<1>6. CASE ReadRole(t)
  <2> DEFINE g == Grant(users[tokens[t].user].role, NoExtras)
  <2>1. tokens[t].user \in User
    BY <1>6, TokenParts DEF ReadRole, Steps
  <2>2. users[tokens[t].user].role \in Role \cup {NoRole}
    BY <2>1 DEF People, UserRow
  <2>3. g \in Grants
    BY <2>2, GrantType, NoExtrasType
  <2>4. Mint(t, [tokens[t] EXCEPT !.step = "role", !.grant = g])
    BY <1>6 DEF ReadRole
  <2> HIDE DEF g
  <2>5. [tokens[t] EXCEPT !.step = "role", !.grant = g] \in TokenRow
    BY <1>6, <2>3, TokenParts DEF ReadRole, Steps
  <2>6. QED
    BY <1>2, <1>6, <2>4, <2>5, MintType DEF ReadRole
<1>7. CASE ReadExtras(t)
  <2> DEFINE e == Grant(NoRole, users[tokens[t].user].extras)
             g == With(tokens[t].grant, e)
  <2>1. tokens[t].user \in User /\ tokens[t].grant \in Grants
    BY <1>7, TokenParts DEF ReadExtras, Steps
  <2>2. users[tokens[t].user].extras \in [Product -> ExtraRow]
    BY <2>1 DEF People, UserRow
  <2>3. e \in Grants
    BY <2>2, GrantType
  <2>4. Mint(t, [tokens[t] EXCEPT !.step = "extras", !.grant = g])
    BY <1>7 DEF ReadExtras
  <2> HIDE DEF e
  <2>5. g \in Grants
    BY <2>1, <2>3 DEF Grants, With
  <2> HIDE DEF g
  <2>6. [tokens[t] EXCEPT !.step = "extras", !.grant = g] \in TokenRow
    BY <1>7, <2>5, TokenParts DEF ReadExtras, Steps
  <2>7. QED
    BY <1>2, <1>7, <2>4, <2>6, MintType DEF ReadExtras
<1>8. CASE Sign(t)
  <2> DEFINE K == Allowed(tokens[t].company, tokens[t].grant)
  <2>1. K \in SUBSET Key
    BY DEF Allowed
  <2>2. Mint(t, [tokens[t] EXCEPT !.step = "issued", !.grant = Nobody, !.allows = K])
    BY <1>8 DEF Sign
  <2> HIDE DEF K
  <2>3. [tokens[t] EXCEPT !.step = "issued", !.grant = Nobody, !.allows = K] \in TokenRow
    BY <1>3, <1>8, <2>1, TokenParts DEF Sign, Steps
  <2>4. QED
    BY <1>2, <1>8, <2>2, <2>3, MintType DEF Sign
<1>9. CASE SignWithout(t)
  <2>1. [tokens[t] EXCEPT !.step = "issued", !.grant = Nobody] \in TokenRow
    BY <1>3, <1>9, TokenParts DEF SignWithout, Steps
  <2>2. QED
    BY <1>2, <1>9, <2>1, MintType DEF SignWithout
<1>10. CASE Expire(t)
  BY <1>2, <1>10, NoTokenType, MintType DEF Expire
<1>11. ASSUME NEW single \in BOOLEAN, CreateSession(t, single) PROVE TypeOK'
  <2>1. [tokens[t] EXCEPT !.step = "stored", !.single = single] \in TokenRow
    BY <1>3, <1>11, TokenParts DEF CreateSession, Steps
  <2>2. QED
    BY <1>2, <1>11, <2>1, MintType DEF CreateSession
<1>12. QED
  BY <1>1, <1>4, <1>5, <1>6, <1>7, <1>8, <1>9, <1>10, <1>11

LEMMA SavingType == ASSUME TypeOK, Saving PROVE TypeOK'
<1> USE TypeParts, TypePartsNext
<1>1. PICK r \in Request :
          \/ GrantProductAccess(r) \/ SaveRole(r) \/ SaveAssignment(r)
          \/ TopUpRole(r) \/ PlaceDriver(r)
          \/ EndSessions(r) \/ EndQuietly(r) \/ AnnounceCompany(r) \/ Stop(r)
          \/ \E x \in Role : FindDriverRole(r, x) \/ CreateDriverRole(r, x)
  BY DEF Saving
<1>2. ASSUME UNCHANGED <<modules, day, changes>>, strayed' \in SUBSET User,
             Roles', People', Tokens', Changes'
      PROVE  TypeOK'
  BY <1>2 DEF Entitlements, Counts
<1>3. CASE GrantProductAccess(r)
  <2> DEFINE q == req[r]
             state == IF q.on THEN "on" ELSE "off"
  <2>1. q \in Extending
    BY <1>3, UnderWay DEF GrantProductAccess
  <2>2. q.user \in User /\ q.product \in Product /\ q.keys \in SUBSET Key
    BY <2>1 DEF Extending, Change
  <2>3. users' = [users EXCEPT ![q.user].extras[q.product] = [state |-> state, keys |-> q.keys]]
    BY <1>3 DEF GrantProductAccess, SetExtras
  <2> HIDE DEF q
  <2>4. [state |-> state, keys |-> q.keys] \in ExtraRow
    BY <2>2 DEF ExtraRow
  <2> HIDE DEF state
  <2>5. People'
    BY <2>2, <2>3, <2>4 DEF People, UserRow
  <2>6. Changes'
    BY <1>3, <2>2, EndType, BecomeType DEF GrantProductAccess, q
  <2>7. Roles' /\ Tokens' /\ strayed' \in SUBSET User
    BY <1>3 DEF GrantProductAccess, Roles, Tokens, Counts
  <2>8. QED
    BY <1>2, <1>3, <2>5, <2>6, <2>7 DEF GrantProductAccess
<1>4. CASE SaveRole(r)
  <2> DEFINE q == req[r]
             x == q.role
             row == [roles[x] EXCEPT !.name = q.name, !.all = q.on,
                         !.keys = (@ \ KeysOf(q.product)) \cup q.keys]
  <2>1. q \in Editing
    BY <1>4, UnderWay DEF SaveRole
  <2>2. x \in Role /\ q.name \in Name /\ q.on \in BOOLEAN /\ q.keys \in SUBSET Key
    BY <2>1 DEF Editing, Change
  <2>3. roles[x] \in RoleRow
    BY <2>2 DEF Roles
  <2>4. Roles' /\ Tokens'
    <3>1. CASE Exists(x) /\ NameFree(q.company, x, q.name)
      <4>1. /\ Put(x, row)
            /\ Excuse(UNION {TokensOf(u) : u \in HoldersOf(x)}, "role edit")
        BY <1>4, <3>1 DEF SaveRole
      <4> HIDE DEF q
      <4>2. row \in RoleRow
        BY <2>2, <2>3 DEF RoleRow, KeysOf
      <4> HIDE DEF row
      <4>3. QED
        BY <4>1, <4>2, PutType, ExcuseType, WhyParts
    <3>2. CASE ~ (Exists(x) /\ NameFree(q.company, x, q.name))
      BY <1>4, <3>2 DEF SaveRole, Roles, Tokens
    <3>3. QED
      BY <3>1, <3>2
  <2>5. Changes' /\ People' /\ strayed' \in SUBSET User
    BY <1>4, FinishType DEF SaveRole, People, Counts
  <2>6. QED
    BY <1>2, <1>4, <2>4, <2>5 DEF SaveRole
<1>5. CASE SaveAssignment(r)
  <2>1. req[r].user \in User /\ req[r].role \in Role
    BY <1>5, UnderWay DEF SaveAssignment, Assigning, Change
  <2>2. UNCHANGED <<modules, day, changes>> /\ Roles' /\ Tokens'
    BY <1>5 DEF SaveAssignment, Roles, Tokens
  <2>3. CASE Exists(req[r].role)
    <3>1. /\ users' = [users EXCEPT ![req[r].user].role = req[r].role]
          /\ strayed' \in {strayed \ {req[r].user}, strayed \cup {req[r].user}}
          /\ Become(r, End(req[r].user))
      BY <1>5, <2>3 DEF SaveAssignment
    <3>2. People'
      BY <2>1, <3>1 DEF People, UserRow
    <3>3. Changes'
      BY <2>1, <3>1, EndType, BecomeType
    <3>4. strayed' \in SUBSET User
      BY <2>1, <3>1 DEF Counts
    <3>5. QED
      BY <1>2, <2>2, <3>2, <3>3, <3>4
  <2>4. CASE ~Exists(req[r].role)
    <3>1. Finish(r) /\ UNCHANGED <<users, strayed>>
      BY <1>5, <2>4 DEF SaveAssignment
    <3>2. People' /\ Changes' /\ strayed' \in SUBSET User
      BY <3>1, FinishType DEF People, Counts
    <3>3. QED
      BY <1>2, <2>2, <3>2
  <2>5. QED
    BY <2>3, <2>4
<1>6. CASE TopUpRole(r)
  <2> DEFINE q == req[r]
  <2>1. q \in Placing
    BY <1>6, UnderWay DEF TopUpRole
  <2>2. /\ Put(q.role, [roles[q.role] EXCEPT !.keys = q.keys])
        /\ Excuse(UNION {TokensOf(u) : u \in HoldersOf(q.role)}, "role edit")
        /\ Become(r, [q EXCEPT !.pc = "place", !.keys = {}])
    BY <1>6 DEF TopUpRole
  <2> HIDE DEF q
  <2>3. [q EXCEPT !.pc = "place", !.keys = {}] \in Placing
    BY <2>1 DEF Placing, Change
  <2>4. [roles[q.role] EXCEPT !.keys = q.keys] \in RoleRow
    BY <2>1 DEF Placing, Change, Roles, RoleRow
  <2>5. Roles' /\ Tokens' /\ Changes'
    BY <2>2, <2>3, <2>4, PutType, ExcuseType, WhyParts, BecomeType DEF Pending
  <2>6. QED
    BY <1>2, <1>6, <2>5 DEF TopUpRole, People, Counts
<1>7. CASE PlaceDriver(r)
  <2> DEFINE q == req[r]
  <2>1. q \in Placing
    BY <1>7, UnderWay DEF PlaceDriver
  <2>2. /\ users' = [users EXCEPT ![q.user] =
                       [@ EXCEPT !.exists = TRUE, !.company = q.company, !.role = q.role]]
        /\ strayed' = strayed \ {q.user}
        /\ Excuse(TokensOf(q.user), "unannounced")
        /\ Finish(r)
    BY <1>7 DEF PlaceDriver
  <2> HIDE DEF q
  <2>3. q.user \in User /\ q.company \in Company /\ q.role \in Role
    BY <2>1 DEF Placing, Change
  <2>4. [users[q.user] EXCEPT !.exists = TRUE, !.company = q.company, !.role = q.role]
            \in UserRow
    BY <2>3 DEF People, UserRow
  <2>5. People'
    BY <2>2, <2>4 DEF People
  <2>6. QED
    BY <1>2, <1>7, <2>2, <2>5, ExcuseType, WhyParts, FinishType DEF PlaceDriver, Roles, Counts
<1>8. CASE EndSessions(r) \/ EndQuietly(r)
  <2>1. Tokens'
    BY <1>8, EndSweeps, SweepType
  <2>2. QED
    BY <1>2, <1>8, <2>1, FinishType DEF EndSessions, EndQuietly, Roles, People, Counts
<1>9. CASE AnnounceCompany(r)
  <2>1. Tokens'
    BY <1>9, AnnounceSweeps, SweepType
  <2>2. QED
    BY <1>2, <1>9, <2>1, FinishType DEF AnnounceCompany, Roles, People, Counts
<1>10. CASE Stop(r)
  <2>1. \/ Excuse(TokensOf(req[r].user), "unannounced")
        \/ Excuse(TokensAt(req[r].company), "unannounced")
        \/ UNCHANGED tokens
    BY <1>10 DEF Stop
  <2>2. Tokens'
    BY <2>1, ExcuseType, WhyParts DEF Tokens
  <2>3. QED
    BY <1>2, <1>10, <2>2, FinishType DEF Stop, Roles, People, Counts
<1>11. ASSUME NEW x \in Role, FindDriverRole(r, x) PROVE TypeOK'
  <2> DEFINE q == req[r]
  <2>1. q \in Driving
    BY <1>11, UnderWay DEF FindDriverRole
  <2>2. PICK step \in {"topup", "place"}, K \in SUBSET Key :
            Become(r, [q EXCEPT !.pc = step, !.role = x, !.keys = K])
    <3> DEFINE lacking == roles[x].system /\ ~ (DriverKeys \subseteq roles[x].keys)
    <3>1. roles[x].keys \cup DriverKeys \in SUBSET Key
      BY CatalogueAssumption DEF Roles, RoleRow
    <3>2. CASE lacking
      BY <1>11, <3>1, <3>2 DEF FindDriverRole
    <3>3. CASE ~lacking
      BY <1>11, <3>3 DEF FindDriverRole
    <3>4. QED
      BY <3>2, <3>3
  <2> HIDE DEF q
  <2>3. [q EXCEPT !.pc = step, !.role = x, !.keys = K] \in Placing
    BY <2>1 DEF Driving, Placing, Change
  <2>4. QED
    BY <1>2, <1>11, <2>2, <2>3, BecomeType
       DEF FindDriverRole, Pending, Roles, People, Tokens, Counts
<1>12. ASSUME NEW x \in Role, CreateDriverRole(r, x) PROVE TypeOK'
  <2> DEFINE q == req[r]
             row == [company |-> q.company, name |-> "Driver", system |-> TRUE,
                     all |-> FALSE, keys |-> DriverKeys]
  <2>1. q \in Driving
    BY <1>12, UnderWay DEF CreateDriverRole
  <2>2. Put(x, row) /\ Become(r, [q EXCEPT !.pc = "place", !.role = x])
    BY <1>12 DEF CreateDriverRole
  <2> HIDE DEF q
  <2>3. [q EXCEPT !.pc = "place", !.role = x] \in Placing
    BY <2>1 DEF Driving, Placing, Change
  <2>4. row \in RoleRow
    BY <2>1, CatalogueAssumption DEF Driving, Change, RoleRow, Name
  <2> HIDE DEF row
  <2>5. Roles' /\ Changes'
    BY <2>2, <2>3, <2>4, PutType, BecomeType DEF Pending
  <2>6. QED
    BY <1>2, <1>12, <2>5 DEF CreateDriverRole, People, Tokens, Counts
<1>13. QED
  BY <1>1, <1>3, <1>4, <1>5, <1>6, <1>7, <1>8, <1>9, <1>10, <1>11, <1>12

LEMMA ChangingPeopleType == ASSUME TypeOK, ChangingPeople PROVE TypeOK'
<1> USE TypeParts, TypePartsNext
<1>1. PICK r \in Request, u \in User :
          \/ \E p \in Product, K \in SUBSET Key : SetPermission(r, u, p, K)
          \/ \E p \in Product, K \in SUBSET Key, on \in BOOLEAN : SetProductAccess(r, u, p, K, on)
          \/ \E p \in Product : RevokeProductAccess(r, u, p)
          \/ \E x \in Role : AssignRole(r, u, x)
          \/ \E c \in Company : PlanDriver(r, u, c)
  BY DEF ChangingPeople
<1>2. ASSUME UNCHANGED <<modules, day, roles, tokens, strayed>>, Asked, People', Changes'
      PROVE  TypeOK'
  BY <1>2, AskedType DEF Entitlements, Roles, Tokens, Counts
<1>3. ASSUME NEW p \in Product, NEW K \in SUBSET Key, NEW on \in BOOLEAN
      PROVE  [Idle EXCEPT !.pc = "grant", !.user = u, !.product = p, !.keys = K, !.on = on]
                 \in Pending
  <2>1. [Idle EXCEPT !.pc = "grant", !.user = u, !.product = p, !.keys = K, !.on = on]
            \in Extending
    BY DEF Idle, Extending, Change, Name
  <2>2. QED
    BY <2>1 DEF Pending
<1>4. ASSUME NEW p \in Product, NEW K \in SUBSET Key, SetPermission(r, u, p, K)
      PROVE  TypeOK'
  BY <1>2, <1>3, <1>4, BecomeType DEF SetPermission, People
<1>5. ASSUME NEW p \in Product, NEW K \in SUBSET Key, NEW on \in BOOLEAN,
             SetProductAccess(r, u, p, K, on)
      PROVE  TypeOK'
  BY <1>2, <1>3, <1>5, BecomeType DEF SetProductAccess, People
<1>6. ASSUME NEW p \in Product, RevokeProductAccess(r, u, p) PROVE TypeOK'
  <2> DEFINE extra == [state |-> "off", keys |-> users[u].extras[p].keys]
  <2>1. users' = [users EXCEPT ![u].extras[p] = extra]
    BY <1>6 DEF RevokeProductAccess, SetExtras
  <2>2. extra \in ExtraRow
    BY DEF People, UserRow, ExtraRow
  <2> HIDE DEF extra
  <2>3. People'
    BY <2>1, <2>2 DEF People, UserRow
  <2>4. QED
    BY <1>2, <1>6, <2>3, EndType, BecomeType DEF RevokeProductAccess
<1>7. ASSUME NEW x \in Role, AssignRole(r, u, x) PROVE TypeOK'
  <2>1. RoleOwner(u) \in Company
    BY CompanyAssumption DEF RoleOwner, People, UserRow
  <2>2. [Idle EXCEPT !.pc = "assign", !.user = u, !.role = x, !.company = RoleOwner(u)]
            \in Assigning
    BY <2>1 DEF Idle, Assigning, Change, Name
  <2>3. QED
    BY <1>2, <1>7, <2>2, BecomeType DEF AssignRole, People, Pending
<1>8. ASSUME NEW c \in Company, PlanDriver(r, u, c) PROVE TypeOK'
  <2> DEFINE new == ~users[u].exists
  <2>1. new \in BOOLEAN
    OBVIOUS
  <2>2. Become(r, [Idle EXCEPT !.pc = "driver", !.user = u, !.company = c, !.on = new])
    BY <1>8 DEF PlanDriver
  <2> HIDE DEF new
  <2>3. [Idle EXCEPT !.pc = "driver", !.user = u, !.company = c, !.on = new] \in Driving
    BY <2>1 DEF Idle, Driving, Change, Name
  <2>4. QED
    BY <1>2, <1>8, <2>2, <2>3, BecomeType DEF PlanDriver, People, Pending
<1>9. QED
  BY <1>1, <1>4, <1>5, <1>6, <1>7, <1>8

LEMMA SellingType == ASSUME TypeOK, Selling PROVE TypeOK'
<1> USE TypeParts, TypePartsNext
<1>1. PICK r \in Request, sale \in Sales :
          (\E term \in Term : GrantModule(r, sale, term)) \/ RevokeModule(r, sale)
  BY DEF Selling
<1> DEFINE c == sale[1]
           o == <<sale[2], sale[3]>>
<1>2. c \in Company /\ o \in Offer
  BY CompanyAssumption
<1> HIDE DEF o, c
<1>3. ASSUME NEW row \in ModuleRow, modules' = [modules EXCEPT ![c][o] = row],
             UNCHANGED <<day, roles, users, tokens, strayed>>, Asked, Become(r, Announce(c))
      PROVE  TypeOK'
  <2>1. Entitlements'
    BY <1>2, <1>3 DEF Entitlements
  <2>2. Changes'
    BY <1>2, <1>3, AnnounceType, BecomeType
  <2>3. QED
    BY <1>3, <2>1, <2>2, AskedType DEF Roles, People, Tokens, Counts
<1>4. ASSUME NEW term \in Term, GrantModule(r, sale, term) PROVE TypeOK'
  <2>1. [state |-> "on", term |-> term] \in ModuleRow
    BY BoundAssumption DEF ModuleRow
  <2>2. QED
    BY <1>3, <1>4, <2>1 DEF GrantModule, c, o
<1>5. ASSUME RevokeModule(r, sale) PROVE TypeOK'
  <2>1. modules[c][o] \in ModuleRow
    BY <1>2 DEF Entitlements
  <2>2. [modules[c][o] EXCEPT !.state = "off"] \in ModuleRow
    BY <2>1 DEF ModuleRow
  <2>3. modules' = [modules EXCEPT ![c][o] = [modules[c][o] EXCEPT !.state = "off"]]
    BY <1>2, <1>5 DEF RevokeModule, c, o, Entitlements
  <2>4. QED
    BY <1>3, <1>5, <2>2, <2>3 DEF RevokeModule, c
<1>6. QED
  BY <1>1, <1>4, <1>5

LEMMA ChangingRolesType == ASSUME TypeOK, ChangingRoles PROVE TypeOK'
<1> USE TypeParts, TypePartsNext
<1>1. PICK x \in Role, p \in Product, K \in SUBSET Key, all \in BOOLEAN, n \in Name :
          \/ \E c \in Company : CreateRole(x, c, p, K, all, n)
          \/ \E r \in Request : EditRole(r, x, p, K, all, n)
  BY DEF ChangingRoles
<1>2. ASSUME NEW c \in Company, CreateRole(x, c, p, K, all, n) PROVE TypeOK'
  <2>1. [company |-> c, name |-> n, system |-> FALSE, all |-> all, keys |-> K] \in RoleRow
    BY DEF RoleRow
  <2>2. Roles'
    BY <1>2, <2>1, PutType DEF CreateRole
  <2>3. QED
    BY <1>2, <2>2, AskedType DEF CreateRole, Entitlements, People, Tokens, Changes, Counts
<1>3. ASSUME NEW r \in Request, EditRole(r, x, p, K, all, n) PROVE TypeOK'
  <2>1. roles[x].company \in Company
    BY <1>3 DEF EditRole, Exists, Roles, RoleRow
  <2>2. [Idle EXCEPT !.pc = "edit", !.company = roles[x].company, !.role = x,
             !.product = p, !.keys = K, !.on = all, !.name = n] \in Editing
    BY <2>1 DEF Idle, Editing, Change
  <2>3. Changes'
    BY <1>3, <2>2, BecomeType DEF EditRole, Pending
  <2>4. QED
    BY <1>3, <2>3, AskedType DEF EditRole, Entitlements, Roles, People, Tokens, Counts
<1>4. QED
  BY <1>1, <1>2, <1>3

LEMMA JoiningType == ASSUME TypeOK, Joining PROVE TypeOK'
<1> USE TypeParts, TypePartsNext
<1>1. PICK u \in User :
          \/ RegisterAlone(u)
          \/ \E c \in Company, x \in Role :
               \/ \E K \in SUBSET Key : RegisterMember(u, c, x, K)
               \/ RegisterTenant(u, c, x)
  BY DEF Joining
<1>2. ASSUME NEW row \in UserRow, users' = [users EXCEPT ![u] = row] PROVE People'
  BY <1>2 DEF People
<1>3. CASE RegisterAlone(u)
  BY <1>2, <1>3, AskedType, NewUserType
     DEF RegisterAlone, Entitlements, Roles, Tokens, Changes, Counts
<1>4. ASSUME NEW c \in Company, NEW x \in Role, NEW K \in SUBSET Key,
             RegisterMember(u, c, x, K)
      PROVE  TypeOK'
  <2> DEFINE extra == [state |-> IF K = {} THEN "none" ELSE "on", keys |-> K]
             row == [NewUser(c, x) EXCEPT !.extras[Tms] = extra]
  <2>1. extra \in ExtraRow
    BY DEF ExtraRow
  <2>2. users' = [users EXCEPT ![u] = row]
    BY <1>4 DEF RegisterMember
  <2> HIDE DEF extra
  <2>3. NewUser(c, x) \in UserRow
    BY NewUserType
  <2>4. row \in UserRow
    BY <2>1, <2>3, CatalogueAssumption DEF UserRow
  <2> HIDE DEF row
  <2>5. QED
    BY <1>2, <1>4, <2>2, <2>4, AskedType
       DEF RegisterMember, Entitlements, Roles, Tokens, Changes, Counts
<1>5. ASSUME NEW c \in Company, NEW x \in Role, RegisterTenant(u, c, x) PROVE TypeOK'
  <2> DEFINE held == [o \in Offer |->
                 IF o \in Defaults /\ modules[c][o].state = "none"
                 THEN [state |-> "on", term |-> Always] ELSE modules[c][o]]
             first == [company |-> c, name |-> "Other", system |-> TRUE, all |-> TRUE,
                       keys |-> {}]
  <2>1. [state |-> "on", term |-> Always] \in ModuleRow
    BY AlwaysType DEF ModuleRow
  <2>2. held \in [Offer -> ModuleRow]
    BY <2>1 DEF Entitlements
  <2>3. modules' = [modules EXCEPT ![c] = held]
    BY <1>5 DEF RegisterTenant, Entitlements
  <2> HIDE DEF held
  <2>4. Entitlements'
    BY <2>2, <2>3 DEF Entitlements
  <2>5. first \in RoleRow
    BY DEF RoleRow, Name
  <2>6. Put(x, first) /\ users' = [users EXCEPT ![u] = NewUser(c, x)]
    BY <1>5 DEF RegisterTenant
  <2> HIDE DEF first
  <2>7. Roles' /\ People'
    BY <1>2, <2>5, <2>6, PutType, NewUserType
  <2>8. QED
    BY <1>5, <2>4, <2>7, AskedType DEF RegisterTenant, Tokens, Changes, Counts
<1>6. QED
  BY <1>1, <1>3, <1>4, <1>5

LEMMA NextType == ASSUME TypeOK, [Next]_vars PROVE TypeOK'
<1> USE TypeParts, TypePartsNext
<1>1. ASSUME NEW x \in Role, DeleteRole(x) PROVE TypeOK'
  <2>1. [roles[x] EXCEPT !.company = NoCompany] \in RoleRow
    BY DEF Roles, RoleRow
  <2>2. Roles'
    BY <1>1, <2>1, PutType DEF DeleteRole
  <2>3. QED
    BY <1>1, <2>2, AskedType DEF DeleteRole, Entitlements, People, Tokens, Changes, Counts
<1>2. ASSUME NEW s \in Company, NEW d \in Company, MergeCompanies(s, d) PROVE TypeOK'
  <2> DEFINE moved == {u \in User : users[u].company = d}
  <2>1. /\ users' = [u \in User |->
                IF u \in moved THEN [users[u] EXCEPT !.company = s] ELSE users[u]]
        /\ strayed' = strayed \cup moved
        /\ Excuse(UNION {TokensOf(u) : u \in moved}, "unannounced")
    BY <1>2 DEF MergeCompanies
  <2>2. \A u \in User : [users[u] EXCEPT !.company = s] \in UserRow
    BY DEF People, UserRow
  <2>3. strayed' \in SUBSET User
    BY <2>1 DEF Counts
  <2> HIDE DEF moved
  <2>4. People'
    BY <2>1, <2>2 DEF People
  <2>5. Tokens'
    BY <2>1, ExcuseType, WhyParts
  <2>6. QED
    BY <1>2, <2>3, <2>4, <2>5, AskedType
       DEF MergeCompanies, Entitlements, Roles, Changes, Counts
<1>3. CASE DayPasses
  <2>1. day' \in Day
    BY <1>3, BoundAssumption DEF DayPasses, Day, Counts
  <2>2. QED
    BY <1>3, <2>1, ExcuseType, WhyParts DEF DayPasses, Entitlements, Roles, People, Changes, Counts
<1>4. CASE UNCHANGED vars
  BY <1>4 DEF vars, Entitlements, Roles, People, Tokens, Changes, Counts
<1>5. QED
  BY <1>1, <1>2, <1>3, <1>4, MintingType, SavingType, ChangingPeopleType, SellingType,
     ChangingRolesType, JoiningType DEF Next

\* Every row of the tables, every token and every change under way is well typed,
\* wherever each of them has got to.
THEOREM AccessTypeCorrect == Spec => []TypeOK
<1>1. TypeOK /\ [Next]_vars => TypeOK'
  BY NextType
<1>2. QED
  BY <1>1, InitType, PTL DEF Spec

-----------------------------------------------------------------------------
(* Roles stay in the company                                               *)

\* RolesStayInTheCompany is not inductive: the write of an assignment or of an
\* adoption takes the role and the company the request has been carrying, so the
\* request must carry a role of that company, or one deleted since.
Backed(q) == q.pc \in {"assign", "topup", "place"} =>
                 q.role \in Role /\ (Exists(q.role) => roles[q.role].company = q.company)

RolesInv == /\ TypeOK
            /\ \A r \in Request : Backed(req[r])
            /\ RolesStayInTheCompany

\* Roles stay whose they are, people where and what they are.
SameOwners == \A x \in Role : Exists(x) => roles'[x].company = roles[x].company
SamePlaces == /\ \A u \in User : /\ users'[u].company = users[u].company
                                 /\ users'[u].role = users[u].role
              /\ strayed' = strayed

LEMMA OwnerType == ASSUME TypeOK, NEW u \in User PROVE RoleOwner(u) \in Company
BY CompanyAssumption DEF TypeOK, UserRow, RoleOwner

LEMMA RoleType ==
    ASSUME TypeOK, NEW u \in User, users[u].role # NoRole
    PROVE  users[u].role \in Role
BY DEF TypeOK, UserRow

LEMMA SamePlacesStay ==
    ASSUME RolesInv, SameOwners, SamePlaces
    PROVE  RolesStayInTheCompany'
<1>1. ASSUME NEW u \in User \ strayed, users[u].role # NoRole
      PROVE  roles'[users[u].role].company = RoleOwner(u)
  <2>1. roles[users[u].role].company = RoleOwner(u) /\ users[u].role \in Role
    BY <1>1, RoleType DEF RolesInv, RolesStayInTheCompany
  <2>2. Exists(users[u].role)
    BY <1>1, <2>1, OwnerType, NothingAssumption DEF RolesInv, Exists
  <2>3. QED
    BY <2>1, <2>2 DEF SameOwners
<1>2. QED
  BY <1>1 DEF SamePlaces, RolesStayInTheCompany, RoleOwner

\* One person is placed, and not counted among the strayed, in a company under a
\* role of that company.
LEMMA OnePlacedStays ==
    ASSUME RolesInv, SameOwners, NEW u \in User, NEW row \in UserRow,
           users' = [users EXCEPT ![u] = row], strayed \ {u} \subseteq strayed',
           u \notin strayed' => \/ row.role = NoRole
                                \/ roles'[row.role].company = (RoleOwner(u))'
    PROVE  RolesStayInTheCompany'
<1>1. users'[u] = row /\ \A v \in User \ {u} : users'[v] = users[v]
  BY DEF RolesInv, TypeOK
<1>2. ASSUME NEW v \in User \ strayed, v # u, users[v].role # NoRole
      PROVE  roles'[users[v].role].company = RoleOwner(v)
  <2>1. roles[users[v].role].company = RoleOwner(v) /\ users[v].role \in Role
    BY <1>2, RoleType DEF RolesInv, RolesStayInTheCompany
  <2>2. Exists(users[v].role)
    BY <1>2, <2>1, OwnerType, NothingAssumption DEF RolesInv, Exists
  <2>3. QED
    BY <2>1, <2>2 DEF SameOwners
<1>3. ASSUME NEW v \in User \ strayed', v # u, users'[v].role # NoRole
      PROVE  roles'[users'[v].role].company = (RoleOwner(v))'
  BY <1>1, <1>2, <1>3 DEF RoleOwner
<1>4. ASSUME u \notin strayed', users'[u].role # NoRole
      PROVE  roles'[users'[u].role].company = (RoleOwner(u))'
  BY <1>1, <1>4
<1>5. QED
  BY <1>3, <1>4 DEF RolesStayInTheCompany

\* Requests stay backed when no role changes hands, one of them moving on with a
\* backed record; and when a role nobody refers to appears.
LEMMA MoveBacked ==
    ASSUME RolesInv, NEW r \in Request, NEW q, Become(r, q), Backed(q),
           \A x \in Role : roles'[x].company = roles[x].company
    PROVE  \A s \in Request : Backed(req[s])'
<1>1. req'[r] = q /\ \A s \in Request \ {r} : req'[s] = req[s]
  BY DEF RolesInv, TypeOK, Become
<1>2. QED
  BY <1>1 DEF RolesInv, Backed, Exists

LEMMA SameBacked ==
    ASSUME RolesInv, UNCHANGED req, \A x \in Role : Exists(x)' =>
               roles'[x].company = roles[x].company
    PROVE  \A s \in Request : Backed(req[s])'
BY DEF RolesInv, Backed, Exists

LEMMA NewRole ==
    ASSUME RolesInv, NEW x \in Role, Unused(x), NEW row \in RoleRow, Put(x, row)
    PROVE  /\ SameOwners
           /\ roles'[x] = row
           /\ UNCHANGED req => \A s \in Request : Backed(req[s])'
<1>1. roles'[x] = row /\ \A y \in Role \ {x} : roles'[y] = roles[y]
  BY DEF RolesInv, TypeOK, Put
<1>2. SameOwners
  BY <1>1 DEF SameOwners, Unused
<1>3. \A s \in Request : req[s].role # x
  BY DEF Unused
<1>4. QED
  BY <1>1, <1>2, <1>3 DEF RolesInv, Backed, Exists

LEMMA IdleBacked == Backed(Idle)
BY DEF Idle, Backed

LEMMA EndBacked == \A u : Backed(End(u))
BY DEF Idle, End, Backed

LEMMA AnnounceBacked == \A c : Backed(Announce(c))
BY DEF Idle, Announce, Backed

LEMMA SavingRoles ==
    ASSUME RolesInv, Saving, TypeOK'
    PROVE  (\A s \in Request : Backed(req[s])') /\ RolesStayInTheCompany'
<1> DEFINE Goal == (\A s \in Request : Backed(req[s])') /\ RolesStayInTheCompany'
<1>0. TypeOK
  BY DEF RolesInv
<1>1. PICK r \in Request :
          \/ GrantProductAccess(r) \/ SaveRole(r) \/ SaveAssignment(r)
          \/ TopUpRole(r) \/ PlaceDriver(r)
          \/ EndSessions(r) \/ EndQuietly(r) \/ AnnounceCompany(r) \/ Stop(r)
          \/ \E x \in Role : FindDriverRole(r, x) \/ CreateDriverRole(r, x)
  BY DEF Saving
<1>2. ASSUME \A x \in Role : roles'[x].company = roles[x].company, SamePlaces,
             NEW q, Become(r, q), Backed(q)
      PROVE  Goal
  BY <1>2, MoveBacked, SamePlacesStay DEF SameOwners
<1>3. CASE GrantProductAccess(r)
  <2>1. req[r].user \in User /\ req[r].product \in Product
    BY <1>0, <1>3, UnderWay DEF GrantProductAccess, Extending, Change
  <2>2. SamePlaces
    BY <1>0, <1>3, <2>1 DEF GrantProductAccess, SetExtras, SamePlaces, TypeOK, UserRow
  <2>3. QED
    BY <1>2, <1>3, <2>2, EndBacked DEF GrantProductAccess
<1>4. CASE SaveRole(r)
  <2>1. \A x \in Role : roles'[x].company = roles[x].company
    <3> DEFINE q == req[r]
               row == [roles[q.role] EXCEPT !.name = q.name, !.all = q.on,
                           !.keys = (@ \ KeysOf(q.product)) \cup q.keys]
    <3>1. q.role \in Role
      BY <1>0, <1>4, UnderWay DEF SaveRole, Editing, Change
    <3>2. Put(q.role, row) \/ UNCHANGED roles
      BY <1>4 DEF SaveRole
    <3> HIDE DEF q
    <3>3. row.company = roles[q.role].company
      BY <1>0, <3>1 DEF TypeOK, RoleRow
    <3> HIDE DEF row
    <3>4. QED
      BY <1>0, <3>1, <3>2, <3>3 DEF Put, TypeOK
  <2>2. Become(r, Idle) /\ SamePlaces
    BY <1>4 DEF SaveRole, SamePlaces, Finish
  <2>3. QED
    BY <1>2, <2>1, <2>2, IdleBacked
<1>5. CASE SaveAssignment(r)
  <2>1. PICK u \in User, x \in Role, c \in Company :
            /\ u = req[r].user /\ x = req[r].role /\ c = req[r].company
            /\ Exists(x) => roles[x].company = c
    BY <1>0, <1>5, UnderWay DEF SaveAssignment, Assigning, Change, RolesInv, Backed, At
  <2>2. UNCHANGED roles
    BY <1>5 DEF SaveAssignment
  <2>3. CASE Exists(x)
    <3>1. /\ users' = [users EXCEPT ![u].role = x]
          /\ strayed' = IF RoleOwner(u) = c
                        THEN strayed \ {u} ELSE strayed \cup {u}
          /\ Become(r, End(u))
      BY <1>5, <2>1, <2>3 DEF SaveAssignment
    <3> DEFINE row == [users[u] EXCEPT !.role = x]
    <3>2. users' = [users EXCEPT ![u] = row]
      BY <3>1
    <3>3. row \in UserRow /\ row.role = x /\ row.company = users[u].company
      <4>1. users[u] \in UserRow
        BY <1>0 DEF TypeOK
      <4>2. QED
        BY <4>1 DEF UserRow
    <3>4. users'[u] = row
      BY <1>0, <3>2 DEF TypeOK
    <3>5. (RoleOwner(u))' = RoleOwner(u)
      BY <3>3, <3>4 DEF RoleOwner
    <3>6. strayed \ {u} \subseteq strayed'
      BY <3>1
    <3>7. SameOwners
      BY <2>2 DEF SameOwners
    <3> HIDE DEF row
    <3>8. RolesStayInTheCompany'
      <4>1. PICK placed \in UserRow : placed = row
        BY <3>3
      <4>2. users' = [users EXCEPT ![u] = placed] /\ placed.role = x
        BY <3>2, <3>3, <4>1
      <4>3. u \notin strayed' => roles'[placed.role].company = (RoleOwner(u))'
        BY <2>1, <2>2, <2>3, <3>1, <3>5, <4>2
      <4>4. QED
        BY <3>6, <3>7, <4>2, <4>3, OnePlacedStays
    <3>9. QED
      BY <2>2, <3>1, <3>8, MoveBacked, EndBacked
  <2>4. CASE ~Exists(x)
    <3>1. Become(r, Idle) /\ UNCHANGED <<users, strayed>>
      BY <1>5, <2>1, <2>4 DEF SaveAssignment, Finish
    <3>2. QED
      BY <1>2, <2>2, <3>1, IdleBacked DEF SamePlaces
  <2>5. QED
    BY <2>3, <2>4
<1>6. CASE TopUpRole(r)
  <2> DEFINE q == [req[r] EXCEPT !.pc = "place", !.keys = {}]
  <2>1. req[r] \in Placing /\ Backed(req[r]) /\ req[r].pc = "topup"
    BY <1>0, <1>6, UnderWay DEF TopUpRole, RolesInv, At
  <2>2. Backed(q)
    BY <2>1 DEF Backed, Placing, Change
  <2>3. \A x \in Role : roles'[x].company = roles[x].company
    BY <1>0, <1>6 DEF TopUpRole, Put, TypeOK, RoleRow
  <2>4. Become(r, q) /\ SamePlaces
    BY <1>6 DEF TopUpRole, SamePlaces
  <2> HIDE DEF q
  <2>5. QED
    BY <1>2, <2>2, <2>3, <2>4
<1>7. CASE PlaceDriver(r)
  <2>1. req[r] \in Placing /\ Exists(req[r].role) /\ Backed(req[r]) /\ req[r].pc = "place"
    BY <1>0, <1>7, UnderWay DEF PlaceDriver, RolesInv, At
  <2>2. PICK u \in User, x \in Role, c \in Company :
            /\ u = req[r].user /\ x = req[r].role /\ c = req[r].company
            /\ roles[x].company = c
    BY <2>1 DEF Placing, Change, Backed
  <2> DEFINE row == [users[u] EXCEPT !.exists = TRUE, !.company = c, !.role = x]
  <2>3. /\ users' = [users EXCEPT ![u] = row]
        /\ strayed' = strayed \ {u}
        /\ Become(r, Idle)
        /\ UNCHANGED roles
    BY <1>7, <2>2 DEF PlaceDriver, Finish
  <2>4. users[u] \in UserRow
    BY <1>0 DEF TypeOK
  <2>5. row \in UserRow /\ row.company = c /\ row.role = x
    BY <2>4 DEF UserRow
  <2> HIDE DEF row
  <2>6. PICK placed \in UserRow : placed = row
    BY <2>5
  <2>7. users'[u] = placed
    BY <1>0, <2>3, <2>6 DEF TypeOK
  <2>8. roles'[placed.role].company = (RoleOwner(u))'
    BY <2>2, <2>3, <2>5, <2>6, <2>7, NothingAssumption DEF RoleOwner
  <2>9. RolesStayInTheCompany'
    BY <2>3, <2>6, <2>8, OnePlacedStays DEF SameOwners
  <2>10. QED
    BY <2>3, <2>9, MoveBacked, IdleBacked
<1>8. CASE EndSessions(r) \/ EndQuietly(r)
  BY <1>2, <1>8, IdleBacked DEF EndSessions, EndQuietly, Finish, SamePlaces
<1>9. CASE AnnounceCompany(r)
  BY <1>2, <1>9, IdleBacked DEF AnnounceCompany, Finish, SamePlaces
<1>10. CASE Stop(r)
  BY <1>2, <1>10, IdleBacked DEF Stop, Finish, SamePlaces
<1>11. ASSUME NEW x \in Role, FindDriverRole(r, x) PROVE Goal
  <2> DEFINE q == req[r]
             lacking == roles[x].system /\ ~ (DriverKeys \subseteq roles[x].keys)
             next == [q EXCEPT !.pc = IF lacking THEN "topup" ELSE "place", !.role = x,
                          !.keys = IF lacking THEN roles[x].keys \cup DriverKeys ELSE {}]
  <2>1. q \in Driving
    BY <1>0, <1>11, UnderWay DEF FindDriverRole
  <2>2. roles[x].company = q.company /\ Become(r, next) /\ UNCHANGED <<roles, users, strayed>>
    BY <1>11 DEF FindDriverRole, IsDriverRole
  <2> HIDE DEF q, lacking
  <2>3. next.role = x /\ next.company = q.company
    BY <2>1 DEF Driving, Change
  <2> HIDE DEF next
  <2>4. Backed(next)
    BY <2>2, <2>3 DEF Backed
  <2>5. QED
    BY <1>2, <2>2, <2>4 DEF SamePlaces
<1>12. ASSUME NEW x \in Role, CreateDriverRole(r, x) PROVE Goal
  <2> DEFINE q == req[r]
             row == [company |-> q.company, name |-> "Driver", system |-> TRUE,
                     all |-> FALSE, keys |-> DriverKeys]
             next == [q EXCEPT !.pc = "place", !.role = x]
  <2>1. q \in Driving
    BY <1>0, <1>12, UnderWay DEF CreateDriverRole
  <2>2. Unused(x) /\ Put(x, row) /\ Become(r, next) /\ UNCHANGED <<users, strayed>>
    BY <1>12 DEF CreateDriverRole
  <2> HIDE DEF q
  <2>3. row \in RoleRow /\ row.company = q.company
    BY <2>1, CatalogueAssumption DEF Driving, Change, RoleRow, Name
  <2>4. next.role = x /\ next.company = q.company
    BY <2>1 DEF Driving, Change
  <2> HIDE DEF row, next
  <2>5. SameOwners /\ roles'[x] = row /\ \A y \in Role \ {x} : roles'[y] = roles[y]
    BY <1>0, <2>2, <2>3, NewRole DEF Put, TypeOK
  <2>6. req'[r] = next /\ \A s \in Request \ {r} : req'[s] = req[s] /\ req[s].role # x
    BY <1>0, <2>2 DEF Become, Unused, TypeOK
  <2>7. Backed(req[r])'
    BY <2>3, <2>4, <2>5, <2>6 DEF Backed
  <2>8. \A s \in Request \ {r} : Backed(req[s])'
    BY <2>5, <2>6 DEF RolesInv, Backed, Exists
  <2>9. RolesStayInTheCompany'
    BY <2>2, <2>5, SamePlacesStay DEF SamePlaces
  <2>10. QED
    BY <2>7, <2>8, <2>9
<1>13. QED
  BY <1>1, <1>3, <1>4, <1>5, <1>6, <1>7, <1>8, <1>9, <1>10, <1>11, <1>12

LEMMA ChangingPeopleRoles ==
    ASSUME RolesInv, ChangingPeople
    PROVE  (\A s \in Request : Backed(req[s])') /\ RolesStayInTheCompany'
<1> DEFINE Goal == (\A s \in Request : Backed(req[s])') /\ RolesStayInTheCompany'
<1>0. TypeOK
  BY DEF RolesInv
<1>1. PICK r \in Request, u \in User :
          \/ \E p \in Product, K \in SUBSET Key : SetPermission(r, u, p, K)
          \/ \E p \in Product, K \in SUBSET Key, on \in BOOLEAN : SetProductAccess(r, u, p, K, on)
          \/ \E p \in Product : RevokeProductAccess(r, u, p)
          \/ \E x \in Role : AssignRole(r, u, x)
          \/ \E c \in Company : PlanDriver(r, u, c)
  BY DEF ChangingPeople
<1>2. ASSUME UNCHANGED roles, SamePlaces, NEW q, Become(r, q), Backed(q) PROVE Goal
  BY <1>2, MoveBacked, SamePlacesStay DEF SameOwners
<1>3. ASSUME NEW p, NEW K, NEW on
      PROVE  Backed([Idle EXCEPT !.pc = "grant", !.user = u, !.product = p, !.keys = K,
                         !.on = on])
  BY DEF Backed, Idle
<1>4. ASSUME NEW p \in Product, NEW K \in SUBSET Key, SetPermission(r, u, p, K) PROVE Goal
  BY <1>2, <1>3, <1>4 DEF SetPermission, SamePlaces
<1>5. ASSUME NEW p \in Product, NEW K \in SUBSET Key, NEW on \in BOOLEAN,
             SetProductAccess(r, u, p, K, on)
      PROVE  Goal
  BY <1>2, <1>3, <1>5 DEF SetProductAccess, SamePlaces
<1>6. ASSUME NEW p \in Product, RevokeProductAccess(r, u, p) PROVE Goal
  <2>1. SamePlaces
    BY <1>0, <1>6 DEF RevokeProductAccess, SetExtras, SamePlaces, TypeOK, UserRow
  <2>2. QED
    BY <1>2, <1>6, <2>1, EndBacked DEF RevokeProductAccess
<1>7. ASSUME NEW x \in Role, AssignRole(r, u, x) PROVE Goal
  <2>1. Backed([Idle EXCEPT !.pc = "assign", !.user = u, !.role = x,
                    !.company = RoleOwner(u)])
    BY <1>7 DEF AssignRole, Backed, Idle
  <2>2. QED
    BY <1>2, <1>7, <2>1 DEF AssignRole, SamePlaces
<1>8. ASSUME NEW c \in Company, PlanDriver(r, u, c) PROVE Goal
  <2>1. \A new : Backed([Idle EXCEPT !.pc = "driver", !.user = u, !.company = c, !.on = new])
    BY DEF Backed, Idle
  <2>2. QED
    BY <1>2, <1>8, <2>1 DEF PlanDriver, SamePlaces
<1>9. QED
  BY <1>1, <1>4, <1>5, <1>6, <1>7, <1>8

LEMMA SellingRoles ==
    ASSUME RolesInv, Selling
    PROVE  (\A s \in Request : Backed(req[s])') /\ RolesStayInTheCompany'
<1>1. PICK r \in Request, sale \in Sales :
          (\E term \in Term : GrantModule(r, sale, term)) \/ RevokeModule(r, sale)
  BY DEF Selling
<1>2. Become(r, Announce(sale[1])) /\ UNCHANGED <<roles, users, strayed>>
  BY <1>1 DEF GrantModule, RevokeModule
<1>3. QED
  BY <1>2, AnnounceBacked, MoveBacked, SamePlacesStay DEF SameOwners, SamePlaces

LEMMA ChangingRolesRoles ==
    ASSUME RolesInv, ChangingRoles
    PROVE  (\A s \in Request : Backed(req[s])') /\ RolesStayInTheCompany'
<1> DEFINE Goal == (\A s \in Request : Backed(req[s])') /\ RolesStayInTheCompany'
<1>1. PICK x \in Role, p \in Product, K \in SUBSET Key, all \in BOOLEAN, n \in Name :
          \/ \E c \in Company : CreateRole(x, c, p, K, all, n)
          \/ \E r \in Request : EditRole(r, x, p, K, all, n)
  BY DEF ChangingRoles
<1>2. ASSUME NEW c \in Company, CreateRole(x, c, p, K, all, n) PROVE Goal
  <2>1. [company |-> c, name |-> n, system |-> FALSE, all |-> all, keys |-> K] \in RoleRow
    BY DEF RoleRow
  <2>2. QED
    BY <1>2, <2>1, NewRole, SamePlacesStay DEF CreateRole, SamePlaces
<1>3. ASSUME NEW r \in Request, EditRole(r, x, p, K, all, n) PROVE Goal
  <2>1. \A c : Backed([Idle EXCEPT !.pc = "edit", !.company = c, !.role = x,
                           !.product = p, !.keys = K, !.on = all, !.name = n])
    BY DEF Backed, Idle
  <2>2. QED
    BY <1>3, <2>1, MoveBacked, SamePlacesStay DEF EditRole, SameOwners, SamePlaces
<1>4. QED
  BY <1>1, <1>2, <1>3

LEMMA JoiningRoles ==
    ASSUME RolesInv, Joining
    PROVE  (\A s \in Request : Backed(req[s])') /\ RolesStayInTheCompany'
<1> DEFINE Goal == (\A s \in Request : Backed(req[s])') /\ RolesStayInTheCompany'
<1>0. TypeOK
  BY DEF RolesInv
<1>1. PICK u \in User :
          \/ RegisterAlone(u)
          \/ \E c \in Company, x \in Role :
               \/ \E K \in SUBSET Key : RegisterMember(u, c, x, K)
               \/ RegisterTenant(u, c, x)
  BY DEF Joining
<1>2. CASE RegisterAlone(u)
  <2>1. NewUser(NoCompany, NoRole) \in UserRow /\ NewUser(NoCompany, NoRole).role = NoRole
    BY NewUserType DEF NewUser
  <2>2. RolesStayInTheCompany'
    BY <1>2, <2>1, OnePlacedStays DEF RegisterAlone, SameOwners
  <2>3. QED
    BY <1>2, <2>2, SameBacked DEF RegisterAlone
<1>3. ASSUME NEW c \in Company, NEW x \in Role, NEW K \in SUBSET Key,
             RegisterMember(u, c, x, K)
      PROVE  Goal
  <2> DEFINE extra == [state |-> IF K = {} THEN "none" ELSE "on", keys |-> K]
             row == [NewUser(c, x) EXCEPT !.extras[Tms] = extra]
  <2>1. extra \in ExtraRow
    BY DEF ExtraRow
  <2>2. users' = [users EXCEPT ![u] = row]
    BY <1>3 DEF RegisterMember
  <2> HIDE DEF extra
  <2>3. NewUser(c, x) \in UserRow
    BY NewUserType
  <2>4. row \in UserRow /\ row.role = x /\ row.company = c
    BY <2>1, <2>3, CatalogueAssumption DEF UserRow, NewUser
  <2> HIDE DEF row
  <2>5. users'[u] = row
    BY <1>0, <2>2 DEF TypeOK
  <2>6. roles'[row.role].company = (RoleOwner(u))'
    BY <1>3, <2>4, <2>5, NothingAssumption DEF RegisterMember, RoleOwner
  <2>7. RolesStayInTheCompany'
    BY <1>3, <2>2, <2>4, <2>6, OnePlacedStays DEF RegisterMember, SameOwners
  <2>8. QED
    BY <1>3, <2>7, SameBacked DEF RegisterMember
<1>4. ASSUME NEW c \in Company, NEW x \in Role, RegisterTenant(u, c, x) PROVE Goal
  <2> DEFINE first == [company |-> c, name |-> "Other", system |-> TRUE, all |-> TRUE,
                       keys |-> {}]
             row == NewUser(c, x)
  <2>1. /\ Unused(x) /\ Put(x, first) /\ users' = [users EXCEPT ![u] = row]
        /\ UNCHANGED <<req, strayed>>
    BY <1>4 DEF RegisterTenant
  <2>2. first \in RoleRow /\ first.company = c
    BY DEF RoleRow, Name
  <2>3. row \in UserRow /\ row.role = x /\ row.company = c
    BY NewUserType DEF NewUser
  <2> HIDE DEF row, first
  <2>4. SameOwners /\ roles'[x] = first /\ \A s \in Request : Backed(req[s])'
    BY <2>1, <2>2, NewRole
  <2>5. users'[u] = row
    BY <1>0, <2>1 DEF TypeOK
  <2>6. roles'[row.role].company = (RoleOwner(u))'
    BY <2>2, <2>3, <2>4, <2>5, NothingAssumption DEF RoleOwner
  <2>7. RolesStayInTheCompany'
    BY <2>1, <2>3, <2>4, <2>6, OnePlacedStays
  <2>8. QED
    BY <2>4, <2>7
<1>5. QED
  BY <1>1, <1>2, <1>3, <1>4

LEMMA RolesStep == ASSUME RolesInv, [Next]_vars PROVE RolesInv'
<1> DEFINE Goal == (\A s \in Request : Backed(req[s])') /\ RolesStayInTheCompany'
<1>1. TypeOK /\ TypeOK'
  BY NextType DEF RolesInv
<1>2. SUFFICES Goal
  BY <1>1 DEF RolesInv
<1>3. ASSUME UNCHANGED <<roles, users, req, strayed>> PROVE Goal
  BY <1>3, SameBacked, SamePlacesStay DEF SameOwners, SamePlaces
<1>4. CASE Minting
  BY <1>3, <1>4 DEF Minting, ReadUser, CreateSession, StampToken, ReadRole,
                    ReadExtras, Sign, SignWithout, Expire
<1>5. ASSUME NEW x \in Role, DeleteRole(x) PROVE Goal
  <2>1. /\ roles'[x] = [roles[x] EXCEPT !.company = NoCompany]
        /\ \A y \in Role \ {x} : roles'[y] = roles[y]
    BY <1>1, <1>5 DEF DeleteRole, Put, TypeOK
  <2>2. roles'[x].company = NoCompany
    BY <1>1, <2>1 DEF TypeOK, RoleRow
  <2>3. UNCHANGED <<users, req, strayed>> /\ \A u \in User : users[u].role # x
    BY <1>5 DEF DeleteRole, HoldersOf
  <2>4. \A s \in Request : Backed(req[s])'
    BY <2>1, <2>2, <2>3, SameBacked DEF Exists
  <2>5. ASSUME NEW u \in User \ strayed, users[u].role # NoRole
        PROVE  roles'[users[u].role].company = RoleOwner(u)
    BY <1>1, <2>1, <2>3, <2>5, RoleType DEF RolesInv, RolesStayInTheCompany
  <2>6. RolesStayInTheCompany'
    BY <2>3, <2>5 DEF RolesStayInTheCompany, RoleOwner
  <2>7. QED
    BY <2>4, <2>6
<1>6. ASSUME NEW s \in Company, NEW d \in Company, MergeCompanies(s, d) PROVE Goal
  <2>1. /\ \A u \in User : users[u].company # d => users'[u] = users[u]
        /\ strayed' = strayed \cup {u \in User : users[u].company = d}
        /\ UNCHANGED <<roles, req>>
    BY <1>6 DEF MergeCompanies
  <2>2. RolesStayInTheCompany'
    BY <2>1 DEF RolesInv, RolesStayInTheCompany, RoleOwner
  <2>3. QED
    BY <2>1, <2>2, SameBacked
<1>7. CASE DayPasses
  BY <1>3, <1>7 DEF DayPasses
<1>8. CASE UNCHANGED vars
  BY <1>3, <1>8 DEF vars
<1>9. QED
  BY <1>1, <1>4, <1>5, <1>6, <1>7, <1>8, SavingRoles, ChangingPeopleRoles, SellingRoles,
     ChangingRolesRoles, JoiningRoles DEF Next

\* Nobody whom no merge moved and whose assignment met no move holds a role of
\* another company, or one that is gone: the check of an assignment or of an
\* adoption and its write are steps apart, with roles made and deleted and people
\* adopted between them.
THEOREM RolesStay == Spec => []RolesStayInTheCompany
<1>1. Init => RolesInv
  <2> SUFFICES ASSUME Init PROVE RolesInv
    OBVIOUS
  <2>1. \A r \in Request : Backed(req[r])
    BY IdleBacked DEF Init
  <2>2. RolesStayInTheCompany
    BY OpeningAssumption DEF Init, RolesStayInTheCompany, RoleOwner
  <2>3. QED
    BY <2>1, <2>2, InitType DEF RolesInv
<1>2. RolesInv /\ [Next]_vars => RolesInv'
  BY RolesStep
<1>3. RolesInv => RolesStayInTheCompany
  BY DEF RolesInv
<1>4. QED
  BY <1>1, <1>2, <1>3, PTL DEF Spec

-----------------------------------------------------------------------------
(* The keys of other products                                              *)

\* A step keeps a role's keys, or it is a save of their product, or the write of
\* a list that lacks them.
KeysStand == \A x \in Role, k \in Key :
    (k \in roles[x].keys /\ k \notin roles'[x].keys /\ roles'[x].company = roles[x].company)
    => \E r \in Request :
           \/ At(r, "edit") /\ req[r].role = x /\ req[r].product = ProductOf[k]
           \/ At(r, "topup") /\ req[r].role = x /\ k \notin req[r].keys

LEMMA NewRoleKeys ==
    ASSUME TypeOK, NEW x \in Role, Unused(x), NEW c \in Company,
           NEW row \in RoleRow, row.company = c, Put(x, row)
    PROVE  KeysStand
BY NothingAssumption DEF TypeOK, Unused, Exists, Put, KeysStand

LEMMA SavingKeys == ASSUME TypeOK, Saving PROVE KeysStand
<1>1. PICK r \in Request :
          \/ GrantProductAccess(r) \/ SaveRole(r) \/ SaveAssignment(r)
          \/ TopUpRole(r) \/ PlaceDriver(r)
          \/ EndSessions(r) \/ EndQuietly(r) \/ AnnounceCompany(r) \/ Stop(r)
          \/ \E x \in Role : FindDriverRole(r, x) \/ CreateDriverRole(r, x)
  BY DEF Saving
<1>2. CASE UNCHANGED roles
  BY <1>2 DEF KeysStand
<1>3. CASE SaveRole(r)
  <2> DEFINE q == req[r]
             row == [roles[q.role] EXCEPT !.name = q.name, !.all = q.on,
                         !.keys = (@ \ KeysOf(q.product)) \cup q.keys]
  <2>1. q.role \in Role /\ At(r, "edit")
    BY <1>3, UnderWay DEF SaveRole, Editing, Change
  <2>2. Put(q.role, row) \/ UNCHANGED roles
    BY <1>3 DEF SaveRole
  <2>3. row.keys = (roles[q.role].keys \ KeysOf(q.product)) \cup q.keys
    <3> HIDE DEF q
    <3>1. QED
      BY <2>1 DEF TypeOK, RoleRow
  <2> HIDE DEF row
  <2>4. ASSUME Put(q.role, row), NEW x \in Role, NEW k \in Key,
               k \in roles[x].keys, k \notin roles'[x].keys
        PROVE  q.role = x /\ q.product = ProductOf[k]
    <3>1. x = q.role /\ roles'[x] = row
      BY <2>1, <2>4 DEF Put, TypeOK
    <3>2. QED
      BY <2>3, <2>4, <3>1 DEF KeysOf
  <2>5. QED
    BY <1>2, <2>1, <2>2, <2>4 DEF KeysStand
<1>4. CASE TopUpRole(r)
  <2> DEFINE q == req[r]
  <2>1. q.role \in Role /\ At(r, "topup")
    BY <1>4, UnderWay DEF TopUpRole, Placing, Change
  <2>2. Put(q.role, [roles[q.role] EXCEPT !.keys = q.keys])
    BY <1>4 DEF TopUpRole
  <2>3. \A x \in Role : roles'[x].keys # roles[x].keys =>
            x = q.role /\ roles'[x].keys = q.keys
    <3> HIDE DEF q
    <3>1. QED
      BY <2>1, <2>2 DEF Put, TypeOK, RoleRow
  <2>4. QED
    BY <2>1, <2>3 DEF KeysStand
<1>5. ASSUME NEW x \in Role, CreateDriverRole(r, x) PROVE KeysStand
  <2> DEFINE row == [company |-> req[r].company, name |-> "Driver", system |-> TRUE,
                     all |-> FALSE, keys |-> DriverKeys]
  <2>1. req[r].company \in Company
    BY <1>5, UnderWay DEF CreateDriverRole, Driving, Change
  <2>2. row \in RoleRow /\ row.company = req[r].company
    BY <2>1, CatalogueAssumption DEF RoleRow, Name
  <2>3. Unused(x) /\ Put(x, row)
    BY <1>5 DEF CreateDriverRole
  <2> HIDE DEF row
  <2>4. QED
    BY <2>1, <2>2, <2>3, NewRoleKeys
<1>6. QED
  BY <1>1, <1>2, <1>3, <1>4, <1>5
     DEF GrantProductAccess, SaveAssignment, PlaceDriver, EndSessions, EndQuietly,
         AnnounceCompany, Stop, FindDriverRole

LEMMA KeysStep == ASSUME TypeOK, [Next]_vars PROVE KeysStand
<1>1. CASE UNCHANGED roles
  BY <1>1 DEF KeysStand
<1>2. CASE ChangingRoles
  <2>1. PICK x \in Role, p \in Product, K \in SUBSET Key, all \in BOOLEAN, n \in Name :
            \/ \E c \in Company : CreateRole(x, c, p, K, all, n)
            \/ \E r \in Request : EditRole(r, x, p, K, all, n)
    BY <1>2 DEF ChangingRoles
  <2>2. ASSUME NEW c \in Company, CreateRole(x, c, p, K, all, n) PROVE KeysStand
    <3>1. [company |-> c, name |-> n, system |-> FALSE, all |-> all, keys |-> K] \in RoleRow
      BY DEF RoleRow
    <3>2. QED
      BY <2>2, <3>1, NewRoleKeys DEF CreateRole
  <2>3. QED
    BY <1>1, <2>1, <2>2 DEF EditRole
<1>3. ASSUME NEW x \in Role, DeleteRole(x) PROVE KeysStand
  <2>1. \A y \in Role : roles'[y].keys = roles[y].keys
    BY <1>3 DEF DeleteRole, Put, TypeOK, RoleRow
  <2>2. QED
    BY <2>1 DEF KeysStand
<1>4. CASE Joining
  <2>1. \/ UNCHANGED roles
        \/ \E u \in User, c \in Company, x \in Role : RegisterTenant(u, c, x)
    BY <1>4 DEF Joining, RegisterAlone, RegisterMember
  <2>2. ASSUME NEW u \in User, NEW c \in Company, NEW x \in Role, RegisterTenant(u, c, x)
        PROVE  KeysStand
    <3>1. [company |-> c, name |-> "Other", system |-> TRUE, all |-> TRUE, keys |-> {}]
              \in RoleRow
      BY DEF RoleRow, Name
    <3>2. QED
      BY <2>2, <3>1, NewRoleKeys DEF RegisterTenant
  <2>3. QED
    BY <1>1, <2>1, <2>2
<1>5. CASE Saving
  BY <1>5, SavingKeys
<1>6. CASE Minting
  BY <1>1, <1>6 DEF Minting, ReadUser, CreateSession, StampToken, ReadRole,
                    ReadExtras, Sign, SignWithout, Expire
<1>7. CASE ChangingPeople
  <2>1. ASSUME NEW r \in Request, NEW u \in User
        PROVE  /\ \A p, K : SetPermission(r, u, p, K) => UNCHANGED roles
               /\ \A p, K, on : SetProductAccess(r, u, p, K, on) => UNCHANGED roles
               /\ \A p : RevokeProductAccess(r, u, p) => UNCHANGED roles
               /\ \A x : AssignRole(r, u, x) => UNCHANGED roles
               /\ \A c : PlanDriver(r, u, c) => UNCHANGED roles
    BY DEF SetPermission, SetProductAccess, RevokeProductAccess, AssignRole, PlanDriver
  <2>2. QED
    BY <1>1, <1>7, <2>1 DEF ChangingPeople
<1>8. CASE Selling
  BY <1>1, <1>8 DEF Selling, GrantModule, RevokeModule
<1>9. ASSUME NEW s \in Company, NEW d \in Company, MergeCompanies(s, d) PROVE KeysStand
  BY <1>1, <1>9 DEF MergeCompanies
<1>10. CASE DayPasses
  BY <1>1, <1>10 DEF DayPasses
<1>11. CASE UNCHANGED vars
  BY <1>1, <1>11 DEF vars
<1>12. QED
  BY <1>2, <1>3, <1>4, <1>5, <1>6, <1>7, <1>8, <1>9, <1>10, <1>11 DEF Next

\* No save of a role loses a key of a product it was not about, however edits and
\* top-ups of the same role interleave: only a list read before the key was there,
\* written back whole, does.
THEOREM KeysOfOthersStand == Spec => OtherProductsKeysStand
<1>1. TypeOK /\ [Next]_vars => [KeysStand]_vars
  BY KeysStep
<1>2. QED
  BY <1>1, AccessTypeCorrect, PTL DEF Spec, OtherProductsKeysStand, KeysStand

-----------------------------------------------------------------------------
(* Outdated tokens are refused                                             *)

\* Every announcement for the company has been made, every end of the person's
\* sessions too.
Announced(c) == \A r \in Request : ~ (At(r, "announce") /\ req[r].company = c)
Ended(u) == \A r \in Request : ~ (At(r, "end") /\ req[r].user = u)

\* A token that is answerable for what it says: stamped, not refused, not about
\* to be, and nothing has happened that is announced to nobody.
Live(t) == /\ Stamped(t)
           /\ ~tokens[t].refused
           /\ tokens[t].excuse = {}
           /\ Ended(tokens[t].user)

Given(u) == Grant(users[u].role, users[u].extras)

\* What the mint has read of such a token so far is what the rows say now: the
\* role, then the role and the extras, then the keys both and the company's
\* entitlement give, the last up to an announcement that is still to be made.
ReadSoFar(t) ==
    LET u == tokens[t].user  c == tokens[t].company IN
    /\ tokens[t].step = "role" => tokens[t].grant = Grant(users[u].role, NoExtras)
    /\ tokens[t].step = "extras" => tokens[t].grant = Given(u)
    /\ tokens[t].step = "issued" /\ Announced(c) =>
           tokens[t].allows \subseteq Allowed(c, Given(u))

\* A role that is held is there: one made of its id would change what its holders
\* may do, and nobody would hear of it.
HeldRolesExist == \A u \in User : users[u].role # NoRole => Exists(users[u].role)

\* Nobody gets a token before the account is there, whose rows a registration
\* writes without an announcement.
Minted(t) == /\ tokens[t].step # "none" => users[tokens[t].user].exists
             /\ tokens[t].step # "issued" => tokens[t].allows = {}
             /\ Live(t) => ReadSoFar(t)

TokensInv == /\ TypeOK
             /\ HeldRolesExist
             /\ \A t \in Token : Minted(t)

\* What a step leaves alone of what Given reads
RowsKept(u) ==
    LET x == users[u].role IN
    /\ users'[u].role = x
    /\ users'[u].extras = users[u].extras
    /\ x # NoRole => roles'[x].all = roles[x].all /\ roles'[x].keys = roles[x].keys

LEMMA GivenKept ==
    ASSUME NEW u, RowsKept(u)
    PROVE  /\ Given(u)' = Given(u)
           /\ Grant(users[u].role, NoExtras)' = Grant(users[u].role, NoExtras)
BY DEF RowsKept, Given, Grant, NoExtras

\* More entitlement never allows less.
LEMMA AllowedGrows ==
    ASSUME NEW c, NEW g, \A s \in Section : Held(c, s) \subseteq Held(c, s)'
    PROVE  Allowed(c, g) \subseteq Allowed(c, g)'
<1>1. \A p \in Product : /\ Held(c, p) \subseteq Held(c, p)'
                         /\ Active(c, p) \subseteq Active(c, p)'
  BY DEF Section, Active
<1>2. Visible(c, g) \subseteq Visible(c, g)'
  BY <1>1 DEF Visible, KeysOf
<1>3. Visible(c, g) \subseteq Product
  BY DEF Visible
<1>4. QED
  BY <1>1, <1>2, <1>3 DEF Allowed

LEMMA HeldSame ==
    ASSUME UNCHANGED <<modules, day>>, NEW c, NEW s
    PROVE  Held(c, s) \subseteq Held(c, s)'
BY DEF Held, InForce

\* A sweep changes nothing of a token but the two marks.
LEMMA Swept ==
    ASSUME TypeOK, NEW T, Sweeps(T), NEW t \in Token
    PROVE  /\ tokens'[t].step = tokens[t].step
           /\ tokens'[t].user = tokens[t].user
           /\ tokens'[t].allows = tokens[t].allows
           /\ Live(t)' => tokens'[t] = tokens[t]
           /\ Live(t)' => t \notin T
<1>0. tokens[t] \in TokenRow
  BY DEF TypeOK
<1>1. CASE tokens'[t] = tokens[t] /\ ~ (t \in T /\ Stamped(t))
  BY <1>1 DEF Live, Stamped
<1>2. CASE HasSession(t) /\ tokens'[t] = Refused(t)
  <2>1. tokens[t] # NoToken
    BY <1>2 DEF HasSession, Stamped, NoToken
  <2>2. /\ tokens'[t].refused
        /\ tokens'[t].step = tokens[t].step
        /\ tokens'[t].user = tokens[t].user
        /\ tokens'[t].allows = tokens[t].allows
    BY <1>0, <1>2, <2>1 DEF TokenRow, Refused
  <2>3. QED
    BY <2>2 DEF Live
<1>3. ASSUME NEW why \in Why, HasSession(t), tokens'[t] = Excused(t, why)
      PROVE  /\ tokens'[t].step = tokens[t].step
             /\ tokens'[t].user = tokens[t].user
             /\ tokens'[t].allows = tokens[t].allows
             /\ ~Live(t)'
  <2>1. tokens[t] # NoToken
    BY <1>3 DEF HasSession, Stamped, NoToken
  <2>2. /\ tokens'[t].excuse # {}
        /\ tokens'[t].step = tokens[t].step
        /\ tokens'[t].user = tokens[t].user
        /\ tokens'[t].allows = tokens[t].allows
    BY <1>0, <1>3, <2>1 DEF TokenRow, Excused
  <2>3. QED
    BY <2>2 DEF Live
<1>4. CASE T = {} /\ UNCHANGED tokens
  BY <1>1, <1>4
<1>5. QED
  BY <1>1, <1>2, <1>3, <1>4 DEF Sweeps, Marking

\* Every step but those of the mint is a sweep: the tokens it misses are those of
\* people whose rows it leaves alone, or has an end of sessions pending for, and
\* of companies that hold no less than before, or await an announcement.
LEMMA SweepStep ==
    ASSUME TokensInv, NEW T, Sweeps(T),
           \A u \in User : users[u].exists => users'[u].exists,
           \A t \in Token, u \in User, c \in Company \cup {NoCompany} :
               (/\ Stamped(t) /\ t \notin T
                /\ u = tokens[t].user /\ c = tokens[t].company /\ users[u].exists)
               => /\ Ended(u)' => Ended(u) /\ RowsKept(u)
                  /\ Announced(c)' => /\ Announced(c)
                                      /\ \A s \in Section : Held(c, s) \subseteq Held(c, s)'
    PROVE  \A t \in Token : Minted(t)'
<1> SUFFICES ASSUME NEW t \in Token PROVE Minted(t)'
  OBVIOUS
<1>0. TypeOK /\ Minted(t)
  BY DEF TokensInv
<1>1. /\ tokens'[t].step = tokens[t].step
      /\ tokens'[t].user = tokens[t].user
      /\ tokens'[t].allows = tokens[t].allows
      /\ Live(t)' => tokens'[t] = tokens[t]
      /\ Live(t)' => t \notin T
  BY <1>0, Swept
<1>2. tokens[t].step # "none" => tokens[t].user \in User
  BY <1>0, TokenParts
<1>3. ASSUME Live(t)' PROVE ReadSoFar(t)'
  <2>1. tokens'[t] = tokens[t] /\ Stamped(t)
    BY <1>1, <1>3 DEF Live, Stamped
  <2>2. PICK u \in User, c \in Company \cup {NoCompany} :
            u = tokens[t].user /\ c = tokens[t].company
    BY <1>0, <2>1, TokenParts DEF Stamped
  <2>3. users[u].exists
    BY <1>0, <2>1, <2>2 DEF Minted, Stamped
  <2>4. Ended(u)'
    BY <1>3, <2>1, <2>2 DEF Live
  <2>5. /\ Ended(u) /\ RowsKept(u)
        /\ Announced(c)' => /\ Announced(c)
                            /\ \A s \in Section : Held(c, s) \subseteq Held(c, s)'
    BY <1>1, <1>3, <2>1, <2>2, <2>3, <2>4
  <2>6. Live(t)
    BY <1>3, <2>1, <2>2, <2>5 DEF Live
  <2>7. ReadSoFar(t)
    BY <1>0, <2>6 DEF Minted
  <2>8. users'[u].role = users[u].role
    BY <2>5 DEF RowsKept
  <2>9. Given(u)' = Given(u) /\ Grant(users[u].role, NoExtras)' = Grant(users[u].role, NoExtras)
    BY <2>5, GivenKept
  <2>10. Announced(c)' => Allowed(c, Given(u)) \subseteq Allowed(c, Given(u))'
    <3>1. PICK g : g = Given(u)
      OBVIOUS
    <3>2. Announced(c)' => Allowed(c, g) \subseteq Allowed(c, g)'
      BY <2>5, AllowedGrows
    <3>3. QED
      BY <2>9, <3>1, <3>2
  <2>11. QED
    BY <2>1, <2>2, <2>5, <2>7, <2>9, <2>10 DEF ReadSoFar
<1>4. QED
  BY <1>0, <1>1, <1>2, <1>3 DEF Minted

\* A request that has nothing to announce yet announces nothing by moving on; and
\* what it is about to announce is still to be announced.
LEMMA Onward ==
    ASSUME TypeOK, NEW r \in Request, NEW q, Become(r, q)
    PROVE  /\ ~At(r, "end") => \A u : Ended(u)' => Ended(u)
           /\ ~At(r, "announce") => \A c : Announced(c)' => Announced(c)
           /\ \A u : Ended(u)' => Ended(u) \/ (At(r, "end") /\ req[r].user = u)
           /\ \A c : Announced(c)' => Announced(c) \/ (At(r, "announce") /\ req[r].company = c)
<1>1. \A s \in Request \ {r} : req'[s] = req[s]
  BY DEF TypeOK, Become
<1>2. QED
  BY <1>1 DEF Ended, Announced, At

LEMMA EndAhead ==
    ASSUME TypeOK, NEW r \in Request, NEW u, Become(r, End(u))
    PROVE  ~Ended(u)'
<1>1. req'[r] = End(u)
  BY DEF TypeOK, Become
<1>2. QED
  BY <1>1 DEF Ended, At, End, Idle

LEMMA AnnounceAhead ==
    ASSUME TypeOK, NEW r \in Request, NEW c, Become(r, Announce(c))
    PROVE  ~Announced(c)'
<1>1. req'[r] = Announce(c)
  BY DEF TypeOK, Become
<1>2. QED
  BY <1>1 DEF Announced, At, Announce, Idle

LEMMA SameRequests ==
    ASSUME UNCHANGED req
    PROVE  (\A u : Ended(u)' => Ended(u)) /\ (\A c : Announced(c)' => Announced(c))
BY DEF Ended, Announced, At

\* Rows left alone: of everybody when neither table changes, of who does not hold
\* the role that does, of who is not the one that does.
LEMMA RowsSame ==
    ASSUME UNCHANGED <<roles, users>>
    PROVE  \A u : RowsKept(u)
BY DEF RowsKept

LEMMA RowsPut ==
    ASSUME TypeOK, NEW x \in Role, NEW row, Put(x, row), NEW u \in User,
           users'[u] = users[u], users[u].role # x
    PROVE  RowsKept(u)
<1>1. users[u].role # NoRole => users[u].role \in Role
  BY RoleType
<1>2. \A y \in Role \ {x} : roles'[y] = roles[y]
  BY DEF TypeOK, Put
<1>3. QED
  BY <1>1, <1>2 DEF RowsKept

LEMMA RowsOther ==
    ASSUME UNCHANGED roles, NEW u, users'[u] = users[u]
    PROVE  RowsKept(u)
BY DEF RowsKept

\* Held roles stay there when roles that exist go on existing and people get only
\* roles that do.
LEMMA HeldStay ==
    ASSUME TokensInv,
           \A x \in Role : Exists(x) => roles'[x].company # NoCompany,
           \A u \in User : \/ users'[u].role = users[u].role
                           \/ users'[u].role = NoRole
                           \/ roles'[users'[u].role].company # NoCompany
    PROVE  HeldRolesExist'
<1>1. ASSUME NEW u \in User, users'[u].role # NoRole
      PROVE  roles'[users'[u].role].company # NoCompany
  <2>1. CASE users'[u].role = users[u].role
    <3>1. users[u].role \in Role /\ Exists(users[u].role)
      BY <1>1, <2>1, RoleType DEF TokensInv, HeldRolesExist
    <3>2. QED
      BY <2>1, <3>1
  <2>2. QED
    BY <1>1, <2>1
<1>2. QED
  BY <1>1 DEF HeldRolesExist, Exists

\* A step that leaves people, roles and what is held alone, and announces nothing
\* it does not announce to the tokens of T.
LEMMA SameRows ==
    ASSUME TokensInv, UNCHANGED <<modules, day, roles, users>>, NEW T, Sweeps(T),
           \A t \in Token, u \in User, c \in Company \cup {NoCompany} :
               (Stamped(t) /\ t \notin T
                /\ u = tokens[t].user /\ c = tokens[t].company)
               => (Ended(u)' => Ended(u)) /\ (Announced(c)' => Announced(c))
    PROVE  HeldRolesExist' /\ \A t \in Token : Minted(t)'
<1>1. \A u \in User : RowsKept(u)
  BY RowsSame
<1>2. \A c, s : Held(c, s) \subseteq Held(c, s)'
  BY HeldSame
<1>3. \A t \in Token : Minted(t)'
  BY <1>1, <1>2, SweepStep
<1>4. HeldRolesExist'
  BY DEF TokensInv, HeldRolesExist, Exists
<1>5. QED
  BY <1>3, <1>4

\* Those that end a change: the announcement, or its failure.
LEMMA EndingTokens ==
    ASSUME TokensInv, NEW r \in Request,
           EndSessions(r) \/ EndQuietly(r) \/ AnnounceCompany(r) \/ Stop(r)
    PROVE  HeldRolesExist' /\ \A t \in Token : Minted(t)'
<1>0. TypeOK
  BY DEF TokensInv
<1>1. Become(r, Idle) /\ UNCHANGED <<modules, day, roles, users>>
  BY DEF EndSessions, EndQuietly, AnnounceCompany, Stop, Finish
<1>2. /\ \A u : Ended(u)' => Ended(u) \/ (At(r, "end") /\ req[r].user = u)
      /\ \A c : Announced(c)' => Announced(c) \/ (At(r, "announce") /\ req[r].company = c)
      /\ ~At(r, "end") => \A u : Ended(u)' => Ended(u)
      /\ ~At(r, "announce") => \A c : Announced(c)' => Announced(c)
  BY <1>0, <1>1, Onward
<1>3. CASE At(r, "end")
  <2>1. ~At(r, "announce")
    BY <1>3 DEF At
  <2> DEFINE T == TokensOf(req[r].user)
  <2>2. Sweeps(T)
    BY <1>3, <2>1, EndSweeps, ExcuseSweeps, WhyParts DEF AnnounceCompany, Stop, At
  <2>3. \A t \in Token : \A u : t \notin T /\ u = tokens[t].user => u # req[r].user
    BY DEF TokensOf
  <2> HIDE DEF T
  <2>4. QED
    BY <1>1, <1>2, <2>1, <2>2, <2>3, SameRows
<1>4. CASE At(r, "announce")
  <2>1. ~At(r, "end")
    BY <1>4 DEF At
  <2> DEFINE T == TokensAt(req[r].company)
  <2>2. Sweeps(T)
    BY <1>4, <2>1, AnnounceSweeps, ExcuseSweeps, WhyParts
       DEF EndSessions, EndQuietly, Stop, At
  <2>3. \A t \in Token : \A c : t \notin T /\ c = tokens[t].company => c # req[r].company
    BY DEF TokensAt
  <2> HIDE DEF T
  <2>4. QED
    BY <1>1, <1>2, <2>1, <2>2, <2>3, SameRows
<1>5. CASE ~At(r, "end") /\ ~At(r, "announce")
  <2>1. Sweeps({})
    BY <1>5 DEF EndSessions, EndQuietly, AnnounceCompany, Stop, Sweeps, At
  <2>2. QED
    BY <1>1, <1>2, <1>5, <2>1, SameRows
<1>6. QED
  BY <1>3, <1>4, <1>5

\* A role is rewritten where it exists: those who hold it are excused.
LEMMA RewriteTokens ==
    ASSUME TokensInv, NEW r \in Request, NEW q, Become(r, q), ~At(r, "end"), ~At(r, "announce"),
           NEW x \in Role, NEW row, Put(x, row), row.company = roles[x].company,
           Excuse(UNION {TokensOf(u) : u \in HoldersOf(x)}, "role edit"),
           UNCHANGED <<modules, day, users>>
    PROVE  HeldRolesExist' /\ \A t \in Token : Minted(t)'
<1> DEFINE T == UNION {TokensOf(u) : u \in HoldersOf(x)}
<1>0. TypeOK
  BY DEF TokensInv
<1>1. (\A u : Ended(u)' => Ended(u)) /\ (\A c : Announced(c)' => Announced(c))
  BY <1>0, Onward
<1>2. \A t \in Token, u \in User : t \notin T /\ u = tokens[t].user => users[u].role # x
  <2>1. \A u \in User : users[u].role = x => TokensOf(u) \subseteq T
    BY DEF HoldersOf
  <2>2. QED
    BY <2>1 DEF TokensOf
<1>3. \A u \in User : users[u].role # x => RowsKept(u)
  BY <1>0, RowsPut
<1>4. \A c, s : Held(c, s) \subseteq Held(c, s)'
  BY HeldSame
<1>5. Sweeps(T)
  BY ExcuseSweeps, WhyParts
<1>6. HeldRolesExist'
  <2>1. \A y \in Role : roles'[y].company = roles[y].company
    BY <1>0 DEF Put, TypeOK
  <2>2. QED
    BY <2>1, HeldStay DEF Exists
<1> HIDE DEF T
<1>7. QED
  BY <1>1, <1>2, <1>3, <1>4, <1>5, <1>6, SweepStep

\* A role is made of an unused id: nobody holds it.
LEMMA NewRoleTokens ==
    ASSUME TokensInv, NEW x \in Role, ~Exists(x), NEW row, Put(x, row), row.company # NoCompany,
           UNCHANGED <<modules, day, users, tokens>>,
           (\A u : Ended(u)' => Ended(u)) /\ (\A c : Announced(c)' => Announced(c))
    PROVE  HeldRolesExist' /\ \A t \in Token : Minted(t)'
<1>0. TypeOK
  BY DEF TokensInv
<1>1. ASSUME NEW u \in User PROVE users[u].role # x
  BY <1>0, NothingAssumption DEF TokensInv, HeldRolesExist
<1>2. \A u \in User : RowsKept(u)
  BY <1>0, <1>1, RowsPut
<1>3. \A c, s : Held(c, s) \subseteq Held(c, s)'
  BY HeldSame
<1>4. HeldRolesExist'
  <2>1. roles'[x] = row /\ \A y \in Role \ {x} : roles'[y] = roles[y]
    BY <1>0 DEF Put, TypeOK
  <2>2. \A y \in Role : Exists(y) => roles'[y].company # NoCompany
    BY <2>1 DEF Exists
  <2>3. QED
    BY <2>2, HeldStay
<1>5. Sweeps({})
  BY DEF Sweeps
<1>6. QED
  BY <1>2, <1>3, <1>4, <1>5, SweepStep

\* Somebody's row changes and the end of their sessions is ahead.
LEMMA EndAheadTokens ==
    ASSUME TokensInv, NEW r \in Request, NEW u \in User, Become(r, End(u)),
           ~At(r, "end"), ~At(r, "announce"),
           NEW row, users' = [users EXCEPT ![u] = row],
           row.exists = users[u].exists,
           \/ row.role = users[u].role
           \/ row.role = NoRole
           \/ roles[row.role].company # NoCompany,
           UNCHANGED <<modules, day, roles, tokens>>
    PROVE  HeldRolesExist' /\ \A t \in Token : Minted(t)'
<1>0. TypeOK
  BY DEF TokensInv
<1>1. users'[u] = row /\ \A v \in User \ {u} : users'[v] = users[v]
  BY <1>0 DEF TypeOK
<1>2. /\ \A v : Ended(v)' => Ended(v)
      /\ \A c : Announced(c)' => Announced(c)
      /\ ~Ended(u)'
  BY <1>0, Onward, EndAhead
<1>3. \A v \in User \ {u} : RowsKept(v)
  BY <1>1, RowsOther
<1>4. \A c, s : Held(c, s) \subseteq Held(c, s)'
  BY HeldSame
<1>5. HeldRolesExist'
  <2>1. \A x \in Role : Exists(x) => roles'[x].company # NoCompany
    BY DEF Exists
  <2>2. QED
    BY <1>1, <2>1, HeldStay
<1>6. Sweeps({})
  BY DEF Sweeps
<1>7. \A v \in User : users[v].exists => users'[v].exists
  BY <1>1
<1>8. QED
  BY <1>2, <1>3, <1>4, <1>5, <1>6, <1>7, SweepStep

LEMMA SavingTokens ==
    ASSUME TokensInv, Saving
    PROVE  HeldRolesExist' /\ \A t \in Token : Minted(t)'
<1> DEFINE Goal == HeldRolesExist' /\ \A t \in Token : Minted(t)'
<1>0. TypeOK
  BY DEF TokensInv
<1>1. PICK r \in Request :
          \/ GrantProductAccess(r) \/ SaveRole(r) \/ SaveAssignment(r)
          \/ TopUpRole(r) \/ PlaceDriver(r)
          \/ EndSessions(r) \/ EndQuietly(r) \/ AnnounceCompany(r) \/ Stop(r)
          \/ \E x \in Role : FindDriverRole(r, x) \/ CreateDriverRole(r, x)
  BY DEF Saving
<1>2. CASE EndSessions(r) \/ EndQuietly(r) \/ AnnounceCompany(r) \/ Stop(r)
  BY <1>2, EndingTokens
<1>3. ASSUME NEW q, Become(r, q), ~At(r, "end"), ~At(r, "announce"),
             UNCHANGED <<modules, day, roles, users, tokens>>
      PROVE  Goal
  <2>1. Sweeps({})
    BY <1>3 DEF Sweeps
  <2>2. QED
    BY <1>0, <1>3, <2>1, Onward, SameRows
<1>4. CASE GrantProductAccess(r)
  <2>1. PICK u \in User, p \in Product : u = req[r].user /\ p = req[r].product
    BY <1>0, <1>4, UnderWay DEF GrantProductAccess, Extending, Change
  <2> DEFINE extra == [state |-> IF req[r].on THEN "on" ELSE "off", keys |-> req[r].keys]
             row == [users[u] EXCEPT !.extras[p] = extra]
  <2>2. users' = [users EXCEPT ![u] = row]
    BY <1>4, <2>1 DEF GrantProductAccess, SetExtras
  <2>3. users[u] \in UserRow
    BY <1>0 DEF TypeOK
  <2>4. row.exists = users[u].exists /\ row.role = users[u].role
    BY <2>3 DEF UserRow
  <2> HIDE DEF row
  <2>5. /\ Become(r, End(u)) /\ ~At(r, "end") /\ ~At(r, "announce")
        /\ UNCHANGED <<modules, day, roles, tokens>>
    BY <1>4, <2>1 DEF GrantProductAccess, At
  <2>6. QED
    BY <2>2, <2>4, <2>5, EndAheadTokens
<1>5. CASE SaveRole(r)
  <2>1. ~At(r, "end") /\ ~At(r, "announce") /\ Become(r, Idle) /\ UNCHANGED <<modules, day, users>>
    BY <1>5 DEF SaveRole, At, Finish
  <2>2. CASE Exists(req[r].role) /\ NameFree(req[r].company, req[r].role, req[r].name)
    <3> DEFINE q == req[r]
               row == [roles[q.role] EXCEPT !.name = q.name, !.all = q.on,
                           !.keys = (@ \ KeysOf(q.product)) \cup q.keys]
    <3>1. q.role \in Role
      BY <1>0, <1>5, UnderWay DEF SaveRole, Editing, Change
    <3>2. PICK x \in Role : x = q.role
      BY <3>1
    <3>3. Put(x, row) /\ Excuse(UNION {TokensOf(u) : u \in HoldersOf(x)}, "role edit")
      BY <1>5, <2>2, <3>2 DEF SaveRole
    <3> HIDE DEF q
    <3>4. row.company = roles[x].company
      BY <1>0, <3>1, <3>2 DEF TypeOK, RoleRow
    <3> HIDE DEF row
    <3>5. QED
      BY <2>1, <3>3, <3>4, RewriteTokens
  <2>3. CASE ~ (Exists(req[r].role) /\ NameFree(req[r].company, req[r].role, req[r].name))
    <3>1. UNCHANGED <<roles, tokens>>
      BY <1>5, <2>3 DEF SaveRole
    <3>2. QED
      BY <1>3, <2>1, <3>1
  <2>4. QED
    BY <2>2, <2>3
<1>6. CASE SaveAssignment(r)
  <2>1. PICK u \in User, x \in Role : u = req[r].user /\ x = req[r].role
    BY <1>0, <1>6, UnderWay DEF SaveAssignment, Assigning, Change
  <2>2. ~At(r, "end") /\ ~At(r, "announce") /\ UNCHANGED <<modules, day, roles, tokens>>
    BY <1>6 DEF SaveAssignment, At
  <2>3. CASE Exists(x)
    <3> DEFINE row == [users[u] EXCEPT !.role = x]
    <3>1. users' = [users EXCEPT ![u] = row] /\ Become(r, End(u))
      BY <1>6, <2>1, <2>3 DEF SaveAssignment
    <3>2. users[u] \in UserRow
      BY <1>0 DEF TypeOK
    <3>3. row.exists = users[u].exists /\ row.role = x
      BY <3>2 DEF UserRow
    <3> HIDE DEF row
    <3>4. QED
      BY <2>2, <2>3, <3>1, <3>3, EndAheadTokens DEF Exists
  <2>4. CASE ~Exists(x)
    <3>1. Become(r, Idle) /\ UNCHANGED users
      BY <1>6, <2>1, <2>4 DEF SaveAssignment, Finish
    <3>2. QED
      BY <1>3, <2>2, <3>1
  <2>5. QED
    BY <2>3, <2>4
<1>7. CASE TopUpRole(r)
  <2>1. PICK x \in Role : x = req[r].role
    BY <1>0, <1>7, UnderWay DEF TopUpRole, Placing, Change
  <2> DEFINE row == [roles[x] EXCEPT !.keys = req[r].keys]
  <2>2. /\ Put(x, row)
        /\ Excuse(UNION {TokensOf(u) : u \in HoldersOf(x)}, "role edit")
        /\ Become(r, [req[r] EXCEPT !.pc = "place", !.keys = {}])
        /\ UNCHANGED <<modules, day, users>>
    BY <1>7, <2>1 DEF TopUpRole
  <2>3. ~At(r, "end") /\ ~At(r, "announce")
    BY <1>7 DEF TopUpRole, At
  <2>4. row.company = roles[x].company
    BY <1>0 DEF TypeOK, RoleRow
  <2> HIDE DEF row
  <2>5. QED
    BY <2>2, <2>3, <2>4, RewriteTokens
<1>8. CASE PlaceDriver(r)
  <2>1. PICK u \in User, x \in Role, c \in Company :
            u = req[r].user /\ x = req[r].role /\ c = req[r].company
    BY <1>0, <1>8, UnderWay DEF PlaceDriver, Placing, Change
  <2> DEFINE row == [users[u] EXCEPT !.exists = TRUE, !.company = c, !.role = x]
  <2>2. /\ users' = [users EXCEPT ![u] = row]
        /\ Excuse(TokensOf(u), "unannounced")
        /\ Become(r, Idle)
        /\ UNCHANGED <<modules, day, roles>>
        /\ Exists(x) /\ ~At(r, "end") /\ ~At(r, "announce")
    BY <1>8, <2>1 DEF PlaceDriver, Finish, At
  <2>3. users[u] \in UserRow
    BY <1>0 DEF TypeOK
  <2>4. row.exists /\ row.role = x
    BY <2>3 DEF UserRow
  <2> HIDE DEF row
  <2>5. users'[u] = row /\ \A v \in User \ {u} : users'[v] = users[v]
    BY <1>0, <2>2 DEF TypeOK
  <2>6. HeldRolesExist'
    <3>1. \A y \in Role : Exists(y) => roles'[y].company # NoCompany
      BY <2>2 DEF Exists
    <3>2. roles'[x].company # NoCompany
      BY <2>2 DEF Exists
    <3>3. QED
      BY <2>4, <2>5, <3>1, <3>2, HeldStay
  <2>7. Sweeps(TokensOf(u))
    BY <2>2, ExcuseSweeps, WhyParts
  <2>8. \A t \in Token, v \in User : t \notin TokensOf(u) /\ v = tokens[t].user => RowsKept(v)
    <3>1. \A v \in User \ {u} : RowsKept(v)
      BY <2>2, <2>5, RowsOther
    <3>2. QED
      BY <3>1 DEF TokensOf
  <2>9. (\A v : Ended(v)' => Ended(v)) /\ (\A d : Announced(d)' => Announced(d))
    BY <1>0, <2>2, Onward
  <2>10. \A d, s : Held(d, s) \subseteq Held(d, s)'
    BY <2>2, HeldSame
  <2>11. \A v \in User : users[v].exists => users'[v].exists
    BY <2>4, <2>5
  <2>12. QED
    BY <2>6, <2>7, <2>8, <2>9, <2>10, <2>11, SweepStep
<1>9. ASSUME NEW x \in Role, FindDriverRole(r, x) PROVE Goal
  BY <1>3, <1>9 DEF FindDriverRole, At
<1>10. ASSUME NEW x \in Role, CreateDriverRole(r, x) PROVE Goal
  <2> DEFINE row == [company |-> req[r].company, name |-> "Driver", system |-> TRUE,
                     all |-> FALSE, keys |-> DriverKeys]
  <2>1. req[r].company \in Company
    BY <1>0, <1>10, UnderWay DEF CreateDriverRole, Driving, Change
  <2>2. /\ Put(x, row) /\ ~Exists(x) /\ UNCHANGED <<modules, day, users, tokens>>
        /\ Become(r, [req[r] EXCEPT !.pc = "place", !.role = x])
        /\ ~At(r, "end") /\ ~At(r, "announce")
    BY <1>10 DEF CreateDriverRole, Unused, At
  <2>3. row.company # NoCompany
    BY <2>1, NothingAssumption
  <2> HIDE DEF row
  <2>4. (\A u : Ended(u)' => Ended(u)) /\ (\A c : Announced(c)' => Announced(c))
    BY <1>0, <2>2, Onward
  <2>5. QED
    BY <2>2, <2>3, <2>4, NewRoleTokens
<1>11. QED
  BY <1>1, <1>2, <1>4, <1>5, <1>6, <1>7, <1>8, <1>9, <1>10

\* A request takes up a change and has written nothing yet.
LEMMA AskingTokens ==
    ASSUME TokensInv, NEW r \in Request, NEW q, Become(r, q), At(r, "idle"),
           UNCHANGED <<modules, day, roles, users, tokens>>
    PROVE  HeldRolesExist' /\ \A t \in Token : Minted(t)'
<1>1. ~At(r, "end") /\ ~At(r, "announce")
  BY DEF At
<1>2. Sweeps({})
  BY DEF Sweeps
<1>3. QED
  BY <1>1, <1>2, Onward, SameRows DEF TokensInv

LEMMA ChangingPeopleTokens ==
    ASSUME TokensInv, ChangingPeople
    PROVE  HeldRolesExist' /\ \A t \in Token : Minted(t)'
<1> DEFINE Goal == HeldRolesExist' /\ \A t \in Token : Minted(t)'
<1>1. PICK r \in Request, u \in User :
          \/ \E p \in Product, K \in SUBSET Key : SetPermission(r, u, p, K)
          \/ \E p \in Product, K \in SUBSET Key, on \in BOOLEAN : SetProductAccess(r, u, p, K, on)
          \/ \E p \in Product : RevokeProductAccess(r, u, p)
          \/ \E x \in Role : AssignRole(r, u, x)
          \/ \E c \in Company : PlanDriver(r, u, c)
  BY DEF ChangingPeople
<1>2. ASSUME NEW p \in Product, NEW K \in SUBSET Key, SetPermission(r, u, p, K) PROVE Goal
  BY <1>2, AskingTokens DEF SetPermission
<1>3. ASSUME NEW p \in Product, NEW K \in SUBSET Key, NEW on \in BOOLEAN,
             SetProductAccess(r, u, p, K, on)
      PROVE  Goal
  BY <1>3, AskingTokens DEF SetProductAccess
<1>4. ASSUME NEW p \in Product, RevokeProductAccess(r, u, p) PROVE Goal
  <2> DEFINE extra == [state |-> "off", keys |-> users[u].extras[p].keys]
             row == [users[u] EXCEPT !.extras[p] = extra]
  <2>1. users' = [users EXCEPT ![u] = row]
    BY <1>4 DEF RevokeProductAccess, SetExtras
  <2>2. users[u] \in UserRow
    BY DEF TokensInv, TypeOK
  <2>3. row.exists = users[u].exists /\ row.role = users[u].role
    BY <2>2 DEF UserRow
  <2> HIDE DEF row
  <2>4. /\ Become(r, End(u)) /\ ~At(r, "end") /\ ~At(r, "announce")
        /\ UNCHANGED <<modules, day, roles, tokens>>
    BY <1>4 DEF RevokeProductAccess, At
  <2>5. QED
    BY <2>1, <2>3, <2>4, EndAheadTokens
<1>5. ASSUME NEW x \in Role, AssignRole(r, u, x) PROVE Goal
  BY <1>5, AskingTokens DEF AssignRole
<1>6. ASSUME NEW c \in Company, PlanDriver(r, u, c) PROVE Goal
  BY <1>6, AskingTokens DEF PlanDriver
<1>7. QED
  BY <1>1, <1>2, <1>3, <1>4, <1>5, <1>6

\* The company whose entitlement is written has the announcement ahead; the others
\* hold what they held.
LEMMA SellingTokens ==
    ASSUME TokensInv, Selling
    PROVE  HeldRolesExist' /\ \A t \in Token : Minted(t)'
<1>0. TypeOK
  BY DEF TokensInv
<1>1. PICK r \in Request, sale \in Sales :
          (\E term \in Term : GrantModule(r, sale, term)) \/ RevokeModule(r, sale)
  BY DEF Selling
<1>2. PICK c : c = sale[1]
  OBVIOUS
<1>3. /\ Become(r, Announce(c)) /\ ~At(r, "end") /\ ~At(r, "announce")
      /\ UNCHANGED <<day, roles, users, tokens>>
  BY <1>1, <1>2 DEF GrantModule, RevokeModule, At
<1>4. \A d \in Company \ {c} : modules'[d] = modules[d]
  BY <1>0, <1>1, <1>2 DEF GrantModule, RevokeModule, TypeOK
<1>5. \A d \in (Company \cup {NoCompany}) \ {c}, s \in Section : Held(d, s) \subseteq Held(d, s)'
  BY <1>3, <1>4 DEF Held, InForce
<1>6. /\ \A u : Ended(u)' => Ended(u)
      /\ \A d : Announced(d)' => Announced(d)
      /\ ~Announced(c)'
  BY <1>0, <1>3, Onward, AnnounceAhead
<1>7. \A u \in User : RowsKept(u)
  BY <1>3, RowsSame
<1>8. HeldRolesExist'
  BY <1>3 DEF TokensInv, HeldRolesExist, Exists
<1>9. Sweeps({})
  BY <1>3 DEF Sweeps
<1>10. \A t \in Token, u \in User, d \in Company \cup {NoCompany} :
           (/\ Stamped(t) /\ t \notin {}
            /\ u = tokens[t].user /\ d = tokens[t].company /\ users[u].exists)
           => /\ Ended(u)' => Ended(u) /\ RowsKept(u)
              /\ Announced(d)' => /\ Announced(d)
                                  /\ \A s \in Section : Held(d, s) \subseteq Held(d, s)'
  BY <1>5, <1>6, <1>7
<1>11. \A u \in User : users[u].exists => users'[u].exists
  BY <1>3
<1>12. QED
  BY <1>8, <1>9, <1>10, <1>11, SweepStep

LEMMA ChangingRolesTokens ==
    ASSUME TokensInv, ChangingRoles
    PROVE  HeldRolesExist' /\ \A t \in Token : Minted(t)'
<1>1. PICK x \in Role, p \in Product, K \in SUBSET Key, all \in BOOLEAN, n \in Name :
          \/ \E c \in Company : CreateRole(x, c, p, K, all, n)
          \/ \E r \in Request : EditRole(r, x, p, K, all, n)
  BY DEF ChangingRoles
<1>2. ASSUME NEW c \in Company, CreateRole(x, c, p, K, all, n)
      PROVE  HeldRolesExist' /\ \A t \in Token : Minted(t)'
  <2> DEFINE row == [company |-> c, name |-> n, system |-> FALSE, all |-> all, keys |-> K]
  <2>1. /\ Put(x, row) /\ ~Exists(x) /\ row.company # NoCompany
        /\ UNCHANGED <<modules, day, users, tokens, req>>
    BY <1>2, NothingAssumption DEF CreateRole, Unused
  <2> HIDE DEF row
  <2>2. QED
    BY <2>1, SameRequests, NewRoleTokens
<1>3. ASSUME NEW r \in Request, EditRole(r, x, p, K, all, n)
      PROVE  HeldRolesExist' /\ \A t \in Token : Minted(t)'
  BY <1>3, AskingTokens DEF EditRole
<1>4. QED
  BY <1>1, <1>2, <1>3

\* Somebody registers: there are no tokens of theirs, and what their company holds
\* only grows.
LEMMA RegisteringTokens ==
    ASSUME TokensInv, NEW u \in User, ~users[u].exists,
           NEW row, users' = [users EXCEPT ![u] = row], row.exists,
           row.role = NoRole \/ roles'[row.role].company # NoCompany,
           \A x \in Role : Exists(x) => roles'[x] = roles[x],
           \A c \in Company \cup {NoCompany}, s \in Section : Held(c, s) \subseteq Held(c, s)',
           UNCHANGED <<tokens, req>>
    PROVE  HeldRolesExist' /\ \A t \in Token : Minted(t)'
<1>0. TypeOK
  BY DEF TokensInv
<1>1. users'[u] = row /\ \A v \in User \ {u} : users'[v] = users[v]
  BY <1>0 DEF TypeOK
<1>2. \A v \in User \ {u} : RowsKept(v)
  <2>1. ASSUME NEW v \in User \ {u}, users[v].role # NoRole
        PROVE  roles'[users[v].role] = roles[users[v].role]
    BY <1>0, <2>1, RoleType DEF TokensInv, HeldRolesExist
  <2>2. QED
    BY <1>1, <2>1 DEF RowsKept
<1>3. HeldRolesExist'
  <2>1. \A x \in Role : Exists(x) => roles'[x].company # NoCompany
    BY DEF Exists
  <2>2. QED
    BY <1>1, <2>1, HeldStay
<1>4. (\A v : Ended(v)' => Ended(v)) /\ (\A c : Announced(c)' => Announced(c))
  BY SameRequests
<1>5. Sweeps({})
  BY DEF Sweeps
<1>6. \A v \in User : users[v].exists => users'[v].exists
  BY <1>1
<1>7. \A v \in User : users[v].exists => RowsKept(v)
  BY <1>2
<1>8. QED
  BY <1>3, <1>4, <1>5, <1>6, <1>7, SweepStep

LEMMA JoiningTokens ==
    ASSUME TokensInv, Joining
    PROVE  HeldRolesExist' /\ \A t \in Token : Minted(t)'
<1> DEFINE Goal == HeldRolesExist' /\ \A t \in Token : Minted(t)'
<1>0. TypeOK
  BY DEF TokensInv
<1>1. PICK u \in User :
          \/ RegisterAlone(u)
          \/ \E c \in Company, x \in Role :
               \/ \E K \in SUBSET Key : RegisterMember(u, c, x, K)
               \/ RegisterTenant(u, c, x)
  BY DEF Joining
<1>2. CASE RegisterAlone(u)
  <2> DEFINE row == NewUser(NoCompany, NoRole)
  <2>1. /\ users' = [users EXCEPT ![u] = row] /\ ~users[u].exists
        /\ UNCHANGED <<modules, day, roles, tokens, req>>
    BY <1>2 DEF RegisterAlone
  <2>2. row.exists /\ row.role = NoRole
    BY DEF NewUser
  <2> HIDE DEF row
  <2>3. \A c, s : Held(c, s) \subseteq Held(c, s)'
    BY <2>1, HeldSame
  <2>4. QED
    BY <2>1, <2>2, <2>3, RegisteringTokens
<1>3. ASSUME NEW c \in Company, NEW x \in Role, NEW K \in SUBSET Key, RegisterMember(u, c, x, K)
      PROVE  Goal
  <2> DEFINE extra == [state |-> IF K = {} THEN "none" ELSE "on", keys |-> K]
             row == [NewUser(c, x) EXCEPT !.extras[Tms] = extra]
  <2>1. /\ users' = [users EXCEPT ![u] = row] /\ ~users[u].exists /\ roles[x].company = c
        /\ UNCHANGED <<modules, day, roles, tokens, req>>
    BY <1>3 DEF RegisterMember
  <2>2. row.exists /\ row.role = x
    BY DEF NewUser
  <2> HIDE DEF row
  <2>3. \A d, s : Held(d, s) \subseteq Held(d, s)'
    BY <2>1, HeldSame
  <2>4. roles'[row.role].company # NoCompany
    BY <2>1, <2>2, NothingAssumption
  <2>5. QED
    BY <2>1, <2>2, <2>3, <2>4, RegisteringTokens
<1>4. ASSUME NEW c \in Company, NEW x \in Role, RegisterTenant(u, c, x) PROVE Goal
  <2> DEFINE row == NewUser(c, x)
             first == [company |-> c, name |-> "Other", system |-> TRUE, all |-> TRUE,
                       keys |-> {}]
             held == [o \in Offer |->
                 IF o \in Defaults /\ modules[c][o].state = "none"
                 THEN [state |-> "on", term |-> Always] ELSE modules[c][o]]
  <2>1. /\ users' = [users EXCEPT ![u] = row] /\ ~users[u].exists
        /\ ~Exists(x) /\ Put(x, first)
        /\ modules' = [modules EXCEPT ![c] = held]
        /\ UNCHANGED <<day, tokens, req>>
    BY <1>4 DEF RegisterTenant, Unused
  <2>2. row.exists /\ row.role = x
    BY DEF NewUser
  <2>3. first.company # NoCompany
    BY NothingAssumption
  <2> HIDE DEF row, first
  <2>4. roles'[x] = first /\ \A y \in Role : Exists(y) => roles'[y] = roles[y]
    BY <1>0, <2>1 DEF Put, TypeOK
  <2>5. ASSUME NEW s \in Section PROVE Held(c, s) \subseteq Held(c, s)'
    <3>1. modules'[c] = held /\ c # NoCompany
      BY <1>0, <2>1, NothingAssumption DEF TypeOK
    <3>2. \A f \in Sellable[s] : <<s, f>> \in Offer
      <4>1. Sellable[s] \subseteq Module
        BY CatalogueAssumption
      <4>2. QED
        BY <4>1 DEF Offer
    <3>3. ASSUME NEW f \in Sellable[s]
          PROVE  \/ modules'[c][<<s, f>>] = modules[c][<<s, f>>]
                 \/ /\ modules[c][<<s, f>>].state = "none"
                    /\ modules'[c][<<s, f>>] = [state |-> "on", term |-> Always]
      BY <3>1, <3>2
    <3> HIDE DEF held
    <3>4. \A f \in Sellable[s] :
              /\ InForce(modules[c][<<s, f>>]) /\ modules[c][<<s, f>>].state = "on"
                 => InForce(modules[c][<<s, f>>])' /\ modules'[c][<<s, f>>].state = "on"
              /\ InForce(modules[c][<<s, f>>])' /\ modules'[c][<<s, f>>].state = "off"
                 => InForce(modules[c][<<s, f>>]) /\ modules[c][<<s, f>>].state = "off"
      BY <2>1, <3>3 DEF InForce
    <3>5. QED
      BY <3>1, <3>4 DEF Held
  <2>6. \A d \in (Company \cup {NoCompany}) \ {c}, s \in Section : Held(d, s) \subseteq Held(d, s)'
    <3>1. \A d \in Company \ {c} : modules'[d] = modules[d]
      BY <1>0, <2>1 DEF TypeOK
    <3>2. QED
      BY <2>1, <3>1 DEF Held, InForce
  <2>7. QED
    BY <2>1, <2>2, <2>3, <2>4, <2>5, <2>6, RegisteringTokens
<1>5. QED
  BY <1>1, <1>2, <1>3, <1>4

\* The step of the mint of one token: the other tokens and every row stay.
LEMMA MintTokens ==
    ASSUME TokensInv, NEW t \in Token, NEW row, Mint(t, row), Minted(t)',
           UNCHANGED <<modules, day, roles, users, req>>
    PROVE  HeldRolesExist' /\ \A y \in Token : Minted(y)'
<1>1. \A y \in Token \ {t} : tokens'[y] = tokens[y]
  BY DEF TokensInv, TypeOK, Mint
<1>2. \A c, g : Allowed(c, g)' = Allowed(c, g)
  BY DEF Allowed, Visible, Active, Held, InForce, KeysOf
<1>3. \A x, e : Grant(x, e)' = Grant(x, e)
  BY DEF Grant
<1>4. ASSUME NEW y \in Token \ {t} PROVE Minted(y)'
  <2>1. Minted(y) /\ tokens'[y] = tokens[y]
    BY <1>1 DEF TokensInv
  <2>2. Live(y)' <=> Live(y)
    BY <2>1 DEF Live, Stamped, Ended, At
  <2>3. ReadSoFar(y)' <=> ReadSoFar(y)
    BY <1>2, <1>3, <2>1 DEF ReadSoFar, Given, Announced, At, NoExtras
  <2>4. QED
    BY <2>1, <2>2, <2>3 DEF Minted
<1>5. HeldRolesExist'
  BY DEF TokensInv, HeldRolesExist, Exists
<1>6. QED
  BY <1>4, <1>5

\* The keys of the role and those of the extras, read one after the other, are
\* what the two give together.
LEMMA ReadTogether ==
    ASSUME NEW x, NEW extras
    PROVE  With(Grant(x, NoExtras), Grant(NoRole, extras)) = Grant(x, extras)
<1> DEFINE on == {p \in Product : extras[p].state = "on"}
           keys == UNION {extras[p].keys : p \in on}
           held == IF x = NoRole THEN {} ELSE roles[x].keys
<1>1. {p \in Product : NoExtras[p].state = "on"} = {}
  BY DEF NoExtras
<1>2. Grant(x, NoExtras).all = (x # NoRole /\ roles[x].all) /\ Grant(x, NoExtras).keys = held
  <2>1. UNION {NoExtras[p].keys : p \in {}} = {}
    OBVIOUS
  <2>2. QED
    BY <1>1, <2>1 DEF Grant
<1>3. Grant(NoRole, extras).keys = keys /\ Grant(NoRole, extras).seen = on
  BY DEF Grant
<1>4. Grant(x, extras) = [all |-> x # NoRole /\ roles[x].all, keys |-> held \cup keys, seen |-> on]
  BY DEF Grant
<1> HIDE DEF on, keys, held
<1>5. QED
  BY <1>2, <1>3, <1>4 DEF With

LEMMA MintingTokens ==
    ASSUME TokensInv, Minting
    PROVE  HeldRolesExist' /\ \A t \in Token : Minted(t)'
<1> DEFINE Goal == HeldRolesExist' /\ \A t \in Token : Minted(t)'
<1>0. TypeOK
  BY DEF TokensInv
<1>1. PICK t \in Token :
          \/ \E u \in User : ReadUser(t, u)
          \/ \E single \in BOOLEAN : CreateSession(t, single)
          \/ StampToken(t) \/ ReadRole(t) \/ ReadExtras(t) \/ Sign(t)
          \/ SignWithout(t) \/ Expire(t)
  BY DEF Minting
<1>2. UNCHANGED <<modules, day, roles, users, req>> /\ Minted(t)
  BY <1>1 DEF ReadUser, CreateSession, StampToken, ReadRole, ReadExtras, Sign, SignWithout,
              Expire, TokensInv
<1>3. ASSUME NEW row, Mint(t, row), Minted(t)' PROVE Goal
  BY <1>2, <1>3, MintTokens
<1>4. \A row : Mint(t, row) => tokens'[t] = row
  BY <1>0 DEF TypeOK, Mint
<1>5. ASSUME NEW u \in User, ReadUser(t, u) PROVE Goal
  <2> DEFINE row == [NoToken EXCEPT !.step = "user", !.user = u, !.company = users[u].company]
  <2>1. Mint(t, row) /\ users[u].exists
    BY <1>5 DEF ReadUser
  <2>2. row.step = "user" /\ row.user = u /\ row.allows = {}
    BY DEF NoToken
  <2> HIDE DEF row
  <2>3. tokens'[t] = row
    BY <1>4, <2>1
  <2>4. Minted(t)'
    BY <1>2, <2>1, <2>2, <2>3 DEF Minted, Live, Stamped
  <2>5. QED
    BY <1>3, <2>1, <2>4
<1>6. CASE Expire(t)
  <2>1. Mint(t, NoToken) /\ tokens'[t] = NoToken
    BY <1>4, <1>6 DEF Expire
  <2>2. Minted(t)'
    BY <2>1 DEF NoToken, Minted, Live, Stamped
  <2>3. QED
    BY <1>3, <2>1, <2>2
<1>7. ASSUME tokens[t].step # "none"
      PROVE  /\ tokens[t] \in TokenRow \ {NoToken}
             /\ tokens[t].user \in User
             /\ tokens[t].company \in Company \cup {NoCompany}
             /\ users[tokens[t].user].exists
  <2>1. tokens[t] \in TokenRow /\ tokens[t] # NoToken
    BY <1>0, <1>7 DEF TypeOK, NoToken
  <2>2. QED
    BY <1>0, <1>2, <1>7, <2>1, TokenParts DEF Minted
<1>8. CASE StampToken(t)
  <2> DEFINE row == [tokens[t] EXCEPT !.step = "stamped"]
  <2>1. Mint(t, row) /\ tokens'[t] = row /\ tokens[t].step = "stored"
    BY <1>4, <1>8 DEF StampToken
  <2>2. row.step = "stamped" /\ row.user = tokens[t].user /\ row.allows = tokens[t].allows
    BY <1>7, <2>1 DEF TokenRow
  <2> HIDE DEF row
  <2>3. Minted(t)'
    BY <1>2, <1>7, <2>1, <2>2 DEF Minted, ReadSoFar
  <2>4. QED
    BY <1>3, <2>1, <2>3
<1>9. CASE ReadRole(t)
  <2> DEFINE row == [tokens[t] EXCEPT !.step = "role",
                         !.grant = Grant(users[tokens[t].user].role, NoExtras)]
  <2>1. Mint(t, row) /\ tokens'[t] = row /\ tokens[t].step = "stamped"
    BY <1>4, <1>9 DEF ReadRole
  <2>2. /\ row.step = "role" /\ row.user = tokens[t].user /\ row.allows = tokens[t].allows
        /\ row.grant = Grant(users[tokens[t].user].role, NoExtras)
    BY <1>7, <2>1 DEF TokenRow
  <2> HIDE DEF row
  <2>3. \A x : Grant(x, NoExtras)' = Grant(x, NoExtras)
    BY <1>2 DEF Grant, NoExtras
  <2>4. Minted(t)'
    BY <1>2, <1>7, <2>1, <2>2, <2>3 DEF Minted, ReadSoFar
  <2>5. QED
    BY <1>3, <2>1, <2>4
<1>10. CASE ReadExtras(t)
  <2> DEFINE read == With(tokens[t].grant, Grant(NoRole, users[tokens[t].user].extras))
             row == [tokens[t] EXCEPT !.step = "extras", !.grant = read]
  <2>1. Mint(t, row) /\ tokens'[t] = row /\ tokens[t].step = "role"
    BY <1>4, <1>10 DEF ReadExtras
  <2> HIDE DEF read
  <2>2. /\ row.step = "extras" /\ row.user = tokens[t].user /\ row.allows = tokens[t].allows
        /\ row.grant = read /\ row.refused = tokens[t].refused /\ row.excuse = tokens[t].excuse
    BY <1>7, <2>1 DEF TokenRow
  <2> HIDE DEF row
  <2>3. PICK u \in User : u = tokens[t].user
    BY <1>7, <2>1
  <2>4. ASSUME Live(t)' PROVE row.grant = Given(u)
    <3>1. Live(t)
      BY <1>2, <2>1, <2>2, <2>4 DEF Live, Stamped, Ended, At
    <3>2. tokens[t].grant = Grant(users[u].role, NoExtras)
      BY <1>2, <2>1, <2>3, <3>1 DEF Minted, ReadSoFar
    <3>3. QED
      BY <2>2, <2>3, <3>2, ReadTogether DEF read, Given
  <2>5. Given(u)' = Given(u)
    BY <1>2 DEF Given, Grant
  <2>6. Minted(t)'
    BY <1>2, <1>7, <2>1, <2>2, <2>3, <2>4, <2>5 DEF Minted, ReadSoFar
  <2>7. QED
    BY <1>3, <2>1, <2>6
<1>11. CASE Sign(t)
  <2> DEFINE given == Allowed(tokens[t].company, tokens[t].grant)
             row == [tokens[t] EXCEPT !.step = "issued", !.grant = Nobody, !.allows = given]
  <2>1. Mint(t, row) /\ tokens'[t] = row /\ tokens[t].step = "extras"
    BY <1>4, <1>11 DEF Sign
  <2> HIDE DEF given
  <2>2. /\ row.step = "issued" /\ row.user = tokens[t].user /\ row.allows = given
        /\ row.refused = tokens[t].refused /\ row.excuse = tokens[t].excuse
        /\ row.company = tokens[t].company
    BY <1>7, <2>1 DEF TokenRow
  <2> HIDE DEF row
  <2>3. PICK u \in User, c \in Company \cup {NoCompany} :
            u = tokens[t].user /\ c = tokens[t].company
    BY <1>7, <2>1
  <2>4. ASSUME Live(t)' PROVE row.allows = Allowed(c, Given(u))
    <3>1. Live(t)
      BY <1>2, <2>1, <2>2, <2>4 DEF Live, Stamped, Ended, At
    <3>2. tokens[t].grant = Given(u)
      BY <1>2, <2>1, <2>3, <3>1 DEF Minted, ReadSoFar
    <3>3. QED
      BY <2>2, <2>3, <3>2 DEF given
  <2>5. Allowed(c, Given(u))' = Allowed(c, Given(u))
    <3>1. Given(u)' = Given(u)
      BY <1>2 DEF Given, Grant
    <3>2. \A g : Allowed(c, g)' = Allowed(c, g)
      BY <1>2 DEF Allowed, Visible, Active, Held, InForce, KeysOf
    <3>3. PICK g : g = Given(u)
      OBVIOUS
    <3>4. QED
      BY <3>1, <3>2, <3>3
  <2>6. Minted(t)'
    BY <1>2, <1>7, <2>1, <2>2, <2>3, <2>4, <2>5 DEF Minted, ReadSoFar
  <2>7. QED
    BY <1>3, <2>1, <2>6
<1>12. CASE SignWithout(t)
  <2> DEFINE row == [tokens[t] EXCEPT !.step = "issued", !.grant = Nobody]
  <2>1. /\ Mint(t, row) /\ tokens'[t] = row
        /\ tokens[t].step \in {"stamped", "role", "extras"}
    BY <1>4, <1>12 DEF SignWithout
  <2>2. row.step = "issued" /\ row.user = tokens[t].user /\ row.allows = {}
    BY <1>2, <1>7, <2>1 DEF TokenRow, Minted
  <2> HIDE DEF row
  <2>3. Minted(t)'
    BY <1>2, <1>7, <2>1, <2>2 DEF Minted, ReadSoFar
  <2>4. QED
    BY <1>3, <2>1, <2>3
<1>13. ASSUME NEW single \in BOOLEAN, CreateSession(t, single) PROVE Goal
  <2> DEFINE row == [tokens[t] EXCEPT !.step = "stored", !.single = single]
  <2>1. Mint(t, row) /\ tokens'[t] = row /\ tokens[t].step = "user"
    BY <1>4, <1>13 DEF CreateSession
  <2>2. row.step = "stored" /\ row.user = tokens[t].user /\ row.allows = tokens[t].allows
    BY <1>7, <2>1 DEF TokenRow
  <2> HIDE DEF row
  <2>3. Minted(t)'
    BY <1>2, <1>7, <2>1, <2>2 DEF Minted, Live, Stamped
  <2>4. QED
    BY <1>3, <2>1, <2>3
<1>14. QED
  BY <1>1, <1>5, <1>6, <1>8, <1>9, <1>10, <1>11, <1>12, <1>13

LEMMA TokensStep == ASSUME TokensInv, [Next]_vars PROVE TokensInv'
<1> DEFINE Goal == HeldRolesExist' /\ \A t \in Token : Minted(t)'
<1>0. TypeOK /\ TypeOK'
  BY NextType DEF TokensInv
<1> SUFFICES Goal
  BY <1>0 DEF TokensInv
<1>1. ASSUME NEW x \in Role, DeleteRole(x) PROVE Goal
  <2> DEFINE row == [roles[x] EXCEPT !.company = NoCompany]
  <2>1. /\ Put(x, row) /\ HoldersOf(x) = {}
        /\ UNCHANGED <<modules, day, users, tokens, req>>
    BY <1>1 DEF DeleteRole
  <2> HIDE DEF row
  <2>2. \A u \in User : users[u].role # x
    BY <2>1 DEF HoldersOf
  <2>3. \A u \in User : RowsKept(u)
    BY <1>0, <2>1, <2>2, RowsPut
  <2>4. HeldRolesExist'
    <3>1. \A y \in Role \ {x} : roles'[y] = roles[y]
      BY <1>0, <2>1 DEF Put, TypeOK
    <3>2. \A u \in User : users[u].role # NoRole => users[u].role \in Role \ {x}
      BY <1>0, <2>2, RoleType
    <3>3. QED
      BY <2>1, <3>1, <3>2 DEF TokensInv, HeldRolesExist, Exists
  <2>5. Sweeps({})
    BY <2>1 DEF Sweeps
  <2>6. \A c, s : Held(c, s) \subseteq Held(c, s)'
    BY <2>1, HeldSame
  <2>7. (\A u : Ended(u)' => Ended(u)) /\ (\A c : Announced(c)' => Announced(c))
    BY <2>1, SameRequests
  <2>8. QED
    BY <2>1, <2>3, <2>4, <2>5, <2>6, <2>7, SweepStep
<1>2. ASSUME NEW s \in Company, NEW d \in Company, MergeCompanies(s, d) PROVE Goal
  <2> DEFINE moved == {u \in User : users[u].company = d}
             T == UNION {TokensOf(u) : u \in moved}
  <2>1. /\ users' = [u \in User |->
                IF u \in moved THEN [users[u] EXCEPT !.company = s] ELSE users[u]]
        /\ Excuse(T, "unannounced")
        /\ UNCHANGED <<modules, day, roles, req>>
    BY <1>2 DEF MergeCompanies
  <2>2. \A t \in Token, u \in User : t \notin T /\ u = tokens[t].user => u \notin moved
    <3>1. \A u \in moved : TokensOf(u) \subseteq T
      OBVIOUS
    <3>2. QED
      BY <3>1 DEF TokensOf
  <2>3. Sweeps(T)
    BY <2>1, ExcuseSweeps, WhyParts
  <2> HIDE DEF moved, T
  <2>4. \A u \in User \ moved : RowsKept(u)
    BY <2>1, RowsOther
  <2>5. \A u \in User : users'[u].exists = users[u].exists /\ users'[u].role = users[u].role
    BY <1>0, <2>1 DEF TypeOK, UserRow
  <2>6. HeldRolesExist'
    BY <2>1, <2>5 DEF TokensInv, HeldRolesExist, Exists
  <2>7. \A c, q : Held(c, q) \subseteq Held(c, q)'
    BY <2>1, HeldSame
  <2>8. (\A u : Ended(u)' => Ended(u)) /\ (\A c : Announced(c)' => Announced(c))
    BY <2>1, SameRequests
  <2>9. QED
    BY <2>2, <2>3, <2>4, <2>5, <2>6, <2>7, <2>8, SweepStep
<1>3. CASE DayPasses
  <2>1. Sweeps(Token) /\ UNCHANGED <<modules, roles, users, req>>
    BY <1>3, ExcuseSweeps, WhyParts DEF DayPasses
  <2>2. HeldRolesExist'
    BY <2>1 DEF TokensInv, HeldRolesExist, Exists
  <2>3. \A u \in User : users[u].exists => users'[u].exists
    BY <2>1
  <2>4. \A t \in Token : ~ (t \notin Token)
    OBVIOUS
  <2>5. \A t \in Token : Minted(t)'
    BY <2>1, <2>3, <2>4, SweepStep
  <2>6. QED
    BY <2>2, <2>5
<1>4. CASE UNCHANGED vars
  <2>1. UNCHANGED <<modules, day, roles, users, tokens, req>>
    BY <1>4 DEF vars
  <2>2. Sweeps({})
    BY <2>1 DEF Sweeps
  <2>3. (\A u : Ended(u)' => Ended(u)) /\ (\A c : Announced(c)' => Announced(c))
    BY <2>1, SameRequests
  <2>4. QED
    BY <2>1, <2>2, <2>3, SameRows
<1>5. CASE Minting \/ Saving \/ ChangingPeople \/ Selling \/ ChangingRoles \/ Joining
  BY <1>5, MintingTokens, SavingTokens, ChangingPeopleTokens, SellingTokens,
     ChangingRolesTokens, JoiningTokens
<1>6. QED
  BY <1>1, <1>2, <1>3, <1>4, <1>5 DEF Next

\* An access token that is still accepted, all announcements about its holder
\* made, allows nothing the rows do not: the time of issue is taken before the
\* mint reads, and every change announces after it has written, so a change that
\* falls between two reads of the mint finds the token stamped.
THEOREM TokensAreRefusedInTime == Spec => []OutdatedTokensAreRefused
<1>1. Init => TokensInv
  <2>1. ASSUME Init PROVE HeldRolesExist
    BY <2>1, OpeningAssumption, NothingAssumption
       DEF Init, HeldRolesExist, Exists, UserRow
  <2>2. ASSUME Init, NEW t \in Token PROVE Minted(t)
    BY <2>2 DEF Init, NoToken, Minted, Live, Stamped
  <2>3. QED
    BY <2>1, <2>2, InitType DEF TokensInv
<1>2. TokensInv /\ [Next]_vars => TokensInv'
  BY TokensStep
<1>3. TokensInv => OutdatedTokensAreRefused
  <2>1. ASSUME TokensInv, NEW t \in Token, Answerable(t, {})
        PROVE  tokens[t].allows \subseteq Access(tokens[t].user)
    <3>0. /\ tokens[t].step = "issued" /\ ~tokens[t].refused /\ tokens[t].excuse = {}
          /\ tokens[t].company = users[tokens[t].user].company /\ Settled(t)
      BY <2>1 DEF Answerable
    <3>1. Ended(tokens[t].user) /\ Announced(tokens[t].company)
      BY <3>0 DEF Settled, Ended, Announced
    <3>2. Live(t)
      BY <3>0, <3>1 DEF Live, Stamped
    <3>3. ReadSoFar(t)
      BY <2>1, <3>2 DEF TokensInv, Minted
    <3>4. QED
      BY <3>0, <3>1, <3>3 DEF ReadSoFar, Access, Given
  <2>2. QED
    BY <2>1 DEF OutdatedTokensAreRefused
<1>4. QED
  BY <1>1, <1>2, <1>3, PTL DEF Spec
=============================================================================
