------------------------------ MODULE Sessions ------------------------------
(***************************************************************************)
(* The sessions table of the authentication service and the requests that  *)
(* change it (internal/services/auth_service.go, user_service.go,          *)
(* internal/repository/repositories.go).                                   *)
(*                                                                         *)
(* No handler runs in a transaction: each is a goroutine issuing one SQL   *)
(* statement after another, so a step of this module is ONE statement and  *)
(* requests interleave between statements.  What a request read stays in   *)
(* its record and may be stale by the time it is used.                     *)
(*                                                                         *)
(* Refused requests change neither table and are left out, except where a  *)
(* request already under way is refused.  Access tokens, revocation        *)
(* announcements, rate limits, audit and device rows are not part of this  *)
(* module.                                                                 *)
(***************************************************************************)
EXTENDS Naturals, FiniteSets

CONSTANTS
    User,               \* accounts
    Token,              \* session token ids (fresh UUIDs, never reused)
    NoToken,            \* "no session": the parent of a session a login opened
    Request,            \* goroutines serving requests
    MaxDevices,         \* users.max_devices; 0 defers to the company
    DefaultMaxDevices,  \* companies.default_max_devices of the user's company
    Ops,                \* the operations the environment asks for
    MayFail,            \* whether statements may fail and processes crash
    MaxEndings          \* bound on password changes plus suspensions, per user

Operations == {"login", "refresh", "logout", "logoutAll", "password",
               "suspend", "restore", "delete", "expiry"}

ASSUME NoTokenAssumption == NoToken \notin Token
ASSUME DeviceAssumption == /\ MaxDevices \in [User -> Nat]
                           /\ DefaultMaxDevices \in [User -> Nat]
ASSUME InstanceAssumption == /\ Ops \subseteq Operations
                             /\ MayFail \in BOOLEAN
                             /\ MaxEndings \in Nat

VARIABLES
    users,      \* the users table: password version, suspended, deleted
    sessions,   \* the sessions table, by token id
    req,        \* the requests under way, each with what it has read
    delivered,  \* token ids whose token pair reached a client
    endings,    \* history: password changes and suspensions committed so far
    lapses      \* history: revocations and evictions that failed to happen

vars == <<users, sessions, req, delivered, endings, lapses>>

-----------------------------------------------------------------------------
(* Rows                                                                    *)

Unused == [row |-> "none"]      \* this token id has not been drawn yet
Pruned == [row |-> "pruned"]    \* the row was swept away

\* A stored row. "age" is 0 until expires_at, 1 after it, 2 once the sweep's
\* grace period has passed too.  "password", "since" and "parent" are history:
\* the password version proved when this line of sessions began, how many
\* endings had been committed when the row was inserted, the session rotated
\* away to make this one.
Row == [row : {"stored"}, user : User, single : BOOLEAN, revoked : BOOLEAN,
        age : 0..2, parent : Token \cup {NoToken}, password : Nat, since : Nat]

Stored(t) == sessions[t].row = "stored"

\* Session.IsActive
Active(t) == Stored(t) /\ ~sessions[t].revoked /\ sessions[t].age = 0

SessionsOf(u) == {t \in Token : Stored(t) /\ sessions[t].user = u}

\* The device cap a login applies; only a cap of exactly one is enforced.
SingleDevice(u) ==
    LET cap == IF MaxDevices[u] = 0 THEN DefaultMaxDevices[u] ELSE MaxDevices[u]
    IN  cap = 1

\* UPDATE sessions SET revoked_at = now() WHERE token_id IN S AND revoked_at IS NULL
RevokeRows(S) ==
    sessions' = [t \in Token |-> IF t \in S /\ Stored(t)
                                 THEN [sessions[t] EXCEPT !.revoked = TRUE]
                                 ELSE sessions[t]]

\* Mutant: the UPDATE forgets its user_id condition.
RevokeAllForUser_Everyone(u) == RevokeRows(Token)

\* SessionRepository.RevokeAllForUser
RevokeAllForUser(u) == RevokeRows(SessionsOf(u))

\* Mutant: the eviction looks for sessions that are NOT single-device.
OtherSingleDevice_Unmarked(u, keep) ==
    {t \in SessionsOf(u) \ {keep} : ~sessions[t].single}

\* The rows RevokeOtherSingleDeviceSessions ends
OtherSingleDevice(u, keep) == {t \in SessionsOf(u) \ {keep} : sessions[t].single}

SignInAllowed(u) == ~users[u].deleted /\ ~users[u].suspended

-----------------------------------------------------------------------------
(* Requests                                                                *)

Idle == [pc |-> "idle"]

\* The statement a request is about to issue.
Steps == {"lookup", "rotate", "create", "evict", "mint",
          "setPassword", "end", "remove"}

Pending == [pc : Steps, user : User, token : Token \cup {NoToken},
            parent : Token \cup {NoToken}, single : BOOLEAN, password : Nat]

Begin(step, u) ==
    [pc |-> step, user |-> u, token |-> NoToken, parent |-> NoToken,
     single |-> FALSE, password |-> users[u].password]

At(r, step) == req[r].pc = step
Goto(r, step) == req' = [req EXCEPT ![r].pc = step]
Return(r) == req' = [req EXCEPT ![r] = Idle]

Init ==
    /\ users = [u \in User |-> [password |-> 0, suspended |-> FALSE, deleted |-> FALSE]]
    /\ sessions = [t \in Token |-> Unused]
    /\ req = [r \in Request |-> Idle]
    /\ delivered = {}
    /\ endings = [u \in User |-> 0]
    /\ lapses = {}

-----------------------------------------------------------------------------
(* Login                                                                   *)

\* FindByIdentifier, the password comparison and the suspension check, all on
\* one snapshot of the user row.
LoginCheck(r, u) ==
    /\ "login" \in Ops
    /\ At(r, "idle")
    /\ SignInAllowed(u)
    /\ req' = [req EXCEPT ![r] = [Begin("create", u) EXCEPT !.single = SingleDevice(u)]]
    /\ UNCHANGED <<users, sessions, delivered, endings, lapses>>

\* Mutant: a refresh puts the rotated row back in use instead of adding one.
CreateSession_InPlace(r, t) ==
    /\ At(r, "create")
    /\ IF req[r].parent = NoToken THEN sessions[t] = Unused ELSE t = req[r].parent
    /\ LET q == req[r] IN
         /\ sessions' = [sessions EXCEPT ![t] =
                [row |-> "stored", user |-> q.user, single |-> q.single,
                 revoked |-> FALSE, age |-> 0, parent |-> NoToken,
                 password |-> q.password, since |-> endings[q.user]]]
         /\ req' = [req EXCEPT ![r].token = t, ![r].pc = "mint"]
    /\ UNCHANGED <<users, delivered, endings, lapses>>

\* Mutant: the token id of the new row is not kept for the pair to be signed.
CreateSession_TokenLost(r, t) ==
    /\ At(r, "create")
    /\ sessions[t] = Unused
    /\ LET q == req[r] IN
         /\ sessions' = [sessions EXCEPT ![t] =
                [row |-> "stored", user |-> q.user, single |-> q.single,
                 revoked |-> FALSE, age |-> 0, parent |-> q.parent,
                 password |-> q.password, since |-> endings[q.user]]]
         /\ Goto(r, "mint")
    /\ UNCHANGED <<users, delivered, endings, lapses>>

\* sessions.Create, for a login and for a refresh alike.
CreateSession(r, t) ==
    /\ At(r, "create")
    /\ sessions[t] = Unused
    /\ LET q == req[r] IN
         /\ sessions' = [sessions EXCEPT ![t] =
                [row |-> "stored", user |-> q.user, single |-> q.single,
                 revoked |-> FALSE, age |-> 0, parent |-> q.parent,
                 password |-> q.password, since |-> endings[q.user]]]
         /\ req' = [req EXCEPT ![r].token = t,
                               ![r].pc = IF q.single /\ q.parent = NoToken
                                         THEN "evict" ELSE "mint"]
    /\ UNCHANGED <<users, delivered, endings, lapses>>

\* RevokeOtherSingleDeviceSessions, after the new row exists.
EvictOthers(r) ==
    /\ At(r, "evict")
    /\ RevokeRows(OtherSingleDevice(req[r].user, req[r].token))
    /\ lapses' = lapses \ {<<"evict", req[r].user>>}
    /\ Goto(r, "mint")
    /\ UNCHANGED <<users, delivered, endings>>

\* The eviction fails; issueSession logs it and goes on.
EvictionFails(r) ==
    /\ MayFail
    /\ At(r, "evict")
    /\ lapses' = lapses \cup {<<"evict", req[r].user>>}
    /\ Goto(r, "mint")
    /\ UNCHANGED <<users, sessions, delivered, endings>>

\* The pair is signed and returned: from here a client holds it.
Deliver(r) ==
    /\ At(r, "mint")
    /\ delivered' = delivered \cup {req[r].token}
    /\ Return(r)
    /\ UNCHANGED <<users, sessions, endings, lapses>>

-----------------------------------------------------------------------------
(* Refresh                                                                 *)

\* FindByRefreshHash and IsActive.  The new session will copy what was read.
RefreshRead(r, t) ==
    /\ "refresh" \in Ops
    /\ At(r, "idle")
    /\ t \in delivered
    /\ Active(t)
    /\ req' = [req EXCEPT ![r] = [Begin("lookup", sessions[t].user) EXCEPT
                  !.parent = t, !.single = sessions[t].single,
                  !.password = sessions[t].password]]
    /\ UNCHANGED <<users, sessions, delivered, endings, lapses>>

\* users.FindByID, then the suspension check; a refusal ends the request.
RefreshUser(r) ==
    /\ At(r, "lookup")
    /\ IF SignInAllowed(req[r].user) THEN Goto(r, "rotate") ELSE Return(r)
    /\ UNCHANGED <<users, sessions, delivered, endings, lapses>>

\* Mutant: the old session is left to be revoked after the new one exists.
RotateAway_Later(r) ==
    /\ At(r, "rotate")
    /\ Goto(r, "create")
    /\ UNCHANGED <<users, sessions, delivered, endings, lapses>>

\* sessions.Revoke of the session read; the rows it matched are not counted.
RotateAway(r) ==
    /\ At(r, "rotate")
    /\ RevokeRows({req[r].parent})
    /\ Goto(r, "create")
    /\ UNCHANGED <<users, delivered, endings, lapses>>

-----------------------------------------------------------------------------
(* Ending sessions                                                         *)

\* Logout: one UPDATE on the session the presented access token names.
Logout(t) ==
    /\ "logout" \in Ops
    /\ t \in delivered
    /\ RevokeRows({t})
    /\ UNCHANGED <<users, req, delivered, endings, lapses>>

LogoutAll(u) ==
    /\ "logoutAll" \in Ops
    /\ RevokeAllForUser(u)
    /\ UNCHANGED <<users, req, delivered, endings, lapses>>

\* ChangePassword: FindByID and the comparison with the current password.
PasswordCheck(r, u) ==
    /\ "password" \in Ops
    /\ At(r, "idle")
    /\ ~users[u].deleted
    /\ req' = [req EXCEPT ![r] = Begin("setPassword", u)]
    /\ UNCHANGED <<users, sessions, delivered, endings, lapses>>

\* Mutant: a password change that revokes nothing.
PasswordWrite_Only(r) ==
    /\ At(r, "setPassword")
    /\ LET u == req[r].user IN
         /\ endings[u] < MaxEndings
         /\ users' = [users EXCEPT ![u].password = @ + 1]
         /\ endings' = [endings EXCEPT ![u] = @ + 1]
    /\ Return(r)
    /\ UNCHANGED <<sessions, delivered, lapses>>

\* users.UpdateFields(password_hash): unconditional but for the row being live.
PasswordWrite(r) ==
    /\ At(r, "setPassword")
    /\ LET u == req[r].user IN
       IF users[u].deleted
       THEN Return(r) /\ UNCHANGED <<users, endings>>
       ELSE /\ endings[u] < MaxEndings
            /\ users' = [users EXCEPT ![u].password = @ + 1]
            /\ endings' = [endings EXCEPT ![u] = @ + 1]
            /\ Goto(r, "end")
    /\ UNCHANGED <<sessions, delivered, lapses>>

\* Mutant: a suspension that only sets the flag.
Suspend_FlagOnly(r, u) ==
    /\ "suspend" \in Ops
    /\ At(r, "idle")
    /\ ~users[u].deleted
    /\ endings[u] < MaxEndings
    /\ users' = [users EXCEPT ![u].suspended = TRUE]
    /\ endings' = [endings EXCEPT ![u] = @ + 1]
    /\ UNCHANGED <<sessions, req, delivered, lapses>>

\* SetSuspended(true): the flag is committed before any session ends.
Suspend(r, u) ==
    /\ "suspend" \in Ops
    /\ At(r, "idle")
    /\ ~users[u].deleted
    /\ endings[u] < MaxEndings
    /\ users' = [users EXCEPT ![u].suspended = TRUE]
    /\ endings' = [endings EXCEPT ![u] = @ + 1]
    /\ req' = [req EXCEPT ![r] = Begin("end", u)]
    /\ UNCHANGED <<sessions, delivered, lapses>>

\* SetSuspended(false)
Restore(u) ==
    /\ "restore" \in Ops
    /\ ~users[u].deleted
    /\ users[u].suspended
    /\ users' = [users EXCEPT ![u].suspended = FALSE]
    /\ UNCHANGED <<sessions, req, delivered, endings, lapses>>

\* The RevokeAllForUser that closes a password change or a suspension.
EndSessions(r) ==
    /\ At(r, "end")
    /\ RevokeAllForUser(req[r].user)
    /\ lapses' = lapses \ {<<"end", req[r].user>>}
    /\ Return(r)
    /\ UNCHANGED <<users, delivered, endings>>

\* Delete: here the sessions end FIRST, and the account goes afterwards.
DeleteSessions(r, u) ==
    /\ "delete" \in Ops
    /\ At(r, "idle")
    /\ RevokeAllForUser(u)
    /\ req' = [req EXCEPT ![r] = Begin("remove", u)]
    /\ UNCHANGED <<users, delivered, endings, lapses>>

\* users.SoftDelete
DeleteUser(r) ==
    /\ At(r, "remove")
    /\ users' = [users EXCEPT ![req[r].user].deleted = TRUE]
    /\ Return(r)
    /\ UNCHANGED <<sessions, delivered, endings, lapses>>

-----------------------------------------------------------------------------
(* Time, the sweep, failures                                               *)

\* expires_at passes, then the sweep's seven days of grace.
GrowOld(t) ==
    /\ "expiry" \in Ops
    /\ Stored(t)
    /\ sessions[t].age < 2
    /\ sessions' = [sessions EXCEPT ![t].age = @ + 1]
    /\ UNCHANGED <<users, req, delivered, endings, lapses>>

\* startSessionCleanup: DeleteExpired drops every row past the grace period.
Sweep ==
    /\ "expiry" \in Ops
    /\ sessions' = [t \in Token |-> IF Stored(t) /\ sessions[t].age = 2
                                    THEN Pruned ELSE sessions[t]]
    /\ UNCHANGED <<users, req, delivered, endings, lapses>>

\* A statement fails, the client goes away, or the process dies: the request
\* stops where it is, and nothing it has already written is undone.
Stop(r) ==
    /\ MayFail
    /\ ~At(r, "idle")
    /\ lapses' = IF req[r].pc \in {"end", "evict"}
                 THEN lapses \cup {<<req[r].pc, req[r].user>>} ELSE lapses
    /\ Return(r)
    /\ UNCHANGED <<users, sessions, delivered, endings>>

-----------------------------------------------------------------------------

\* The next statement of a request under way.
Continue(r) ==
    \/ \E t \in Token : CreateSession(r, t)
    \/ EvictOthers(r)
    \/ Deliver(r)
    \/ RefreshUser(r)
    \/ RotateAway(r)
    \/ PasswordWrite(r)
    \/ EndSessions(r)
    \/ DeleteUser(r)

Next ==
    \/ \E r \in Request :
         \/ Continue(r)
         \/ EvictionFails(r)
         \/ Stop(r)
         \/ \E t \in Token : RefreshRead(r, t)
         \/ \E u \in User : \/ LoginCheck(r, u)
                            \/ PasswordCheck(r, u)
                            \/ Suspend(r, u)
                            \/ DeleteSessions(r, u)
    \/ \E t \in Token : Logout(t) \/ GrowOld(t)
    \/ \E u \in User : LogoutAll(u) \/ Restore(u)
    \/ Sweep

Spec == Init /\ [][Next]_vars

\* A goroutine that has started a request goes on to issue its statements.
FairSpec == Spec /\ \A r \in Request : WF_vars(Continue(r))

-----------------------------------------------------------------------------
(* Properties                                                              *)

\* Every variable stays in its type, and every session is a row somebody wrote.
TypeOK ==
    /\ users \in [User -> [password : Nat, suspended : BOOLEAN, deleted : BOOLEAN]]
    /\ sessions \in [Token -> Row \cup {Unused, Pruned}]
    /\ req \in [Request -> Pending \cup {Idle}]
    /\ \A r \in Request : req[r].pc \in {"evict", "mint"} => req[r].token \in Token
    /\ delivered \subseteq Token
    /\ endings \in [User -> Nat]
    /\ lapses \subseteq {"end", "evict"} \X User

EndingPending(u) == \E r \in Request : At(r, "end") /\ req[r].user = u

\* A password change or a suspension that has been committed leaves no session
\* stored before it usable, once its RevokeAllForUser has run: an active row
\* older than the last such change means that statement is still to come, or
\* failed (ChangePassword, SetSuspended: write first, revoke second).
EndingsReachEverySession ==
    \A t \in Token : Active(t) =>
        LET u == sessions[t].user IN
        \/ sessions[t].since = endings[u]
        \/ EndingPending(u)
        \/ <<"end", u>> \in lapses

\* The session a refresh rotates away is out of use before its successor
\* exists, whatever ran between the statements of the refresh
\* (Refresh: Revoke, then Create).
RotationRetiresParent ==
    \A t \in Token : Stored(t) /\ sessions[t].parent # NoToken
                        => ~Active(sessions[t].parent)

\* Two logins of a one-device account never both keep their session: while both
\* are active, one of them still has its eviction to run or its eviction failed
\* (issueSession: Create, then RevokeOtherSingleDeviceSessions).
LoginsDoNotShareADevice ==
    \A s, t \in Token :
        /\ s # t
        /\ Active(s) /\ sessions[s].single /\ sessions[s].parent = NoToken
        /\ Active(t) /\ sessions[t].single /\ sessions[t].parent = NoToken
        /\ sessions[s].user = sessions[t].user
        => \/ \E r \in Request : At(r, "evict") /\ req[r].token \in {s, t}
           \/ <<"evict", sessions[t].user>> \in lapses

\* No step brings a session back: one that was ever stored and no longer
\* authorises a refresh never does again, and its id is never drawn again
\* (every UPDATE is guarded by revoked_at IS NULL and sets it).
EndedForGood ==
    [][\A t \in Token : sessions[t] # Unused /\ ~Active(t) => ~Active(t)']_vars

\* What SessionLifecycle sees of the store.
Phase == [t \in Token |-> IF sessions[t] = Unused THEN "unopened"
                          ELSE IF Active(t) THEN "open" ELSE "closed"]
Owner == [t \in Token |-> IF Active(t) THEN sessions[t].user ELSE NoToken]

Lifecycle == INSTANCE SessionLifecycle WITH
    Nobody <- NoToken, phase <- Phase, owner <- Owner

\* Every request opens one session or closes sessions of one person: a
\* revocation never reaches another account's sessions.
ImplementsLifecycle == Lifecycle!LSpec

Outdated(t) == Active(t) /\ sessions[t].since < endings[sessions[t].user]

\* A committed password change or suspension gets every older session in the
\* end: nothing blocks a request between its write and its revocation.
OutdatedSessionsEnd == \A t \in Token : Outdated(t) ~> ~Active(t)

Quiet == \A r \in Request : At(r, "idle")

\* "rotating the refresh token in the process so a stolen one is usable at most
\* once" (auth_service.go:293-294): one session has at most one successor.
RefreshTokenIsSpentOnce ==
    \A s, t \in Token : /\ s # t
                         /\ Stored(s) /\ Stored(t)
                         /\ sessions[s].parent # NoToken
                         => sessions[s].parent # sessions[t].parent

\* "a password change that leaves old sessions alive does not actually lock
\* anyone out" (auth_service.go:524-526): with no request under way, every
\* usable session descends from a login under the current password.
PasswordChangeLocksOut ==
    Quiet => \A t \in Token : Active(t) =>
                 sessions[t].password = users[sessions[t].user].password
=============================================================================
