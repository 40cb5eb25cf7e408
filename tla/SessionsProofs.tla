--------------------------- MODULE SessionsProofs ---------------------------
(***************************************************************************)
(* Theorems about Sessions, for every set of accounts, token ids and       *)
(* requests, every device cap, and with or without failures.               *)
(***************************************************************************)
EXTENDS Sessions, TLAPS

Rows == Row \cup {Unused, Pruned}

-----------------------------------------------------------------------------
(* Type correctness                                                        *)

\* A stored row has every field of a row.
LEMMA StoredIsRow ==
    ASSUME sessions \in [Token -> Rows], NEW t \in Token, Stored(t)
    PROVE  sessions[t] \in Row
<1>1. Unused.row = "none" /\ Pruned.row = "pruned"
  BY DEF Unused, Pruned
<1>2. sessions[t] \in Row \cup {Unused, Pruned} /\ sessions[t].row = "stored"
  BY DEF Rows, Stored
<1>3. QED
  BY <1>1, <1>2

\* Marking rows revoked keeps every row a row.
LEMMA RevokeRowsType ==
    ASSUME sessions \in [Token -> Rows], NEW S, RevokeRows(S)
    PROVE  sessions' \in [Token -> Rows]
<1>1. ASSUME NEW t \in Token, Stored(t)
      PROVE  [sessions[t] EXCEPT !.revoked = TRUE] \in Row
  BY <1>1, StoredIsRow DEF Row
<1>2. QED
  BY <1>1 DEF RevokeRows, Rows

\* A request that is not idle carries the fields of a pending one.
LEMMA BusyIsPending ==
    ASSUME req \in [Request -> Pending \cup {Idle}], NEW r \in Request, ~At(r, "idle")
    PROVE  req[r] \in Pending
BY DEF At, Idle

\* The type of the requests: those with a session of their own name it.
RequestsOK ==
    /\ req \in [Request -> Pending \cup {Idle}]
    /\ \A r \in Request : req[r].pc \in {"evict", "mint"} => req[r].token \in Token

\* Moving a request to another statement, or ending it, keeps it a request.
LEMMA RequestType ==
    ASSUME RequestsOK, NEW r \in Request,
           \/ Return(r)
           \/ ~At(r, "idle") /\ \E step \in Steps \ {"evict", "mint"} : Goto(r, step)
           \/ At(r, "evict") /\ Goto(r, "mint")
    PROVE  RequestsOK'
<1> USE DEF RequestsOK
<1>1. CASE Return(r)
  BY <1>1 DEF Return, Idle
<1>2. ASSUME NEW step \in Steps, ~At(r, "idle"), Goto(r, step),
             step \in {"evict", "mint"} => req[r].token \in Token
      PROVE  RequestsOK'
  <2>1. /\ [req[r] EXCEPT !.pc = step] \in Pending
        /\ [req[r] EXCEPT !.pc = step].pc = step
        /\ [req[r] EXCEPT !.pc = step].token = req[r].token
    BY <1>2, BusyIsPending DEF Pending
  <2>2. req' = [req EXCEPT ![r] = [req[r] EXCEPT !.pc = step]]
    BY <1>2 DEF Goto
  <2>3. QED
    BY <1>2, <2>1, <2>2
<1>3. QED
  BY <1>1, <1>2 DEF At, Steps

\* A request starts as a request, about a user it names.
LEMMA BeginType ==
    ASSUME TypeOK, NEW step \in Steps, NEW u \in User
    PROVE  Begin(step, u) \in Pending /\ Begin(step, u).pc = step
BY DEF TypeOK, Begin, Pending

\* Taking on a request keeps the others as they were.
LEMMA StartType ==
    ASSUME RequestsOK, NEW r \in Request, NEW q \in Pending,
           q.pc \notin {"evict", "mint"}, req' = [req EXCEPT ![r] = q]
    PROVE  RequestsOK'
BY DEF RequestsOK

\* The inductive step of type correctness, one case per action.
LEMMA TypeStep == TypeOK /\ [Next]_vars => TypeOK'
<1> SUFFICES ASSUME TypeOK, [Next]_vars PROVE TypeOK'
  OBVIOUS
<1> USE DEF TypeOK, RequestsOK
<1>1. CASE UNCHANGED vars
  BY <1>1 DEF vars, Row, Pending, Unused, Pruned, Idle
<1>2. ASSUME NEW r \in Request, Continue(r) PROVE TypeOK'
  <2>1. ASSUME NEW t \in Token, CreateSession(r, t) PROVE TypeOK'
    <3>1. req[r] \in Pending
      BY <2>1, BusyIsPending DEF CreateSession, At
    <3>2. sessions'[t] \in Row /\ sessions' = [sessions EXCEPT ![t] = sessions'[t]]
      BY <2>1, <3>1 DEF CreateSession, Row, Pending
    <3>3. /\ req'[r] \in Pending
          /\ req'[r].token = t
          /\ req' = [req EXCEPT ![r] = req'[r]]
      BY <2>1, <3>1 DEF CreateSession, Pending, Steps
    <3>4. sessions' \in [Token -> Row \cup {Unused, Pruned}]
      BY <3>2
    <3>5. RequestsOK'
      BY <2>1, <3>3 DEF CreateSession, Pending
    <3>6. QED
      BY <2>1, <3>4, <3>5 DEF CreateSession
  <2>2. CASE EvictOthers(r)
    <3>1. sessions' \in [Token -> Row \cup {Unused, Pruned}]
      BY <2>2, RevokeRowsType DEF EvictOthers, Rows
    <3>2. RequestsOK'
      BY <2>2, RequestType DEF EvictOthers, At, Steps
    <3>3. QED
      BY <2>2, <3>1, <3>2 DEF EvictOthers
  <2>3. CASE Deliver(r)
    <3>1. req[r] \in Pending
      BY <2>3, BusyIsPending DEF Deliver, At
    <3>2. RequestsOK'
      BY <2>3, RequestType DEF Deliver
    <3>3. delivered' \subseteq Token
      BY <2>3 DEF Deliver, At
    <3>4. QED
      BY <2>3, <3>2, <3>3 DEF Deliver
  <2>4. CASE RefreshUser(r)
    <3>1. RequestsOK'
      BY <2>4, RequestType DEF RefreshUser, At, Steps
    <3>2. QED
      BY <2>4, <3>1 DEF RefreshUser
  <2>5. CASE RotateAway(r)
    <3>1. sessions' \in [Token -> Row \cup {Unused, Pruned}]
      BY <2>5, RevokeRowsType DEF RotateAway, Rows
    <3>2. RequestsOK'
      BY <2>5, RequestType DEF RotateAway, At, Steps
    <3>3. QED
      BY <2>5, <3>1, <3>2 DEF RotateAway
  <2>6. CASE PasswordWrite(r)
    <3>1. req[r] \in Pending
      BY <2>6, BusyIsPending DEF PasswordWrite, At
    <3>2. RequestsOK'
      BY <2>6, RequestType DEF PasswordWrite, At, Steps
    <3>3. CASE users[req[r].user].deleted
      BY <2>6, <3>2, <3>3 DEF PasswordWrite
    <3>4. CASE ~users[req[r].user].deleted
      <4>1. users' \in [User -> [password : Nat, suspended : BOOLEAN, deleted : BOOLEAN]]
        BY <2>6, <3>1, <3>4 DEF PasswordWrite, Pending
      <4>2. endings' \in [User -> Nat]
        BY <2>6, <3>1, <3>4 DEF PasswordWrite, Pending
      <4>3. QED
        BY <2>6, <3>2, <4>1, <4>2 DEF PasswordWrite
    <3>5. QED
      BY <3>3, <3>4
  <2>7. CASE EndSessions(r)
    <3>1. sessions' \in [Token -> Row \cup {Unused, Pruned}]
      BY <2>7, RevokeRowsType DEF EndSessions, RevokeAllForUser, Rows
    <3>2. RequestsOK'
      BY <2>7, RequestType DEF EndSessions
    <3>3. QED
      BY <2>7, <3>1, <3>2 DEF EndSessions
  <2>8. CASE DeleteUser(r)
    <3>1. RequestsOK'
      BY <2>8, RequestType DEF DeleteUser
    <3>2. QED
      BY <2>8, <3>1 DEF DeleteUser
  <2>9. QED
    BY <1>2, <2>1, <2>2, <2>3, <2>4, <2>5, <2>6, <2>7, <2>8 DEF Continue
<1>3. ASSUME NEW r \in Request, EvictionFails(r) \/ Stop(r) PROVE TypeOK'
  <2>1. req[r] \in Pending
    BY <1>3, BusyIsPending DEF EvictionFails, Stop, At
  <2>2. RequestsOK'
    BY <1>3, RequestType DEF EvictionFails, Stop, At, Steps
  <2>3. lapses' \subseteq {"end", "evict"} \X User
    BY <1>3, <2>1 DEF EvictionFails, Stop, Pending
  <2>4. QED
    BY <1>3, <2>2, <2>3 DEF EvictionFails, Stop
<1>4. ASSUME NEW r \in Request, NEW t \in Token, RefreshRead(r, t) PROVE TypeOK'
  <2>1. sessions[t] \in Row
    BY <1>4, StoredIsRow DEF RefreshRead, Active, Rows
  <2>2. Begin("lookup", sessions[t].user) \in Pending
    BY <2>1, BeginType DEF Row, Steps
  <2>3. [Begin("lookup", sessions[t].user) EXCEPT
            !.parent = t, !.single = sessions[t].single,
            !.password = sessions[t].password] \in Pending
    BY <2>1, <2>2 DEF Row, Pending
  <2>4. [Begin("lookup", sessions[t].user) EXCEPT
            !.parent = t, !.single = sessions[t].single,
            !.password = sessions[t].password].pc = "lookup"
    BY DEF Begin
  <2>5. RequestsOK'
    BY <1>4, <2>3, <2>4, StartType DEF RefreshRead
  <2>6. QED
    BY <1>4, <2>5 DEF RefreshRead
<1>5. ASSUME NEW r \in Request, NEW u \in User,
             \/ LoginCheck(r, u)
             \/ PasswordCheck(r, u)
             \/ Suspend(r, u)
             \/ DeleteSessions(r, u)
      PROVE  TypeOK'
  <2>1. CASE LoginCheck(r, u)
    <3>1. Begin("create", u) \in Pending
      BY BeginType DEF Steps
    <3>2. SingleDevice(u) \in BOOLEAN
      BY DEF SingleDevice
    <3>3. [Begin("create", u) EXCEPT !.single = SingleDevice(u)] \in Pending
      BY <3>1, <3>2 DEF Pending
    <3>4. [Begin("create", u) EXCEPT !.single = SingleDevice(u)].pc = "create"
      BY DEF Begin
    <3>5. RequestsOK'
      BY <2>1, <3>3, <3>4, StartType DEF LoginCheck
    <3>6. QED
      BY <2>1, <3>5 DEF LoginCheck
  <2>2. CASE PasswordCheck(r, u)
    <3>1. RequestsOK'
      BY <2>2, BeginType, StartType DEF PasswordCheck, Steps
    <3>2. QED
      BY <2>2, <3>1 DEF PasswordCheck
  <2>3. CASE Suspend(r, u)
    <3>1. RequestsOK'
      BY <2>3, BeginType, StartType DEF Suspend, Steps
    <3>2. users' \in [User -> [password : Nat, suspended : BOOLEAN, deleted : BOOLEAN]]
      BY <2>3 DEF Suspend
    <3>3. QED
      BY <2>3, <3>1, <3>2 DEF Suspend
  <2>4. CASE DeleteSessions(r, u)
    <3>1. sessions' \in [Token -> Row \cup {Unused, Pruned}]
      BY <2>4, RevokeRowsType DEF DeleteSessions, RevokeAllForUser, Rows
    <3>2. RequestsOK'
      BY <2>4, BeginType, StartType DEF DeleteSessions, Steps
    <3>3. QED
      BY <2>4, <3>1, <3>2 DEF DeleteSessions
  <2>5. QED
    BY <1>5, <2>1, <2>2, <2>3, <2>4
<1>6. ASSUME NEW t \in Token, Logout(t) PROVE TypeOK'
  BY <1>6, RevokeRowsType DEF Logout, Rows
<1>7. ASSUME NEW t \in Token, GrowOld(t) PROVE TypeOK'
  <2>1. [sessions[t] EXCEPT !.age = @ + 1] \in Row
    BY <1>7, StoredIsRow DEF GrowOld, Row, Rows
  <2>2. QED
    BY <1>7, <2>1 DEF GrowOld
<1>8. ASSUME NEW u \in User, LogoutAll(u) PROVE TypeOK'
  BY <1>8, RevokeRowsType DEF LogoutAll, RevokeAllForUser, Rows
<1>9. ASSUME NEW u \in User, Restore(u) PROVE TypeOK'
  BY <1>9 DEF Restore
<1>10. CASE Sweep
  BY <1>10 DEF Sweep
<1>11. QED
  BY <1>1, <1>2, <1>3, <1>4, <1>5, <1>6, <1>7, <1>8, <1>9, <1>10 DEF Next

\* Every variable stays in its type: each statement writes whole, well-formed
\* rows, and a request only holds what it has read (all handlers of Sessions).
THEOREM TypeCorrect == Spec => []TypeOK
<1>1. Init => TypeOK
  BY DEF Init, TypeOK, Idle
<1>2. QED
  BY <1>1, TypeStep, PTL DEF Spec

-----------------------------------------------------------------------------
(* What a step may do to one row                                           *)

\* A row that exists keeps its identity and is never made usable again.
KeepsRow(t) ==
    /\ sessions'[t] # Unused
    /\ Active(t)' => Active(t)
    /\ Stored(t)' => /\ Stored(t)
                     /\ sessions'[t].user = sessions[t].user
                     /\ sessions'[t].single = sessions[t].single
                     /\ sessions'[t].parent = sessions[t].parent
                     /\ sessions'[t].since = sessions[t].since

LEMMA RevokeRowsKeepsRow ==
    ASSUME TypeOK, NEW S, RevokeRows(S), NEW t \in Token, sessions[t] # Unused
    PROVE  /\ KeepsRow(t)
           /\ t \in S => ~Active(t)'
<1>1. CASE t \in S /\ Stored(t)
  <2>1. sessions[t] \in Row /\ sessions'[t] = [sessions[t] EXCEPT !.revoked = TRUE]
    BY <1>1, StoredIsRow DEF RevokeRows, TypeOK, Rows
  <2>2. /\ sessions'[t].row = "stored" /\ sessions'[t].revoked = TRUE
        /\ sessions'[t].user = sessions[t].user
        /\ sessions'[t].single = sessions[t].single
        /\ sessions'[t].parent = sessions[t].parent
        /\ sessions'[t].since = sessions[t].since
    BY <2>1 DEF Row
  <2>3. sessions'[t] # Unused
    BY <2>2 DEF Unused
  <2>4. QED
    BY <1>1, <2>2, <2>3 DEF KeepsRow, Active, Stored
<1>2. CASE ~(t \in S /\ Stored(t))
  <2>1. sessions'[t] = sessions[t]
    BY <1>2 DEF RevokeRows
  <2>2. QED
    BY <1>2, <2>1 DEF KeepsRow, Active, Stored
<1>3. QED
  BY <1>1, <1>2

\* Every step keeps every row there is, and only CreateSession adds one.
LEMMA RowStep ==
    ASSUME TypeOK, [Next]_vars, NEW t \in Token
    PROVE  /\ sessions[t] # Unused => KeepsRow(t)
           /\ sessions[t] = Unused /\ sessions'[t] # Unused
                => \E r \in Request : CreateSession(r, t)
<1> DEFINE Goal == /\ sessions[t] # Unused => KeepsRow(t)
                   /\ sessions[t] = Unused /\ sessions'[t] # Unused
                        => \E r \in Request : CreateSession(r, t)
<1>1. ASSUME sessions'[t] = sessions[t] PROVE Goal
  BY <1>1 DEF KeepsRow, Active, Stored
<1>2. ASSUME NEW S, RevokeRows(S) PROVE Goal
  <2>1. CASE sessions[t] = Unused
    <3>1. ~Stored(t)
      BY <2>1 DEF Stored, Unused
    <3>2. sessions'[t] = sessions[t]
      BY <1>2, <3>1 DEF RevokeRows
    <3>3. QED
      BY <2>1, <3>2
  <2>2. CASE sessions[t] # Unused
    BY <1>2, <2>2, RevokeRowsKeepsRow
  <2>3. QED
    BY <2>1, <2>2
<1>3. ASSUME NEW r \in Request, NEW s \in Token, CreateSession(r, s) PROVE Goal
  <2>1. CASE s = t
    BY <1>3, <2>1 DEF CreateSession
  <2>2. CASE s # t
    <3>1. sessions'[t] = sessions[t]
      BY <1>3, <2>2 DEF CreateSession
    <3>2. QED
      BY <1>1, <3>1
  <2>3. QED
    BY <2>1, <2>2
<1>4. ASSUME NEW s \in Token, GrowOld(s) PROVE Goal
  <2>1. CASE s = t
    <3>1. sessions[t] \in Row /\ sessions[t].age \in 0..2
      BY <1>4, <2>1, StoredIsRow DEF GrowOld, TypeOK, Rows, Row
    <3>2. sessions'[t] = [sessions[t] EXCEPT !.age = @ + 1]
      BY <1>4, <2>1 DEF GrowOld, TypeOK
    <3>3. /\ sessions'[t].row = "stored" /\ sessions'[t].age = sessions[t].age + 1
          /\ sessions'[t].user = sessions[t].user
          /\ sessions'[t].single = sessions[t].single
          /\ sessions'[t].parent = sessions[t].parent
          /\ sessions'[t].since = sessions[t].since
      BY <3>1, <3>2 DEF Row
    <3>4. sessions'[t] # Unused /\ sessions[t] # Unused
      BY <1>4, <2>1, <3>3 DEF Unused, GrowOld, Stored
    <3>5. QED
      BY <1>4, <2>1, <3>1, <3>3, <3>4 DEF KeepsRow, Active, Stored, GrowOld
  <2>2. CASE s # t
    BY <1>1, <1>4, <2>2 DEF GrowOld
  <2>3. QED
    BY <2>1, <2>2
<1>5. CASE Sweep
  <2>1. CASE Stored(t) /\ sessions[t].age = 2
    BY <1>5, <2>1 DEF Sweep, KeepsRow, Active, Stored, Unused, Pruned
  <2>2. CASE ~(Stored(t) /\ sessions[t].age = 2)
    BY <1>1, <1>5, <2>2 DEF Sweep
  <2>3. QED
    BY <2>1, <2>2
<1>6. \/ UNCHANGED sessions
      \/ \E S : RevokeRows(S)
      \/ \E r \in Request, s \in Token : CreateSession(r, s)
      \/ \E s \in Token : GrowOld(s)
      \/ Sweep
  <2> USE DEF RevokeAllForUser
  <2>1. CASE UNCHANGED vars
    BY <2>1 DEF vars
  <2>2. ASSUME NEW r \in Request, Continue(r) PROVE <1>6
    BY <2>2 DEF Continue, EvictOthers, Deliver, RefreshUser, RotateAway,
                PasswordWrite, EndSessions, DeleteUser
  <2>3. ASSUME NEW r \in Request,
               \/ EvictionFails(r)
               \/ Stop(r)
               \/ \E s \in Token : RefreshRead(r, s)
               \/ \E u \in User : \/ LoginCheck(r, u)
                                  \/ PasswordCheck(r, u)
                                  \/ Suspend(r, u)
                                  \/ DeleteSessions(r, u)
        PROVE  <1>6
    BY <2>3 DEF EvictionFails, Stop, RefreshRead, LoginCheck, PasswordCheck,
                Suspend, DeleteSessions
  <2>4. ASSUME \/ \E s \in Token : Logout(s) \/ GrowOld(s)
               \/ \E u \in User : LogoutAll(u) \/ Restore(u)
               \/ Sweep
        PROVE  <1>6
    BY <2>4 DEF Logout, LogoutAll, Restore
  <2>5. QED
    BY <2>1, <2>2, <2>3, <2>4 DEF Next
<1>7. QED
  BY <1>1, <1>2, <1>3, <1>4, <1>5, <1>6

\* No step brings a session back (every revocation is an UPDATE that sets
\* revoked_at, and token ids are drawn fresh).
THEOREM SessionsEndForGood == Spec => EndedForGood
<1>1. TypeOK /\ [Next]_vars
        => [\A t \in Token : sessions[t] # Unused /\ ~Active(t) => ~Active(t)']_vars
  BY RowStep DEF KeepsRow
<1>2. QED
  BY <1>1, TypeCorrect, PTL DEF Spec, EndedForGood

-----------------------------------------------------------------------------
(* What a step may do to one request                                       *)

\* A request is left alone, ends, begins, stores its session, or goes on to
\* its next statement with everything it read unchanged.
RequestMoves(r) ==
    \/ req'[r] = req[r]
    \/ req'[r] = Idle
    \/ /\ req'[r] \in Pending
       /\ req'[r].pc \in {"create", "setPassword", "end", "remove"}
       /\ req'[r].parent = NoToken
    \/ \E t \in Token : /\ Active(t)
                        /\ req'[r] \in Pending
                        /\ req'[r].pc = "lookup"
                        /\ req'[r].parent = t
    \/ \E t \in Token : CreateSession(r, t)
    \/ RotateAway(r)
    \/ \E step \in {"rotate", "mint", "end"} :
          /\ req[r] \in Pending
          /\ req'[r] = [req[r] EXCEPT !.pc = step]
          /\ step = "mint" <=> At(r, "evict")

LEMMA RequestStep ==
    ASSUME TypeOK, [Next]_vars, NEW r \in Request
    PROVE  RequestMoves(r)
<1> USE DEF RequestMoves
<1>1. ASSUME UNCHANGED req PROVE RequestMoves(r)
  BY <1>1
<1>2. ASSUME NEW q \in Request, q # r, NEW x, req' = [req EXCEPT ![q] = x]
      PROVE  RequestMoves(r)
  BY <1>2 DEF TypeOK
<1>3. ASSUME NEW q \in Request, q # r, Continue(q) \/ EvictionFails(q) \/ Stop(q)
      PROVE  RequestMoves(r)
  BY <1>3 DEF TypeOK, Continue, CreateSession, EvictOthers, Deliver, RefreshUser,
              RotateAway, PasswordWrite, EndSessions, DeleteUser, EvictionFails,
              Stop, Goto, Return
<1>4. ASSUME Continue(r) \/ EvictionFails(r) \/ Stop(r) PROVE RequestMoves(r)
  <2>1. CASE Return(r)
    BY <2>1 DEF TypeOK, Return
  <2>2. ASSUME NEW step \in {"rotate", "mint", "end"}, ~At(r, "idle"),
               step = "mint" <=> At(r, "evict"), Goto(r, step)
        PROVE  RequestMoves(r)
    BY <2>2, BusyIsPending DEF TypeOK, Goto
  <2>3. CASE EvictOthers(r) \/ EvictionFails(r)
    BY <2>2, <2>3 DEF EvictOthers, EvictionFails, At
  <2>4. CASE RefreshUser(r)
    BY <2>1, <2>2, <2>4 DEF RefreshUser, At
  <2>5. CASE PasswordWrite(r)
    BY <2>1, <2>2, <2>5 DEF PasswordWrite, At
  <2>6. QED
    BY <1>4, <2>1, <2>3, <2>4, <2>5
       DEF Continue, Deliver, EndSessions, DeleteUser, Stop
<1>5. ASSUME NEW q \in Request, NEW t \in Token, RefreshRead(q, t)
      PROVE  RequestMoves(r)
  <2>1. sessions[t] \in Row
    BY <1>5, StoredIsRow DEF RefreshRead, Active, Rows, TypeOK
  <2>2. [Begin("lookup", sessions[t].user) EXCEPT
            !.parent = t, !.single = sessions[t].single,
            !.password = sessions[t].password] \in Pending
    <3>1. Begin("lookup", sessions[t].user) \in Pending
      BY <2>1, BeginType DEF Row, Steps
    <3>2. QED
      BY <2>1, <3>1 DEF Row, Pending
  <2>3. QED
    BY <1>2, <1>5, <2>2 DEF RefreshRead, Begin, TypeOK
<1>6. ASSUME NEW q \in Request, NEW u \in User,
             \/ LoginCheck(q, u)
             \/ PasswordCheck(q, u)
             \/ Suspend(q, u)
             \/ DeleteSessions(q, u)
      PROVE  RequestMoves(r)
  <2>1. SingleDevice(u) \in BOOLEAN
    BY DEF SingleDevice
  <2>2. ASSUME NEW step \in {"create", "setPassword", "end", "remove"}
        PROVE  /\ Begin(step, u) \in Pending
               /\ Begin(step, u).pc = step
               /\ Begin(step, u).parent = NoToken
    BY BeginType DEF Steps, Begin
  <2>3. [Begin("create", u) EXCEPT !.single = SingleDevice(u)] \in Pending
    BY <2>1, <2>2 DEF Pending
  <2>4. CASE LoginCheck(q, u)
    BY <1>2, <2>3, <2>4 DEF LoginCheck, Begin, TypeOK
  <2>5. CASE PasswordCheck(q, u) \/ Suspend(q, u) \/ DeleteSessions(q, u)
    BY <1>2, <2>2, <2>5 DEF PasswordCheck, Suspend, DeleteSessions, TypeOK
  <2>6. QED
    BY <1>6, <2>4, <2>5
<1>7. ASSUME \/ \E t \in Token : Logout(t) \/ GrowOld(t)
             \/ \E u \in User : LogoutAll(u) \/ Restore(u)
             \/ Sweep
             \/ UNCHANGED vars
      PROVE  RequestMoves(r)
  BY <1>1, <1>7 DEF Logout, GrowOld, LogoutAll, Restore, Sweep, vars
<1>8. QED
  BY <1>3, <1>4, <1>5, <1>6, <1>7 DEF Next

-----------------------------------------------------------------------------
(* Rotation                                                                *)

\* What a request points at exists, the session a rotation is about to replace
\* is already out of use, and a session of its own is its user's.
RequestLinked(r) ==
    /\ ~At(r, "idle") /\ req[r].parent # NoToken => sessions[req[r].parent] # Unused
    /\ At(r, "create") /\ req[r].parent # NoToken => ~Active(req[r].parent)
    /\ req[r].pc \in {"evict", "mint"} =>
          /\ sessions[req[r].token] # Unused
          /\ Stored(req[r].token) => sessions[req[r].token].user = req[r].user

\* A session made by a rotation has a predecessor, which is out of use.
RowLinked(t) ==
    Stored(t) /\ sessions[t].parent # NoToken =>
        /\ sessions[sessions[t].parent] # Unused
        /\ ~Active(sessions[t].parent)

Linked == /\ \A r \in Request : RequestLinked(r)
          /\ \A t \in Token : RowLinked(t)

LEMMA RequestLinkedStep ==
    ASSUME TypeOK, TypeOK', Linked, [Next]_vars, NEW r \in Request
    PROVE  RequestLinked(r)'
<1> USE DEF RequestLinked
<1>1. RequestLinked(r)
  BY DEF Linked
<1>2. \A t \in Token : sessions[t] # Unused => KeepsRow(t)
  BY RowStep
<1>3. /\ req[r].pc \in {"evict", "mint"} => req[r].token \in Token
      /\ req[r] \in Pending \/ req[r] = Idle
  BY DEF TypeOK
<1>4. ASSUME req'[r] = req[r] PROVE RequestLinked(r)'
  BY <1>1, <1>2, <1>3, <1>4 DEF KeepsRow, At, Pending, Idle
<1>5. CASE req'[r] = Idle
  BY <1>5 DEF At, Idle
<1>6. CASE /\ req'[r] \in Pending
           /\ req'[r].pc \in {"create", "setPassword", "end", "remove"}
           /\ req'[r].parent = NoToken
  BY <1>6 DEF At
<1>7. ASSUME NEW t \in Token, Active(t), req'[r] \in Pending,
             req'[r].pc = "lookup", req'[r].parent = t
      PROVE  RequestLinked(r)'
  <2>1. sessions[t] # Unused
    BY <1>7 DEF Active, Stored, Unused
  <2>2. QED
    BY <1>2, <1>7, <2>1 DEF KeepsRow, At
<1>8. ASSUME NEW t \in Token, CreateSession(r, t) PROVE RequestLinked(r)'
  <2>1. req[r] \in Pending
    BY <1>8, BusyIsPending DEF CreateSession, At, TypeOK
  <2>2. /\ req'[r].pc \in {"evict", "mint"}
        /\ req'[r].token = t
        /\ req'[r].user = req[r].user
        /\ req'[r].parent = req[r].parent
    BY <1>8, <2>1 DEF CreateSession, Pending, TypeOK
  <2>3. /\ sessions'[t] # Unused
        /\ sessions'[t].user = req[r].user
    BY <1>8 DEF CreateSession, Unused, TypeOK
  <2>4. req[r].parent # NoToken => sessions'[req[r].parent] # Unused
    BY <1>1, <1>2, <1>8, <2>1 DEF CreateSession, KeepsRow, At, Pending
  <2>5. QED
    BY <2>2, <2>3, <2>4 DEF At
<1>9. CASE RotateAway(r)
  <2>1. req[r] \in Pending
    BY <1>9, BusyIsPending DEF RotateAway, At, TypeOK
  <2>2. req'[r].pc = "create" /\ req'[r].parent = req[r].parent
    BY <1>9, <2>1 DEF RotateAway, Goto, Pending, TypeOK
  <2>3. ASSUME NEW p \in Token, req[r].parent = p
        PROVE  sessions'[p] # Unused /\ ~Active(p)'
    <3>1. sessions[p] # Unused
      BY <1>1, <1>9, <2>3, NoTokenAssumption DEF RotateAway, At
    <3>2. RevokeRows({p})
      BY <1>9, <2>3 DEF RotateAway
    <3>3. QED
      BY <3>1, <3>2, RevokeRowsKeepsRow DEF KeepsRow
  <2>4. req[r].parent \in Token \cup {NoToken}
    BY <2>1 DEF Pending
  <2>5. QED
    BY <2>2, <2>3, <2>4 DEF At, Active, Stored
<1>10. ASSUME NEW step \in {"rotate", "mint", "end"}, req[r] \in Pending,
              req'[r] = [req[r] EXCEPT !.pc = step],
              step = "mint" <=> At(r, "evict")
       PROVE  RequestLinked(r)'
  <2>1. /\ req'[r].pc = step
        /\ req'[r].parent = req[r].parent
        /\ req'[r].token = req[r].token
        /\ req'[r].user = req[r].user
    BY <1>10 DEF Pending
  <2>2. req[r].pc # "idle" /\ req[r].parent \in Token \cup {NoToken}
    BY <1>10 DEF Pending, Steps
  <2>3. QED
    BY <1>1, <1>2, <1>3, <1>10, <2>1, <2>2 DEF KeepsRow, At
<1>11. QED
  BY <1>4, <1>5, <1>6, <1>7, <1>8, <1>9, <1>10, RequestStep DEF RequestMoves

LEMMA RowLinkedStep ==
    ASSUME TypeOK, TypeOK', Linked, [Next]_vars, NEW t \in Token
    PROVE  RowLinked(t)'
<1>1. Stored(t)' => sessions'[t] # Unused /\ sessions'[t].parent \in Token \cup {NoToken}
  <2>1. SUFFICES ASSUME Stored(t)'
                 PROVE  sessions'[t] # Unused /\ sessions'[t] \in Row
    BY DEF Row
  <2>2. Unused.row = "none" /\ Pruned.row = "pruned"
    BY DEF Unused, Pruned
  <2>3. sessions'[t] \in Row \cup {Unused, Pruned} /\ sessions'[t].row = "stored"
    BY <2>1 DEF TypeOK, Stored
  <2>4. QED
    BY <2>2, <2>3
<1> SUFFICES ASSUME NEW p \in Token, Stored(t)', p = sessions'[t].parent
             PROVE  sessions'[p] # Unused /\ ~Active(p)'
  BY <1>1 DEF RowLinked, Active, Stored
<1>2. ASSUME sessions[p] # Unused, ~Active(p)
      PROVE  sessions'[p] # Unused /\ ~Active(p)'
  BY <1>2, RowStep DEF KeepsRow
<1>3. CASE sessions[t] # Unused
  <2>1. Stored(t) /\ sessions'[t].parent = sessions[t].parent
    BY <1>3, RowStep DEF KeepsRow
  <2>2. QED
    BY <1>2, <2>1, NoTokenAssumption DEF Linked, RowLinked
<1>4. CASE sessions[t] = Unused
  <2>1. PICK r \in Request : CreateSession(r, t)
    BY <1>1, <1>4, RowStep
  <2>2. p = req[r].parent
    BY <2>1 DEF CreateSession, TypeOK
  <2>3. sessions[p] # Unused /\ ~Active(p)
    BY <2>1, <2>2, NoTokenAssumption DEF Linked, RequestLinked, CreateSession, At
  <2>4. QED
    BY <1>2, <2>3
<1>5. QED
  BY <1>3, <1>4

\* The invariant behind the properties below.
LEMMA LinkedInvariant == Spec => [](TypeOK /\ Linked)
<1>1. Init => Linked
  BY DEF Init, Linked, RequestLinked, RowLinked, At, Idle, Stored, Unused
<1>2. TypeOK /\ TypeOK' /\ Linked /\ [Next]_vars => Linked'
  BY RequestLinkedStep, RowLinkedStep DEF Linked
<1>3. QED
  BY <1>1, <1>2, TypeCorrect, PTL DEF Spec

\* A session that was rotated away is out of use before its successor exists,
\* whatever ran between the Revoke and the Create of the refresh.
THEOREM RotationRetires == Spec => []RotationRetiresParent
<1>1. Linked => RotationRetiresParent
  BY DEF Linked, RowLinked, RotationRetiresParent
<1>2. QED
  BY <1>1, LinkedInvariant, PTL

-----------------------------------------------------------------------------
(* Password changes and suspensions                                        *)

\* Why a session older than the last ending of its account may still be usable.
Excused(t, u) == \/ sessions[t].since = endings[u]
                 \/ EndingPending(u)
                 \/ <<"end", u>> \in lapses

LEMMA EndingsStep ==
    ASSUME TypeOK, TypeOK', EndingsReachEverySession, [Next]_vars,
           NEW t \in Token, NEW u \in User, Active(t)', sessions'[t].user = u
    PROVE  Excused(t, u)'
<1>1. CASE \E r \in Request : CreateSession(r, t)
  BY <1>1 DEF CreateSession, Excused, TypeOK
<1>2. CASE ~\E r \in Request : CreateSession(r, t)
  <2>1. sessions[t] # Unused
    <3>1. sessions'[t] # Unused
      BY DEF Active, Stored, Unused
    <3>2. QED
      BY <1>2, <3>1, RowStep
  <2>2. /\ Active(t)
        /\ sessions[t].user = u
        /\ sessions'[t].since = sessions[t].since
    BY <2>1, RowStep DEF KeepsRow, Active
  <2>3. Excused(t, u)
    BY <2>2 DEF EndingsReachEverySession, Excused
  <2>4. t \in SessionsOf(u)
    BY <2>2 DEF SessionsOf, Active
  <2>5. ASSUME endings'[u] = endings[u],
               <<"end", u>> \in lapses => <<"end", u>> \in lapses',
               EndingPending(u) => EndingPending(u)' \/ <<"end", u>> \in lapses'
        PROVE  Excused(t, u)'
    BY <2>2, <2>3, <2>5 DEF Excused
  <2>6. ASSUME NEW q \in Request, NEW x, req' = [req EXCEPT ![q] = x],
               At(q, "end") => req[q].user # u \/ <<"end", u>> \in lapses'
        PROVE  EndingPending(u) => EndingPending(u)' \/ <<"end", u>> \in lapses'
    BY <2>6 DEF EndingPending, At, TypeOK
  <2>7. ASSUME UNCHANGED <<req, endings, lapses>> PROVE Excused(t, u)'
    BY <2>5, <2>7 DEF EndingPending, At
  <2>8. ASSUME NEW r \in Request, EndSessions(r) PROVE Excused(t, u)'
    <3>1. req[r].user # u
      <4>1. SUFFICES ASSUME req[r].user = u PROVE FALSE
        OBVIOUS
      <4>2. RevokeRows(SessionsOf(u))
        BY <2>8, <4>1 DEF EndSessions, RevokeAllForUser
      <4>3. ~Active(t)'
        BY <2>1, <2>4, <4>2, RevokeRowsKeepsRow
      <4>4. QED
        BY <4>3
    <3>2. QED
      BY <2>5, <2>6, <2>8, <3>1 DEF EndSessions, Return
  <2>9. ASSUME NEW r \in Request, Stop(r) PROVE Excused(t, u)'
    BY <2>5, <2>6, <2>9 DEF Stop, Return, At
  <2>10. ASSUME NEW r \in Request, PasswordWrite(r) PROVE Excused(t, u)'
    <3>1. req[r] \in Pending
      BY <2>10, BusyIsPending DEF PasswordWrite, At, TypeOK
    <3>2. CASE users[req[r].user].deleted
      BY <2>5, <2>6, <2>10, <3>2 DEF PasswordWrite, Return, At
    <3>3. CASE ~users[req[r].user].deleted /\ req[r].user = u
      <4>1. req'[r].pc = "end" /\ req'[r].user = u
        BY <2>10, <3>1, <3>3 DEF PasswordWrite, Goto, Pending, TypeOK
      <4>2. QED
        BY <4>1 DEF Excused, EndingPending, At
    <3>4. CASE ~users[req[r].user].deleted /\ req[r].user # u
      <4>1. /\ endings'[u] = endings[u]
            /\ UNCHANGED lapses
            /\ req' = [req EXCEPT ![r] = [req[r] EXCEPT !.pc = "end"]]
            /\ ~At(r, "end")
        BY <2>10, <3>4 DEF PasswordWrite, Goto, At, TypeOK
      <4>2. QED
        BY <2>5, <2>6, <4>1
    <3>5. QED
      BY <3>2, <3>3, <3>4
  <2>11. ASSUME NEW r \in Request, NEW v \in User, Suspend(r, v) PROVE Excused(t, u)'
    <3>1. CASE v = u
      BY <2>11, <3>1 DEF Suspend, Begin, Excused, EndingPending, At, TypeOK
    <3>2. CASE v # u
      <4>1. endings'[u] = endings[u] /\ UNCHANGED lapses /\ ~At(r, "end")
        BY <2>11, <3>2 DEF Suspend, At, TypeOK
      <4>2. QED
        BY <2>5, <2>6, <2>11, <4>1 DEF Suspend
    <3>3. QED
      BY <3>1, <3>2
  <2>12. ASSUME NEW r \in Request, EvictOthers(r) \/ EvictionFails(r)
         PROVE  Excused(t, u)'
    <3>1. /\ endings'[u] = endings[u]
          /\ <<"end", u>> \in lapses => <<"end", u>> \in lapses'
          /\ ~At(r, "end")
          /\ req' = [req EXCEPT ![r] = [req[r] EXCEPT !.pc = "mint"]]
      BY <2>12 DEF EvictOthers, EvictionFails, At, Goto
    <3>2. QED
      BY <2>5, <2>6, <3>1
  <2>13. ASSUME NEW r \in Request, NEW x, req' = [req EXCEPT ![r] = x],
                ~At(r, "end"), UNCHANGED <<endings, lapses>>
         PROVE  Excused(t, u)'
    BY <2>5, <2>6, <2>13
  <2>14. ASSUME NEW r \in Request, Continue(r) PROVE Excused(t, u)'
    <3>1. ASSUME NEW s \in Token, CreateSession(r, s) PROVE Excused(t, u)'
      <4>1. req' = [req EXCEPT ![r] = req'[r]]
        BY <3>1 DEF CreateSession, TypeOK
      <4>2. QED
        BY <2>13, <3>1, <4>1 DEF CreateSession, At
    <3>2. CASE Deliver(r) \/ DeleteUser(r)
      BY <2>13, <3>2 DEF Deliver, DeleteUser, Return, At
    <3>3. CASE RefreshUser(r)
      BY <2>13, <3>3 DEF RefreshUser, Goto, Return, At
    <3>4. CASE RotateAway(r)
      BY <2>13, <3>4 DEF RotateAway, Goto, At
    <3>5. QED
      BY <2>8, <2>10, <2>12, <2>14, <3>1, <3>2, <3>3, <3>4 DEF Continue
  <2>15. ASSUME NEW r \in Request,
                \/ \E s \in Token : RefreshRead(r, s)
                \/ \E v \in User : \/ LoginCheck(r, v)
                                   \/ PasswordCheck(r, v)
                                   \/ DeleteSessions(r, v)
         PROVE  Excused(t, u)'
    BY <2>13, <2>15 DEF RefreshRead, LoginCheck, PasswordCheck, DeleteSessions, At
  <2>16. ASSUME \/ \E s \in Token : Logout(s) \/ GrowOld(s)
                \/ \E v \in User : LogoutAll(v) \/ Restore(v)
                \/ Sweep
                \/ UNCHANGED vars
         PROVE  Excused(t, u)'
    BY <2>7, <2>16 DEF Logout, GrowOld, LogoutAll, Restore, Sweep, vars
  <2>17. QED
    BY <2>9, <2>11, <2>12, <2>14, <2>15, <2>16 DEF Next
<1>3. QED
  BY <1>1, <1>2

\* A committed password change or suspension leaves no session stored before it
\* usable, unless its RevokeAllForUser is still to run or has failed.
THEOREM EndingsReach == Spec => []EndingsReachEverySession
<1>1. Init => EndingsReachEverySession
  BY DEF Init, EndingsReachEverySession, Active, Stored, Unused
<1>2. TypeOK /\ TypeOK' /\ EndingsReachEverySession /\ [Next]_vars
        => EndingsReachEverySession'
  <2> SUFFICES ASSUME TypeOK, TypeOK', EndingsReachEverySession, [Next]_vars,
                      NEW t \in Token, Active(t)'
               PROVE  Excused(t, sessions[t].user)'
    BY DEF EndingsReachEverySession, Excused
  <2>1. sessions'[t].user \in User
    <3>1. Unused.row = "none" /\ Pruned.row = "pruned"
      BY DEF Unused, Pruned
    <3>2. sessions'[t] \in Row
      BY <3>1 DEF TypeOK, Active, Stored
    <3>3. QED
      BY <3>2 DEF Row
  <2>2. QED
    BY <2>1, EndingsStep DEF Excused, EndingPending
<1>3. QED
  BY <1>1, <1>2, TypeCorrect, PTL DEF Spec

-----------------------------------------------------------------------------
(* One-device accounts                                                     *)

\* A usable session that a login of a one-device account opened for u.
LoginBorn(t, u) == /\ Active(t)
                   /\ sessions[t].single
                   /\ sessions[t].parent = NoToken
                   /\ sessions[t].user = u

\* Why two such sessions may both be usable for now.
Contested(s, t, u) == \/ \E r \in Request : At(r, "evict") /\ req[r].token \in {s, t}
                      \/ <<"evict", u>> \in lapses

LEMMA LoginsStep ==
    ASSUME TypeOK, TypeOK', Linked, LoginsDoNotShareADevice, [Next]_vars,
           NEW s \in Token, NEW t \in Token, NEW u \in User, s # t,
           LoginBorn(s, u)', LoginBorn(t, u)'
    PROVE  Contested(s, t, u)'
<1>1. ASSUME NEW r \in Request, NEW x \in {s, t}, CreateSession(r, x)
      PROVE  Contested(s, t, u)'
  <2>1. sessions'[x].single /\ sessions'[x].parent = NoToken
    BY <1>1 DEF LoginBorn
  <2>2. req[r].single /\ req[r].parent = NoToken
    BY <1>1, <2>1 DEF CreateSession, TypeOK
  <2>3. req[r] \in Pending
    BY <1>1, BusyIsPending DEF CreateSession, At, TypeOK
  <2>4. req'[r].pc = "evict" /\ req'[r].token = x
    BY <1>1, <2>2, <2>3 DEF CreateSession, Pending, TypeOK
  <2>5. QED
    BY <1>1, <2>4 DEF Contested, At
<1>2. CASE ~\E r \in Request : CreateSession(r, s) \/ CreateSession(r, t)
  <2>1. ASSUME NEW x \in {s, t}
        PROVE  sessions[x] # Unused /\ LoginBorn(x, u)
    <3>1. sessions'[x] # Unused
      BY DEF LoginBorn, Active, Stored, Unused
    <3>2. sessions[x] # Unused /\ KeepsRow(x)
      BY <1>2, <3>1, RowStep
    <3>3. QED
      BY <3>2 DEF KeepsRow, LoginBorn, Active
  <2>2. Contested(s, t, u)
    BY <2>1 DEF LoginsDoNotShareADevice, LoginBorn, Contested
  <2>3. ASSUME NEW q \in Request, At(q, "evict"), req[q].token \in {s, t}
        PROVE  req[q].user = u
    BY <2>1, <2>3 DEF Linked, RequestLinked, LoginBorn, Active, At
  <2>4. ASSUME NEW q \in Request, NEW x, req' = [req EXCEPT ![q] = x],
               <<"evict", u>> \in lapses => <<"evict", u>> \in lapses',
               At(q, "evict") => \/ req[q].token \notin {s, t}
                                 \/ <<"evict", u>> \in lapses'
        PROVE  Contested(s, t, u)'
    BY <2>2, <2>4 DEF Contested, At, TypeOK
  <2>5. ASSUME NEW q \in Request, EvictOthers(q) PROVE Contested(s, t, u)'
    <3>1. req[q].user # u
      <4>1. SUFFICES ASSUME req[q].user = u PROVE FALSE
        OBVIOUS
      <4>2. PICK x \in {s, t} : x # req[q].token
        OBVIOUS
      <4>3. x \in OtherSingleDevice(u, req[q].token)
        BY <2>1, <4>2 DEF OtherSingleDevice, SessionsOf, LoginBorn, Active
      <4>4. RevokeRows(OtherSingleDevice(u, req[q].token))
        BY <2>5, <4>1 DEF EvictOthers
      <4>5. ~Active(x)'
        BY <2>1, <4>3, <4>4, RevokeRowsKeepsRow
      <4>6. QED
        BY <4>5 DEF LoginBorn
    <3>2. req[q].token \notin {s, t}
      BY <2>3, <2>5, <3>1 DEF EvictOthers
    <3>3. QED
      BY <2>4, <2>5, <3>1, <3>2 DEF EvictOthers, Goto
  <2>6. ASSUME NEW q \in Request, EvictionFails(q) \/ Stop(q)
        PROVE  Contested(s, t, u)'
    <3>1. <<"evict", u>> \in lapses => <<"evict", u>> \in lapses'
      BY <2>6 DEF EvictionFails, Stop
    <3>2. At(q, "evict") => \/ req[q].token \notin {s, t}
                            \/ <<"evict", u>> \in lapses'
      BY <2>3, <2>6 DEF EvictionFails, Stop, At
    <3>3. QED
      BY <2>4, <2>6, <3>1, <3>2 DEF EvictionFails, Stop, Goto, Return
  <2>7. ASSUME NEW q \in Request, ~At(q, "evict"),
               NEW x, req' = [req EXCEPT ![q] = x],
               <<"evict", u>> \in lapses => <<"evict", u>> \in lapses'
        PROVE  Contested(s, t, u)'
    BY <2>4, <2>7
  <2>8. ASSUME NEW q \in Request, Continue(q) PROVE Contested(s, t, u)'
    <3>1. ASSUME NEW x \in Token, CreateSession(q, x) PROVE Contested(s, t, u)'
      <4>1. req' = [req EXCEPT ![q] = req'[q]]
        BY <3>1 DEF CreateSession, TypeOK
      <4>2. QED
        BY <2>7, <3>1, <4>1 DEF CreateSession, At
    <3>2. CASE Deliver(q) \/ DeleteUser(q) \/ EndSessions(q)
      BY <2>7, <3>2 DEF Deliver, DeleteUser, EndSessions, Return, At
    <3>3. CASE RefreshUser(q)
      BY <2>7, <3>3 DEF RefreshUser, Goto, Return, At
    <3>4. CASE RotateAway(q)
      BY <2>7, <3>4 DEF RotateAway, Goto, At
    <3>5. CASE PasswordWrite(q)
      BY <2>7, <3>5 DEF PasswordWrite, Goto, Return, At
    <3>6. QED
      BY <2>5, <2>8, <3>1, <3>2, <3>3, <3>4, <3>5 DEF Continue
  <2>9. ASSUME NEW q \in Request,
               \/ \E x \in Token : RefreshRead(q, x)
               \/ \E v \in User : \/ LoginCheck(q, v)
                                  \/ PasswordCheck(q, v)
                                  \/ Suspend(q, v)
                                  \/ DeleteSessions(q, v)
        PROVE  Contested(s, t, u)'
    BY <2>7, <2>9 DEF RefreshRead, LoginCheck, PasswordCheck, Suspend,
                      DeleteSessions, At
  <2>10. ASSUME \/ \E x \in Token : Logout(x) \/ GrowOld(x)
                \/ \E v \in User : LogoutAll(v) \/ Restore(v)
                \/ Sweep
                \/ UNCHANGED vars
         PROVE  Contested(s, t, u)'
    BY <2>2, <2>10 DEF Logout, GrowOld, LogoutAll, Restore, Sweep, vars, Contested, At
  <2>11. QED
    BY <2>6, <2>8, <2>9, <2>10 DEF Next
<1>3. QED
  BY <1>1, <1>2

\* Two logins of a one-device account never both keep their session, unless an
\* eviction is still to run or has failed.
THEOREM LoginsExclude == Spec => []LoginsDoNotShareADevice
<1>1. Init => LoginsDoNotShareADevice
  BY DEF Init, LoginsDoNotShareADevice, Active, Stored, Unused
<1>2. TypeOK /\ TypeOK' /\ Linked /\ LoginsDoNotShareADevice /\ [Next]_vars
        => LoginsDoNotShareADevice'
  <2> SUFFICES ASSUME TypeOK, TypeOK', Linked, LoginsDoNotShareADevice, [Next]_vars,
                      NEW s \in Token, NEW t \in Token, s # t,
                      LoginBorn(s, sessions[t].user)', LoginBorn(t, sessions[t].user)'
               PROVE  Contested(s, t, sessions[t].user)'
    BY DEF LoginsDoNotShareADevice, LoginBorn, Contested
  <2>1. sessions'[t].user \in User
    <3>1. Unused.row = "none" /\ Pruned.row = "pruned"
      BY DEF Unused, Pruned
    <3>2. sessions'[t] \in Row
      BY <3>1 DEF TypeOK, LoginBorn, Active, Stored
    <3>3. QED
      BY <3>2 DEF Row
  <2>2. QED
    BY <2>1, LoginsStep DEF LoginBorn, Contested
<1>3. QED
  BY <1>1, <1>2, LinkedInvariant, PTL DEF Spec

-----------------------------------------------------------------------------
(* Refinement                                                              *)

\* The sessions one step puts out of use all belong to one account.
LEMMA ClosesOneAccount ==
    ASSUME TypeOK, [Next]_vars, NEW t \in Token, Active(t), ~Active(t)'
    PROVE  \A s \in Token : Active(s) /\ ~Active(s)'
                              => sessions[s].user = sessions[t].user
<1>1. ASSUME NEW S, NEW u, RevokeRows(S), \A x \in S \cap Token : Active(x) => sessions[x].user = u
      PROVE  \A s \in Token : Active(s) /\ ~Active(s)' => sessions[s].user = u
  <2>1. ASSUME NEW s \in Token, s \notin S, Active(s) PROVE Active(s)'
    BY <1>1, <2>1 DEF RevokeRows, Active, Stored
  <2>2. QED
    BY <1>1, <2>1
<1>2. ASSUME NEW u, RevokeAllForUser(u)
      PROVE  \A s \in Token : Active(s) /\ ~Active(s)'
                                => sessions[s].user = sessions[t].user
  BY <1>1, <1>2 DEF RevokeAllForUser, SessionsOf
<1>3. ASSUME NEW x, RevokeRows({x})
      PROVE  \A s \in Token : Active(s) /\ ~Active(s)'
                                => sessions[s].user = sessions[t].user
  <2>1. RevokeRows({x}) => \A s \in Token : Active(s) /\ ~Active(s)' => s = x
    BY DEF RevokeRows, Active, Stored
  <2>2. QED
    BY <1>3, <2>1
<1>4. ASSUME NEW q \in Request, EvictOthers(q)
      PROVE  \A s \in Token : Active(s) /\ ~Active(s)'
                                => sessions[s].user = sessions[t].user
  <2>1. RevokeRows(OtherSingleDevice(req[q].user, req[q].token))
    BY <1>4 DEF EvictOthers
  <2>2. \A x \in OtherSingleDevice(req[q].user, req[q].token) :
            sessions[x].user = req[q].user
    BY DEF OtherSingleDevice, SessionsOf
  <2>3. QED
    BY <1>1, <2>1, <2>2
<1>5. ASSUME NEW x \in Token, GrowOld(x)
      PROVE  \A s \in Token : Active(s) /\ ~Active(s)' => s = x
  BY <1>5 DEF GrowOld, Active, Stored, TypeOK
<1>6. ASSUME UNCHANGED sessions PROVE FALSE
  BY <1>6 DEF Active, Stored
<1>7. ASSUME Sweep PROVE FALSE
  BY <1>7 DEF Sweep, Active, Stored
<1>8. ASSUME NEW q \in Request, NEW x \in Token, CreateSession(q, x) PROVE FALSE
  BY <1>8 DEF CreateSession, Active, Stored, Unused, TypeOK
<1>9. CASE \E q \in Request : Continue(q)
  BY <1>2, <1>3, <1>4, <1>6, <1>8, <1>9
     DEF Continue, Deliver, RefreshUser, RotateAway, PasswordWrite, EndSessions, DeleteUser
<1>10. CASE \E q \in Request :
              \/ EvictionFails(q)
              \/ Stop(q)
              \/ \E x \in Token : RefreshRead(q, x)
              \/ \E u \in User : \/ LoginCheck(q, u)
                                 \/ PasswordCheck(q, u)
                                 \/ Suspend(q, u)
                                 \/ DeleteSessions(q, u)
  BY <1>2, <1>6, <1>10 DEF EvictionFails, Stop, RefreshRead, LoginCheck,
                           PasswordCheck, Suspend, DeleteSessions
<1>11. CASE \/ \E x \in Token : Logout(x) \/ GrowOld(x)
            \/ \E u \in User : LogoutAll(u) \/ Restore(u)
            \/ Sweep
            \/ UNCHANGED vars
  BY <1>2, <1>3, <1>5, <1>6, <1>7, <1>11 DEF Logout, LogoutAll, Restore, vars
<1>12. QED
  BY <1>9, <1>10, <1>11 DEF Next

\* One step of the store is one step of the lifecycle, or none.
LEMMA LifecycleStep ==
    ASSUME TypeOK, TypeOK', [Next]_vars
    PROVE  [Lifecycle!LNext]_(Lifecycle!lvars)
<1> USE DEF Phase, Owner
<1>1. ASSUME NEW t \in Token, Active(t)'
      PROVE  sessions'[t] # Unused /\ sessions'[t].user \in User
  <2>1. Unused.row = "none" /\ Pruned.row = "pruned"
    BY DEF Unused, Pruned
  <2>2. sessions'[t] # Unused /\ sessions'[t] \in Row
    BY <1>1, <2>1 DEF TypeOK, Active, Stored
  <2>3. QED
    BY <2>2 DEF Row
<1>2. \A t \in Token : sessions[t] # Unused => KeepsRow(t)
  BY RowStep
<1>3. \A t \in Token : Active(t) => sessions[t] # Unused /\ sessions[t].user \in User
  <2>1. ASSUME NEW t \in Token, Active(t)
        PROVE  sessions[t] # Unused /\ sessions[t].user \in User
    BY <2>1, StoredIsRow DEF Active, Stored, Unused, Row, Rows, TypeOK
  <2>2. QED
    BY <2>1
<1>4. ASSUME NEW t \in Token, NEW r \in Request, CreateSession(r, t)
      PROVE  Lifecycle!LNext
  <2>1. /\ sessions[t] = Unused
        /\ req[r] \in Pending
        /\ \A s \in Token \ {t} : sessions'[s] = sessions[s]
    BY <1>4, BusyIsPending DEF CreateSession, At, TypeOK
  <2>2. /\ sessions'[t].row = "stored" /\ ~sessions'[t].revoked
        /\ sessions'[t].age = 0 /\ sessions'[t].user = req[r].user
    BY <1>4 DEF CreateSession, TypeOK
  <2>3. sessions'[t] # Unused
    BY <2>2 DEF Unused
  <2>4. Phase' = [Phase EXCEPT ![t] = "open"] /\ Phase[t] = "unopened"
    BY <2>1, <2>2, <2>3 DEF Active, Stored
  <2>5. Owner' = [Owner EXCEPT ![t] = req[r].user]
    BY <2>1, <2>2 DEF Active, Stored
  <2>6. req[r].user \in User
    BY <2>1 DEF Pending
  <2>7. QED
    BY <2>4, <2>5, <2>6 DEF Lifecycle!LNext, Lifecycle!Open
<1>5. CASE /\ ~\E t \in Token, r \in Request : CreateSession(r, t)
           /\ \E t \in Token : Active(t) /\ ~Active(t)'
  <2>1. PICK t \in Token : Active(t) /\ ~Active(t)'
    BY <1>5
  <2> DEFINE u == sessions[t].user
             S == {s \in Token : Active(s) /\ ~Active(s)'}
  <2>2. \A s \in S : sessions[s].user = u
    BY <2>1, ClosesOneAccount
  <2>3. \A s \in Token : sessions[s] = Unused <=> sessions'[s] = Unused
    BY <1>2, <1>5, RowStep DEF KeepsRow
  <2>4. Phase' = [s \in Token |-> IF s \in S THEN "closed" ELSE Phase[s]]
    BY <1>2, <1>3, <2>3 DEF KeepsRow
  <2>5. Owner' = [s \in Token |-> IF s \in S THEN NoToken ELSE Owner[s]]
    <3>1. \A s \in Token : Active(s)' => Active(s) /\ sessions'[s].user = sessions[s].user
      BY <1>1, <1>2, <2>3 DEF KeepsRow, Active
    <3>2. QED
      BY <3>1
  <2>6. S \in SUBSET Lifecycle!OpenSessions(u)
    BY <1>3, <2>2 DEF Lifecycle!OpenSessions
  <2>7. u \in User
    BY <1>3, <2>1
  <2>8. QED
    BY <2>4, <2>5, <2>6, <2>7 DEF Lifecycle!LNext, Lifecycle!Close
<1>6. CASE /\ ~\E t \in Token, r \in Request : CreateSession(r, t)
           /\ ~\E t \in Token : Active(t) /\ ~Active(t)'
  <2>1. \A s \in Token : sessions[s] = Unused <=> sessions'[s] = Unused
    BY <1>2, <1>6, RowStep DEF KeepsRow
  <2>2. \A s \in Token : Active(s)' <=> Active(s)
    BY <1>1, <1>2, <1>6, <2>1 DEF KeepsRow
  <2>3. \A s \in Token : Active(s) => sessions'[s].user = sessions[s].user
    BY <1>2, <1>3, <2>2 DEF KeepsRow, Active
  <2>4. Phase' = Phase /\ Owner' = Owner
    BY <2>1, <2>2, <2>3
  <2>5. QED
    BY <2>4 DEF Lifecycle!lvars
<1>7. QED
  BY <1>4, <1>5, <1>6

\* The store implements SessionLifecycle: every statement opens one session,
\* closes sessions of one account, or does neither.
THEOREM Refinement == Spec => ImplementsLifecycle
<1>1. Init => Lifecycle!LInit
  BY DEF Init, Lifecycle!LInit, Phase, Owner, Active, Stored, Unused
<1>2. TypeOK /\ TypeOK' /\ [Next]_vars => [Lifecycle!LNext]_(Lifecycle!lvars)
  BY LifecycleStep
<1>3. QED
  BY <1>1, <1>2, TypeCorrect, PTL DEF Spec, ImplementsLifecycle, Lifecycle!LSpec
=============================================================================
