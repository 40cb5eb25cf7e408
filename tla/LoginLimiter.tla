----------------------------- MODULE LoginLimiter -----------------------------
(***************************************************************************)
(* How often a login may be tried (internal/services/auth_service.go Login *)
(* and isRateLimited, internal/platform/cache/redis.go, noop.go,           *)
(* internal/repository/repositories.go AuditRepository).                   *)
(*                                                                         *)
(* An instance that found Redis when it started counts attempts there,     *)
(* before the password is looked at; one that did not, or whose call       *)
(* fails, counts the failures of the audit log, which are written after.   *)
(* A request is one goroutine, of one instance; each call it makes of      *)
(* Redis or PostgreSQL is a step.  Time is what is left of a key and the   *)
(* age of a row, so that the clock need not be bounded.                    *)
(*                                                                         *)
(* Redis losing its keys is left out: nothing in the code answers to it.   *)
(***************************************************************************)
EXTENDS Naturals, FiniteSets, Functions

CONSTANTS
    Spelling,   \* login identifiers as typed, trimmed
    Name,       \* the same in lower case, of which Redis keeps a fingerprint
    Folded,     \* the name of a spelling
    NoSpelling,
    Request,
    Limit,      \* LOGIN_RATE_LIMIT
    Window,     \* LOGIN_RATE_WINDOW, in ticks
    MaxFailedCalls   \* bound: calls that fail

ASSUME SpellingAssumption == /\ Folded \in [Spelling -> Name]
                             /\ NoSpelling \notin Spelling
ASSUME LimitAssumption == /\ Limit \in Nat \ {0}
                          /\ Window \in Nat \ {0}
                          /\ MaxFailedCalls \in Nat
                          /\ IsFiniteSet(Request)

VARIABLES
    cached,     \* instances that run with Redis: cache.FromEnv decides once
    counter,    \* Redis: attempts and what is left of the key, by name
    failures,   \* auth_audit_log: login.failure rows by spelling and age
    req,        \* the requests under way
    failedCalls,     \* how many calls have failed
    admitted    \* history: attempts let in by the counter since the last success,
                \* by name and age

loginVars == <<cached, counter, failures, req, failedCalls, admitted>>

Age == 0..(Window - 1)

\* Beyond these nothing is told apart: every comparison is with Limit, or with
\* the bounds the properties state.
AtMost(n, m) == IF n < m THEN n ELSE m
Full == Limit + 1
MostRows == Limit + Cardinality(Request)
MostAdmitted == 2 * Limit + 1

None == [attempts |-> 0, left |-> 0]
NoRows == [a \in Age |-> 0]

\* One more row of age 0.
Added(rows, most) == [rows EXCEPT ![0] = AtMost(@ + 1, most)]
\* A tick later: what was Window old no longer counts.
Aged(rows) == [a \in Age |-> IF a = 0 THEN 0 ELSE rows[a - 1]]

\* CountRecentFailures: the rows of one spelling since the window opened
CountRecentFailures(s) == SumFunction(failures[s])

Idle == [pc |-> "idle", as |-> NoSpelling]
Step(r, pc, s) == req' = [req EXCEPT ![r] = [pc |-> pc, as |-> s]]
Finish(r) == req' = [req EXCEPT ![r] = Idle]
At(r, pc) == req[r].pc = pc

Fault == failedCalls < MaxFailedCalls /\ failedCalls' = failedCalls + 1

LoginInit ==
    /\ cached \in SUBSET Request
    /\ counter = [n \in Name |-> None]
    /\ failures = [s \in Spelling |-> NoRows]
    /\ req = [r \in Request |-> Idle]
    /\ failedCalls = 0
    /\ admitted = [n \in Name |-> NoRows]

-----------------------------------------------------------------------------
(* isRateLimited                                                           *)

\* Mutant: the expiry is set again with every attempt (EXPIRE without NX).
Counted_Sliding(c) == [attempts |-> AtMost(c.attempts + 1, Full), left |-> Window]

\* Mutant: an attempt adds a window to what is left.
Counted_Adds(c) == [attempts |-> AtMost(c.attempts + 1, Full), left |-> c.left + Window]

\* Mutant: INCR alone; the key has no expiry.
Counted_NoExpiry(c) == [c EXCEPT !.attempts = AtMost(@ + 1, Full)]

\* INCR and EXPIRE NX in one transaction, so no failure leaves one without the other:
\* the expiry is set where there is none.
Counted(c) == [attempts |-> AtMost(c.attempts + 1, Full),
               left     |-> IF c.left = 0 THEN Window ELSE c.left]

\* Mutant: the limit itself is let through once more.
Admits_OneMore(c) == c.attempts <= Limit + 1

Admits(c) == c.attempts <= Limit

\* Redis answers.  Every attempt counts, the refused ones too.
Increment(r, s) ==
    LET n == Folded[s]  c == Counted(counter[n]) IN
    /\ At(r, "idle")
    /\ r \in cached
    /\ counter' = [counter EXCEPT ![n] = c]
    /\ IF Admits(c)
       THEN /\ Step(r, "compare", s)
            /\ admitted' = [admitted EXCEPT ![n] = Added(@, MostAdmitted)]
       ELSE UNCHANGED <<req, admitted>>
    /\ UNCHANGED <<cached, failures, failedCalls>>

\* The call fails, or times out with the attempt counted.
IncrementFails(r, s) ==
    /\ At(r, "idle")
    /\ r \in cached
    /\ Fault
    /\ \/ UNCHANGED counter
       \/ counter' = [counter EXCEPT ![Folded[s]] = Counted(@)]
    /\ Step(r, "log", s)
    /\ UNCHANGED <<cached, failures, admitted>>

\* A request that goes by the log: there is no Redis (ErrNoCache), or it failed.
FallsBack(r, s) ==
    \/ At(r, "idle") /\ r \notin cached
    \/ At(r, "log") /\ req[r].as = s

\* Mutant: the limit itself is let through once more.
CountFailures_OneMore(r, s) ==
    /\ FallsBack(r, s)
    /\ IF CountRecentFailures(s) > Limit THEN Finish(r) ELSE Step(r, "compare", s)
    /\ UNCHANGED <<cached, counter, failures, failedCalls, admitted>>

\* The fallback
CountFailures(r, s) ==
    /\ FallsBack(r, s)
    /\ IF CountRecentFailures(s) >= Limit THEN Finish(r) ELSE Step(r, "compare", s)
    /\ UNCHANGED <<cached, counter, failures, failedCalls, admitted>>

\* Login allows the attempt when nothing could be counted.
CountFails(r, s) ==
    /\ FallsBack(r, s)
    /\ Fault
    /\ Step(r, "compare", s)
    /\ UNCHANGED <<cached, counter, failures, admitted>>

-----------------------------------------------------------------------------
(* The rest of Login                                                       *)

\* No such account, a wrong password or a suspended account: recordLoginFailure.
RecordFailure(r) ==
    /\ At(r, "compare")
    /\ failures' = [failures EXCEPT ![req[r].as] = Added(@, MostRows)]
    /\ Finish(r)
    /\ UNCHANGED <<cached, counter, failedCalls, admitted>>

\* The right password: issueSession, then clearRateLimit.  Without Redis it does
\* nothing; the rows of the log stay.
ClearRateLimit(r) ==
    LET n == Folded[req[r].as] IN
    /\ At(r, "compare")
    /\ IF r \in cached
       THEN /\ counter' = [counter EXCEPT ![n] = None]
            /\ admitted' = [admitted EXCEPT ![n] = NoRows]
       ELSE UNCHANGED <<counter, admitted>>
    /\ Finish(r)
    /\ UNCHANGED <<cached, failures, failedCalls>>

\* The audit write fails, or issueSession, or the DEL, or the request is dropped
\* here: each is logged, or ends the request.
Stop(r) ==
    /\ At(r, "compare")
    /\ Fault
    /\ Finish(r)
    /\ UNCHANGED <<cached, counter, failures, admitted>>

\* A key dies when its expiry runs out; one without an expiry would stay.
Ticked(c) == IF c.left = 1 THEN None
             ELSE [c EXCEPT !.left = IF @ = 0 THEN 0 ELSE @ - 1]

LoginTick ==
    /\ counter' = [n \in Name |-> Ticked(counter[n])]
    /\ failures' = [s \in Spelling |-> Aged(failures[s])]
    /\ admitted' = [n \in Name |-> Aged(admitted[n])]
    /\ UNCHANGED <<cached, req, failedCalls>>

LoginNext ==
    \/ \E r \in Request :
         \/ \E s \in Spelling :
              Increment(r, s) \/ IncrementFails(r, s) \/ CountFailures(r, s) \/ CountFails(r, s)
         \/ RecordFailure(r) \/ ClearRateLimit(r) \/ Stop(r)
    \/ LoginTick

LoginSpec == LoginInit /\ [][LoginNext]_loginVars

\* Time passes.  Nothing is assumed of the requests: a lockout has to end however
\* hard somebody tries, and whether or not anybody does.
LoginFairSpec == LoginSpec /\ WF_loginVars(LoginTick)

-----------------------------------------------------------------------------
(* Properties                                                              *)

LoginTypeOK ==
    /\ cached \in SUBSET Request
    /\ counter \in [Name -> [attempts : 0..Full, left : 0..Window]]
    /\ failures \in [Spelling -> [Age -> 0..MostRows]]
    /\ req \in [Request -> {Idle} \cup
                   [pc : {"log", "compare"}, as : Spelling]]
    /\ failedCalls \in 0..MaxFailedCalls
    /\ admitted \in [Name -> [Age -> 0..MostAdmitted]]

\* Without a success no more than twice the limit is let in by the counter within
\* any span as long as the window: two windows meet in it, never three, and an
\* attempt that races the end of a window belongs to one of them.
GuessesAreBounded == \A n \in Name : SumFunction(admitted[n]) <= 2 * Limit

\* Where no instance has Redis, what is recorded within a window goes over the
\* limit by no more than the requests that had read the log before: it is read
\* before the password is compared and written after.
FallbackOvershootsByRequests ==
    cached = {} /\ failedCalls = 0 =>
        \A s \in Spelling :
            CountRecentFailures(s) + Cardinality({r \in Request : At(r, "compare") /\ req[r].as = s}) < Limit + Cardinality(Request)

\* However many attempts go on being made, the counter lets a name in again, and
\* so does the log where no instance has Redis (redis.go, Increment: "a counter with
\* no TTL ... would lock an identifier out permanently", and with a window that slides
\* "the victim could never get back in"; a refused attempt is not recorded).
LockoutsEnd ==
    /\ \A n \in Name : []<>Admits(Counted(counter[n]))
    /\ \A s \in Spelling : cached = {} => []<>(CountRecentFailures(s) < Limit)
=============================================================================
