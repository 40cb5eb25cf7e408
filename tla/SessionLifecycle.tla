-------------------------- MODULE SessionLifecycle --------------------------
(***************************************************************************)
(* What the session store promises, without saying how: a session opens    *)
(* once, belongs to one person while it is open, and once closed stays     *)
(* closed.  One step opens one session, or closes sessions of ONE person;  *)
(* nothing a person does ends somebody else's session.                     *)
(*                                                                         *)
(* Sessions.tla implements this under the mapping given there.             *)
(***************************************************************************)
CONSTANTS Token, User, Nobody

VARIABLES phase,   \* what has become of each token id
          owner    \* whose open session it is

lvars == <<phase, owner>>

OpenSessions(u) == {t \in Token : phase[t] = "open" /\ owner[t] = u}

LInit == /\ phase = [t \in Token |-> "unopened"]
         /\ owner = [t \in Token |-> Nobody]

Open(t, u) == /\ phase[t] = "unopened"
              /\ phase' = [phase EXCEPT ![t] = "open"]
              /\ owner' = [owner EXCEPT ![t] = u]

Close(u, S) == /\ S \subseteq OpenSessions(u)
               /\ phase' = [t \in Token |-> IF t \in S THEN "closed" ELSE phase[t]]
               /\ owner' = [t \in Token |-> IF t \in S THEN Nobody ELSE owner[t]]

LNext == \E u \in User : \/ \E t \in Token : Open(t, u)
                         \/ \E S \in SUBSET OpenSessions(u) : Close(u, S)

LSpec == LInit /\ [][LNext]_lvars
=============================================================================
