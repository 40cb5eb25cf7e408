----------------------------- MODULE Forwarding -----------------------------
(***************************************************************************)
(* What the merge pointers of the companies table promise: a company       *)
(* either holds its own records or forwards to another, and it is never    *)
(* pointed at one that forwards itself.  Companies.tla implements this.    *)
(***************************************************************************)
CONSTANTS Company, Nobody

VARIABLE forward    \* per company: the company it forwards to, or Nobody

FInit == forward = [c \in Company |-> Nobody]

\* d is folded into s, which holds its own records.
Fold(d, s) == /\ d # s
              /\ forward[s] = Nobody
              /\ forward' = [forward EXCEPT ![d] = s]

FNext == \E d, s \in Company : Fold(d, s)

FSpec == FInit /\ [][FNext]_forward

FTypeOK == forward \in [Company -> Company \cup {Nobody}]

\* Following the pointers from any company comes to an end: no set of companies
\* forwards only within itself.
PointersEnd ==
    \A S \in SUBSET Company :
        S # {} => \E c \in S : forward[c] \notin S
=============================================================================
