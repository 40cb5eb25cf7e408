----------------------------- MODULE MCSessions -----------------------------
(***************************************************************************)
(* Small instances of Sessions.  "solo" is held to one device by its own   *)
(* row or its company, "free" is not.                                      *)
(***************************************************************************)
EXTENDS Sessions, TLC

CONSTANTS solo, free

\* One account held to one device through its company's default, one unlimited.
Users2 == {solo, free}
Caps2 == (solo :> 0) @@ (free :> 2)
Defaults2 == (solo :> 1) @@ (free :> 1)

\* One unlimited account.
Users1 == {free}
Caps1 == free :> 0
Defaults1 == free :> 0

\* One account whose own row says one device.
UsersSolo == {solo}
CapsSolo == solo :> 1
DefaultsSolo == solo :> 0

\* Token ids and goroutines are interchangeable.
SessionSymmetry == Permutations(Token) \cup Permutations(Request)
=============================================================================
