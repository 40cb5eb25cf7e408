----------------------------- MODULE MCCompanies -----------------------------
(***************************************************************************)
(* Small instances of Companies: company 1 is the transporter that records *)
(* shippers, the others are shippers or do not exist yet.                  *)
(***************************************************************************)
EXTENDS Companies, TLC

\* Company 2 has paid for one account.
OneSeat == [c \in Company |-> IF c = 2 THEN 1 ELSE 0]

Unlimited == [c \in Company |-> 0]

\* Ids that are only ever compared.
IdSymmetry == Permutations(Request) \cup Permutations(User)
                 \cup Permutations(Link) \cup Permutations(TaxNo)
=============================================================================
