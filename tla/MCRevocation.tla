---------------------------- MODULE MCRevocation ----------------------------
(***************************************************************************)
(* Small instances of Revocation: one service, one holder of a cutoff and, *)
(* where it matters, one session.                                          *)
(***************************************************************************)
EXTENDS Revocation, TLC

PublisherSymmetry == Permutations(Publisher)
=============================================================================
