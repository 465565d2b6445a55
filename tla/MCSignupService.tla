--------------------------- MODULE MCSignupService ---------------------------
(***************************************************************************)
(* SignupService for TLC.                                                  *)
(***************************************************************************)
EXTENDS SignupService, TLC

\* Interchangeable model values.
Symmetry == Permutations(Claims) \cup Permutations(Replicas)
=============================================================================
