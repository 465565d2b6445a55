------------------------- MODULE MCPhoneVerification -------------------------
(***************************************************************************)
(* PhoneVerification for TLC.                                              *)
(***************************************************************************)
EXTENDS PhoneVerification, TLC

\* Interchangeable model values; not used by the runs that check liveness.
Symmetry == Permutations(Codes) \cup Permutations(Phones)
=============================================================================
