--------------------------- MODULE MCNamespacesReset ---------------------------
(***************************************************************************)
(* NamespacesReset for TLC.                                                *)
(***************************************************************************)
EXTENDS NamespacesReset, TLC

Symmetry == Permutations(Users) \cup Permutations(Members) \cup Permutations(Kinds)
===============================================================================
