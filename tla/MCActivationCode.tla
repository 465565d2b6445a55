--------------------------- MODULE MCActivationCode ---------------------------
(***************************************************************************)
(* ActivationCode for TLC.                                                 *)
(***************************************************************************)
EXTENDS ActivationCode, TLC

\* Every event has the same capacity and takes place from tick OpensAt to tick ClosesAt.
CONSTANTS Seats, OpensAt, ClosesAt

SameCapacity == [e \in Events |-> Seats]
SameOpening == [e \in Events |-> OpensAt]
SameClosing == [e \in Events |-> ClosesAt]

\* Interchangeable model values.
Symmetry == Permutations(Users) \cup Permutations(Claims)
===============================================================================
