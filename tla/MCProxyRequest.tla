--------------------------- MODULE MCProxyRequest ---------------------------
(***************************************************************************)
(* ProxyRequest for TLC: a space inside another.                           *)
(***************************************************************************)
EXTENDS ProxyRequest, TLC

CONSTANTS OuterSpace, InnerSpace, OwningUser

TwoLevels == (OuterSpace :> None) @@ (InnerSpace :> OuterSpace)

SameOwner == [s \in Spaces |-> OwningUser]

InnerFirst == (InnerSpace :> 1) @@ (OuterSpace :> 2)

\* Interchangeable model values.
Symmetry == Permutations(Members)
=============================================================================
