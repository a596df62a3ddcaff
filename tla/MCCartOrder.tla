---------------------------- MODULE MCCartOrder -----------------------------
(* Small instances of CartOrder for TLC.                                   *)
EXTENDS CartOrder, TLC

\* Requests are interchangeable slots.
Symmetry == Permutations(Requests)
=============================================================================
