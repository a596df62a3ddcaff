----------------------------- MODULE MCAdminAuth -----------------------------
(* A small instance of AdminAuth for TLC.                                  *)
EXTENDS AdminAuth, TLC

\* Requests are interchangeable slots.
Symmetry == Permutations(Requests)
=============================================================================
