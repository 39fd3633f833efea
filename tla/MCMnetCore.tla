----------------------------- MODULE MCMnetCore -----------------------------
(* MnetCore on small sets of model values. *)
EXTENDS MnetCore, TLC

\* Channs and descriptors are interchangeable.
Symmetry == Permutations(Channs) \cup Permutations(Fds)
=============================================================================
