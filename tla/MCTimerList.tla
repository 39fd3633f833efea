---------------------------- MODULE MCTimerList ----------------------------
(* TimerList on a small set of channs. *)
EXTENDS TimerList, TLC

\* Channs are interchangeable.
Symmetry == Permutations(Channs)
=============================================================================
