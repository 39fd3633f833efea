------------------------------ MODULE MCWepoll ------------------------------
(* Wepoll for TLC. *)
EXTENDS Wepoll

(* Level-triggered input, and one-shot output *)
MCInterests == {{"IN"}, {"OUT", "ONESHOT"}}
=============================================================================
