-------------------------------- MODULE MCTls --------------------------------
(* Tls for TLC. *)
EXTENDS Tls
=============================================================================
