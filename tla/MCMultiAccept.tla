---------------------------- MODULE MCMultiAccept ----------------------------
(* MultiAccept for TLC. *)
EXTENDS MultiAccept
=============================================================================
