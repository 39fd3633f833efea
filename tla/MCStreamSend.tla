---------------------------- MODULE MCStreamSend ----------------------------
(* StreamSend for TLC. *)
EXTENDS StreamSend
=============================================================================
