------------------------------ MODULE ByteFifo ------------------------------
(***************************************************************************)
(* What mnet_chann_send() promises of a connection: the bytes it accepted  *)
(* reach the socket once each and in the order of the calls.  Byte i is    *)
(* the i-th byte accepted on the current connection.                       *)
(***************************************************************************)
EXTENDS Naturals, Sequences

VARIABLES accepted,   \* number of bytes accepted on this connection
          wire        \* bytes the socket took, in the order it took them

Bytes(first, k) == [i \in 1..k |-> first + i - 1]

Init == accepted = 0 /\ wire = <<>>

\* Some bytes may be accepted, and the next k that were not yet sent are taken.
Move ==
  /\ accepted' \in Nat /\ accepted' >= accepted
  /\ \E k \in 0..(accepted' - Len(wire)) :
       wire' = wire \o Bytes(Len(wire) + 1, k)

\* The chann has a new connection.
Reset == accepted' = 0 /\ wire' = <<>>

Next == Reset \/ Move

Spec == Init /\ [][Next]_<<accepted, wire>>
=============================================================================
