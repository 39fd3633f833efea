----------------------------- MODULE StreamSend -----------------------------
(***************************************************************************)
(* The send path of one STREAM chann of src/src/mnet_core.c, byte by byte: *)
(* mnet_chann_send(), the FIFO of blocks rwb_send, the flushing of it from *)
(* _evt_result_next(), and EPOLLOUT, which must be asked for as long as    *)
(* there is something to flush.  MnetCore has the same steps with blocks   *)
(* only counted; here the chann is alone and connected again at once.      *)
(***************************************************************************)
EXTENDS Integers, Sequences

CONSTANTS
  MaxBytes,   \* bound: bytes accepted on one connection
  MaxLen,     \* bound: bytes in one call
  BufSize,    \* MNET_BUF_SIZE
  IntMax      \* one more than the greatest int

ASSUME BoundsAssumption == MaxBytes \in Nat /\ MaxLen \in Nat
ASSUME SizeAssumption == BufSize \in Nat \ {0} /\ IntMax \in Nat \ {0}

VARIABLES
  state,              \* "CONNECTED" or "DISCONNECT"
  rwb_send,           \* the blocks, head first
  active_send_event,
  out,                \* EPOLLOUT is in n->epoll_events
  queued,             \* n is on dis_channs
  ev,                 \* the chann's entry in the event array, {} if taken
  pc,                 \* "app", "flush" (in _chann_sended_rwb()), "hang"
  ret,                \* the last message
  dead,               \* the peer reset the connection
  accepted,           \* bytes mnet_chann_send() accepted on this connection
  wire                \* bytes the socket took, in that order

flags == <<active_send_event, out>>
events == <<queued, ev, ret>>
vars == <<state, rwb_send, flags, events, pc, dead, accepted, wire>>

\* rwb_t: buf[0..len-1] holds the bytes from number first on, ptr are sent.
Block == [first: Nat, ptr: Nat, len: Nat]

\* _chann_sended_rwb() reads the head block: there must be one (last conjunct).
TypeOK ==
  /\ state \in {"CONNECTED", "DISCONNECT"}
  /\ rwb_send \in Seq(Block)
  /\ active_send_event \in BOOLEAN /\ out \in BOOLEAN /\ queued \in BOOLEAN
  /\ ev \subseteq {"IN", "OUT", "ERR"}
  /\ pc \in {"app", "flush", "hang"}
  /\ ret \in {"none", "RECV", "SEND", "DISCONNECT"}
  /\ dead \in BOOLEAN
  /\ accepted \in 0..MaxBytes
  /\ wire \in Seq(Nat)
  /\ pc = "flush" => state = "CONNECTED" /\ rwb_send # <<>>

Init ==
  /\ state = "CONNECTED" /\ rwb_send = <<>>
  /\ active_send_event = FALSE /\ out = FALSE /\ queued = FALSE
  /\ ev = {} /\ pc = "app" /\ ret = "none" /\ dead = FALSE
  /\ accepted = 0 /\ wire = <<>>
-----------------------------------------------------------------------------
(* rwb_send.                                                               *)

rwb_buffered(b) == b.len - b.ptr
rwb_new(first, len) == [first |-> first, ptr |-> 0, len |-> len]
rwb_cache(blocks, first, len) == Append(blocks, rwb_new(first, len))

\* Mutant: a block that is not empty is given up with the drained bytes.
drain_frees_head(blocks, k) == Tail(blocks)

\* k bytes of the head were sent, never more than it holds.
rwb_drain(blocks, k) ==
  IF k = rwb_buffered(Head(blocks)) THEN Tail(blocks)
  ELSE [blocks EXCEPT
          ![1] = [first |-> @.first, ptr |-> @.ptr + k, len |-> @.len]]

\* int arithmetic of the build: it wraps around.
AsInt(x) == ((x + IntMax) % (2 * IntMax)) - IntMax

\* mnet_chann_cached(): every block but the head counts as a full buffer.
cached ==
  IF rwb_send = <<>> THEN 0
  ELSE AsInt(rwb_buffered(Head(rwb_send)) + (Len(rwb_send) - 1) * BufSize)

Bytes(first, k) == [i \in 1..k |-> first + i - 1]

\* _chann_disconnect_socket(): with blocks left _rwb_destroy() never ends.
disconnect_socket ==
  IF rwb_send = <<>>
  THEN state' = "DISCONNECT" /\ out' = FALSE /\ pc' = "app"
  ELSE pc' = "hang" /\ UNCHANGED <<state, out>>
-----------------------------------------------------------------------------
(* The application.                                                        *)

InApp == pc = "app"

\* The chann is connected (again): mnet_chann_connect() and the CONNECTED event.
connect ==
  /\ InApp /\ state = "DISCONNECT"
  /\ state' = "CONNECTED" /\ dead' = FALSE
  /\ accepted' = 0 /\ wire' = <<>>
  /\ UNCHANGED <<rwb_send, flags, events, pc>>

mnet_chann_disconnect ==
  /\ InApp /\ state = "CONNECTED"
  /\ disconnect_socket
  /\ UNCHANGED <<rwb_send, active_send_event, events, dead, accepted, wire>>

\* Mutant: data goes to the socket past what is cached.
send_past_cache(len, k) ==
  /\ InApp /\ state = "CONNECTED" /\ len > 0 /\ accepted + len <= MaxBytes
  /\ ~dead /\ k \in 0..len
  /\ wire' = wire \o Bytes(accepted + 1, k)
  /\ rwb_send' = IF k < len THEN rwb_cache(rwb_send, accepted + k + 1, len - k)
                 ELSE rwb_send
  /\ out' = (out \/ k < len)
  /\ accepted' = accepted + len
  /\ UNCHANGED <<state, active_send_event, events, pc, dead>>

\* mnet_chann_send() of len bytes of which the socket takes k at once, if it
\* is asked; the rest is cached.
mnet_chann_send(len, k) ==
  /\ InApp /\ state = "CONNECTED" /\ len > 0 /\ accepted + len <= MaxBytes
  /\ \/ /\ rwb_send # <<>> /\ k = 0
        /\ rwb_send' = rwb_cache(rwb_send, accepted + 1, len)
        /\ UNCHANGED <<out, wire>>
     \/ /\ rwb_send = <<>> /\ ~dead /\ k \in 0..len
        /\ wire' = wire \o Bytes(accepted + 1, k)
        /\ IF k < len
           THEN /\ rwb_send' = rwb_cache(rwb_send, accepted + k + 1, len - k)
                /\ out' = TRUE
           ELSE UNCHANGED <<rwb_send, out>>
  /\ accepted' = accepted + len
  /\ UNCHANGED <<state, active_send_event, events, pc, dead>>

mnet_chann_send_fails ==
  /\ InApp /\ state = "CONNECTED" /\ rwb_send = <<>> /\ dead
  /\ disconnect_socket
  /\ queued' = TRUE
  /\ UNCHANGED <<rwb_send, active_send_event, ev, ret, dead, accepted, wire>>

\* Mutant: cached data is not asked about.
event_off_drops_out(v) ==
  /\ InApp /\ state = "CONNECTED" /\ active_send_event # v
  /\ active_send_event' = v
  /\ out' = v
  /\ UNCHANGED <<state, rwb_send, events, pc, dead, accepted, wire>>

\* mnet_chann_active_event(n, CHANN_EVENT_SEND, v)
mnet_chann_active_event(v) ==
  /\ InApp /\ state = "CONNECTED" /\ active_send_event # v
  /\ active_send_event' = v
  /\ out' = (v \/ (out /\ ~(cached <= 0)))
  /\ UNCHANGED <<state, rwb_send, events, pc, dead, accepted, wire>>
-----------------------------------------------------------------------------
(* The event loop.                                                         *)

\* epoll_wait() finds input, room to send, or neither.  The application has
\* taken all results of the round before.
mnet_poll(in, room) ==
  /\ InApp /\ ~queued /\ ev = {}
  /\ ev' = IF state = "DISCONNECT" THEN {}
           ELSE (IF in THEN {"IN"} ELSE {})
                  \cup (IF room /\ out THEN {"OUT"} ELSE {})
                  \cup (IF dead THEN {"ERR"} ELSE {})
  /\ ret' = "none"
  /\ UNCHANGED <<state, rwb_send, flags, queued, pc, dead, accepted, wire>>

next_disconnected ==
  /\ InApp /\ queued
  /\ queued' = FALSE /\ ret' = "DISCONNECT"
  /\ UNCHANGED <<state, rwb_send, flags, ev, pc, dead, accepted, wire>>

\* The entry is taken.
take == InApp /\ ~queued /\ ev # {} /\ ev' = {}

kev_ignored ==
  /\ take /\ state = "DISCONNECT"
  /\ UNCHANGED <<state, rwb_send, flags, queued, pc, ret, dead, accepted, wire>>

kev_error ==
  /\ take /\ state = "CONNECTED" /\ "ERR" \in ev
  /\ disconnect_socket
  /\ ret' = "DISCONNECT"
  /\ UNCHANGED <<rwb_send, active_send_event, queued, dead, accepted, wire>>

kev_recv ==
  /\ take /\ state = "CONNECTED" /\ "ERR" \notin ev /\ "IN" \in ev
  /\ ret' = "RECV"
  /\ UNCHANGED <<state, rwb_send, flags, queued, pc, dead, accepted, wire>>

\* Nothing is left to send: tell the application, or stop watching EPOLLOUT.
flushed ==
  IF active_send_event
  THEN ret' = "SEND" /\ UNCHANGED out
  ELSE out' = FALSE /\ UNCHANGED ret

\* _chann_sended_rwb() is called only when there is no input.
kev_flush ==
  /\ take /\ state = "CONNECTED" /\ ev = {"OUT"}
  /\ IF rwb_send = <<>>
     THEN flushed /\ UNCHANGED pc
     ELSE pc' = "flush" /\ UNCHANGED <<ret, out>>
  /\ UNCHANGED <<state, rwb_send, active_send_event, queued, dead, accepted,
                 wire>>

\* Mutant: a partial send is taken for the end of the data.
flush_stops_short(k) ==
  /\ pc = "flush" /\ ~dead /\ k \in 0..rwb_buffered(Head(rwb_send))
  /\ wire' = wire \o Bytes(Head(rwb_send).first + Head(rwb_send).ptr, k)
  /\ rwb_send' = IF k > 0 THEN rwb_drain(rwb_send, k) ELSE rwb_send
  /\ pc' = "app" /\ flushed
  /\ UNCHANGED <<state, active_send_event, queued, ev, dead, accepted>>

\* Mutant: the loop does not ask whether a block is left.
flush_past_tail(k) ==
  /\ pc = "flush" /\ ~dead /\ k \in 0..rwb_buffered(Head(rwb_send))
  /\ wire' = wire \o Bytes(Head(rwb_send).first + Head(rwb_send).ptr, k)
  /\ rwb_send' = IF k > 0 THEN rwb_drain(rwb_send, k) ELSE rwb_send
  /\ pc' = IF k >= rwb_buffered(Head(rwb_send)) THEN "flush" ELSE "app"
  /\ UNCHANGED <<state, flags, events, dead, accepted>>

\* One turn of the do-while of _chann_sended_rwb(): the socket takes k bytes of
\* the head; the loop goes on while it takes whole blocks.
flush_send(k) ==
  LET b == Head(rwb_send) IN
  /\ pc = "flush" /\ ~dead /\ k \in 0..rwb_buffered(b)
  /\ wire' = wire \o Bytes(b.first + b.ptr, k)
  /\ rwb_send' = IF k > 0 THEN rwb_drain(rwb_send, k) ELSE rwb_send
  /\ IF rwb_send' = <<>>
     THEN pc' = "app" /\ flushed
     ELSE /\ pc' = IF k >= rwb_buffered(b) THEN "flush" ELSE "app"
          /\ UNCHANGED <<ret, out>>
  /\ UNCHANGED <<state, active_send_event, queued, ev, dead, accepted>>

flush_fails ==
  /\ pc = "flush" /\ dead
  /\ disconnect_socket
  /\ UNCHANGED <<rwb_send, active_send_event, events, dead, accepted, wire>>

PeerReset ==
  /\ pc # "hang" /\ state = "CONNECTED" /\ ~dead
  /\ dead' = TRUE
  /\ UNCHANGED <<state, rwb_send, flags, events, pc, accepted, wire>>

\* A process that is lost stays lost.
Lost == pc = "hang" /\ UNCHANGED vars
-----------------------------------------------------------------------------
Poll == \E in, room \in BOOLEAN : mnet_poll(in, room)
ResultStep == next_disconnected \/ kev_ignored \/ kev_error \/ kev_recv \/ kev_flush
FlushStep == flush_fails \/ \E k \in 0..MaxBytes : flush_send(k)

Next ==
  \/ connect
  \/ mnet_chann_disconnect
  \/ \E len \in 1..MaxLen, k \in 0..MaxLen : mnet_chann_send(len, k)
  \/ mnet_chann_send_fails
  \/ \E v \in BOOLEAN : mnet_chann_active_event(v)
  \/ Poll
  \/ ResultStep
  \/ FlushStep
  \/ PeerReset
  \/ Lost

Spec == Init /\ [][Next]_vars

\* mnet_result_next() is called until it has nothing left, and returns.
Fairness == WF_vars(ResultStep) /\ WF_vars(FlushStep)
FairSpec == Spec /\ Fairness
-----------------------------------------------------------------------------
Running == pc # "hang"

\* Overflow: fewer blocks can be cached than make mnet_chann_cached() wrap.
NoOverflow == MaxBytes + MaxBytes * BufSize < IntMax

\* The blocks hold the accepted bytes that were not sent, without a gap and in
\* order, and none of them is empty.
Contiguous ==
  /\ rwb_send = <<>> => Len(wire) = accepted
  /\ rwb_send # <<>> =>
       /\ rwb_send[1].first + rwb_send[1].ptr = Len(wire) + 1
       /\ rwb_send[Len(rwb_send)].first + rwb_send[Len(rwb_send)].len
            = accepted + 1
  /\ \A i \in 1..Len(rwb_send) : rwb_send[i].ptr < rwb_send[i].len
  /\ \A i \in 1..Len(rwb_send) - 1 :
       /\ rwb_send[i + 1].first = rwb_send[i].first + rwb_send[i].len
       /\ rwb_send[i + 1].ptr = 0

\* EPOLLOUT is asked for as long as data is cached, whatever the application
\* does with CHANN_EVENT_SEND and however the kernel splits the data.
OutWhileCached ==
  Running /\ rwb_send # <<>> => state = "CONNECTED" /\ out

\* CHANN_EVENT_SEND says that every accepted byte was given to the socket.
SendMeansSent ==
  [][ret' = "SEND" /\ ret # "SEND" => Len(wire') = accepted']_vars

\* The send path is a FIFO of bytes: nothing is lost, repeated or reordered.
Fifo == INSTANCE ByteFifo WITH accepted <- accepted, wire <- wire
FifoSpec == Fifo!Spec

\* The program comes back to mnet_poll() for ever and the peer goes on reading:
\* again and again a poll finds room in a socket that is watched for it, with
\* or without input, and the socket takes something of what is flushed.
PeerReads ==
  /\ SF_vars(Poll /\ "OUT" \in ev')
  /\ SF_vars(\E k \in 1..MaxBytes : flush_send(k))

\* If the peer goes on reading, data that is cached is flushed, unless the
\* process hangs, or input keeps coming: _evt_result_next() looks at EPOLLOUT
\* only in an event without EPOLLIN, so that a peer that sends again and again
\* can keep the data back, and nothing else can.
EventuallySent ==
  PeerReads =>
    \/ []<>("IN" \in ev)
    \/ rwb_send # <<>> ~> rwb_send = <<>> \/ pc = "hang"
=============================================================================
