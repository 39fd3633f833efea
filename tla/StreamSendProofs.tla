-------------------------- MODULE StreamSendProofs --------------------------
(***************************************************************************)
(* Proofs about StreamSend for every bound, buffer size and width of int:  *)
(* the blocks hold exactly the unsent bytes, the send path refines         *)
(* ByteFifo, CHANN_EVENT_SEND means that everything is sent, and, as long  *)
(* as mnet_chann_cached() does not overflow, EPOLLOUT is asked for while   *)
(* data is cached.                                                         *)
(***************************************************************************)
EXTENDS StreamSend, TLAPS

\* The blocks q when a bytes are accepted and n of them are sent.  The last
\* conjunct bounds the number of blocks behind block i by the bytes in them.
Holds(q, a, n) ==
  /\ q = <<>> => n = a
  /\ q # <<>> => /\ q[1].first + q[1].ptr = n + 1
                 /\ q[Len(q)].first + q[Len(q)].len = a + 1
  /\ \A i \in 1..Len(q) : q[i].ptr < q[i].len
  /\ \A i \in 1..Len(q) - 1 :
       q[i + 1].first = q[i].first + q[i].len /\ q[i + 1].ptr = 0
  /\ \A i \in 1..Len(q) : Len(q) - i <= a + 1 - (q[i].first + q[i].len)

\* The inductive invariant.
Inv ==
  /\ TypeOK
  /\ Holds(rwb_send, accepted, Len(wire))
  /\ state = "DISCONNECT" => rwb_send = <<>>
-----------------------------------------------------------------------------
(* The operations on the blocks.                                           *)

\* The fields of a block are numbers.
LEMMA BlockFields ==
  ASSUME NEW b \in Block
  PROVE  b.first \in Nat /\ b.ptr \in Nat /\ b.len \in Nat
  BY DEF Block

\* The fields of the blocks of a chann are numbers.
LEMMA QueueFields ==
  ASSUME NEW q \in Seq(Block)
  PROVE  \A i \in 1..Len(q) :
           /\ q[i] \in Block
           /\ q[i].first \in Nat /\ q[i].ptr \in Nat /\ q[i].len \in Nat
<1> TAKE i \in 1..Len(q)
<1>1. q[i] \in Block
  OBVIOUS
<1> QED BY <1>1, BlockFields

\* What rwb_cache() makes of no blocks when the socket took k of len bytes.
LEMMA CacheFirst ==
  ASSUME NEW a \in Nat, NEW len \in Nat, NEW k \in Nat, k < len
  PROVE  LET q == rwb_cache(<<>>, a + k + 1, len - k)
         IN q \in Seq(Block) /\ q # <<>> /\ Holds(q, a + len, a + k)
  BY SMTT(30) DEF rwb_cache, rwb_new, Holds, Block

\* rwb_cache() behind other blocks keeps the bytes in order.
LEMMA CacheMore ==
  ASSUME NEW q \in Seq(Block), q # <<>>, NEW a \in Nat, NEW n \in Nat,
         NEW len \in Nat \ {0}, Holds(q, a, n)
  PROVE  LET p == rwb_cache(q, a + 1, len)
         IN p \in Seq(Block) /\ p # <<>> /\ Holds(p, a + len, n)
<1> DEFINE b == rwb_new(a + 1, len)
           p == Append(q, b)
<1>1. b \in Block /\ b.first = a + 1 /\ b.len = len /\ b.ptr = 0
  BY DEF Block, rwb_new
<1> HIDE DEF b
<1>2. /\ p \in Seq(Block) /\ Len(p) = Len(q) + 1 /\ Len(q) \in Nat \ {0}
      /\ \A i \in 1..Len(q) : p[i] = q[i]
      /\ p[Len(q) + 1] = b
  BY <1>1
<1> HIDE DEF p
<1>3. \A i \in 1..Len(q) :
        q[i].first \in Nat /\ q[i].ptr \in Nat /\ q[i].len \in Nat
  BY QueueFields
<1>4. p # <<>> /\ p[1] = q[1]
  BY <1>2
<1>5. \A i \in 1..Len(p) : p[i].ptr < p[i].len
  <2> TAKE i \in 1..Len(p)
  <2>1. CASE i = Len(q) + 1
    BY <2>1, <1>1, <1>2
  <2>2. CASE i # Len(q) + 1
    <3>1. i \in 1..Len(q)
      BY <2>2, <1>2
    <3> QED BY <3>1, <1>2 DEF Holds
  <2> QED BY <2>1, <2>2
<1>6. \A i \in 1..Len(p) - 1 :
        p[i + 1].first = p[i].first + p[i].len /\ p[i + 1].ptr = 0
  <2> TAKE i \in 1..Len(p) - 1
  <2>1. CASE i = Len(q)
    BY <2>1, <1>1, <1>2, <1>3 DEF Holds
  <2>2. CASE i # Len(q)
    <3>1. i \in 1..Len(q) - 1 /\ i \in 1..Len(q) /\ i + 1 \in 1..Len(q)
      BY <2>2, <1>2
    <3> QED BY <3>1, <1>2 DEF Holds
  <2> QED BY <2>1, <2>2
<1>7. \A i \in 1..Len(p) : Len(p) - i <= (a + len) + 1 - (p[i].first + p[i].len)
  <2> TAKE i \in 1..Len(p)
  <2>1. CASE i = Len(q) + 1
    BY <2>1, <1>1, <1>2
  <2>2. CASE i # Len(q) + 1
    <3>1. i \in 1..Len(q)
      BY <2>2, <1>2
    <3>2. Len(q) - i <= a + 1 - (q[i].first + q[i].len)
      BY <3>1 DEF Holds
    <3>3. p[i] = q[i] /\ q[i].first \in Nat /\ q[i].len \in Nat
      BY <3>1, <1>2, <1>3
    <3> QED BY <3>2, <3>3, <1>2
  <2> QED BY <2>1, <2>2
<1>8. p[1].first + p[1].ptr = n + 1
  BY <1>4 DEF Holds
<1>9. p[Len(p)].first + p[Len(p)].len = (a + len) + 1
  BY <1>1, <1>2
<1>10. Holds(p, a + len, n)
  BY <1>4, <1>5, <1>6, <1>7, <1>8, <1>9 DEF Holds
<1> QED BY <1>2, <1>4, <1>10 DEF rwb_cache, p, b

\* rwb_drain() takes away the bytes that were sent and no others.
LEMMA Drain ==
  ASSUME NEW q \in Seq(Block), q # <<>>, NEW a \in Nat, NEW n \in Nat,
         Holds(q, a, n),
         NEW k \in Nat, 0 < k, k <= rwb_buffered(Head(q))
  PROVE  rwb_drain(q, k) \in Seq(Block) /\ Holds(rwb_drain(q, k), a, n + k)
<1>0. Len(q) \in Nat \ {0} /\ Head(q) = q[1] /\ 1 \in 1..Len(q)
  OBVIOUS
<1>1. /\ q[1] \in Block
      /\ \A i \in 1..Len(q) :
           q[i].first \in Nat /\ q[i].ptr \in Nat /\ q[i].len \in Nat
  BY <1>0, QueueFields
<1>2. PICK f \in Nat, t \in Nat, l \in Nat :
        q[1].first = f /\ q[1].ptr = t /\ q[1].len = l
  BY <1>0, <1>1
<1>3. rwb_buffered(Head(q)) = l - t
  BY <1>0, <1>2 DEF rwb_buffered
<1>4. f + t = n + 1 /\ k <= l - t /\ t + k \in Nat
  BY <1>0, <1>2, <1>3 DEF Holds
<1>5. CASE k = rwb_buffered(Head(q))
  <2> DEFINE p == Tail(q)
  <2>1. /\ p \in Seq(Block) /\ Len(p) = Len(q) - 1
        /\ \A i \in 1..Len(p) : p[i] = q[i + 1] /\ i + 1 \in 1..Len(q)
    BY <1>0, <1>1
  <2> HIDE DEF p
  <2>2. rwb_drain(q, k) = p
    BY <1>5 DEF rwb_drain, p
  <2>3. n + k = f + l - 1
    BY <1>3, <1>4, <1>5
  <2>4. CASE Len(q) = 1
    <3>1. p = <<>> /\ n + k = a
      <4>1. f + l = a + 1
        BY <2>4, <1>2 DEF Holds
      <4> QED BY <4>1, <2>4, <2>1, <2>3
    <3> QED BY <3>1, <2>1, <2>2 DEF Holds
  <2>5. CASE Len(q) # 1
    <3>1. /\ Len(p) \in Nat \ {0} /\ p # <<>> /\ p[1] = q[2]
          /\ p[Len(p)] = q[Len(q)] /\ 1 \in 1..Len(q) - 1
      BY <2>5, <2>1, <1>0, <1>1
    <3>2. p[1].first + p[1].ptr = (n + k) + 1
      <4>1. q[2].first = f + l /\ q[2].ptr = 0
        BY <3>1, <1>2 DEF Holds
      <4> QED BY <4>1, <3>1, <2>3
    <3>3. p[Len(p)].first + p[Len(p)].len = a + 1
      BY <3>1 DEF Holds
    <3>4. \A i \in 1..Len(p) : p[i].ptr < p[i].len
      BY <2>1, <1>0, <1>1 DEF Holds
    <3>5. \A i \in 1..Len(p) - 1 :
            p[i + 1].first = p[i].first + p[i].len /\ p[i + 1].ptr = 0
      <4> TAKE i \in 1..Len(p) - 1
      <4>1. /\ i \in 1..Len(p) /\ i + 1 \in 1..Len(p)
            /\ i + 1 \in 1..Len(q) - 1
        BY <2>1, <1>0, <1>1
      <4> QED BY <4>1, <2>1 DEF Holds
    <3>6. \A i \in 1..Len(p) : Len(p) - i <= a + 1 - (p[i].first + p[i].len)
      <4> TAKE i \in 1..Len(p)
      <4>1. i + 1 \in 1..Len(q) /\ p[i] = q[i + 1] /\ Len(p) - i = Len(q) - (i + 1)
        BY <2>1, <1>0, <1>1
      <4> QED BY <4>1 DEF Holds
    <3>7. Holds(p, a, n + k)
      BY <3>1, <3>2, <3>3, <3>4, <3>5, <3>6 DEF Holds
    <3> QED BY <3>7, <2>1, <2>2
  <2> QED BY <2>4, <2>5
<1>6. CASE k # rwb_buffered(Head(q))
  <2> DEFINE h == [first |-> f, ptr |-> t + k, len |-> l]
             p == [q EXCEPT ![1] = h]
  <2>1. /\ p \in Seq(Block) /\ Len(p) = Len(q)
        /\ p[1].first = f /\ p[1].len = l /\ p[1].ptr = t + k
        /\ \A i \in 2..Len(q) : p[i] = q[i]
    <3>1. h \in Block /\ h.first = f /\ h.len = l /\ h.ptr = t + k
      BY <1>4 DEF Block
    <3> HIDE DEF h
    <3>3. /\ p \in Seq(Block) /\ Len(p) = Len(q) /\ p[1] = h
          /\ \A i \in 2..Len(q) : p[i] = q[i]
      BY <3>1, <1>0
    <3> QED BY <3>1, <3>3
  <2> HIDE DEF p, h
  <2>2. rwb_drain(q, k) = p
    BY <1>0, <1>2, <1>6 DEF rwb_drain, p, h
  <2>3. t + k < l
    BY <1>3, <1>4, <1>6
  <2>4. \A i \in 1..Len(q) : p[i].first = q[i].first /\ p[i].len = q[i].len
    BY <2>1, <1>0, <1>2
  <2>5. p # <<>> /\ p[1].first + p[1].ptr = (n + k) + 1
    BY <2>1, <1>0, <1>4
  <2>6. p[Len(p)].first + p[Len(p)].len = a + 1
    <3>1. Len(q) \in 1..Len(q) /\ q[Len(q)].first + q[Len(q)].len = a + 1
      BY <1>0 DEF Holds
    <3> QED BY <3>1, <2>1, <2>4
  <2>7. \A i \in 1..Len(p) : p[i].ptr < p[i].len
    <3> TAKE i \in 1..Len(p)
    <3>1. CASE i = 1
      BY <3>1, <2>1, <2>3
    <3>2. CASE i # 1
      <4>1. i \in 1..Len(q) /\ i \in 2..Len(q)
        BY <3>2, <2>1, <1>0
      <4> QED BY <4>1, <2>1 DEF Holds
    <3> QED BY <3>1, <3>2
  <2>8. \A i \in 1..Len(p) - 1 :
          p[i + 1].first = p[i].first + p[i].len /\ p[i + 1].ptr = 0
    <3> TAKE i \in 1..Len(p) - 1
    <3>1. /\ i \in 1..Len(q) - 1 /\ i \in 1..Len(q) /\ i + 1 \in 1..Len(q)
          /\ i + 1 \in 2..Len(q)
      BY <2>1, <1>0, <1>1
    <3> QED BY <3>1, <2>1, <2>4 DEF Holds
  <2>9. \A i \in 1..Len(p) : Len(p) - i <= a + 1 - (p[i].first + p[i].len)
    BY <2>1, <2>4 DEF Holds
  <2>10. Holds(p, a, n + k)
    BY <2>5, <2>6, <2>7, <2>8, <2>9 DEF Holds
  <2> QED BY <2>10, <2>1, <2>2
<1> QED BY <1>5, <1>6

\* No more bytes are sent than were accepted.
LEMMA SentAtMostAccepted ==
  ASSUME NEW q \in Seq(Block), NEW a \in Nat, NEW n \in Nat, Holds(q, a, n)
  PROVE  /\ n <= a
         /\ q # <<>> => /\ 0 < rwb_buffered(Head(q))
                        /\ rwb_buffered(Head(q)) <= a
                        /\ Len(q) - 1 <= a
<1>1. CASE q = <<>>
  BY <1>1 DEF Holds
<1>2. CASE q # <<>>
  <2>1. Len(q) \in Nat \ {0} /\ 1 \in 1..Len(q) /\ Head(q) = q[1]
    BY <1>2
  <2>2. PICK f \in Nat, t \in Nat, l \in Nat :
          q[1].first = f /\ q[1].ptr = t /\ q[1].len = l
    BY <2>1, QueueFields
  <2>3. f + t = n + 1 /\ t < l /\ Len(q) - 1 <= a + 1 - (f + l)
    BY <1>2, <2>1, <2>2 DEF Holds
  <2>4. rwb_buffered(Head(q)) = l - t
    BY <2>1, <2>2 DEF rwb_buffered
  <2> QED BY <2>1, <2>3, <2>4
<1> QED BY <1>1, <1>2

\* k more bytes on the wire.
LEMMA WireGrows ==
  ASSUME NEW w \in Seq(Nat), NEW f \in Nat \ {0}, NEW k \in Nat
  PROVE  w \o Bytes(f, k) \in Seq(Nat) /\ Len(w \o Bytes(f, k)) = Len(w) + k
<1> DEFINE b == Bytes(f, k)
<1>1. b \in Seq(Nat) /\ Len(b) = k
  BY DEF Bytes
<1> HIDE DEF b
<1>2. w \o b \in Seq(Nat) /\ Len(w \o b) = Len(w) + k
  BY <1>1
<1> QED BY <1>2 DEF b
-----------------------------------------------------------------------------
(* The invariant is inductive: one lemma per group of actions.             *)

\* The invariant holds at first.
LEMMA InitInv == Init => Inv
<1> SUFFICES ASSUME Init PROVE Inv
  OBVIOUS
<1>1. TypeOK
  <2>1. <<>> \in Seq(Block) /\ <<>> \in Seq(Nat) /\ 0 \in 0..MaxBytes
    BY BoundsAssumption
  <2> QED BY <2>1 DEF Init, TypeOK
<1>2. Holds(rwb_send, accepted, Len(wire))
  BY DEF Init, Holds
<1> QED BY <1>1, <1>2 DEF Inv, Init

\* Steps that touch neither the blocks nor the bytes: the flags, the results,
\* the state of the chann and the place in the code may change.
LEMMA SameBytes ==
  ASSUME Inv, UNCHANGED <<rwb_send, accepted, wire>>,
         state' \in {"CONNECTED", "DISCONNECT"},
         state' = "DISCONNECT" => rwb_send = <<>>,
         active_send_event' \in BOOLEAN, out' \in BOOLEAN, queued' \in BOOLEAN,
         ev' \subseteq {"IN", "OUT", "ERR"}, pc' \in {"app", "flush", "hang"},
         ret' \in {"none", "RECV", "SEND", "DISCONNECT"}, dead' \in BOOLEAN,
         pc' = "flush" => state' = "CONNECTED" /\ rwb_send # <<>>
  PROVE  Inv'
<1>1. TypeOK'
  BY DEF Inv, TypeOK
<1>2. Holds(rwb_send, accepted, Len(wire))'
  BY DEF Inv
<1> QED BY <1>1, <1>2 DEF Inv

\* _chann_disconnect_socket() leaves no block behind a disconnected chann.
LEMMA DisconnectTypes ==
  ASSUME Inv, disconnect_socket
  PROVE  /\ state' \in {"CONNECTED", "DISCONNECT"} /\ out' \in BOOLEAN
         /\ state' = "DISCONNECT" => rwb_send = <<>>
         /\ pc' \in {"app", "hang"}
  BY DEF Inv, TypeOK, disconnect_socket

\* The steps of the application that send nothing.
LEMMA AppInv ==
  ASSUME Inv,
         \/ mnet_chann_disconnect \/ mnet_chann_send_fails
         \/ \E v \in BOOLEAN : mnet_chann_active_event(v)
  PROVE  Inv'
<1>1. CASE mnet_chann_disconnect
  <2>1. disconnect_socket
    BY <1>1 DEF mnet_chann_disconnect
  <2> QED BY <1>1, <2>1, DisconnectTypes, SameBytes
        DEF mnet_chann_disconnect, events, Inv, TypeOK
<1>2. CASE mnet_chann_send_fails
  <2>1. disconnect_socket
    BY <1>2 DEF mnet_chann_send_fails
  <2> QED BY <1>2, <2>1, DisconnectTypes, SameBytes
        DEF mnet_chann_send_fails, Inv, TypeOK
<1>3. ASSUME NEW v \in BOOLEAN, mnet_chann_active_event(v) PROVE Inv'
  <2>1. out' \in BOOLEAN /\ active_send_event' \in BOOLEAN
    BY <1>3 DEF mnet_chann_active_event
  <2> QED BY <1>3, <2>1, SameBytes
        DEF mnet_chann_active_event, events, Inv, TypeOK
<1> QED BY <1>1, <1>2, <1>3

\* A new connection starts with no block and no byte.
LEMMA ConnectInv ==
  ASSUME Inv, connect PROVE Inv'
<1>1. rwb_send' = <<>> /\ accepted' = 0 /\ wire' = <<>> /\ state' = "CONNECTED"
  BY DEF connect, Inv
<1>2. TypeOK'
  <2>1. <<>> \in Seq(Block) /\ <<>> \in Seq(Nat) /\ 0 \in 0..MaxBytes
    BY BoundsAssumption
  <2> QED BY <1>1, <2>1 DEF connect, Inv, TypeOK, flags, events, InApp
<1>3. Holds(rwb_send, accepted, Len(wire))'
  BY <1>1 DEF Holds
<1> QED BY <1>1, <1>2, <1>3 DEF Inv

\* mnet_chann_send(): the bytes are sent, cached behind the others, or both.
LEMMA SendInv ==
  ASSUME Inv, NEW len \in 1..MaxLen, NEW k \in 0..MaxLen, mnet_chann_send(len, k)
  PROVE  Inv'
<1>1. /\ len \in Nat \ {0} /\ k \in Nat /\ accepted \in Nat
      /\ accepted' = accepted + len /\ accepted' \in 0..MaxBytes
      /\ state' = "CONNECTED" /\ pc' = "app"
      /\ rwb_send \in Seq(Block) /\ wire \in Seq(Nat) /\ Len(wire) \in Nat
      /\ Holds(rwb_send, accepted, Len(wire))
  BY BoundsAssumption DEF mnet_chann_send, Inv, TypeOK, InApp
<1>2. CASE rwb_send # <<>>
  <2>1. /\ rwb_send' = rwb_cache(rwb_send, accepted + 1, len)
        /\ UNCHANGED <<out, wire>>
    BY <1>2 DEF mnet_chann_send
  <2>2. rwb_send' \in Seq(Block) /\ Holds(rwb_send', accepted', Len(wire'))
    BY <1>1, <1>2, <2>1, CacheMore
  <2>3. TypeOK'
    BY <1>1, <2>1, <2>2 DEF mnet_chann_send, Inv, TypeOK, events
  <2> QED BY <1>1, <2>2, <2>3 DEF Inv
<1>3. CASE rwb_send = <<>>
  <2>1. /\ k <= len /\ wire' = wire \o Bytes(accepted + 1, k)
        /\ IF k < len
           THEN /\ rwb_send' = rwb_cache(rwb_send, accepted + k + 1, len - k)
                /\ out' = TRUE
           ELSE UNCHANGED <<rwb_send, out>>
    BY <1>1, <1>3 DEF mnet_chann_send
  <2>2. Len(wire) = accepted
    BY <1>1, <1>3 DEF Holds
  <2>3. wire' \in Seq(Nat) /\ Len(wire') = accepted + k
    <3>1. accepted + 1 \in Nat \ {0}
      BY <1>1
    <3> QED BY <3>1, <1>1, <2>1, <2>2, WireGrows
  <2>4. rwb_send' \in Seq(Block) /\ Holds(rwb_send', accepted', Len(wire'))
    <3>1. CASE k < len
      BY <3>1, <1>1, <1>3, <2>1, <2>3, CacheFirst
    <3>2. CASE ~(k < len)
      <4>0. k = len
        BY <3>2, <1>1, <2>1
      <4>1. rwb_send' = <<>> /\ Len(wire') = accepted'
        BY <3>2, <4>0, <1>1, <1>3, <2>1, <2>3
      <4> QED BY <4>1 DEF Holds
    <3> QED BY <3>1, <3>2
  <2>5. out' \in BOOLEAN
    BY <2>1 DEF Inv, TypeOK
  <2>6. TypeOK'
    BY <1>1, <2>3, <2>4, <2>5 DEF mnet_chann_send, Inv, TypeOK, events
  <2> QED BY <1>1, <2>4, <2>6 DEF Inv
<1> QED BY <1>2, <1>3

\* mnet_poll() and the results that need no flushing.
LEMMA ResultInv ==
  ASSUME Inv,
         (\E in, room \in BOOLEAN : mnet_poll(in, room)) \/ ResultStep \/ PeerReset
  PROVE  Inv'
<1>1. CASE \E in, room \in BOOLEAN : mnet_poll(in, room)
  <2>1. ev' \subseteq {"IN", "OUT", "ERR"}
    BY <1>1 DEF mnet_poll
  <2> QED BY <1>1, <2>1, SameBytes DEF mnet_poll, Inv, TypeOK, flags, InApp
<1>2. CASE next_disconnected
  BY <1>2, SameBytes DEF next_disconnected, Inv, TypeOK, flags, InApp
<1>3. CASE kev_ignored
  BY <1>3, SameBytes DEF kev_ignored, take, Inv, TypeOK, flags, InApp
<1>4. CASE kev_error
  <2>1. disconnect_socket
    BY <1>4 DEF kev_error
  <2> QED BY <1>4, <2>1, DisconnectTypes, SameBytes DEF kev_error, take, Inv, TypeOK
<1>5. CASE kev_recv
  BY <1>5, SameBytes DEF kev_recv, take, Inv, TypeOK, flags, InApp
<1>6. CASE kev_flush
  <2>1. out' \in BOOLEAN /\ ret' \in {"none", "RECV", "SEND", "DISCONNECT"}
    BY <1>6 DEF kev_flush, flushed, Inv, TypeOK
  <2>2. pc' \in {"app", "flush"} /\ (pc' = "flush" => rwb_send # <<>>)
    BY <1>6 DEF kev_flush, take, InApp
  <2> QED BY <1>6, <2>1, <2>2, SameBytes DEF kev_flush, take, Inv, TypeOK
<1>7. CASE PeerReset
  BY <1>7, SameBytes DEF PeerReset, Inv, TypeOK, flags, events
<1> QED BY <1>1, <1>2, <1>3, <1>4, <1>5, <1>6, <1>7 DEF ResultStep

\* What one turn of the loop of _chann_sended_rwb() does to the bytes.
LEMMA FlushBytes ==
  ASSUME Inv, NEW k \in 0..MaxBytes, flush_send(k)
  PROVE  /\ k \in Nat
         /\ Head(rwb_send).first + Head(rwb_send).ptr = Len(wire) + 1
         /\ wire' = wire \o Bytes(Len(wire) + 1, k)
         /\ wire' \in Seq(Nat) /\ Len(wire') = Len(wire) + k
         /\ rwb_send' \in Seq(Block)
         /\ Holds(rwb_send', accepted, Len(wire'))
<1>1. /\ k \in Nat /\ rwb_send # <<>> /\ rwb_send \in Seq(Block)
      /\ wire \in Seq(Nat) /\ Len(wire) \in Nat /\ accepted \in Nat
      /\ Holds(rwb_send, accepted, Len(wire))
  BY BoundsAssumption DEF flush_send, Inv, TypeOK
<1>2. Head(rwb_send) = rwb_send[1] /\ 1 \in 1..Len(rwb_send)
  BY <1>1
<1>3. Head(rwb_send).first + Head(rwb_send).ptr = Len(wire) + 1
  BY <1>1, <1>2 DEF Holds
<1>4. wire' = wire \o Bytes(Len(wire) + 1, k)
  BY <1>3 DEF flush_send
<1>5. wire' \in Seq(Nat) /\ Len(wire') = Len(wire) + k
  BY <1>1, <1>4, WireGrows
<1>6. rwb_send' \in Seq(Block) /\ Holds(rwb_send', accepted, Len(wire'))
  <2>1. CASE k = 0
    <3>1. rwb_send' = rwb_send /\ Len(wire') = Len(wire)
      BY <2>1, <1>1, <1>5 DEF flush_send
    <3> QED BY <3>1, <1>1
  <2>2. CASE k # 0
    <3>1. 0 < k /\ rwb_send' = rwb_drain(rwb_send, k)
      BY <2>2, <1>1 DEF flush_send
    <3>2. k <= rwb_buffered(Head(rwb_send))
      BY <1>1 DEF flush_send
    <3> QED BY <3>1, <3>2, <1>1, <1>5, Drain
  <2> QED BY <2>1, <2>2
<1> QED BY <1>1, <1>3, <1>4, <1>5, <1>6

\* The flushing of the blocks.
LEMMA FlushInv ==
  ASSUME Inv, FlushStep PROVE Inv'
<1>1. CASE flush_fails
  <2>1. disconnect_socket
    BY <1>1 DEF flush_fails
  <2> QED BY <1>1, <2>1, DisconnectTypes, SameBytes
        DEF flush_fails, events, Inv, TypeOK
<1>2. ASSUME NEW k \in 0..MaxBytes, flush_send(k) PROVE Inv'
  <2>1. /\ rwb_send' \in Seq(Block) /\ wire' \in Seq(Nat)
        /\ Holds(rwb_send', accepted, Len(wire'))
    BY <1>2, FlushBytes
  <2>2. /\ state = "CONNECTED" /\ pc' \in {"app", "flush"}
        /\ pc' = "flush" => rwb_send' # <<>>
    BY <1>2 DEF flush_send, Inv, TypeOK
  <2>3. out' \in BOOLEAN /\ ret' \in {"none", "RECV", "SEND", "DISCONNECT"}
    BY <1>2 DEF flush_send, flushed, Inv, TypeOK
  <2>4. TypeOK'
    BY <1>2, <2>1, <2>2, <2>3 DEF flush_send, Inv, TypeOK
  <2> QED BY <1>2, <2>1, <2>2, <2>4 DEF flush_send, Inv
<1> QED BY <1>1, <1>2 DEF FlushStep

\* Every step keeps the invariant.
LEMMA NextInv == Inv /\ [Next]_vars => Inv'
<1> SUFFICES ASSUME Inv, [Next]_vars PROVE Inv'
  OBVIOUS
<1>1. CASE UNCHANGED vars
  BY <1>1, SameBytes DEF vars, flags, events, Inv, TypeOK
<1>2. CASE Lost
  BY <1>1, <1>2 DEF Lost
<1> QED BY <1>1, <1>2, ConnectInv, AppInv, SendInv, ResultInv, FlushInv DEF Next, Poll

\* The invariant always holds.
LEMMA AlwaysInv == Spec => []Inv
  BY InitInv, NextInv, PTL DEF Spec
-----------------------------------------------------------------------------
(* The theorems.                                                           *)

\* TypeOK, with its promise that the flush loop always has a head block.
THEOREM StreamTypeCorrect == Spec => []TypeOK
<1>1. Inv => TypeOK
  BY DEF Inv
<1> QED BY <1>1, AlwaysInv, PTL

\* Contiguous: the blocks of rwb_send are exactly the accepted bytes that were
\* not sent.
THEOREM UnsentBytesKept == Spec => []Contiguous
<1>1. Inv => Contiguous
  BY DEF Inv, Holds, Contiguous
<1> QED BY <1>1, AlwaysInv, PTL

\* FifoSpec: mnet_chann_send() and the flushing implement ByteFifo.
THEOREM SendIsFifo == Spec => FifoSpec
<1>1. Init => Fifo!Init
  BY DEF Init, Fifo!Init
<1>2. Inv /\ [Next]_vars => [Fifo!Next]_<<accepted, wire>>
  <2> SUFFICES ASSUME Inv, [Next]_vars
               PROVE  Fifo!Next \/ UNCHANGED <<accepted, wire>>
    OBVIOUS
  <2>0. /\ accepted \in Nat /\ wire \in Seq(Nat) /\ Len(wire) \in Nat
        /\ Holds(rwb_send, accepted, Len(wire))
    BY BoundsAssumption DEF Inv, TypeOK
  <2>1. CASE connect
    BY <2>1 DEF connect, Fifo!Next, Fifo!Reset
  <2>2. ASSUME NEW len \in 1..MaxLen, NEW k \in 0..MaxLen, mnet_chann_send(len, k)
        PROVE  Fifo!Next
    <3>1. /\ len \in Nat \ {0} /\ k \in Nat /\ accepted' = accepted + len
          /\ accepted' \in Nat /\ accepted' >= accepted
      BY <2>2, <2>0, BoundsAssumption DEF mnet_chann_send
    <3>2. CASE rwb_send # <<>>
      <4>1. wire' = wire /\ Len(wire) <= accepted
        BY <3>2, <2>0, <2>2, SentAtMostAccepted DEF mnet_chann_send, Inv, TypeOK
      <4>2. wire' = wire \o Fifo!Bytes(Len(wire) + 1, 0)
        <5>1. Fifo!Bytes(Len(wire) + 1, 0) = <<>>
          BY DEF Fifo!Bytes
        <5> QED BY <5>1, <4>1, <2>0
      <4>3. 0 \in 0..(accepted' - Len(wire))
        BY <4>1, <3>1, <2>0
      <4> QED BY <4>2, <4>3, <3>1 DEF Fifo!Next, Fifo!Move
    <3>3. CASE rwb_send = <<>>
      <4>1. Len(wire) = accepted
        BY <3>3, <2>0 DEF Holds
      <4>2. k <= len /\ wire' = wire \o Bytes(Len(wire) + 1, k)
        BY <3>3, <4>1, <2>2, <3>1 DEF mnet_chann_send
      <4>3. k \in 0..(accepted' - Len(wire))
        BY <4>1, <4>2, <3>1, <2>0
      <4> QED BY <4>2, <4>3, <3>1 DEF Fifo!Next, Fifo!Move, Fifo!Bytes, Bytes
    <3> QED BY <3>2, <3>3
  <2>3. ASSUME NEW k \in 0..MaxBytes, flush_send(k)
        PROVE  Fifo!Next
    <3>1. /\ k \in Nat /\ wire' = wire \o Bytes(Len(wire) + 1, k)
          /\ Len(wire') = Len(wire) + k /\ accepted' = accepted
          /\ rwb_send' \in Seq(Block) /\ Holds(rwb_send', accepted, Len(wire'))
      BY <2>3, FlushBytes DEF flush_send
    <3>2. Len(wire') <= accepted
      BY <3>1, <2>0, SentAtMostAccepted
    <3>3. k \in 0..(accepted' - Len(wire))
      BY <3>1, <3>2, <2>0
    <3> QED BY <3>1, <3>3, <2>0 DEF Fifo!Next, Fifo!Move, Fifo!Bytes, Bytes
  <2>4. CASE ~(\/ connect
               \/ \E len \in 1..MaxLen, k \in 0..MaxLen : mnet_chann_send(len, k)
               \/ \E k \in 0..MaxBytes : flush_send(k))
    BY <2>4 DEF Next, Poll, vars, mnet_chann_disconnect, mnet_chann_send_fails,
         mnet_chann_active_event, mnet_poll, ResultStep, FlushStep, PeerReset,
         Lost, next_disconnected, kev_ignored, kev_error, kev_recv, kev_flush,
         flush_fails
  <2> QED BY <2>1, <2>2, <2>3, <2>4
<1> QED BY <1>1, <1>2, AlwaysInv, PTL DEF Spec, FifoSpec, Fifo!Spec

\* SendMeansSent: CHANN_EVENT_SEND is reported only when every accepted byte
\* was given to the socket.
THEOREM SendEventIsTrue == Spec => SendMeansSent
<1>1. Inv /\ Inv' /\ [Next]_vars =>
        [ret' = "SEND" /\ ret # "SEND" => Len(wire') = accepted']_vars
  <2> SUFFICES ASSUME Inv, Inv', Next, ret' = "SEND", ret # "SEND"
               PROVE  Len(wire') = accepted'
    BY DEF vars, events
  <2>1. CASE kev_flush
    <3>1. rwb_send = <<>> /\ UNCHANGED <<rwb_send, wire, accepted>>
      BY <2>1 DEF kev_flush
    <3> QED BY <3>1 DEF Inv, Holds
  <2>2. ASSUME NEW k \in 0..MaxBytes, flush_send(k)
        PROVE  Len(wire') = accepted'
    <3>1. rwb_send' = <<>>
      BY <2>2 DEF flush_send
    <3> QED BY <3>1 DEF Inv, Holds
  <2> QED BY <2>1, <2>2 DEF Next, Poll, connect, mnet_chann_disconnect,
        mnet_chann_send, mnet_chann_send_fails, mnet_chann_active_event,
        mnet_poll, ResultStep, FlushStep, PeerReset, Lost, vars, events,
        next_disconnected, kev_ignored, kev_error, kev_recv, flush_fails
<1> QED BY <1>1, AlwaysInv, PTL DEF Spec, SendMeansSent

\* An int that fits is kept as it is.
LEMMA FitsInt ==
  ASSUME NEW x \in Nat, NEW m \in Nat \ {0}, x < m
  PROVE  ((x + m) % (2 * m)) - m = x
  BY SMTT(30)

\* A product grows with its first factor.
LEMMA ProductGrows ==
  ASSUME NEW x \in Nat, NEW y \in Nat, NEW z \in Nat, x <= y
  PROVE  x * z \in Nat /\ y * z \in Nat /\ x * z <= y * z
  BY SMTT(30)

\* mnet_chann_cached() is positive as long as it does not overflow.
LEMMA CachedPositive ==
  ASSUME Inv, NoOverflow, rwb_send # <<>>
  PROVE  ~(cached <= 0)
<1>1. /\ rwb_send \in Seq(Block) /\ accepted \in Nat /\ accepted <= MaxBytes
      /\ Len(wire) \in Nat /\ Holds(rwb_send, accepted, Len(wire))
      /\ MaxBytes \in Nat /\ BufSize \in Nat /\ IntMax \in Nat \ {0}
  BY BoundsAssumption, SizeAssumption DEF Inv, TypeOK
<1>2. PICK h \in Nat : rwb_buffered(Head(rwb_send)) = h /\ 0 < h /\ h <= MaxBytes
  <2>1. /\ 0 < rwb_buffered(Head(rwb_send))
        /\ rwb_buffered(Head(rwb_send)) <= accepted
    BY <1>1, SentAtMostAccepted
  <2>2. rwb_buffered(Head(rwb_send)) \in Int
    <3>1. Head(rwb_send) = rwb_send[1] /\ 1 \in 1..Len(rwb_send)
      BY <1>1
    <3>2. rwb_send[1].ptr \in Nat /\ rwb_send[1].len \in Nat
      BY <1>1, <3>1, QueueFields
    <3> QED BY <3>1, <3>2 DEF rwb_buffered
  <2> HIDE DEF rwb_buffered
  <2> QED BY <2>1, <2>2, <1>1
<1>3. PICK c \in Nat : Len(rwb_send) - 1 = c /\ c <= MaxBytes
  <2>1. Len(rwb_send) - 1 \in Nat
    BY <1>1
  <2>2. Len(rwb_send) - 1 <= accepted
    BY <1>1, SentAtMostAccepted
  <2> QED BY <2>1, <2>2, <1>1
<1>4. /\ c * BufSize \in Nat /\ MaxBytes * BufSize \in Nat
      /\ c * BufSize <= MaxBytes * BufSize
  BY <1>1, <1>3, ProductGrows
<1>5. PICK p \in Nat : c * BufSize = p /\ p <= MaxBytes * BufSize
  BY <1>4
<1>6. h + p \in Nat /\ h + p < IntMax /\ 0 < h + p
  <2>1. PICK r \in Nat : MaxBytes * BufSize = r
    BY <1>4
  <2> QED BY <2>1, <1>1, <1>2, <1>5 DEF NoOverflow
<1>7. AsInt(h + p) = h + p
  BY <1>6, <1>1, FitsInt DEF AsInt
<1>8. cached = AsInt(h + p)
  BY <1>2, <1>3, <1>5 DEF cached
<1> QED BY <1>6, <1>7, <1>8

\* OutWhileCached: cached data is always flushed when there is room for it,
\* whatever the application does with CHANN_EVENT_SEND.
THEOREM ArmedWhileCached ==
  ASSUME NoOverflow
  PROVE  Spec => []OutWhileCached
<1>1. Init => OutWhileCached
  BY DEF Init, OutWhileCached
<1>2. Inv /\ OutWhileCached /\ [Next]_vars => OutWhileCached'
  <2> SUFFICES ASSUME Inv, OutWhileCached, [Next]_vars, Running', rwb_send' # <<>>
               PROVE  state' = "CONNECTED" /\ out'
    BY DEF OutWhileCached
  <2>1. ASSUME NEW v \in BOOLEAN, mnet_chann_active_event(v)
        PROVE  state' = "CONNECTED" /\ out'
    BY <2>1, CachedPositive
       DEF mnet_chann_active_event, OutWhileCached, Running, InApp
  <2>2. ASSUME NEW len \in 1..MaxLen, NEW k \in 0..MaxLen, mnet_chann_send(len, k)
        PROVE  state' = "CONNECTED" /\ out'
    BY <2>2 DEF mnet_chann_send, OutWhileCached, Running, InApp
  <2>3. ASSUME NEW k \in 0..MaxBytes, flush_send(k)
        PROVE  state' = "CONNECTED" /\ out'
    <3>1. rwb_send # <<>> /\ state = "CONNECTED"
      BY <2>3 DEF flush_send, Inv, TypeOK
    <3> QED BY <2>3, <3>1 DEF flush_send, OutWhileCached, Running
  <2>4. CASE connect
    BY <2>4 DEF connect, Inv
  <2>5. CASE mnet_chann_disconnect \/ mnet_chann_send_fails \/ kev_error \/ flush_fails
    BY <2>5 DEF mnet_chann_disconnect, mnet_chann_send_fails, kev_error,
         flush_fails, disconnect_socket, Running
  <2>6. CASE kev_flush
    BY <2>6 DEF kev_flush, take, InApp, OutWhileCached, Running
  <2>7. CASE \/ \E in, room \in BOOLEAN : mnet_poll(in, room)
             \/ next_disconnected \/ kev_ignored \/ kev_recv
    BY <2>7 DEF mnet_poll, next_disconnected, kev_ignored, kev_recv, take, flags,
         OutWhileCached, Running
  <2>8. CASE PeerReset \/ Lost \/ UNCHANGED vars
    BY <2>8 DEF PeerReset, Lost, vars, flags, OutWhileCached, Running
  <2> QED BY <2>1, <2>2, <2>3, <2>4, <2>5, <2>6, <2>7, <2>8
        DEF Next, Poll, ResultStep, FlushStep
<1> QED BY <1>1, <1>2, AlwaysInv, PTL DEF Spec
=============================================================================
