-------------------------- MODULE MnetQueueProofs --------------------------
(***************************************************************************)
(* What MnetCore keeps of the queue of disconnects, the descriptors and the*)
(* send events, proved on top of the inductive invariant of MnetCoreProofs *)
(* for every set of channs and descriptors and every bound.  Each result   *)
(* assumes of the application exactly what the property needs.             *)
(***************************************************************************)
EXTENDS MnetCoreProofs

\* The application uses STREAM channs only, and reads and writes none that
\* is listening.
StreamOnly == Types \subseteq {"STREAM"} /\ "misuse" \notin Ops

\* None of S has a connection, so none of them can be queued again.
Unconnected(S) == \A n \in S : state[n] # "CONNECTED"

\* The links within S have no cycle: one leads out of every part of S.
Grounded(S) ==
  \A T \in SUBSET S : T # {} => \E n \in T : dis_next[n] \notin T

\* The queue has a list without a cycle where there are only STREAM channs; and
\* where the application takes all results before it polls, it holds live channs
\* only.  The dis_next of a chann that was taken from the list is stale, which
\* is why S is what the head reaches.
LiveQueue ==
  Running => \E S \in SUBSET Channs :
    /\ Spans(S)
    /\ Disciplined => S \subseteq channs
    /\ StreamOnly => Unconnected(S) /\ Grounded(S)

\* The channs of an application that opens STREAM channs only.
UsedAsMeant ==
  Types \subseteq {"STREAM"} => \A n \in Channs : ctype[n] = "STREAM"

QueueOK == (Disciplined => NoUseAfterFree) /\ LiveQueue /\ UsedAsMeant
-----------------------------------------------------------------------------
(* What a step can do to the queue.                                        *)

\* The queue grows by a failed call.
Queues(n) ==
  /\ n \in channs /\ fail_and_queue(n) /\ channs' = channs
  /\ ctype[n] = "DGRAM" \/ Usable(n)

\* The queue stays as it is, and nobody on it gets a connection.
Spares ==
  /\ dis_channs' = dis_channs /\ dis_next' = dis_next
  /\ channs \subseteq channs'
  /\ \A n \in Channs : state'[n] = "CONNECTED" =>
       \/ state[n] = "CONNECTED" \/ ctype[n] = "DGRAM" \/ dis_channs = Null

\* Dropping a socket connects nobody.
LEMMA DropConnectsNobody ==
  ASSUME TypeOK, NEW n \in Channs, NEW s, s # "CONNECTED",
         chann_disconnect_socket(n, s)
  PROVE  \A m \in Channs : state'[m] = "CONNECTED" => state[m] = "CONNECTED"
  BY DEF chann_disconnect_socket, TypeOK

\* Every call of the application either queues the chann or spares the queue.
LEMMA AppCallQueue ==
  ASSUME Inv, Running, NEW n \in Channs, AppCall(n), Running'
  PROVE  Queues(n) \/ Spares
  <1> channs \subseteq Channs /\ TypeOK
    BY DEF Inv, TypeOK
  <1>0. ~spin
    BY DEF spin, Running
  <1>1. ASSUME NEW t \in Types, mnet_chann_open(n, t)
        PROVE  Spares
    BY <1>1 DEF mnet_chann_open, Spares, dislist, Inv, TypeOK
  <1>2. CASE mnet_chann_close(n)
    <2>1. /\ chann_disconnect_socket(n, "CLOSED")
          /\ UNCHANGED <<channs, dis_channs, dis_next, msg>>
      BY <1>0, <1>2 DEF mnet_chann_close, dislist
    <2> QED BY <2>1, DropConnectsNobody DEF Spares
  <1>3. CASE mnet_chann_disconnect(n)
    <2>1. /\ chann_disconnect_socket(n, "DISCONNECT")
          /\ UNCHANGED <<channs, dis_channs, dis_next, msg>>
      BY <1>0, <1>3 DEF mnet_chann_disconnect, library, dislist
    <2> QED BY <2>1, DropConnectsNobody DEF Spares
  <1>4. ASSUME NEW f \in Fds,
               \/ mnet_chann_listen(n, f) \/ mnet_chann_connect(n, f)
               \/ mnet_chann_connect_fails(n, f) \/ mnet_dgram_send_cached(n, f)
        PROVE  Spares
    <2>1. UNCHANGED <<channs, dis_channs, dis_next, msg>>
      BY <1>4 DEF mnet_chann_listen, mnet_chann_connect,
           mnet_chann_connect_fails, mnet_dgram_send_cached, library, dislist
    <2>2. \A m \in Channs : state'[m] = "CONNECTED" =>
            state[m] = "CONNECTED" \/ ctype[m] = "DGRAM"
      BY <1>4 DEF mnet_chann_listen, mnet_chann_connect, open_socket,
           mnet_chann_connect_fails, mnet_dgram_send_cached, TypeOK
    <2> QED BY <2>1, <2>2 DEF Spares
  <1>5. ASSUME NEW v \in BOOLEAN,
               \/ active_event_send(n, v) \/ active_event_timer(n, v)
               \/ mnet_chann_recv(n, v)
        PROVE  Spares
    BY <1>5 DEF active_event_send, active_event_timer, mnet_chann_recv, Spares,
                library, dislist, fields
  <1>6. CASE mnet_chann_send_cached(n)
    BY <1>6 DEF mnet_chann_send_cached, Spares, library, dislist
  <1>7. CASE mnet_chann_recv_fails(n) \/ mnet_chann_send_fails(n)
    BY <1>0, <1>7 DEF mnet_chann_recv_fails, mnet_chann_send_fails, Queues, Usable
  <1>8. CASE mnet_dgram_send_fails(n)
    BY <1>8 DEF mnet_dgram_send_fails, Queues
  <1> QED BY <1>1, <1>2, <1>3, <1>4, <1>5, <1>6, <1>7, <1>8 DEF AppCall

\* The event loop works on the event array only while nobody is queued, so
\* what it does to the channs concerns nobody on the list.
LEMMA KevQueue ==
  ASSUME Inv, Running, NEW kev \in evt, KevStep(kev), Running'
  PROVE  Spares
  <1>0. ~spin
    BY DEF spin, Running
  <1>1. dis_channs = Null
    BY DEF KevStep, kev_ignored, kev_error, kev_accept, kev_accept_fails,
           kev_accept_lost, kev_recv, kev_connected, kev_connect_fails, kev_flushed,
           kev_flush_blocks, kev_flush_fails, Flushable, Healthy, at
  <1>2. take(kev) /\ channs \subseteq channs'
    BY <1>0 DEF KevStep, kev_ignored, kev_error, kev_accept, kev_accept_fails,
           kev_accept_lost, kev_recv, kev_connected, kev_connect_fails, kev_flushed,
           kev_flush_blocks, kev_flush_fails, drop_and_report
  <1> QED BY <1>1, <1>2 DEF take, dislist, Spares

\* Every step polls, empties the queue, takes its head, adds to it, or spares
\* it.
LEMMA QueueSteps ==
  ASSUME Inv, Running, [Next]_vars, Running'
  PROVE  \/ \E due, W : mnet_poll(due, W)
         \/ dis_channs' = Null /\ ~init'
         \/ next_disconnected
         \/ \E n \in Channs : Queues(n)
         \/ Spares
  <1>0. ~spin
    BY DEF spin, Running
  <1>1. CASE UNCHANGED vars
    BY <1>1 DEF vars, library, fields, dislist, Spares
  <1>2. CASE mnet_init
    BY <1>2 DEF mnet_init, dislist, fields, Spares
  <1>3. CASE mnet_fini
    BY <1>0, <1>3 DEF mnet_fini
  <1>4. ASSUME NEW n \in Channs, AppCall(n)
        PROVE  Queues(n) \/ Spares
    BY <1>4, AppCallQueue
  <1>5. CASE Poll
    BY <1>5 DEF Poll
  <1>6. CASE NextStep
    <2>1. ASSUME NEW n \in tm_due, next_timer(n)
          PROVE  Spares
      BY <2>1 DEF next_timer, dislist, fields, Spares, Inv, TypeOK
    <2>2. CASE next_none
      BY <2>2 DEF next_none, dislist, fields, Spares
    <2> QED BY <1>6, <2>1, <2>2, KevQueue DEF NextStep
  <1>7. ASSUME NEW f \in Fds, KernelStep(f)
        PROVE  Spares
    BY <1>7 DEF KernelStep, ConnectDone, ConnectFail, PeerFin, PeerReset,
                SockStep, Arrive, library, fields, dislist, Spares
  <1>8. CASE Lost
    BY <1>8 DEF Lost, Running
  <1> QED BY <1>1, <1>2, <1>3, <1>4, <1>5, <1>6, <1>7, <1>8 DEF Next
-----------------------------------------------------------------------------
(* The induction.                                                          *)

\* A chann that is queued was not on the list: it had a connection, which
\* nobody on the list has.
LEMMA QueuesFresh ==
  ASSUME Inv, UsedAsMeant, StreamOnly, NEW n \in Channs, Queues(n),
         NEW S, Unconnected(S)
  PROVE  n \notin S
  BY DEF UsedAsMeant, StreamOnly, Queues, Usable, Unconnected

\* A failed call puts its chann before the head.
LEMMA QueuesLive ==
  ASSUME Inv, Running, LiveQueue, UsedAsMeant, NEW n \in Channs, Queues(n)
  PROVE  LiveQueue'
  <1> USE NullAssumption
  <1>1. PICK S \in SUBSET Channs :
          /\ Spans(S)
          /\ Disciplined => S \subseteq channs
          /\ StreamOnly => Unconnected(S) /\ Grounded(S)
    BY DEF LiveQueue
  <1> channs \subseteq Channs /\ TypeOK /\ n \in channs /\ channs' = channs
    BY DEF Inv, TypeOK, Queues
  <1>2. /\ dis_channs' = n
        /\ dis_next' = [dis_next EXCEPT ![n] = dis_channs]
        /\ chann_disconnect_socket(n, Disconnected(n))
    BY DEF Queues, fail_and_queue, chann_msg
  <1> DEFINE T == S \cup {n}
  <1>3. T \in SUBSET Channs /\ (Disciplined => T \subseteq channs')
    BY <1>1
  <1>4. Spans(T)'
    BY <1>1, <1>2 DEF Spans, TypeOK
  <1>6. ASSUME StreamOnly
        PROVE  Unconnected(T)' /\ Grounded(T)'
    <2>1. n \notin S
      BY <1>1, <1>6, QueuesFresh
    <2>2. Unconnected(T)'
      <3>1. Disconnected(n) # "CONNECTED"
        BY DEF Disconnected, HasSocket, Inv, SocketOwner
      <3>2. state'[n] # "CONNECTED"
        BY <1>2, <3>1 DEF chann_disconnect_socket, TypeOK
      <3>3. \A m \in Channs : state'[m] = "CONNECTED" => state[m] = "CONNECTED"
        BY <1>2, <3>1, DropConnectsNobody
      <3> QED BY <1>1, <1>6, <3>2, <3>3 DEF Unconnected
    <2>5. ASSUME NEW U \in SUBSET T, U # {}
          PROVE  \E m \in U : dis_next'[m] \notin U
      <3>1. CASE U \cap S = {}
        <4>1. U = {n}
          BY <2>5, <3>1
        <4>2. dis_next'[n] = dis_channs /\ dis_channs # n
          BY <1>1, <1>2, <2>1 DEF Spans, TypeOK
        <4> QED BY <4>1, <4>2
      <3>2. CASE U \cap S # {}
        <4>1. PICK m \in U \cap S : dis_next[m] \notin U \cap S
          BY <1>1, <1>6, <3>2 DEF Grounded
        <4>2. m # n /\ dis_next'[m] = dis_next[m] /\ dis_next[m] \in S \cup {Null}
          BY <1>1, <1>2, <2>1, <4>1 DEF Spans, TypeOK
        <4> QED BY <2>1, <2>5, <4>1, <4>2
      <3> QED BY <3>1, <3>2
    <2>6. Grounded(T)'
      BY <2>5 DEF Grounded
    <2> QED BY <2>2, <2>6
  <1> QED BY <1>3, <1>4, <1>6 DEF LiveQueue

\* An emptied queue is a live one.
LEMMA EmptyLive ==
  ASSUME dis_channs' = Null
  PROVE  LiveQueue'
  <1>1. Spans({})' /\ Unconnected({})' /\ {} \subseteq channs'
    BY DEF Spans, Unconnected
  <1>2. Grounded({})'
    BY DEF Grounded
  <1> QED BY <1>1, <1>2 DEF LiveQueue

\* A step that spares the queue leaves it alive.
LEMMA SparesLive ==
  ASSUME Inv, Running, LiveQueue, UsedAsMeant, Spares
  PROVE  LiveQueue'
  <1> USE NullAssumption
  <1>1. CASE dis_channs = Null
    BY <1>1, EmptyLive DEF Spares
  <1>2. CASE dis_channs # Null
    <2>1. PICK S \in SUBSET Channs :
            /\ Spans(S)
            /\ Disciplined => S \subseteq channs
            /\ StreamOnly => Unconnected(S) /\ Grounded(S)
      BY DEF LiveQueue
    <2> channs \subseteq Channs
      BY DEF Inv, TypeOK
    <2>2. (Disciplined => S \subseteq channs') /\ Spans(S)'
      BY <2>1 DEF Spares, Spans
    <2>4. StreamOnly => Unconnected(S)' /\ Grounded(S)'
      BY <1>2, <2>1 DEF Spares, Unconnected, Grounded, UsedAsMeant, StreamOnly
    <2> QED BY <2>2, <2>4 DEF LiveQueue
  <1> QED BY <1>1, <1>2

\* A lost process takes no step.
LEMMA LostStays ==
  ASSUME ~Running, [Next]_vars
  PROVE  UNCHANGED vars
  <1> USE DEF Running
  <1>1. ASSUME NEW n \in Channs, AppCall(n)
        PROVE  FALSE
    BY <1>1 DEF AppCall, InApp, Usable, mnet_chann_open, mnet_chann_close,
         mnet_chann_disconnect, mnet_chann_listen, mnet_chann_connect,
         mnet_chann_connect_fails, mnet_dgram_send_cached, active_event_send,
         active_event_timer, mnet_chann_recv, mnet_chann_recv_fails,
         mnet_chann_send_cached, mnet_chann_send_fails, mnet_dgram_send_fails
  <1>2. ASSUME NEW kev \in evt, KevStep(kev)
        PROVE  FALSE
    BY <1>2 DEF KevStep, InNext, kev_ignored, kev_error, kev_accept,
         kev_accept_fails, kev_accept_lost, kev_recv, kev_connected,
         kev_connect_fails, kev_flushed, kev_flush_blocks, kev_flush_fails,
         Flushable, Healthy, at
  <1>3. ~NextStep
    BY <1>2 DEF NextStep, InNext, next_timer, next_disconnected, next_none
  <1>4. ASSUME NEW f \in Fds, KernelStep(f)
        PROVE  FALSE
    BY <1>4 DEF KernelStep, ConnectDone, ConnectFail, PeerFin, PeerReset,
                SockStep, Arrive
  <1>5. ~mnet_init /\ ~mnet_fini /\ ~Poll
    BY DEF mnet_init, mnet_fini, Poll, mnet_poll, InApp
  <1> QED BY <1>1, <1>3, <1>4, <1>5 DEF Next, Lost

\* mnet_poll() frees channs.  A disciplined application calls it while the queue
\* is empty; otherwise a chann that is freed on the list ends it.
LEMMA PollLive ==
  ASSUME Inv, Running, LiveQueue, NEW due, NEW W, mnet_poll(due, W)
  PROVE  LiveQueue'
  <1>1. CASE Disciplined
    BY <1>1, EmptyLive DEF mnet_poll, Drained
  <1>2. CASE ~Disciplined
    <2>1. PICK S \in SUBSET Channs :
            Spans(S) /\ (StreamOnly => Unconnected(S) /\ Grounded(S))
      BY DEF LiveQueue
    <2>2. zeroed(del_channs) /\ dis_channs' = dis_channs
      BY DEF mnet_poll
    <2>3. Spans(S)'
      BY <2>1, <2>2 DEF zeroed, Spans
    <2>4. StreamOnly => Unconnected(S)' /\ Grounded(S)'
      BY <2>1, <2>2, NullAssumption DEF zeroed, Unconnected, Grounded
    <2> QED BY <1>2, <2>3, <2>4 DEF LiveQueue
  <1> QED BY <1>1, <1>2

\* Every step keeps the queue in order.
LEMMA LiveStep ==
  ASSUME Inv, LiveQueue, UsedAsMeant, [Next]_vars
  PROVE  LiveQueue'
  <1>1. CASE ~Running'
    BY <1>1 DEF LiveQueue
  <1>2. CASE ~Running
    BY <1>2, LostStays DEF LiveQueue, Running, vars
  <1>3. CASE Running /\ Running'
    <2>1. ASSUME NEW due, NEW W, mnet_poll(due, W)
          PROVE  LiveQueue'
      BY <1>3, <2>1, PollLive
    <2>2. CASE next_disconnected
      <3>1. PICK S \in SUBSET Channs :
              /\ Spans(S)
              /\ Disciplined => S \subseteq channs
              /\ StreamOnly => Unconnected(S) /\ Grounded(S)
        BY <1>3 DEF LiveQueue
      <3>2. /\ dis_channs \in S /\ dis_channs' = dis_next[dis_channs]
            /\ UNCHANGED <<channs, dis_next, state>>
        BY <1>3, <2>2, <3>1 DEF next_disconnected, Spans, Running, fields
      <3>3. Spans(S)'
        BY <3>1, <3>2 DEF Spans
      <3> QED BY <3>1, <3>2, <3>3 DEF LiveQueue, Unconnected, Grounded
    <2> QED BY <1>3, <2>1, <2>2, QueueSteps, EmptyLive, QueuesLive, SparesLive
  <1> QED BY <1>1, <1>2, <1>3

\* No chann is ever of a type outside Types.
LEMMA UsedStep ==
  ASSUME Inv, UsedAsMeant, [Next]_vars
  PROVE  UsedAsMeant'
  <1> USE DEF UsedAsMeant
  <1>1. CASE UNCHANGED ctype
    BY <1>1
  <1>2. CASE mnet_fini
    BY <1>1, <1>2 DEF mnet_fini, spin, library, fields, zeroed
  <1>3. CASE Poll
    BY <1>3 DEF Poll, mnet_poll, zeroed
  <1>4. ASSUME NEW n \in Channs, AppCall(n)
        PROVE  UsedAsMeant'
    <2>1. ASSUME NEW t \in Types, mnet_chann_open(n, t)
          PROVE  UsedAsMeant'
      BY <2>1 DEF mnet_chann_open, Inv, TypeOK
    <2>2. ASSUME NEW v \in BOOLEAN, active_event_timer(n, v)
          PROVE  UsedAsMeant'
      BY <2>2 DEF active_event_timer, fields
    <2>3. CASE mnet_chann_close(n) \/ mnet_chann_disconnect(n)
      BY <1>1, <2>3 DEF mnet_chann_close, mnet_chann_disconnect, spin,
           chann_disconnect_socket, library, fields
    <2>4. ASSUME NEW f \in Fds,
                 \/ mnet_chann_listen(n, f) \/ mnet_chann_connect(n, f)
                 \/ mnet_chann_connect_fails(n, f)
                 \/ mnet_dgram_send_cached(n, f)
          PROVE  UsedAsMeant'
      BY <1>1, <2>4 DEF mnet_chann_listen, mnet_chann_connect, open_socket,
           mnet_chann_connect_fails, mnet_dgram_send_cached, library
    <2>5. ASSUME NEW v \in BOOLEAN,
                 active_event_send(n, v) \/ mnet_chann_recv(n, v)
          PROVE  UsedAsMeant'
      BY <1>1, <2>5 DEF active_event_send, mnet_chann_recv, library, fields
    <2>6. CASE \/ mnet_chann_recv_fails(n) \/ mnet_chann_send_cached(n)
               \/ mnet_chann_send_fails(n) \/ mnet_dgram_send_fails(n)
      BY <1>1, <2>6 DEF mnet_chann_recv_fails, mnet_chann_send_cached,
           mnet_chann_send_fails, mnet_dgram_send_fails, fail_and_queue, spin,
           chann_disconnect_socket, library, fields
    <2> QED BY <1>4, <2>1, <2>2, <2>3, <2>4, <2>5, <2>6 DEF AppCall
  <1>5. ASSUME NEW kev \in evt, KevStep(kev)
        PROVE  UsedAsMeant'
    <2>1. ASSUME NEW c \in Channs, NEW f \in Fds, NEW more \in BOOLEAN,
                 kev_accept(kev, c, f, more)
          PROVE  UsedAsMeant'
      BY <2>1 DEF kev_accept, take, Inv, TypeOK
    <2>2. CASE kev_error(kev) \/ kev_connect_fails(kev) \/ kev_flush_fails(kev)
      BY <1>1, <2>2 DEF kev_error, kev_connect_fails, kev_flush_fails, spin,
           drop_and_report, chann_disconnect_socket, take, library, fields
    <2>3. CASE kev_ignored(kev) \/ kev_accept_fails(kev) \/ kev_recv(kev)
      BY <1>1, <2>3 DEF kev_ignored, kev_accept_fails, kev_recv, take,
           fields
    <2>4. CASE \/ kev_connected(kev) \/ kev_flushed(kev)
               \/ \E left \in 1..MaxCached : kev_flush_blocks(kev, left)
               \/ \E f \in Fds, more \in BOOLEAN : kev_accept_lost(kev, f, more)
      BY <1>1, <2>4 DEF kev_connected, kev_flushed, kev_flush_blocks,
           kev_accept_lost, take, fields
    <2> QED BY <1>5, <2>1, <2>2, <2>3, <2>4 DEF KevStep
  <1>6. CASE NextStep
    BY <1>1, <1>5, <1>6 DEF NextStep, next_timer, next_disconnected, next_none,
         fields
  <1>7. ASSUME NEW f \in Fds, KernelStep(f)
        PROVE  UsedAsMeant'
    BY <1>1, <1>7 DEF KernelStep, ConnectDone, ConnectFail, PeerFin, PeerReset,
         SockStep, Arrive, library, fields
  <1>8. CASE mnet_init \/ Lost \/ UNCHANGED vars
    BY <1>1, <1>8 DEF mnet_init, Lost, vars, library, fields
  <1> QED BY <1>2, <1>3, <1>4, <1>6, <1>7, <1>8 DEF Next

\* Only the end of a queue of live channs is ever read.
LEMMA FreedStep ==
  ASSUME Disciplined, Inv, LiveQueue, NoUseAfterFree, [Next]_vars
  PROVE  NoUseAfterFree'
  <1> USE DEF NoUseAfterFree
  <1>1. CASE UNCHANGED vars
    BY <1>1 DEF vars
  <1>2. CASE mnet_init \/ mnet_fini \/ Poll \/ Lost
    BY <1>2 DEF mnet_init, mnet_fini, Poll, mnet_poll, Lost, spin, vars
  <1>3. ASSUME NEW n \in Channs, AppCall(n)
        PROVE  fault' # "uaf"
    BY <1>3 DEF AppCall, spin, mnet_chann_open, mnet_chann_close,
         mnet_chann_disconnect, mnet_chann_listen, mnet_chann_connect,
         mnet_chann_connect_fails, mnet_dgram_send_cached, active_event_send,
         active_event_timer, mnet_chann_recv, mnet_chann_recv_fails,
         mnet_chann_send_cached, mnet_chann_send_fails, mnet_dgram_send_fails
  <1>4. ASSUME NEW kev \in evt, KevStep(kev)
        PROVE  fault' # "uaf"
    BY <1>4 DEF KevStep, spin, take, drop_and_report, kev_ignored, kev_error,
         kev_accept, kev_accept_fails, kev_accept_lost, kev_recv, kev_connected,
         kev_connect_fails, kev_flushed, kev_flush_blocks, kev_flush_fails
  <1>5. CASE next_disconnected
    <2>1. Running /\ dis_channs # Null
      BY <1>5 DEF next_disconnected, InNext, Running
    <2>2. dis_channs \in channs
      BY <2>1 DEF LiveQueue, Spans
    <2> QED BY <1>5, <2>2 DEF next_disconnected
  <1>6. CASE NextStep
    BY <1>4, <1>5, <1>6 DEF NextStep, next_timer, next_none
  <1>7. ASSUME NEW f \in Fds, KernelStep(f)
        PROVE  fault' # "uaf"
    BY <1>7 DEF KernelStep, ConnectDone, ConnectFail, PeerFin, PeerReset,
         SockStep, Arrive
  <1> QED BY <1>1, <1>2, <1>3, <1>6, <1>7 DEF Next

\* Nothing is queued before mnet_init().
LEMMA InitQueue == Init => QueueOK
  <1> SUFFICES ASSUME Init PROVE QueueOK
    OBVIOUS
  <1>1. NoUseAfterFree /\ UsedAsMeant
    BY DEF Init, NoUseAfterFree, UsedAsMeant
  <1>2. /\ Spans({}) /\ Unconnected({})
        /\ {} \subseteq channs
    BY DEF Init, Spans, Unconnected
  <1>3. Grounded({})
    BY DEF Grounded
  <1> QED BY <1>1, <1>2, <1>3 DEF QueueOK, LiveQueue

\* The state of the queue is an invariant.
LEMMA QueueInductive ==
  Spec => []QueueOK
  <1>1. Inv /\ QueueOK /\ [Next]_vars => QueueOK'
    BY LiveStep, UsedStep, FreedStep DEF QueueOK
  <1> QED BY <1>1, InitQueue, Inductive, PTL DEF Spec
-----------------------------------------------------------------------------
(* The theorems about the queue.                                           *)

\* An application that takes every result before it polls again never makes
\* mnet_result_next() read a freed chann_t from the dis_channs list, whatever
\* calls it makes and whatever types it uses.
THEOREM NeverReadsFreed ==
  ASSUME Disciplined
  PROVE  Spec => []NoUseAfterFree
  <1>1. QueueOK => NoUseAfterFree
    BY DEF QueueOK
  <1> QED BY <1>1, QueueInductive, PTL

\* For STREAM channs the list of queued disconnects has no cycle, so that
\* mnet_result_next() comes to its end: a chann on it has no connection until
\* it is handed out.  This holds even of an application that polls, and so
\* frees channs, in between.
THEOREM QueueEnds ==
  ASSUME StreamOnly
  PROVE  Spec => []DisListEnds
  <1>1. TypeOK /\ QueueOK => DisListEnds
    <2> SUFFICES ASSUME TypeOK, QueueOK, Running,
                        NEW S \in SUBSET Channs, dis_channs \in S,
                        \A n \in S : dis_next[n] \in S
                 PROVE  FALSE
      BY DEF DisListEnds
    <2>1. PICK L \in SUBSET Channs : Spans(L) /\ Grounded(L)
      BY DEF QueueOK, LiveQueue
    <2>2. dis_channs \in S \cap L
      BY <2>1, NullAssumption DEF Spans
    <2>3. PICK n \in S \cap L : dis_next[n] \notin S \cap L
      BY <2>1, <2>2 DEF Grounded
    <2> QED BY <2>1, <2>3, NullAssumption DEF Spans
  <1> QED BY <1>1, QueueInductive, TypeCorrect, PTL

\* A failed call puts its chann before all that wait already: none of them is
\* cut off, for the chann was not on the list itself.
LEMMA QueuesKeep ==
  ASSUME Inv, Running, LiveQueue, UsedAsMeant, StreamOnly,
         NEW m \in Channs, Queues(m), NEW n \in Channs, Queued(n)
  PROVE  Queued(n)'
  <1> USE NullAssumption
  <1>1. PICK L \in SUBSET Channs : Spans(L) /\ Unconnected(L)
    BY DEF LiveQueue
  <1>2. m \notin L
    BY <1>1, QueuesFresh
  <1>3. dis_channs' = m /\ dis_next' = [dis_next EXCEPT ![m] = dis_channs]
    BY DEF Queues, fail_and_queue
  <1> SUFFICES ASSUME NEW S \in SUBSET Channs, Spans(S)'
               PROVE  n \in S
    BY DEF Queued
  <1>4. Spans(S \cap L)
    BY <1>1, <1>2, <1>3 DEF Spans, Inv, TypeOK
  <1> QED BY <1>4 DEF Queued

\* Taking the head leaves the rest on the list.
LEMMA HeadKeeps ==
  ASSUME Inv, NEW n \in Channs, Queued(n), n # dis_channs,
         dis_channs \in Channs, dis_channs' = dis_next[dis_channs],
         dis_next' = dis_next
  PROVE  Queued(n)'
  <1> SUFFICES ASSUME NEW S \in SUBSET Channs, Spans(S)'
               PROVE  n \in S
    BY DEF Queued
  <1>1. Spans(S \cup {dis_channs})
    BY DEF Spans
  <1> QED BY <1>1 DEF Queued

\* Nobody is on an empty list.
LEMMA NobodyQueued ==
  ASSUME dis_channs = Null, NEW n
  PROVE  ~Queued(n)
  <1>1. Spans({})
    BY DEF Spans
  <1> QED BY <1>1 DEF Queued

\* The step that loses the process leaves the list as it is.
LEMMA LossKeeps ==
  ASSUME Running, ~Running', [Next]_vars
  PROVE  UNCHANGED <<dis_channs, dis_next>>
  <1> USE DEF Running
  <1>1. CASE spin
    BY <1>1 DEF spin, library, dislist
  <1>2. CASE UNCHANGED vars \/ mnet_init \/ Lost \/ Poll \/ mnet_fini
    BY <1>1, <1>2 DEF vars, mnet_init, Lost, Poll, mnet_poll, mnet_fini
  <1>3. ASSUME NEW n \in Channs, AppCall(n)
        PROVE  spin
    BY <1>3 DEF AppCall, mnet_chann_open, mnet_chann_close,
         mnet_chann_disconnect, mnet_chann_listen, mnet_chann_connect,
         mnet_chann_connect_fails, mnet_dgram_send_cached, active_event_send,
         active_event_timer, mnet_chann_recv, mnet_chann_recv_fails,
         mnet_chann_send_cached, mnet_chann_send_fails, mnet_dgram_send_fails
  <1>4. ASSUME NEW kev \in evt, KevStep(kev)
        PROVE  spin
    BY <1>4 DEF KevStep, take, drop_and_report, kev_ignored, kev_error,
         kev_accept, kev_accept_fails, kev_accept_lost, kev_recv, kev_connected,
         kev_connect_fails, kev_flushed, kev_flush_blocks, kev_flush_fails
  <1>5. CASE NextStep
    BY <1>1, <1>4, <1>5 DEF NextStep, next_timer, next_none, next_disconnected
  <1>6. ASSUME NEW f \in Fds, KernelStep(f)
        PROVE  FALSE
    BY <1>6 DEF KernelStep, ConnectDone, ConnectFail, PeerFin, PeerReset,
         SockStep, Arrive
  <1> QED BY <1>1, <1>2, <1>3, <1>5, <1>6 DEF Next

\* For STREAM channs and an application that takes every result before it
\* polls, no failed call, close or poll takes a chann off the list of queued
\* disconnects: mnet_result_next() hands out every one of them.
THEOREM NobodyIsLost ==
  ASSUME StreamOnly, Disciplined
  PROVE  Spec => QueueLosesNobody
  <1>1. Inv /\ QueueOK /\ [Next]_vars =>
          [\A n \in Channs : Queued(n) /\ ~Queued(n)' => ret'.n = n \/ ~init']_vars
    <2> SUFFICES ASSUME Inv, QueueOK, [Next]_vars,
                        NEW n \in Channs, Queued(n), ~Queued(n)'
                 PROVE  ret'.n = n \/ ~init'
      OBVIOUS
    <2>0. LiveQueue /\ UsedAsMeant
      BY DEF QueueOK
    <2>1. ~UNCHANGED <<dis_channs, dis_next>>
      BY DEF Queued, Spans
    <2>2. dis_channs # Null
      BY NobodyQueued
    <2>3. Running
      BY <2>1, LostStays DEF vars, library, dislist
    <2>4. Running'
      BY <2>1, <2>3, LossKeeps
    <2>5. ASSUME NEW due, NEW W, mnet_poll(due, W)
          PROVE  FALSE
      BY <2>2, <2>5 DEF mnet_poll, Drained
    <2>6. CASE next_disconnected
      <3>1. /\ dis_channs' = dis_next[dis_channs] /\ dis_next' = dis_next
            /\ ret'.n = dis_channs
        BY <2>1, <2>6 DEF next_disconnected, returns
      <3>2. dis_channs \in Channs
        BY <2>2 DEF Inv, TypeOK
      <3> QED BY <3>1, <3>2, HeadKeeps
    <2>7. ASSUME NEW m \in Channs, Queues(m)
          PROVE  FALSE
      BY <2>0, <2>3, <2>7, QueuesKeep
    <2>8. ~Spares
      BY <2>1 DEF Spares
    <2> QED BY <2>3, <2>4, <2>5, <2>6, <2>7, <2>8, QueueSteps
  <1> QED BY <1>1, QueueInductive, Inductive, PTL DEF Spec, QueueLosesNobody
-----------------------------------------------------------------------------
(* Events of closed channs.                                                *)

\* An entry of the event array is reported for its chann only after
\* _evt_result_next() has seen that the chann is not closed.
LEMMA KevSilent ==
  ASSUME NEW kev \in evt, KevStep(kev), evt' # evt, ret'.n # Null
  PROVE  state[ret'.n] # "CLOSED"
  <1>1. ~spin
    BY DEF spin, library, control
  <1>2. CASE kev_error(kev) \/ kev_connect_fails(kev) \/ kev_flush_fails(kev)
    BY <1>1, <1>2 DEF kev_error, kev_connect_fails, kev_flush_fails,
         drop_and_report, returns, Healthy, Skipped
  <1>3. CASE kev_ignored(kev) \/ kev_accept_fails(kev)
    BY <1>3 DEF kev_ignored, kev_accept_fails, continues, NoMsg
  <1>8. ASSUME NEW f \in Fds, NEW more \in BOOLEAN, kev_accept_lost(kev, f, more)
        PROVE  state[ret'.n] # "CLOSED"
    BY <1>8 DEF kev_accept_lost, continues, NoMsg
  <1>4. ASSUME NEW c \in Channs, NEW f \in Fds, NEW more \in BOOLEAN,
               kev_accept(kev, c, f, more)
        PROVE  state[ret'.n] # "CLOSED"
    BY <1>4 DEF kev_accept, returns, Healthy
  <1>5. CASE kev_recv(kev) \/ kev_connected(kev)
    BY <1>5 DEF kev_recv, kev_connected, returns, Healthy
  <1>6. CASE kev_flushed(kev)
    BY <1>6 DEF kev_flushed, returns, continues, NoMsg, Flushable, Healthy
  <1>7. ASSUME NEW left \in 1..MaxCached, kev_flush_blocks(kev, left)
        PROVE  state[ret'.n] # "CLOSED"
    BY <1>7 DEF kev_flush_blocks, continues, NoMsg
  <1> QED BY <1>2, <1>3, <1>4, <1>5, <1>6, <1>7, <1>8 DEF KevStep

\* An event that epoll_wait() collected is never reported for a chann that the
\* application closed before mnet_result_next() came to the event.
THEOREM SilentOnceClosed == Spec => ClosedStaysSilent
  <1>1. [Next]_vars =>
          [evt' # evt /\ ret'.n # Null => state[ret'.n] # "CLOSED"]_vars
    <2> SUFFICES ASSUME Next, evt' # evt, ret'.n # Null
                 PROVE  state[ret'.n] # "CLOSED"
      OBVIOUS
    <2>0. ~spin
      BY DEF spin, library, control
    <2>1. ~mnet_init /\ ~mnet_fini /\ ~Poll /\ ~Lost
      BY <2>0 DEF mnet_init, mnet_fini, Poll, mnet_poll, Lost, NoMsg, vars,
           library, control
    <2>2. ASSUME NEW n \in Channs, AppCall(n)
          PROVE  FALSE
      BY <2>0, <2>2 DEF AppCall, mnet_chann_open, mnet_chann_close,
           mnet_chann_disconnect, mnet_chann_listen, mnet_chann_connect,
           mnet_chann_connect_fails, mnet_dgram_send_cached, active_event_send,
           active_event_timer, mnet_chann_recv, mnet_chann_recv_fails,
           mnet_chann_send_cached, mnet_chann_send_fails, mnet_dgram_send_fails,
           library, control
    <2>3. ASSUME NEW f \in Fds, KernelStep(f)
          PROVE  FALSE
      BY <2>3 DEF KernelStep, ConnectDone, ConnectFail, PeerFin, PeerReset,
           SockStep, Arrive, library, control
    <2>4. \E kev \in evt : KevStep(kev)
      BY <2>1, <2>2, <2>3 DEF Next, NextStep, next_timer, next_disconnected,
           next_none
    <2> QED BY <2>4, KevSilent
  <1> QED BY <1>1, PTL DEF Spec, ClosedStaysSilent
-----------------------------------------------------------------------------
(* Descriptors.                                                            *)

\* No system call fails in the two places where the library drops the
\* descriptor it has just been given.
LosesNone == {"connect_fails", "nonblock_fails"} \cap Ops = {}

\* Every connect(2) that returned an error left an idle socket, so without
\* such failures a chann that is not connected holds none.
NoneIdle == \A f \in Fds : sock[f] # "idle"

\* A chann without a connection holds no descriptor that could be forgotten.
LEMMA HoldsNone ==
  ASSUME Inv, Running, NoneIdle, NEW n \in Channs, ~HasSocket(n)
  PROVE  fd[n] = Null
  BY DEF Inv, TypeOK, SocketOwner, NoneIdle, HasSocket, Kinds

\* Every open descriptor has a chann, and no descriptor is idle.
Kept == NoneIdle /\ NoFdLeak

\* Closing the socket of a chann keeps the others' descriptors.
LEMMA DropKeeps ==
  ASSUME Inv, Kept, NEW n \in Channs, NEW s, channs' = channs,
         chann_disconnect_socket(n, s)
  PROVE  Kept'
  <1>1. CASE HasSocket(n)
    <2>1. /\ fd[n] \in Fds
          /\ fd' = [fd EXCEPT ![n] = Null]
          /\ sock' = [sock EXCEPT ![fd[n]] = "free"]
      BY <1>1 DEF HasSocket, chann_disconnect_socket, close_fd, Inv, TypeOK
    <2> QED BY <2>1 DEF Kept, NoneIdle, NoFdLeak, Inv, TypeOK
  <1>2. CASE ~HasSocket(n)
    <2>1. UNCHANGED <<fd, sock>>
      BY <1>2 DEF chann_disconnect_socket, kernel
    <2> QED BY <2>1 DEF Kept, NoneIdle, NoFdLeak
  <1> QED BY <1>1, <1>2

\* Giving a chann without a socket a descriptor of some kind but idle.
LEMMA OpenKeeps ==
  ASSUME Inv, Running, Kept, NEW n \in Channs, ~HasSocket(n), NEW f \in Fds,
         NEW k, k # "idle", sock' = [sock EXCEPT ![f] = k],
         fd' = [fd EXCEPT ![n] = f], channs' = channs \cup {n}
  PROVE  Kept'
  <1>1. fd[n] = Null
    BY HoldsNone DEF Kept
  <1>2. fd'[n] = f /\ \A m \in Channs \ {n} : fd'[m] = fd[m]
    BY DEF Inv, TypeOK
  <1>3. sock'[f] = k /\ \A g \in Fds \ {f} : sock'[g] = sock[g]
    BY DEF Inv, TypeOK
  <1>4. NoFdLeak'
    BY <1>1, <1>2, <1>3, NullAssumption DEF Kept, NoFdLeak, Inv, TypeOK
  <1>5. NoneIdle'
    BY <1>3 DEF Kept, NoneIdle
  <1> QED BY <1>4, <1>5 DEF Kept

\* No step loses a descriptor.
LEMMA KeptStep ==
  ASSUME LosesNone, Inv, Kept, [Next]_vars
  PROVE  Kept'
  <1> channs \subseteq Channs
    BY DEF Inv, TypeOK
  <1>0. CASE UNCHANGED <<channs, fd, sock>>
    BY <1>0 DEF Kept, NoneIdle, NoFdLeak
  <1>1. CASE spin
    BY <1>0, <1>1 DEF spin, library, fields, kernel
  <1>2. CASE mnet_init \/ Lost \/ UNCHANGED vars
    BY <1>0, <1>2 DEF mnet_init, Lost, vars, library, fields, kernel
  <1>3. CASE mnet_fini /\ ~spin
    <2> DEFINE closed == {fd[n] : n \in {c \in channs : HasSocket(c)}}
    <2>1. sock' = [f \in Fds |-> IF f \in closed THEN "free" ELSE sock[f]]
      BY <1>3 DEF mnet_fini
    <2>2. \A f \in Fds : sock[f] # "free" => f \in closed
      <3> SUFFICES ASSUME NEW f \in Fds, sock[f] # "free"
                   PROVE  f \in closed
        OBVIOUS
      <3>1. PICK n \in channs : fd[n] = f
        BY DEF Kept, NoFdLeak
      <3>2. HasSocket(n)
        BY <1>3, <3>1, HoldsNone, NullAssumption
        DEF mnet_fini, InApp, Running, Kept
      <3> QED BY <3>1, <3>2
    <2>3. \A f \in Fds : sock'[f] = "free"
      BY <2>1, <2>2
    <2> QED BY <2>3 DEF Kept, NoneIdle, NoFdLeak
  <1>4. ASSUME NEW n \in Channs, AppCall(n)
        PROVE  Kept'
    <2>1. ASSUME NEW t \in Types, mnet_chann_open(n, t)
          PROVE  Kept'
      BY <2>1 DEF mnet_chann_open, kernel, Kept, NoneIdle, NoFdLeak
    <2>2. CASE mnet_chann_close(n) \/ mnet_chann_disconnect(n)
      BY <1>1, <2>2, DropKeeps DEF mnet_chann_close, mnet_chann_disconnect, library
    <2>3. ASSUME NEW f \in Fds, mnet_chann_listen(n, f)
          PROVE  Kept'
      <3> DEFINE k == IF ctype[n] = "STREAM" THEN "listen" ELSE "dgram"
      <3>1. /\ Running /\ ~HasSocket(n) /\ k # "idle"
            /\ sock' = [sock EXCEPT ![f] = k]
            /\ fd' = [fd EXCEPT ![n] = f] /\ channs' = channs \cup {n}
        BY <2>3 DEF mnet_chann_listen, open_socket, InApp, Running, HasSocket,
                    library
      <3> QED BY <3>1, OpenKeeps
    <2>4. ASSUME NEW f \in Fds, mnet_chann_connect(n, f)
          PROVE  Kept'
      <3> DEFINE k == IF ctype[n] = "STREAM" THEN "connecting" ELSE "dgram"
      <3>1. /\ Running /\ ~HasSocket(n) /\ k # "idle"
            /\ sock' = [sock EXCEPT ![f] = k]
            /\ fd' = [fd EXCEPT ![n] = f] /\ channs' = channs \cup {n}
        BY <2>4 DEF mnet_chann_connect, open_socket, InApp, Running, HasSocket,
                    library
      <3> QED BY <3>1, OpenKeeps
    <2>5. ASSUME NEW f \in Fds, mnet_dgram_send_cached(n, f)
          PROVE  Kept'
      <3>1. /\ Running /\ ~HasSocket(n)
            /\ sock' = [sock EXCEPT ![f] = "dgram"]
            /\ fd' = [fd EXCEPT ![n] = f] /\ channs' = channs \cup {n}
        BY <2>5 DEF mnet_dgram_send_cached, InApp, Running, HasSocket, library
      <3> QED BY <3>1, OpenKeeps
    <2>6. ASSUME NEW f \in Fds, mnet_chann_connect_fails(n, f)
          PROVE  FALSE
      BY <2>6 DEF mnet_chann_connect_fails, LosesNone
    <2>7. ASSUME NEW v \in BOOLEAN,
                 \/ active_event_send(n, v) \/ active_event_timer(n, v)
                 \/ mnet_chann_recv(n, v)
          PROVE  Kept'
      BY <1>0, <2>7 DEF active_event_send, active_event_timer, mnet_chann_recv,
           library, fields, kernel
    <2>8. CASE mnet_chann_send_cached(n)
      BY <1>0, <2>8 DEF mnet_chann_send_cached, library
    <2>9. CASE \/ mnet_chann_recv_fails(n) \/ mnet_chann_send_fails(n)
               \/ mnet_dgram_send_fails(n)
      BY <1>1, <2>9, DropKeeps DEF mnet_chann_recv_fails, mnet_chann_send_fails,
           mnet_dgram_send_fails, fail_and_queue
    <2> QED BY <1>4, <2>1, <2>2, <2>3, <2>4, <2>5, <2>6, <2>7, <2>8, <2>9
            DEF AppCall
  <1>5. CASE Poll
    <2>1. /\ Running /\ channs' = channs \ del_channs /\ sock' = sock
          /\ fd' = [n \in Channs |-> IF n \in del_channs THEN Null ELSE fd[n]]
      BY <1>5 DEF Poll, mnet_poll, InApp, Running, zeroed, kernel
    <2>2. \A n \in del_channs : n \in Channs /\ ~HasSocket(n)
      BY <2>1 DEF Inv, NoStalePointer, HasSocket
    <2>3. \A n \in del_channs : fd[n] = Null
      BY <2>1, <2>2, HoldsNone DEF Kept
    <2> QED BY <2>1, <2>3, NullAssumption DEF Kept, NoneIdle, NoFdLeak
  <1>6. ASSUME NEW kev \in evt, KevStep(kev)
        PROVE  Kept'
    <2>1. ASSUME NEW c \in Channs, NEW f \in Fds, NEW more \in BOOLEAN,
                 kev_accept(kev, c, f, more)
          PROVE  Kept'
      <3>1. /\ Running /\ c \notin channs
            /\ sock' = [sock EXCEPT ![f] = "est"]
            /\ fd' = [fd EXCEPT ![c] = f] /\ channs' = channs \cup {c}
        BY <2>1 DEF kev_accept, Healthy, at, InNext, Running
      <3>2. ~HasSocket(c)
        BY <3>1 DEF Inv, NoStalePointer, HasSocket
      <3> QED BY <3>1, <3>2, OpenKeeps
    <2>2. CASE kev_error(kev) \/ kev_connect_fails(kev) \/ kev_flush_fails(kev)
      <3>1. CASE ~spin
        <4>1. /\ chann_disconnect_socket(kev.ptr, Disconnected(kev.ptr))
              /\ channs' = channs /\ kev.ptr \in Channs
          BY <2>2, <3>1 DEF kev_error, kev_connect_fails, kev_flush_fails,
               drop_and_report, Healthy, at, InNext, Inv, NoStalePointer, Running
        <4> QED BY <4>1, DropKeeps
      <3> QED BY <1>1, <3>1
    <2>3. CASE kev_ignored(kev) \/ kev_accept_fails(kev) \/ kev_recv(kev)
      BY <1>0, <2>3 DEF kev_ignored, kev_accept_fails, kev_recv, fields, kernel
    <2>4. CASE \/ kev_connected(kev) \/ kev_flushed(kev)
               \/ \E left \in 1..MaxCached : kev_flush_blocks(kev, left)
      BY <1>0, <2>4 DEF kev_connected, kev_flushed, kev_flush_blocks, kernel
    <2>5. ASSUME NEW f \in Fds, NEW more \in BOOLEAN, kev_accept_lost(kev, f, more)
          PROVE  FALSE
      BY <2>5 DEF kev_accept_lost, LosesNone
    <2> QED BY <1>6, <2>1, <2>2, <2>3, <2>4, <2>5 DEF KevStep
  <1>7. CASE NextStep
    BY <1>0, <1>6, <1>7 DEF NextStep, next_timer, next_disconnected, next_none,
         fields, kernel
  <1>8. ASSUME NEW f \in Fds, KernelStep(f)
        PROVE  Kept'
    <2>1. /\ UNCHANGED <<channs, fd>>
          /\ \/ sock' = sock
             \/ \E to \in {"est", "refused", "eof", "reset"} :
                  sock[f] # "free" /\ sock' = [sock EXCEPT ![f] = to]
      BY <1>8 DEF KernelStep, ConnectDone, ConnectFail, PeerFin, PeerReset,
           SockStep, Arrive, library, fields
    <2> QED BY <2>1 DEF Kept, NoneIdle, NoFdLeak, Inv, TypeOK
  <1> QED BY <1>1, <1>2, <1>3, <1>4, <1>5, <1>7, <1>8 DEF Next

\* As long as connect(2) does not fail at once and every accepted descriptor
\* is made non-blocking, every open descriptor belongs to a chann of the
\* library, which closes it when the chann is disconnected, closed or
\* destroyed: none leaks, however often channs come and go.
THEOREM LeaksNoFd ==
  ASSUME LosesNone
  PROVE  Spec => []NoFdLeak
  <1>1. Init => Kept
    BY DEF Init, Kept, NoneIdle, NoFdLeak
  <1>2. Inv /\ Kept /\ [Next]_vars => Kept'
    BY KeptStep
  <1>3. Kept => NoFdLeak
    BY DEF Kept
  <1> QED BY <1>1, <1>2, <1>3, Inductive, PTL DEF Spec
-----------------------------------------------------------------------------
(* The send event.                                                         *)

\* An application that serves and never connects: every connection it has was
\* accepted, on a new chann.
NeverConnects == {"connect", "dgram_send"} \cap Ops = {}

\* What n asks for of EPOLLOUT is watched; n is not connecting, and an address
\* that no chann_t is allocated at asks for nothing.
Armed(n) ==
  /\ state[n] = "CONNECTED" /\ active_send_event[n] => "OUT" \in epoll_events[n]
  /\ state[n] # "CONNECTING"
  /\ active_send_event[n] => n \in channs

\* A chann that keeps its state and its events, or is disconnected, and that
\* is not freed, stays armed.
LEMMA StaysArmed ==
  ASSUME NEW n, Armed(n), active_send_event'[n] = active_send_event[n],
         channs \subseteq channs',
         \/ /\ state'[n] = state[n]
            /\ "OUT" \in epoll_events[n] => "OUT" \in epoll_events'[n]
         \/ state'[n] \notin {"CONNECTED", "CONNECTING"}
  PROVE  Armed(n)'
  BY DEF Armed

\* Dropping a socket leaves every chann armed.
LEMMA DropArmed ==
  ASSUME TypeOK, \A m \in Channs : Armed(m), NEW n \in Channs,
         NEW s \in {"CLOSED", "DISCONNECT"}, channs' = channs,
         chann_disconnect_socket(n, s)
  PROVE  \A m \in Channs : Armed(m)'
  <1>1. /\ state' = [state EXCEPT ![n] = s]
        /\ active_send_event' = active_send_event
        /\ \/ epoll_events' = [epoll_events EXCEPT ![n] = {}]
           \/ epoll_events' = epoll_events
    BY DEF chann_disconnect_socket
  <1> QED BY <1>1 DEF Armed, TypeOK

\* epoll_ctl() on one chann leaves the others' events alone.
LEMMA CtlOthers ==
  ASSUME TypeOK, NEW n \in Channs, NEW f, NEW events, epoll_ctl(n, f, events)
  PROVE  /\ \A m \in Channs \ {n} : epoll_events'[m] = epoll_events[m]
         /\ epoll_events'[n] \in {events, epoll_events[n]}
  BY DEF epoll_ctl, TypeOK

\* Every step leaves every chann armed.
LEMMA ArmedStep ==
  ASSUME NeverConnects, Inv, Running, Running', [Next]_vars,
         \A m \in Channs : Armed(m)
  PROVE  \A m \in Channs : Armed(m)'
  <1> channs \subseteq Channs /\ TypeOK
    BY DEF Inv, TypeOK
  <1>0. ~spin
    BY DEF spin, Running
  <1>1. CASE UNCHANGED <<channs, state, epoll_events, active_send_event>>
    BY <1>1 DEF Armed
  <1>2. CASE mnet_init \/ Lost \/ UNCHANGED vars
    BY <1>1, <1>2 DEF mnet_init, Lost, vars, library, fields
  <1>3. CASE mnet_fini
    BY <1>0, <1>3 DEF mnet_fini, zeroed, Armed
  <1>4. ASSUME NEW n \in Channs, AppCall(n)
        PROVE  \A m \in Channs : Armed(m)'
    <2>1. ASSUME NEW t \in Types, mnet_chann_open(n, t)
          PROVE  \A m \in Channs : Armed(m)'
      BY <2>1 DEF mnet_chann_open, Armed, TypeOK
    <2>2. CASE mnet_chann_close(n)
      BY <1>0, <2>2, DropArmed DEF mnet_chann_close
    <2>3. CASE mnet_chann_disconnect(n)
      BY <1>0, <2>3, DropArmed DEF mnet_chann_disconnect, library
    <2>4. ASSUME NEW f \in Fds, mnet_chann_listen(n, f)
          PROVE  \A m \in Channs : Armed(m)'
      <3>1. /\ state' = [state EXCEPT ![n] = "LISTENING"]
            /\ evt_add(n, f, "IN") /\ UNCHANGED <<channs, active_send_event>>
        BY <2>4 DEF mnet_chann_listen, open_socket, library
      <3>2. \A m \in Channs \ {n} : epoll_events'[m] = epoll_events[m]
        BY <3>1, CtlOthers DEF evt_add
      <3> QED BY <3>1, <3>2 DEF Armed, TypeOK
    <2>5. ASSUME NEW f \in Fds,
                 mnet_chann_connect(n, f) \/ mnet_dgram_send_cached(n, f)
          PROVE  FALSE
      BY <2>5 DEF mnet_chann_connect, mnet_dgram_send_cached, NeverConnects
    <2>6. ASSUME NEW f \in Fds, mnet_chann_connect_fails(n, f)
          PROVE  \A m \in Channs : Armed(m)'
      BY <1>1, <2>6 DEF mnet_chann_connect_fails, library
    <2>7. ASSUME NEW v \in BOOLEAN, active_event_send(n, v)
          PROVE  \A m \in Channs : Armed(m)'
      <3>1. /\ n \in channs /\ state[n] = "CONNECTED"
            /\ active_send_event' = [active_send_event EXCEPT ![n] = v]
            /\ UNCHANGED <<channs, state>>
        BY <2>7 DEF active_event_send, library
      <3>2. \A m \in Channs \ {n} : epoll_events'[m] = epoll_events[m]
        BY <2>7, CtlOthers DEF active_event_send, evt_add, evt_del
      <3>3. CASE v
        <4>1. HasSocket(n)
          BY <3>1 DEF Inv, SocketOwner, HasSocket
        <4>2. epoll_ctl(n, fd[n], epoll_events[n] \cup {"OUT", "HUP"})
          BY <2>7, <3>3 DEF active_event_send, evt_add
        <4>3. epoll_events' =
                [epoll_events EXCEPT ![n] = epoll_events[n] \cup {"OUT", "HUP"}]
          BY <3>1, <4>1, <4>2, CtlTaken
        <4>4. "OUT" \in epoll_events'[n]
          BY <4>3 DEF TypeOK
        <4> QED BY <3>1, <3>2, <4>4 DEF Armed, TypeOK
      <3>4. CASE ~v
        BY <3>1, <3>2, <3>4 DEF Armed, TypeOK
      <3> QED BY <3>3, <3>4
    <2>8. ASSUME NEW v \in BOOLEAN,
                 active_event_timer(n, v) \/ mnet_chann_recv(n, v)
          PROVE  \A m \in Channs : Armed(m)'
      BY <1>1, <2>8 DEF active_event_timer, mnet_chann_recv, library, fields
    <2>9. CASE mnet_chann_send_cached(n)
      <3>1. UNCHANGED <<channs, state, active_send_event>>
        BY <2>9 DEF mnet_chann_send_cached, library
      <3>2. \/ UNCHANGED epoll_events
            \/ epoll_ctl(n, fd[n], epoll_events[n] \cup {"OUT", "HUP"})
        BY <2>9 DEF mnet_chann_send_cached, evt_add
      <3>3. \A m \in Channs :
              "OUT" \in epoll_events[m] => "OUT" \in epoll_events'[m]
        BY <3>2, CtlOthers
      <3> QED BY <3>1, <3>3, StaysArmed
    <2>10. CASE mnet_chann_recv_fails(n) \/ mnet_chann_send_fails(n)
      <3>1. /\ chann_disconnect_socket(n, Disconnected(n))
            /\ UNCHANGED channs /\ Usable(n)
        BY <1>0, <2>10 DEF mnet_chann_recv_fails, mnet_chann_send_fails,
             fail_and_queue
      <3>2. Disconnected(n) = "DISCONNECT"
        BY <3>1 DEF Disconnected, HasSocket, Usable, Inv, SocketOwner
      <3> QED BY <3>1, <3>2, DropArmed
    <2>11. ~mnet_dgram_send_fails(n)
      BY DEF mnet_dgram_send_fails, NeverConnects
    <2> QED BY <1>4, <2>1, <2>2, <2>3, <2>4, <2>5, <2>6, <2>7, <2>8, <2>9,
               <2>10, <2>11 DEF AppCall
  <1>5. CASE Poll
    <2>1. /\ channs' = channs \ del_channs /\ zeroed(del_channs)
      BY <1>5 DEF Poll, mnet_poll
    <2> QED BY <2>1 DEF zeroed, Armed
  <1>6. ASSUME NEW kev \in evt, KevStep(kev)
        PROVE  \A m \in Channs : Armed(m)'
    <2>0. kev.ptr \in Channs
      BY DEF Inv, NoStalePointer
    <2>1. ASSUME NEW c \in Channs, NEW f \in Fds, NEW more \in BOOLEAN,
                 kev_accept(kev, c, f, more)
          PROVE  \A m \in Channs : Armed(m)'
      <3>1. /\ c \notin channs /\ channs' = channs \cup {c}
            /\ state' = [state EXCEPT ![c] = "CONNECTED"]
            /\ evt_add(c, f, "IN") /\ UNCHANGED active_send_event
        BY <2>1 DEF kev_accept
      <3>2. \A m \in Channs \ {c} : epoll_events'[m] = epoll_events[m]
        BY <3>1, CtlOthers DEF evt_add
      <3> QED BY <3>1, <3>2 DEF Armed, TypeOK
    <2>2. CASE kev_error(kev) \/ kev_connect_fails(kev) \/ kev_flush_fails(kev)
      <3>1. /\ chann_disconnect_socket(kev.ptr, Disconnected(kev.ptr))
            /\ channs' = channs /\ ~Skipped(kev.ptr)
        BY <1>0, <2>2 DEF kev_error, kev_connect_fails, kev_flush_fails,
             drop_and_report, Healthy
      <3>2. Disconnected(kev.ptr) = "DISCONNECT"
        BY <2>0, <3>1 DEF Disconnected, HasSocket, Skipped, TypeOK, States
      <3> QED BY <2>0, <3>1, <3>2, DropArmed
    <2>3. CASE kev_ignored(kev) \/ kev_accept_fails(kev) \/ kev_recv(kev)
      BY <1>1, <2>3 DEF kev_ignored, kev_accept_fails, kev_recv, fields
    <2>4. ~kev_connected(kev)
      BY <2>0 DEF kev_connected, Healthy, Armed
    <2>5. CASE kev_flushed(kev)
      <3>1. UNCHANGED <<channs, state, active_send_event>>
        BY <2>5 DEF kev_flushed
      <3>2. CASE active_send_event[kev.ptr]
        BY <1>1, <2>5, <3>1, <3>2 DEF kev_flushed
      <3>3. CASE ~active_send_event[kev.ptr]
        <4>1. \A m \in Channs \ {kev.ptr} : epoll_events'[m] = epoll_events[m]
          BY <2>0, <2>5, <3>3, CtlOthers DEF kev_flushed, evt_del
        <4> QED BY <2>0, <3>1, <3>3, <4>1 DEF Armed
      <3> QED BY <3>2, <3>3
    <2>6. ASSUME NEW left \in 1..MaxCached, kev_flush_blocks(kev, left)
          PROVE  \A m \in Channs : Armed(m)'
      BY <1>1, <2>6 DEF kev_flush_blocks
    <2>7. ASSUME NEW f \in Fds, NEW more \in BOOLEAN, kev_accept_lost(kev, f, more)
          PROVE  \A m \in Channs : Armed(m)'
      BY <1>1, <2>7 DEF kev_accept_lost, fields
    <2> QED BY <1>6, <2>1, <2>2, <2>3, <2>4, <2>5, <2>6, <2>7 DEF KevStep
  <1>7. CASE NextStep
    BY <1>1, <1>6, <1>7 DEF NextStep, next_timer, next_disconnected, next_none,
         fields
  <1>8. ASSUME NEW f \in Fds, KernelStep(f)
        PROVE  \A m \in Channs : Armed(m)'
    BY <1>1, <1>8 DEF KernelStep, ConnectDone, ConnectFail, PeerFin, PeerReset,
         SockStep, Arrive, library, fields
  <1> QED BY <1>2, <1>3, <1>4, <1>5, <1>7, <1>8 DEF Next

\* In a server that accepts its connections, a connected chann that asked for
\* CHANN_EVENT_SEND watches EPOLLOUT whatever was sent, cached and flushed in
\* between, so the event comes.
THEOREM SendEventComes ==
  ASSUME NeverConnects
  PROVE  Spec => []SendEventArmed
  <1> DEFINE AllArmed == Running => \A n \in Channs : Armed(n)
  <1>1. Init => AllArmed
    BY DEF Init, Armed
  <1>2. Inv /\ AllArmed /\ [Next]_vars => AllArmed'
    <2> SUFFICES ASSUME Inv, AllArmed, [Next]_vars, Running'
                 PROVE  \A n \in Channs : Armed(n)'
      OBVIOUS
    <2>1. Running
      BY LostStays DEF Running, vars
    <2> QED BY <2>1, ArmedStep
  <1>3. AllArmed => SendEventArmed
    BY DEF SendEventArmed, Armed
  <1> HIDE DEF AllArmed
  <1> QED BY <1>1, <1>2, <1>3, Inductive, PTL DEF Spec
=============================================================================
