--------------------------- MODULE MnetCoreProofs ---------------------------
(***************************************************************************)
(* The safety invariants of MnetCore, proved for every set of channs and   *)
(* descriptors, every set of API calls and every bound.                    *)
(***************************************************************************)
EXTENDS MnetCore, TLAPS

\* The four invariants are inductive together and not apart: a recycled
\* descriptor is unregistered only because every registration is its owner's,
\* and a freed chann has no socket only because the delete list holds closed
\* channs alone.
Inv == TypeOK /\ SocketOwner /\ Registered /\ NoStalePointer

\* A descriptor the kernel is free to hand out is nobody's and unregistered.
LEMMA FreeFd ==
  ASSUME Inv, Running, NEW f \in FreeFds
  PROVE  f \in Fds /\ kq[f].events = {} /\ \A n \in Channs : fd[n] # f
  <1>1. f \in Fds /\ sock[f] = "free"
    BY DEF FreeFds
  <1>2. \A n \in Channs : fd[n] # f
    BY <1>1, NullAssumption DEF Inv, SocketOwner, Kinds
  <1>3. kq[f].events = {}
    BY <1>1, <1>2, NullAssumption DEF Inv, TypeOK, Registered, NoStalePointer
  <1> QED BY <1>1, <1>2, <1>3

\* Nothing is claimed of a lost process.
LEMMA LostStep ==
  ASSUME TypeOK', fault' # "none"
  PROVE  Inv'
  BY DEF Inv, SocketOwner, Registered, NoStalePointer, Running

\* Steps that touch neither the channs nor the kernel.
LEMMA QuietStep ==
  ASSUME Inv, Running, UNCHANGED <<channs, fields, kernel, fault>>
  PROVE  SocketOwner' /\ Registered'
  BY DEF Inv, SocketOwner, Registered, Running, Kinds, HasSocket, Needed,
         fields, kernel

\* Closing n's socket, if it has one, and moving n to state s.
LEMMA DisconnectStep ==
  ASSUME Inv, Running, NEW n \in channs, ~Spins(n),
         NEW s \in {"CLOSED", "DISCONNECT"},
         s = "DISCONNECT" => state[n] # "CLOSED",
         chann_disconnect_socket(n, s), UNCHANGED <<channs, fault>>
  PROVE  /\ SocketOwner' /\ Registered'
         /\ state' \in [Channs -> States] /\ fd' \in [Channs -> Fds \cup {Null}]
         /\ epoll_events' \in [Channs -> SUBSET Flags]
         /\ sock' \in [Fds -> Socks] /\ rx' \in [Fds -> BOOLEAN]
         /\ kq' \in [Fds -> Registration]
  <1> n \in Channs
    BY DEF Inv, TypeOK
  <1> USE NullAssumption
  <1>1. CASE HasSocket(n)
    <2>1. fd[n] \in Fds /\ rwb_send[n] = 0
      BY <1>1 DEF HasSocket, Spins, Inv, TypeOK
    <2>2. /\ state' = [state EXCEPT ![n] = s]
          /\ fd' = [fd EXCEPT ![n] = Null]
          /\ epoll_events' = [epoll_events EXCEPT ![n] = {}]
          /\ sock' = [sock EXCEPT ![fd[n]] = "free"]
          /\ rx' = [rx EXCEPT ![fd[n]] = FALSE]
          /\ kq' = [kq EXCEPT ![fd[n]] = Unregistered]
          /\ UNCHANGED <<ctype, rwb_send, channs, fault>>
      BY <1>1 DEF chann_disconnect_socket, close_fd
    <2>3. /\ state' \in [Channs -> States]
          /\ fd' \in [Channs -> Fds \cup {Null}]
          /\ epoll_events' \in [Channs -> SUBSET Flags]
          /\ sock' \in [Fds -> Socks] /\ rx' \in [Fds -> BOOLEAN]
          /\ kq' \in [Fds -> Registration]
      BY <2>1, <2>2 DEF Inv, TypeOK, States, Socks, Registration, Unregistered
    <2>4. SocketOwner'
      BY <2>1, <2>2 DEF Inv, TypeOK, SocketOwner, Running, Kinds
    <2>5. Registered'
      BY <2>1, <2>2 DEF Inv, TypeOK, SocketOwner, Registered, Running,
                        HasSocket, Needed, Unregistered
    <2> QED BY <2>3, <2>4, <2>5
  <1>2. CASE ~HasSocket(n)
    <2>1. /\ state' = [state EXCEPT ![n] = s]
          /\ UNCHANGED <<fd, epoll_events, sock, rx, kq, ctype, rwb_send,
                         channs, fault>>
      BY <1>2 DEF chann_disconnect_socket, kernel
    <2>2. state[n] \in {"CLOSED", "DISCONNECT"} /\ rwb_send[n] = 0
      BY <1>2 DEF HasSocket, Inv, TypeOK, SocketOwner, Registered, Running
    <2>3. state' \in [Channs -> States]
      BY <2>1 DEF Inv, TypeOK, States
    <2>4. SocketOwner'
      BY <2>1, <2>2 DEF Inv, TypeOK, SocketOwner, Running, Kinds
    <2>5. Registered'
      BY <1>2, <2>1, <2>2 DEF Inv, TypeOK, Registered, Running, HasSocket,
                              Needed
    <2> QED BY <2>1, <2>3, <2>4, <2>5 DEF Inv, TypeOK
  <1> QED BY <1>1, <1>2

\* Giving n, which has no socket, the free descriptor f, of a kind that suits
\* n's new state, registered for what that state needs.
LEMMA OpenStep ==
  ASSUME Inv, Running, NEW n \in Channs, ~HasSocket(n), NEW f \in FreeFds,
         \A m \in Channs \ {n} :
           /\ ctype'[m] = ctype[m] /\ state'[m] = state[m]
           /\ fd'[m] = fd[m] /\ epoll_events'[m] = epoll_events[m]
           /\ rwb_send'[m] = rwb_send[m],
         \A g \in Fds \ {f} : sock'[g] = sock[g] /\ kq'[g] = kq[g],
         HasSocket(n)', fd'[n] = f, sock'[f] \in Kinds(n)',
         kq'[f] = [ptr |-> n, events |-> epoll_events'[n]],
         Needed(n)' \subseteq epoll_events'[n],
         rwb_send'[n] > 0 => state'[n] \in {"CONNECTED", "LISTENING"},
         channs' = channs \cup {n}, fault' = fault
  PROVE  SocketOwner' /\ Registered'
  <1> USE NullAssumption, BoundAssumption
  <1>1. f \in Fds /\ kq[f].events = {} /\ \A m \in Channs : fd[m] # f
    BY FreeFd
  <1>3. SocketOwner'
    BY <1>1 DEF Inv, TypeOK, SocketOwner, Running, Kinds, HasSocket
  <1>4. Registered'
    <2>2. \A m \in Channs \ {n} : /\ HasSocket(m)' = HasSocket(m)
                                  /\ Needed(m)' = Needed(m)
                                  /\ fd'[m] = fd[m] /\ fd[m] # f
                                  /\ epoll_events'[m] = epoll_events[m]
      BY <1>1 DEF Inv, TypeOK, HasSocket, Needed
    <2>4. \A m \in Channs : HasSocket(m)' =>
            /\ kq'[fd'[m]] = [ptr |-> m, events |-> epoll_events'[m]]
            /\ Needed(m)' \subseteq epoll_events'[m]
      BY <2>2 DEF Inv, TypeOK, Registered, HasSocket
    <2>5. \A m \in Channs : ~HasSocket(m)' => epoll_events'[m] = {}
      BY <2>2 DEF Inv, Registered
    <2>6. (\A g \in Fds : kq[g].events # {} =>
             kq[g].ptr \in channs /\ HasSocket(kq[g].ptr) /\ fd[kq[g].ptr] = g)'
      <3> SUFFICES ASSUME NEW g \in Fds, kq'[g].events # {}
                   PROVE  /\ kq'[g].ptr \in channs'
                          /\ HasSocket(kq[g].ptr)' /\ fd'[kq'[g].ptr] = g
        OBVIOUS
      <3>1. CASE g = f
        BY <3>1 DEF HasSocket
      <3>2. CASE g # f
        BY <3>2, <2>2 DEF HasSocket, Inv, TypeOK, Registered
      <3> QED BY <3>1, <3>2
    <2>7. \A m \in Channs : rwb_send'[m] > 0
            => state'[m] \in {"CONNECTED", "LISTENING"}
      BY DEF Inv, TypeOK, Registered
    <2> QED BY <2>4, <2>5, <2>6, <2>7 DEF Registered
  <1> QED BY <1>3, <1>4

\* open_socket() on a disconnected chann.
LEMMA OpenSocketInv ==
  ASSUME Inv, Running, NEW n \in channs, state[n] = "DISCONNECT",
         NEW f \in FreeFds, NEW k \in Socks,
         NEW s \in {"CONNECTING", "CONNECTED", "LISTENING"},
         ctype[n] = "DGRAM" => k = "dgram",
         ctype[n] = "STREAM" /\ s = "LISTENING" => k = "listen",
         ctype[n] = "STREAM" /\ s # "LISTENING" => k \in {"connecting", "est"},
         NEW flag, flag = IF s = "CONNECTING" THEN "OUT" ELSE "IN",
         open_socket(n, f, k, s, flag), UNCHANGED <<library, fault>>
  PROVE  Inv'
  <1> USE NullAssumption
  <1>1. /\ n \in Channs /\ ~HasSocket(n) /\ ctype[n] \in {"STREAM", "DGRAM"}
        /\ epoll_events[n] = {} /\ rwb_send[n] = 0 /\ kq[f].events = {} /\ f \in Fds
    BY FreeFd DEF Inv, TypeOK, Registered, HasSocket, Running
  <1>2. /\ sock' = [sock EXCEPT ![f] = k]
        /\ fd' = [fd EXCEPT ![n] = f]
        /\ state' = [state EXCEPT ![n] = s]
        /\ kq' = [kq EXCEPT ![f] = [ptr |-> n, events |-> {flag, "HUP"}]]
        /\ epoll_events' = [epoll_events EXCEPT ![n] = {flag, "HUP"}]
        /\ UNCHANGED <<rx, ctype, active_send_event, rwb_send>>
    BY <1>1 DEF open_socket, evt_add, epoll_ctl
  <1>3. TypeOK'
    BY <1>1, <1>2 DEF Inv, TypeOK, States, Registration, Flags, library,
                      dislist, timers, control
  <1>4. /\ HasSocket(n)' /\ sock'[f] \in Kinds(n)'
        /\ Needed(n)' \subseteq epoll_events'[n]
    BY <1>1, <1>2 DEF Inv, TypeOK, HasSocket, Kinds, Needed
  <1>5. SocketOwner' /\ Registered'
    BY <1>1, <1>2, <1>4, OpenStep DEF Inv, TypeOK, library
  <1>7. NoStalePointer'
    BY <1>1, <1>2 DEF Inv, TypeOK, NoStalePointer, Running, library, control,
                      timers
  <1> QED BY <1>3, <1>5, <1>7 DEF Inv

\* Changing the events of a chann that keeps its socket, its state except from
\* CONNECTING to CONNECTED, and the number of its cached blocks.
LEMMA InterestStep ==
  ASSUME Inv, Running, NEW n \in channs, HasSocket(n),
         \A m \in Channs \ {n} :
           /\ state'[m] = state[m] /\ epoll_events'[m] = epoll_events[m]
           /\ rwb_send'[m] = rwb_send[m],
         \A g \in Fds \ {fd[n]} : kq'[g] = kq[g],
         kq'[fd[n]] = [ptr |-> n, events |-> epoll_events'[n]],
         \/ state'[n] = state[n]
         \/ state[n] = "CONNECTING" /\ state'[n] = "CONNECTED",
         Needed(n)' \subseteq epoll_events'[n],
         rwb_send'[n] > 0 => state'[n] \in {"CONNECTED", "LISTENING"},
         UNCHANGED <<channs, fd, ctype, sock, fault>>
  PROVE  SocketOwner' /\ Registered'
  <1> n \in Channs /\ fd[n] \in Fds
    BY NullAssumption DEF Inv, TypeOK, HasSocket
  <1> USE NullAssumption
  <1>1. SocketOwner'
    BY DEF Inv, TypeOK, SocketOwner, Running, Kinds, HasSocket
  <1>2. Registered'
    BY DEF Inv, TypeOK, SocketOwner, Registered, Running, HasSocket, Needed
  <1> QED BY <1>1, <1>2

\* epoll_ctl() on the socket of a chann always goes through.
LEMMA CtlTaken ==
  ASSUME Inv, Running, NEW n \in channs, HasSocket(n), NEW events,
         epoll_ctl(n, fd[n], events)
  PROVE  /\ kq' = [kq EXCEPT ![fd[n]] = [ptr |-> n, events |-> events]]
         /\ epoll_events' = [epoll_events EXCEPT ![n] = events]
  <1>1. n \in Channs
    BY DEF Inv, TypeOK
  <1>2. kq[fd[n]] = [ptr |-> n, events |-> epoll_events[n]]
    BY <1>1 DEF Inv, Registered
  <1>3. kq[fd[n]].events = epoll_events[n]
    BY <1>2
  <1> QED BY <1>3 DEF epoll_ctl

\* A process stuck in _rwb_destroy() changes only `fault`.
LEMMA SpinInv ==
  ASSUME Inv, spin
  PROVE  Inv'
  <1>1. TypeOK'
    BY DEF spin, Inv, TypeOK, library, fields, kernel, dislist, timers, control
  <1> QED BY <1>1, LostStep DEF spin
-----------------------------------------------------------------------------
(* The API calls.                                                          *)

\* mnet_init() starts with empty lists and no registration.
LEMMA InitCallInv ==
  ASSUME Inv, mnet_init
  PROVE  Inv'
  <1>1. TypeOK'
    BY DEF mnet_init, Inv, TypeOK, fields, kernel, dislist, timers, control
  <1>2. SocketOwner' /\ Registered'
    BY QuietStep DEF mnet_init, Running
  <1>3. NoStalePointer'
    BY DEF mnet_init, Inv, NoStalePointer, Running, fields, timers, control
  <1> QED BY <1>1, <1>2, <1>3 DEF Inv

\* mnet_fini() closes every socket and frees every chann.
LEMMA FiniInv ==
  ASSUME Inv, mnet_fini
  PROVE  Inv'
  <1>1. CASE \E n \in channs : Spins(n)
    BY <1>1, SpinInv DEF mnet_fini
  <1>2. CASE ~ \E n \in channs : Spins(n)
    <2>0. /\ zeroed(Channs) /\ kq' = [f \in Fds |-> Unregistered]
          /\ init' = FALSE /\ channs' = {} /\ del_channs' = {}
          /\ dis_channs' = Null /\ tm_clock' = {} /\ tm_due' = {}
          /\ evt' = {} /\ ret' = NoMsg /\ pc' = pc /\ fault' = fault
      BY <1>2 DEF mnet_fini
    <2>1. /\ \A n \in Channs : /\ ctype'[n] = "STREAM" /\ state'[n] = "CLOSED"
                               /\ fd'[n] = Null /\ epoll_events'[n] = {}
                               /\ rwb_send'[n] = 0
          /\ \A f \in Fds : kq'[f] = Unregistered
      BY <2>0 DEF zeroed
    <2>2. TypeOK'
      <3>1. rx' \in [Fds -> BOOLEAN]
        BY <1>2, Zenon DEF mnet_fini
      <3>2. /\ init' \in BOOLEAN /\ dis_channs' \in Channs \cup {Null}
            /\ tm_due' \subseteq tm_clock' /\ evt' \subseteq Registration
            /\ ret' \in [n: Channs \cup {Null}, event: Events \cup {"none"}]
        BY <2>0 DEF NoMsg
      <3>4. sock' \in [Fds -> Socks]
        BY <1>2 DEF mnet_fini, Inv, TypeOK, Socks
      <3>5. kq' \in [Fds -> Registration]
        BY <2>0 DEF Registration, Unregistered
      <3>3. /\ ctype' \in [Channs -> {"STREAM", "DGRAM"}]
            /\ state' \in [Channs -> States]
            /\ fd' \in [Channs -> Fds \cup {Null}]
            /\ epoll_events' \in [Channs -> SUBSET Flags]
            /\ active_send_event' \in [Channs -> BOOLEAN]
            /\ rwb_send' \in [Channs -> 0..MaxCached]
            /\ dis_next' \in [Channs -> Channs \cup {Null}]
            /\ msg' \in [Channs -> Events \cup {"none"}]
        BY <2>0, BoundAssumption DEF zeroed, States
      <3> QED BY <2>0, <3>1, <3>2, <3>3, <3>4, <3>5 DEF Inv, TypeOK
    <2>3. SocketOwner'
      BY <2>0, <2>1 DEF SocketOwner, Kinds
    <2>4. Registered'
      BY <2>1 DEF Registered, HasSocket, Unregistered
    <2>5. NoStalePointer'
      BY <2>0, <2>1 DEF NoStalePointer
    <2> QED BY <2>2, <2>3, <2>4, <2>5 DEF Inv
  <1> QED BY <1>1, <1>2

\* mnet_chann_open() takes an address no list points to.
LEMMA OpenInv ==
  ASSUME Inv, NEW n \in Channs, NEW t \in Types, mnet_chann_open(n, t)
  PROVE  Inv'
  <1> USE NullAssumption, TypesAssumption DEF mnet_chann_open, InApp
  <1>1. TypeOK'
    BY DEF Inv, TypeOK, States, kernel, dislist, timers, control
  <1>2. fd[n] = Null
    BY DEF Inv, SocketOwner, Running
  <1>3. SocketOwner'
    BY <1>2 DEF Inv, TypeOK, SocketOwner, Running, Kinds, kernel
  <1>4. Registered'
    BY <1>2 DEF Inv, TypeOK, SocketOwner, Registered, Running, HasSocket,
                Needed, kernel
  <1>5. NoStalePointer'
    BY DEF Inv, TypeOK, NoStalePointer, Running, timers, control
  <1> QED BY <1>1, <1>3, <1>4, <1>5 DEF Inv

\* mnet_chann_close() gives the socket up and puts the chann on the delete list.
LEMMA CloseInv ==
  ASSUME Inv, NEW n \in Channs, mnet_chann_close(n)
  PROVE  Inv'
  <1>1. CASE Spins(n)
    BY <1>1, SpinInv DEF mnet_chann_close
  <1>2. CASE ~Spins(n)
    <2>1. /\ Running /\ n \in channs /\ state[n] # "CLOSED"
          /\ chann_disconnect_socket(n, "CLOSED")
          /\ del_channs' = del_channs \cup {n}
          /\ UNCHANGED <<init, channs, dislist, timers, msg, control, fault>>
      BY <1>2 DEF mnet_chann_close, InApp, Running
    <2>2. /\ SocketOwner' /\ Registered'
          /\ state' \in [Channs -> States] /\ fd' \in [Channs -> Fds \cup {Null}]
          /\ epoll_events' \in [Channs -> SUBSET Flags]
          /\ sock' \in [Fds -> Socks] /\ rx' \in [Fds -> BOOLEAN]
          /\ kq' \in [Fds -> Registration]
      BY <1>2, <2>1, DisconnectStep
    <2>3. TypeOK'
      BY <2>1, <2>2 DEF Inv, TypeOK, chann_disconnect_socket, dislist, timers,
                        control
    <2>4. NoStalePointer'
      BY <2>1 DEF Inv, TypeOK, NoStalePointer, chann_disconnect_socket, timers,
                  control, Running
    <2> QED BY <2>2, <2>3, <2>4 DEF Inv
  <1> QED BY <1>1, <1>2

\* mnet_chann_disconnect() closes the socket of a live chann.
LEMMA DisconnectInv ==
  ASSUME Inv, NEW n \in Channs, mnet_chann_disconnect(n)
  PROVE  Inv'
  <1>1. CASE Spins(n)
    BY <1>1, SpinInv DEF mnet_chann_disconnect
  <1>2. CASE ~Spins(n)
    <2>1. /\ Running /\ n \in channs /\ HasSocket(n)
          /\ chann_disconnect_socket(n, "DISCONNECT")
          /\ UNCHANGED <<library, fault>>
      BY <1>2 DEF mnet_chann_disconnect, InApp, Running
    <2>2. /\ SocketOwner' /\ Registered'
          /\ state' \in [Channs -> States] /\ fd' \in [Channs -> Fds \cup {Null}]
          /\ epoll_events' \in [Channs -> SUBSET Flags]
          /\ sock' \in [Fds -> Socks] /\ rx' \in [Fds -> BOOLEAN]
          /\ kq' \in [Fds -> Registration]
      BY <1>2, <2>1, DisconnectStep DEF HasSocket, library
    <2>3. TypeOK'
      BY <2>1, <2>2 DEF Inv, TypeOK, chann_disconnect_socket, library, dislist,
                        timers, control
    <2>4. NoStalePointer'
      BY <2>1 DEF Inv, TypeOK, NoStalePointer, chann_disconnect_socket, timers,
                  control, library, Running, HasSocket
    <2> QED BY <2>2, <2>3, <2>4 DEF Inv
  <1> QED BY <1>1, <1>2

\* A failed call: n is disconnected and queued.
LEMMA QueueInv ==
  ASSUME Inv, Running, NEW n \in channs, state[n] # "CLOSED", ~Spins(n),
         fail_and_queue(n),
         UNCHANGED <<init, channs, del_channs, timers, control, fault>>
  PROVE  Inv'
  <1>1. /\ Disconnected(n) = "DISCONNECT"
        /\ chann_disconnect_socket(n, "DISCONNECT")
    BY DEF fail_and_queue, Disconnected, HasSocket, Inv, TypeOK, States,
           SocketOwner
  <1>2. /\ SocketOwner' /\ Registered'
        /\ state' \in [Channs -> States] /\ fd' \in [Channs -> Fds \cup {Null}]
        /\ epoll_events' \in [Channs -> SUBSET Flags]
        /\ sock' \in [Fds -> Socks] /\ rx' \in [Fds -> BOOLEAN]
        /\ kq' \in [Fds -> Registration]
    BY <1>1, DisconnectStep
  <1>3. TypeOK'
    BY <1>1, <1>2 DEF Inv, TypeOK, fail_and_queue, chann_msg, Events,
                      chann_disconnect_socket, timers, control
  <1>4. NoStalePointer'
    BY <1>1 DEF Inv, TypeOK, NoStalePointer, chann_disconnect_socket, timers,
                control, Running
  <1> QED BY <1>2, <1>3, <1>4 DEF Inv

\* listen and connect give a chann a socket and register it.
LEMMA ListenConnectInv ==
  ASSUME Inv, NEW n \in Channs, NEW f \in Fds,
         mnet_chann_listen(n, f) \/ mnet_chann_connect(n, f)
  PROVE  Inv'
  <1>1. CASE mnet_chann_listen(n, f)
    <2>1. /\ Running /\ n \in channs /\ state[n] = "DISCONNECT" /\ f \in FreeFds
          /\ UNCHANGED <<library, fault>>
          /\ open_socket(n, f, IF ctype[n] = "STREAM" THEN "listen" ELSE "dgram",
                         "LISTENING", "IN")
      BY <1>1 DEF mnet_chann_listen, InApp, Running
    <2>2. CASE ctype[n] = "STREAM"
      <3>1. open_socket(n, f, "listen", "LISTENING", "IN")
        BY <2>1, <2>2
      <3> QED BY <2>1, <2>2, <3>1, OpenSocketInv DEF Inv, TypeOK, Socks
    <2>3. CASE ctype[n] # "STREAM"
      <3>1. open_socket(n, f, "dgram", "LISTENING", "IN")
        BY <2>1, <2>3
      <3> QED BY <2>1, <2>3, <3>1, OpenSocketInv DEF Inv, TypeOK, Socks
    <2> QED BY <2>2, <2>3
  <1>2. CASE mnet_chann_connect(n, f)
    <2>1. /\ Running /\ n \in channs /\ state[n] = "DISCONNECT" /\ f \in FreeFds
          /\ UNCHANGED <<library, fault>>
      BY <1>2 DEF mnet_chann_connect, InApp, Running
    <2>2. CASE ctype[n] = "STREAM"
      <3>1. open_socket(n, f, "connecting", "CONNECTING", "OUT")
        BY <1>2, <2>2 DEF mnet_chann_connect
      <3> QED BY <2>1, <2>2, <3>1, OpenSocketInv DEF Inv, TypeOK, Socks
    <2>3. CASE ctype[n] # "STREAM"
      <3>1. open_socket(n, f, "dgram", "CONNECTED", "IN")
        BY <1>2, <2>3 DEF mnet_chann_connect
      <3> QED BY <2>1, <2>3, <3>1, OpenSocketInv DEF Inv, TypeOK, Socks
    <2> QED BY <2>2, <2>3
  <1> QED BY <1>1, <1>2

\* A connect(2) that fails at once leaves an unregistered socket.
LEMMA ConnectFailsInv ==
  ASSUME Inv, NEW n \in Channs, NEW f \in Fds, mnet_chann_connect_fails(n, f)
  PROVE  Inv'
  <1> USE NullAssumption DEF mnet_chann_connect_fails, InApp
  <1>1. f \in Fds /\ kq[f].events = {} /\ \A m \in Channs : fd[m] # f
    BY FreeFd DEF Running
  <1>2. TypeOK'
    BY DEF Inv, TypeOK, Socks, library, dislist, timers, control
  <1>3. SocketOwner'
    BY <1>1 DEF Inv, TypeOK, SocketOwner, Running, Kinds, library
  <1>4. Registered'
    BY <1>1 DEF Inv, TypeOK, Registered, Running, HasSocket, Needed, library
  <1>5. NoStalePointer'
    BY DEF Inv, NoStalePointer, Running, library, timers, control
  <1> QED BY <1>2, <1>3, <1>4, <1>5 DEF Inv

\* Switching CHANN_EVENT_SEND keeps EPOLLOUT while data is cached.
LEMMA SendEventInv ==
  ASSUME Inv, NEW n \in Channs, NEW v \in BOOLEAN, active_event_send(n, v)
  PROVE  Inv'
  <1>1. /\ Running /\ n \in channs /\ state[n] = "CONNECTED"
        /\ active_send_event' = [active_send_event EXCEPT ![n] = v]
        /\ UNCHANGED <<library, ctype, state, fd, rwb_send, fault, sock, rx>>
    BY DEF active_event_send, InApp, Running
  <1>2. HasSocket(n)
    BY <1>1 DEF HasSocket, Inv, SocketOwner
  <1>3. /\ Needed(n) \subseteq epoll_events[n] /\ epoll_events[n] \subseteq Flags
        /\ rwb_send[n] \in 0..MaxCached
    BY <1>1, <1>2 DEF Inv, TypeOK, Registered
  <1>4. NoStalePointer'
    BY <1>1 DEF Inv, NoStalePointer, Running, library, timers, control
  <1>5. active_send_event' \in [Channs -> BOOLEAN]
    BY <1>1 DEF Inv, TypeOK
  <1>6. CASE UNCHANGED <<kq, epoll_events>>
    <2>1. TypeOK'
      BY <1>1, <1>5, <1>6 DEF Inv, TypeOK, library, dislist, timers, control
    <2>2. SocketOwner' /\ Registered'
      BY <1>1, <1>6 DEF Inv, SocketOwner, Registered, Running, Kinds, HasSocket,
                        Needed, library
    <2> QED BY <1>4, <2>1, <2>2 DEF Inv
  <1>7. ASSUME NEW events \in SUBSET Flags, epoll_ctl(n, fd[n], events),
               Needed(n) \subseteq events
        PROVE  Inv'
    <2>1. /\ kq' = [kq EXCEPT ![fd[n]] = [ptr |-> n, events |-> events]]
          /\ epoll_events' = [epoll_events EXCEPT ![n] = events]
      BY <1>1, <1>2, <1>7, CtlTaken
    <2>2. TypeOK'
      BY <1>1, <1>5, <1>7, <2>1 DEF Inv, TypeOK, Registration, library, dislist,
                                    timers, control
    <2>3. Needed(n)' \subseteq epoll_events'[n] /\ fd[n] \in Fds
      BY <1>1, <1>2, <1>7, <2>1 DEF Inv, TypeOK, HasSocket, Needed
    <2>4. SocketOwner' /\ Registered'
      BY <1>1, <1>2, <2>1, <2>3, InterestStep DEF Inv, TypeOK, library
    <2> QED BY <1>4, <2>2, <2>4 DEF Inv
  <1>8. CASE v
    <2>1. epoll_ctl(n, fd[n], epoll_events[n] \cup {"OUT", "HUP"})
      BY <1>8 DEF active_event_send, evt_add
    <2> QED BY <1>3, <1>7, <2>1 DEF Flags
  <1>9. CASE ~v /\ rwb_send[n] = 0
    <2>1. epoll_ctl(n, fd[n], epoll_events[n] \ {"OUT"})
      BY <1>9 DEF active_event_send, evt_del
    <2>2. Needed(n) \subseteq epoll_events[n] \ {"OUT"}
      BY <1>1, <1>3, <1>9 DEF Needed
    <2> QED BY <1>3, <1>7, <2>1, <2>2
  <1>10. CASE ~v /\ rwb_send[n] # 0
    BY <1>6, <1>10 DEF active_event_send
  <1> QED BY <1>8, <1>9, <1>10

\* Arming and killing a timer touches no socket.
LEMMA TimerEventInv ==
  ASSUME Inv, NEW n \in Channs, NEW arm \in BOOLEAN, active_event_timer(n, arm)
  PROVE  Inv'
  <1> USE DEF active_event_timer, InApp
  <1>1. TypeOK'
    <2>1. n \notin tm_due \/ arm \/ tm_due' \subseteq tm_clock'
      BY DEF Inv, TypeOK
    <2> QED BY <2>1 DEF Inv, TypeOK, fields, kernel, dislist, control
  <1>2. SocketOwner' /\ Registered'
    BY QuietStep DEF Running
  <1>3. NoStalePointer'
    BY DEF Inv, NoStalePointer, Running, fields, control
  <1> QED BY <1>1, <1>2, <1>3 DEF Inv

\* A recv takes the input and leaves the chann as it is.
LEMMA RecvInv ==
  ASSUME Inv, NEW n \in Channs, NEW left \in BOOLEAN, mnet_chann_recv(n, left)
  PROVE  Inv'
  <1> USE DEF mnet_chann_recv, InApp
  <1>1. TypeOK'
    BY DEF Inv, TypeOK, library, fields, dislist, timers, control
  <1>2. SocketOwner' /\ Registered'
    BY DEF Inv, SocketOwner, Registered, Running, Kinds, HasSocket, Needed,
           library, fields
  <1>3. NoStalePointer'
    BY DEF Inv, NoStalePointer, Running, library, fields, timers, control
  <1> QED BY <1>1, <1>2, <1>3 DEF Inv

\* A failed recv or send disconnects the chann and queues it.
LEMMA FailedCallInv ==
  ASSUME Inv, NEW n \in Channs,
         \/ mnet_chann_recv_fails(n)
         \/ mnet_chann_send_fails(n)
         \/ mnet_dgram_send_fails(n)
  PROVE  Inv'
  <1>1. CASE mnet_chann_recv_fails(n) /\ Spins(n)
    BY <1>1, SpinInv DEF mnet_chann_recv_fails
  <1>2. CASE mnet_chann_recv_fails(n) /\ ~Spins(n)
    BY <1>2, QueueInv DEF mnet_chann_recv_fails, InApp, Running, Usable
  <1>3. CASE mnet_chann_send_fails(n)
    BY <1>3, QueueInv, BoundAssumption
    DEF mnet_chann_send_fails, InApp, Running, Usable, Spins
  <1>4. CASE mnet_dgram_send_fails(n)
    BY <1>4, QueueInv DEF mnet_dgram_send_fails, InApp, Running, Spins, HasSocket
  <1> QED BY <1>1, <1>2, <1>3, <1>4

\* Data the socket did not take asks for EPOLLOUT.
LEMMA SendCachedInv ==
  ASSUME Inv, NEW n \in Channs, mnet_chann_send_cached(n)
  PROVE  Inv'
  <1> USE BoundAssumption
  <1>1. /\ Running /\ n \in channs /\ state[n] \in {"CONNECTED", "LISTENING"}
        /\ rwb_send[n] < MaxCached
        /\ rwb_send' = [rwb_send EXCEPT ![n] = rwb_send[n] + 1]
        /\ UNCHANGED <<library, ctype, state, fd, active_send_event, fault,
                       sock, rx>>
    BY DEF mnet_chann_send_cached, InApp, Running, Usable
  <1>2. HasSocket(n)
    BY <1>1 DEF HasSocket, Inv, SocketOwner
  <1>3. /\ Needed(n) \subseteq epoll_events[n] /\ epoll_events[n] \subseteq Flags
        /\ rwb_send[n] \in 0..MaxCached
        /\ kq[fd[n]] = [ptr |-> n, events |-> epoll_events[n]]
    BY <1>1, <1>2 DEF Inv, TypeOK, Registered
  <1> DEFINE events == epoll_events[n] \cup {"OUT", "HUP"}
  <1>4. /\ kq' = [kq EXCEPT ![fd[n]] = [ptr |-> n, events |-> events]]
        /\ epoll_events' = [epoll_events EXCEPT ![n] = events]
    <2>1. CASE rwb_send[n] > 0
      <3>1. events = epoll_events[n]
        BY <1>3, <2>1 DEF Needed
      <3> QED BY <1>3, <2>1, <3>1 DEF mnet_chann_send_cached, Inv, TypeOK
    <2>2. CASE ~(rwb_send[n] > 0)
      <3>1. epoll_ctl(n, fd[n], events)
        BY <2>2 DEF mnet_chann_send_cached, evt_add
      <3> QED BY <1>1, <1>2, <3>1, CtlTaken
    <2> QED BY <2>1, <2>2
  <1>5. events \in SUBSET Flags /\ fd[n] \in Fds
    BY <1>2, <1>3 DEF Flags, HasSocket, Inv, TypeOK
  <1>6. Needed(n)' \subseteq epoll_events'[n]
    BY <1>1, <1>3, <1>4 DEF Needed, Inv, TypeOK
  <1>7. SocketOwner' /\ Registered'
    BY <1>1, <1>2, <1>4, <1>5, <1>6, InterestStep DEF Inv, TypeOK, library
  <1>8. TypeOK'
    <2> HIDE DEF events
    <2> QED BY <1>1, <1>3, <1>4, <1>5 DEF Inv, TypeOK, Registration, library,
                                          dislist, timers, control
  <1>9. NoStalePointer'
    BY <1>1 DEF Inv, NoStalePointer, Running, library, timers, control
  <1> QED BY <1>7, <1>8, <1>9 DEF Inv

\* mnet_dgram_send() that connects and caches: the socket is opened and the
\* event for sending is added in one step.
LEMMA DgramCachedInv ==
  ASSUME Inv, NEW n \in Channs, NEW f \in Fds, mnet_dgram_send_cached(n, f)
  PROVE  Inv'
  <1> USE NullAssumption, BoundAssumption
  <1> DEFINE events == {"IN", "OUT", "HUP"}
  <1>1. /\ Running /\ n \in channs /\ state[n] = "DISCONNECT"
        /\ ctype[n] = "DGRAM" /\ MaxCached > 0 /\ f \in FreeFds
    BY DEF mnet_dgram_send_cached, InApp, Running
  <1>2. kq[f].events = {} /\ \A m \in Channs : fd[m] # f
    BY <1>1, FreeFd
  <1>3. epoll_events[n] = {}
    BY <1>1 DEF Inv, Registered, HasSocket
  <1>4. /\ sock' = [sock EXCEPT ![f] = "dgram"]
        /\ fd' = [fd EXCEPT ![n] = f]
        /\ state' = [state EXCEPT ![n] = "CONNECTED"]
        /\ kq' = [kq EXCEPT ![f] = [ptr |-> n, events |-> events]]
        /\ epoll_events' = [epoll_events EXCEPT ![n] = events]
        /\ rwb_send' = [rwb_send EXCEPT ![n] = 1]
        /\ UNCHANGED <<library, ctype, active_send_event, fault, rx>>
    BY <1>2, <1>3 DEF mnet_dgram_send_cached, epoll_ctl
  <1>5. /\ HasSocket(n)' /\ sock'[f] \in Kinds(n)' /\ ~HasSocket(n)
        /\ Needed(n)' \subseteq epoll_events'[n]
    BY <1>1, <1>4 DEF Inv, TypeOK, HasSocket, Kinds, Needed
  <1>6. SocketOwner' /\ Registered'
    BY <1>1, <1>4, <1>5, OpenStep DEF Inv, TypeOK, library
  <1>7. TypeOK'
    BY <1>1, <1>4 DEF Inv, TypeOK, States, Socks, Registration, Flags, library,
                      dislist, timers, control
  <1>8. NoStalePointer'
    BY <1>1, <1>4 DEF Inv, TypeOK, NoStalePointer, Running, library, timers,
                      control
  <1> QED BY <1>6, <1>7, <1>8 DEF Inv

-----------------------------------------------------------------------------
(* mnet_poll() and mnet_result_next().                                     *)

\* mnet_poll() destroys only channs that have no socket left, and the events
\* it collects are of channs that exist.
LEMMA PollInv ==
  ASSUME Inv, NEW due, NEW W, mnet_poll(due, W)
  PROVE  Inv'
  <1> USE NullAssumption, BoundAssumption
  <1>1. /\ Running /\ channs' = channs \ del_channs /\ zeroed(del_channs)
        /\ del_channs' = {} /\ tm_clock' = tm_clock \ del_channs
        /\ tm_due' \subseteq tm_clock' /\ evt' = epoll_wait(W) /\ ret' = NoMsg
        /\ UNCHANGED <<init, dis_channs, pc, fault, sock, rx, kq>>
    BY DEF mnet_poll, InApp, Running, kernel
  <1>2. /\ channs \subseteq Channs
        /\ del_channs = {n \in channs : state[n] = "CLOSED"}
        /\ \A n \in Channs \ channs : state[n] = "CLOSED"
        /\ tm_clock \subseteq channs
    BY <1>1 DEF Inv, TypeOK, NoStalePointer
  <1>3. \A n \in Channs :
          /\ state'[n] = state[n] /\ epoll_events'[n] = epoll_events[n]
          /\ rwb_send'[n] = rwb_send[n]
          /\ n \notin del_channs => fd'[n] = fd[n] /\ ctype'[n] = ctype[n]
          /\ n \in del_channs => fd'[n] = Null
    <2>1. \A n \in del_channs : epoll_events[n] = {} /\ rwb_send[n] = 0
      BY <1>1, <1>2 DEF Inv, TypeOK, Registered, HasSocket
    <2> QED BY <1>1, <1>2, <2>1 DEF zeroed
  <1>4. \A n \in Channs : HasSocket(n)' = HasSocket(n)
    BY <1>2, <1>3 DEF HasSocket
  <1>5. evt' \subseteq Registration /\ \A kev \in evt' : kev.ptr \in channs'
    <2>1. \A f \in Fds : kq[f].events # {} => kq[f].ptr \in channs'
      BY <1>1, <1>2 DEF Inv, Registered, HasSocket
    <2>2. \A f \in Fds : Reported(f, W) \subseteq Flags
      BY DEF Reported, Ready
    <2> QED BY <1>1, <1>2, <2>1, <2>2 DEF epoll_wait, Registration
  <1>6. TypeOK'
    <2>1. /\ ctype' \in [Channs -> {"STREAM", "DGRAM"}]
          /\ state' \in [Channs -> States]
          /\ fd' \in [Channs -> Fds \cup {Null}]
          /\ epoll_events' \in [Channs -> SUBSET Flags]
          /\ rwb_send' \in [Channs -> 0..MaxCached]
          /\ dis_next' \in [Channs -> Channs \cup {Null}]
          /\ msg' \in [Channs -> Events \cup {"none"}]
      BY <1>1 DEF zeroed, Inv, TypeOK, States
    <2>2. active_send_event' \in [Channs -> BOOLEAN]
      BY <1>1, Zenon DEF zeroed, Inv, TypeOK
    <2>3. ret' \in [n: Channs \cup {Null}, event: Events \cup {"none"}]
      BY <1>1 DEF NoMsg
    <2> QED BY <1>1, <1>2, <1>5, <2>1, <2>2, <2>3 DEF Inv, TypeOK
  <1>7. SocketOwner'
    BY <1>1, <1>2, <1>3 DEF Inv, TypeOK, SocketOwner, Kinds
  <1>8. Registered'
    <2>1. \A n \in Channs : HasSocket(n) => fd'[n] = fd[n]
      BY <1>2, <1>3 DEF HasSocket
    <2>2. \A n \in Channs : Needed(n)' = Needed(n)
      BY <1>3 DEF Needed
    <2>3. \A n \in Channs : HasSocket(n) /\ n \in channs => n \in channs'
      BY <1>1, <1>2 DEF HasSocket
    <2>4. (\A n \in Channs : HasSocket(n) =>
            /\ kq[fd[n]] = [ptr |-> n, events |-> epoll_events[n]]
            /\ Needed(n) \subseteq epoll_events[n])'
      BY <1>1, <1>3, <1>4, <2>1, <2>2 DEF Inv, Registered
    <2>5. (\A f \in Fds : kq[f].events # {} =>
            kq[f].ptr \in channs /\ HasSocket(kq[f].ptr) /\ fd[kq[f].ptr] = f)'
      <3> SUFFICES ASSUME NEW f \in Fds, kq[f].events # {}
                   PROVE  /\ kq[f].ptr \in channs'
                          /\ HasSocket(kq[f].ptr)' /\ fd'[kq[f].ptr] = f
        BY <1>1
      <3>1. kq[f].ptr \in channs /\ HasSocket(kq[f].ptr) /\ fd[kq[f].ptr] = f
        BY <1>1 DEF Inv, Registered
      <3> QED BY <1>1, <1>2, <1>4, <2>1, <2>3, <3>1
    <2>6. (\A n \in Channs : ~HasSocket(n) => epoll_events[n] = {})'
      BY <1>1, <1>3, <1>4 DEF Inv, Registered
    <2>7. (\A n \in Channs :
            rwb_send[n] > 0 => state[n] \in {"CONNECTED", "LISTENING"})'
      BY <1>1, <1>3 DEF Inv, Registered
    <2> QED BY <2>4, <2>5, <2>6, <2>7 DEF Registered
  <1>9. NoStalePointer'
    BY <1>1, <1>2, <1>3, <1>5 DEF NoStalePointer
  <1> QED BY <1>6, <1>7, <1>8, <1>9 DEF Inv

\* The turns of _evt_result_next() that leave the channs and sockets alone.
LEMMA QuietNextInv ==
  ASSUME Inv,
         \/ \E n \in tm_due : next_timer(n)
         \/ next_none
         \/ \E kev \in evt : \/ kev_ignored(kev)
                             \/ kev_accept_fails(kev)
                             \/ kev_recv(kev)
  PROVE  Inv'
  <1>1. CASE \E n \in tm_due : next_timer(n)
    <2>1. PICK n \in tm_due : next_timer(n)
      BY <1>1
    <2>2. TypeOK'
      BY <2>1 DEF next_timer, chann_msg, returns, Inv, TypeOK, Events, fields,
                  kernel, dislist
    <2>3. NoStalePointer'
      BY <2>1 DEF next_timer, InNext, Inv, NoStalePointer, Running, fields
    <2> QED BY <2>1, <2>2, <2>3, QuietStep DEF next_timer, InNext, Running, Inv
  <1>2. CASE next_none
    <2>1. TypeOK'
      BY <1>2 DEF next_none, NoMsg, Inv, TypeOK, fields, kernel, dislist, timers
    <2>2. NoStalePointer'
      BY <1>2 DEF next_none, InNext, Inv, NoStalePointer, Running, fields, timers
    <2> QED BY <1>2, <2>1, <2>2, QuietStep DEF next_none, InNext, Running, Inv
  <1>3. CASE \E kev \in evt : \/ kev_ignored(kev)
                              \/ kev_accept_fails(kev)
                              \/ kev_recv(kev)
    <2>1. PICK kev \in evt : \/ kev_ignored(kev)
                             \/ kev_accept_fails(kev)
                             \/ kev_recv(kev)
      BY <1>3
    <2>2. /\ Running /\ take(kev) /\ UNCHANGED <<channs, fields, kernel>>
          /\ continues \/ returns(kev.ptr, "RECV")
      BY <2>1 DEF kev_ignored, kev_accept_fails, kev_recv, Healthy, at, InNext,
                  Running
    <2>3. TypeOK'
      <3>1. kev.ptr \in Channs \cup {Null}
        BY DEF Inv, TypeOK, Registration
      <3> QED BY <2>2, <3>1 DEF take, continues, returns, NoMsg, Inv, TypeOK,
                                Events, fields, kernel, dislist, timers
    <2>4. NoStalePointer'
      BY <2>2 DEF take, Inv, NoStalePointer, Running, fields, timers
    <2> QED BY <2>2, <2>3, <2>4, QuietStep DEF take, Inv
  <1> QED BY <1>1, <1>2, <1>3

\* An accepted descriptor that is dropped is nobody's and unregistered.
LEMMA AcceptLostInv ==
  ASSUME Inv, NEW kev \in evt, NEW f \in Fds, NEW more \in BOOLEAN,
         kev_accept_lost(kev, f, more)
  PROVE  Inv'
  <1>1. /\ Running /\ take(kev) /\ continues /\ f \in FreeFds
        /\ UNCHANGED <<channs, fields, kq>>
        /\ sock' = [sock EXCEPT ![f] = "est"]
        /\ rx' = [rx EXCEPT ![fd[kev.ptr]] = more]
    BY DEF kev_accept_lost, Healthy, at, InNext, Running
  <1>2. TypeOK'
    BY <1>1 DEF take, continues, NoMsg, Inv, TypeOK, Socks, fields, dislist,
                timers
  <1>3. NoStalePointer'
    BY <1>1 DEF take, Inv, NoStalePointer, Running, fields, timers
  <1>4. \A n \in Channs : fd[n] # f
    BY <1>1, FreeFd
  <1>5. SocketOwner'
    BY <1>1, <1>4, NullAssumption DEF take, Inv, TypeOK, SocketOwner, Running,
       Kinds, fields
  <1>6. Registered'
    BY <1>1 DEF take, Inv, Registered, Running, HasSocket, Needed, fields
  <1> QED BY <1>2, <1>3, <1>5, <1>6 DEF Inv

\* The head of the dis_channs list is handed out, or was freed before.
LEMMA NextDisconnectedInv ==
  ASSUME Inv, next_disconnected
  PROVE  Inv'
  <1>1. TypeOK'
    BY DEF next_disconnected, returns, Inv, TypeOK, fields, kernel, timers
  <1>2. CASE dis_channs \in channs
    <2>1. NoStalePointer'
      BY <1>2 DEF next_disconnected, InNext, Inv, NoStalePointer, Running,
                  fields, timers
    <2> QED BY <1>1, <1>2, <2>1, QuietStep
            DEF next_disconnected, InNext, Running, Inv
  <1>3. CASE dis_channs \notin channs
    BY <1>1, <1>3, LostStep DEF next_disconnected
  <1> QED BY <1>2, <1>3

\* An error, a hang-up or a failed connect: the socket is dropped.
LEMMA DropInv ==
  ASSUME Inv, NEW kev \in evt, kev_error(kev) \/ kev_connect_fails(kev)
  PROVE  Inv'
  <1>1. /\ Running /\ ~Skipped(kev.ptr) /\ drop_and_report(kev.ptr, kev)
    BY DEF kev_error, kev_connect_fails, Healthy, at, InNext, Running
  <1>2. CASE Spins(kev.ptr)
    BY <1>1, <1>2, SpinInv DEF drop_and_report
  <1>3. CASE ~Spins(kev.ptr)
    <2>0. kev.ptr \in channs /\ kev.ptr \in Channs
      BY <1>1 DEF Inv, TypeOK, NoStalePointer
    <2>1. /\ take(kev) /\ returns(kev.ptr, "DISCONNECT") /\ UNCHANGED channs
          /\ chann_disconnect_socket(kev.ptr, Disconnected(kev.ptr))
      BY <1>1, <1>3 DEF drop_and_report
    <2>2. Disconnected(kev.ptr) = "DISCONNECT" /\ state[kev.ptr] # "CLOSED"
      BY <1>1, <2>0 DEF Disconnected, HasSocket, Skipped, Inv, TypeOK, States
    <2>3. chann_disconnect_socket(kev.ptr, "DISCONNECT") /\ UNCHANGED fault
      BY <2>1, <2>2 DEF take
    <2>4. /\ SocketOwner' /\ Registered'
          /\ state' \in [Channs -> States] /\ fd' \in [Channs -> Fds \cup {Null}]
          /\ epoll_events' \in [Channs -> SUBSET Flags]
          /\ sock' \in [Fds -> Socks] /\ rx' \in [Fds -> BOOLEAN]
          /\ kq' \in [Fds -> Registration]
      BY <1>1, <1>3, <2>0, <2>1, <2>2, <2>3, DisconnectStep
    <2>5. TypeOK'
      BY <2>0, <2>1, <2>3, <2>4
      DEF Inv, TypeOK, take, returns, Events, chann_disconnect_socket, dislist,
          timers
    <2>6. NoStalePointer'
      BY <1>1, <2>0, <2>1, <2>2, <2>3
      DEF Inv, TypeOK, NoStalePointer, Running, take, chann_disconnect_socket,
          timers
    <2> QED BY <2>4, <2>5, <2>6 DEF Inv
  <1> QED BY <1>2, <1>3

\* The accepted socket gets a chann of its own.
LEMMA AcceptInv ==
  ASSUME Inv, NEW kev \in evt, NEW c \in Channs, NEW f \in Fds,
         NEW more \in BOOLEAN, kev_accept(kev, c, f, more)
  PROVE  Inv'
  <1> USE NullAssumption, BoundAssumption
  <1> DEFINE n == kev.ptr
  <1>0. /\ Running /\ state[n] = "LISTENING" /\ ctype[n] = "STREAM"
        /\ c \notin channs /\ f \in FreeFds /\ take(kev)
        /\ channs' = channs \cup {c}
        /\ ctype' = [ctype EXCEPT ![c] = ctype[n]]
        /\ state' = [state EXCEPT ![c] = "CONNECTED"]
        /\ fd' = [fd EXCEPT ![c] = f]
        /\ sock' = [sock EXCEPT ![f] = "est"]
        /\ rx' = [rx EXCEPT ![fd[n]] = more]
        /\ evt_add(c, f, "IN") /\ returns(n, "ACCEPT")
        /\ UNCHANGED <<active_send_event, rwb_send, fault>>
    BY DEF kev_accept, Healthy, at, InNext, Running, take
  <1>1. /\ n \in Channs /\ ~HasSocket(c) /\ epoll_events[c] = {}
        /\ rwb_send[c] = 0 /\ state[c] = "CLOSED"
    BY <1>0 DEF Inv, TypeOK, NoStalePointer, Registered, HasSocket
  <1>2. kq[f].events = {}
    BY <1>0, FreeFd
  <1>3. /\ kq' = [kq EXCEPT ![f] = [ptr |-> c, events |-> {"IN", "HUP"}]]
        /\ epoll_events' = [epoll_events EXCEPT ![c] = {"IN", "HUP"}]
    BY <1>0, <1>1, <1>2 DEF evt_add, epoll_ctl
  <1>4. TypeOK'
    <2>1. /\ ctype' \in [Channs -> {"STREAM", "DGRAM"}]
          /\ state' \in [Channs -> States]
          /\ fd' \in [Channs -> Fds \cup {Null}]
          /\ sock' \in [Fds -> Socks] /\ rx' \in [Fds -> BOOLEAN]
      BY <1>0, <1>1 DEF Inv, TypeOK, States, Socks
    <2>2. kq' \in [Fds -> Registration] /\ epoll_events' \in [Channs -> SUBSET Flags]
      BY <1>3 DEF Inv, TypeOK, Registration, Flags
    <2> HIDE DEF n
    <2> QED BY <1>0, <1>1, <2>1, <2>2
            DEF Inv, TypeOK, take, returns, Events, dislist, timers
  <1>5. /\ HasSocket(c)' /\ fd'[c] = f /\ sock'[f] \in Kinds(c)'
        /\ Needed(c)' \subseteq epoll_events'[c]
    BY <1>0, <1>1, <1>3 DEF Inv, TypeOK, HasSocket, Kinds, Needed
  <1>6. SocketOwner' /\ Registered'
    <2> HIDE DEF n
    <2> QED BY <1>0, <1>1, <1>3, <1>5, OpenStep DEF Inv, TypeOK
  <1>7. NoStalePointer'
    <2> HIDE DEF n
    <2> QED BY <1>0, <1>1 DEF Inv, TypeOK, NoStalePointer, Running, take, timers
  <1> QED BY <1>4, <1>6, <1>7 DEF Inv

\* The connect succeeded: the chann now waits for input.
LEMMA ConnectedInv ==
  ASSUME Inv, NEW kev \in evt, kev_connected(kev)
  PROVE  Inv'
  <1> USE BoundAssumption
  <1>1. /\ Running /\ state[kev.ptr] = "CONNECTING" /\ ~Skipped(kev.ptr)
        /\ evt_write_to_read(kev.ptr, fd[kev.ptr]) /\ take(kev)
        /\ state' = [state EXCEPT ![kev.ptr] = "CONNECTED"]
        /\ returns(kev.ptr, "CONNECTED")
        /\ UNCHANGED <<channs, ctype, fd, active_send_event, rwb_send, sock, rx,
                       fault>>
    BY DEF kev_connected, Healthy, at, InNext, Running, take
  <1>2. kev.ptr \in channs /\ kev.ptr \in Channs /\ HasSocket(kev.ptr)
    BY <1>1 DEF Inv, TypeOK, NoStalePointer, Skipped, HasSocket
  <1>3. ASSUME NEW n \in Channs, n = kev.ptr
        PROVE  Inv'
    <2> DEFINE events == (epoll_events[n] \ {"OUT"}) \cup {"IN", "HUP"}
    <2>1. /\ kq' = [kq EXCEPT ![fd[n]] = [ptr |-> n, events |-> events]]
          /\ epoll_events' = [epoll_events EXCEPT ![n] = events]
      <3>1. epoll_ctl(n, fd[n], events)
        BY <1>1, <1>3 DEF evt_write_to_read
      <3> QED BY <1>1, <1>2, <1>3, <3>1, CtlTaken
    <2>2. events \in SUBSET Flags /\ fd[n] \in Fds
      BY <1>2, <1>3 DEF Inv, TypeOK, Flags, HasSocket
    <2>3. rwb_send[n] = 0
      BY <1>1, <1>3 DEF Inv, TypeOK, Registered
    <2>4. Needed(n)' \subseteq epoll_events'[n]
      BY <1>1, <1>3, <2>1, <2>3 DEF Needed, Inv, TypeOK
    <2> HIDE DEF events
    <2>5. SocketOwner' /\ Registered'
      BY <1>1, <1>2, <1>3, <2>1, <2>2, <2>3, <2>4, InterestStep DEF Inv, TypeOK
    <2>6. TypeOK'
      BY <1>1, <1>3, <2>1, <2>2 DEF Inv, TypeOK, take, returns, Events, States,
                                    Registration, dislist, timers
    <2>7. NoStalePointer'
      BY <1>1, <1>2, <1>3 DEF Inv, TypeOK, NoStalePointer, take, timers
    <2> QED BY <2>5, <2>6, <2>7 DEF Inv
  <1> QED BY <1>2, <1>3

\* Cached data is flushed, wholly or in part.
LEMMA FlushInv ==
  ASSUME Inv, NEW kev \in evt,
         kev_flushed(kev) \/ \E left \in 1..MaxCached : kev_flush_blocks(kev, left)
  PROVE  Inv'
  <1> USE BoundAssumption
  <1>1. /\ Running /\ state[kev.ptr] = "CONNECTED" /\ ~Skipped(kev.ptr)
        /\ take(kev)
        /\ continues \/ returns(kev.ptr, "SEND")
        /\ UNCHANGED <<channs, ctype, state, fd, active_send_event, sock, rx,
                       fault>>
    BY DEF kev_flushed, kev_flush_blocks, Flushable, Healthy, at, InNext,
           Running, take, kernel
  <1>2. kev.ptr \in channs /\ kev.ptr \in Channs /\ HasSocket(kev.ptr)
    BY <1>1 DEF Inv, TypeOK, NoStalePointer, Skipped, HasSocket
  <1>3. ASSUME NEW n \in Channs, n = kev.ptr
        PROVE  Inv'
    <2>1. fd[n] \in Fds /\ epoll_events[n] \subseteq Flags
      BY <1>2, <1>3 DEF Inv, TypeOK, HasSocket
    <2>2. /\ kq[fd[n]] = [ptr |-> n, events |-> epoll_events[n]]
          /\ Needed(n) \subseteq epoll_events[n]
      BY <1>1, <1>2, <1>3 DEF Inv, Registered
    <2>3. PICK b \in 0..MaxCached, events \in SUBSET Flags :
            /\ rwb_send' = [rwb_send EXCEPT ![n] = b]
            /\ epoll_events' = [epoll_events EXCEPT ![n] = events]
            /\ kq' = [kq EXCEPT ![fd[n]] = [ptr |-> n, events |-> events]]
            /\ {"HUP", "IN"} \subseteq events
            /\ b > 0 => "OUT" \in events
      <3>1. {"HUP", "IN"} \subseteq epoll_events[n]
        BY <1>1, <1>3, <2>2 DEF Needed
      <3>2. CASE kev_flushed(kev)
        <4>0. rwb_send' = [rwb_send EXCEPT ![n] = 0]
          BY <1>3, <3>2 DEF kev_flushed
        <4>1. CASE active_send_event[n]
          <5>1. UNCHANGED <<kq, epoll_events>>
            BY <1>3, <3>2, <4>1 DEF kev_flushed
          <5> epoll_events[n] \in SUBSET Flags
            BY <2>1
          <5> WITNESS 0 \in 0..MaxCached, epoll_events[n] \in SUBSET Flags
          <5> QED BY <2>1, <2>2, <3>1, <4>0, <5>1 DEF Inv, TypeOK
        <4>2. CASE ~active_send_event[n]
          <5>1. epoll_ctl(n, fd[n], epoll_events[n] \ {"OUT"})
            BY <1>3, <3>2, <4>2 DEF kev_flushed, evt_del
          <5>2. /\ kq' = [kq EXCEPT ![fd[n]] =
                            [ptr |-> n, events |-> epoll_events[n] \ {"OUT"}]]
                /\ epoll_events' =
                     [epoll_events EXCEPT ![n] = epoll_events[n] \ {"OUT"}]
            BY <1>1, <1>2, <1>3, <5>1, CtlTaken
          <5> epoll_events[n] \ {"OUT"} \in SUBSET Flags
            BY <2>1
          <5> WITNESS 0 \in 0..MaxCached,
                      epoll_events[n] \ {"OUT"} \in SUBSET Flags
          <5> QED BY <3>1, <4>0, <5>2
        <4> QED BY <4>1, <4>2
      <3>3. CASE \E left \in 1..MaxCached : kev_flush_blocks(kev, left)
        <4>1. PICK left \in 1..MaxCached : kev_flush_blocks(kev, left)
          BY <3>3
        <4>2. /\ rwb_send' = [rwb_send EXCEPT ![n] = left] /\ rwb_send[n] > 0
              /\ UNCHANGED <<kq, epoll_events>>
          BY <1>3, <4>1 DEF kev_flush_blocks, kernel, Inv, TypeOK
        <4>3. "OUT" \in epoll_events[n]
          BY <2>2, <4>2 DEF Needed
        <4> epoll_events[n] \in SUBSET Flags
          BY <2>1
        <4> WITNESS left \in 0..MaxCached, epoll_events[n] \in SUBSET Flags
        <4> QED BY <2>1, <2>2, <3>1, <4>2, <4>3 DEF Inv, TypeOK
      <3> QED BY <3>2, <3>3
    <2>4. Needed(n)' \subseteq epoll_events'[n]
      BY <1>1, <1>3, <2>3 DEF Needed, Inv, TypeOK
    <2>5. SocketOwner' /\ Registered'
      BY <1>1, <1>2, <1>3, <2>1, <2>3, <2>4, InterestStep DEF Inv, TypeOK
    <2>6. TypeOK'
      BY <1>1, <1>3, <2>1, <2>3 DEF Inv, TypeOK, take, returns, continues,
           NoMsg, Events, Registration, dislist, timers
    <2>7. NoStalePointer'
      BY <1>1, <1>2, <1>3 DEF Inv, TypeOK, NoStalePointer, take, timers
    <2> QED BY <2>5, <2>6, <2>7 DEF Inv
  <1> QED BY <1>2, <1>3

-----------------------------------------------------------------------------
(* The kernel, and the induction.                                          *)

\* A stream socket stays a stream socket whatever the peer does.
LEMMA KernelInv ==
  ASSUME Inv, NEW f \in Fds, KernelStep(f)
  PROVE  Inv'
  <1> DEFINE streams == {"connecting", "refused", "est", "eof", "reset"}
  <1>1. CASE Arrive(f)
    <2>1. TypeOK'
      BY <1>1 DEF Arrive, Inv, TypeOK, library, fields, dislist, timers, control
    <2>2. SocketOwner' /\ Registered' /\ NoStalePointer'
      BY <1>1 DEF Arrive, Inv, SocketOwner, Registered, NoStalePointer, Running,
                  Kinds, HasSocket, Needed, library, fields, timers, control
    <2> QED BY <2>1, <2>2 DEF Inv
  <1>2. CASE ~Arrive(f)
    <2>1. PICK to \in streams :
            /\ Running /\ sock[f] \in streams
            /\ sock' = [sock EXCEPT ![f] = to]
            /\ UNCHANGED <<library, fields, fault, rx, kq>>
      BY <1>2 DEF KernelStep, ConnectDone, ConnectFail, PeerFin, PeerReset,
                  SockStep, Running
    <2>2. TypeOK'
      BY <2>1 DEF Inv, TypeOK, Socks, library, fields, dislist, timers, control
    <2>3. SocketOwner'
      BY <2>1 DEF Inv, TypeOK, SocketOwner, Running, Kinds, library, fields
    <2>4. Registered' /\ NoStalePointer'
      BY <2>1 DEF Inv, Registered, NoStalePointer, Running, HasSocket, Needed,
                  library, fields, timers, control
    <2> QED BY <2>2, <2>3, <2>4 DEF Inv
  <1> QED BY <1>1, <1>2

\* Before mnet_init() there is nothing to own, register or point to.
LEMMA InitInv == Init => Inv
  <1> SUFFICES ASSUME Init PROVE Inv
    OBVIOUS
  <1> USE NullAssumption, BoundAssumption DEF Init
  <1>1. TypeOK
    <2>1. active_send_event \in [Channs -> BOOLEAN] /\ rx \in [Fds -> BOOLEAN]
      BY Zenon
    <2>2. /\ kq \in [Fds -> Registration]
          /\ ret \in [n: Channs \cup {Null}, event: Events \cup {"none"}]
      BY DEF Registration, Unregistered, NoMsg
    <2>3. /\ ctype \in [Channs -> {"STREAM", "DGRAM"}]
          /\ state \in [Channs -> States]
          /\ fd \in [Channs -> Fds \cup {Null}]
          /\ epoll_events \in [Channs -> SUBSET Flags]
          /\ rwb_send \in [Channs -> 0..MaxCached]
          /\ dis_next \in [Channs -> Channs \cup {Null}]
          /\ msg \in [Channs -> Events \cup {"none"}]
          /\ sock \in [Fds -> Socks]
      BY DEF States, Socks
    <2>4. /\ init \in BOOLEAN /\ channs \subseteq Channs
          /\ del_channs \subseteq Channs /\ dis_channs \in Channs \cup {Null}
          /\ tm_clock \subseteq Channs /\ tm_due \subseteq tm_clock
          /\ evt \subseteq Registration /\ pc \in {"app", "next"}
          /\ fault \in {"none", "hang", "uaf"}
      OBVIOUS
    <2> HIDE DEF Init
    <2> QED BY <2>1, <2>2, <2>3, <2>4 DEF TypeOK
  <1>2. SocketOwner
    BY DEF SocketOwner, Kinds
  <1>3. Registered
    BY DEF Registered, HasSocket, Unregistered
  <1>4. NoStalePointer
    BY DEF NoStalePointer
  <1> QED BY <1>1, <1>2, <1>3, <1>4 DEF Inv

\* Every step of the program, the application and the kernel preserves Inv.
LEMMA NextInv == Inv /\ [Next]_vars => Inv'
  <1> SUFFICES ASSUME Inv, [Next]_vars PROVE Inv'
    OBVIOUS
  <1>1. CASE UNCHANGED vars
    BY <1>1 DEF vars, library, fields, kernel, dislist, timers, control, Inv,
                TypeOK, SocketOwner, Registered, NoStalePointer, Running, Kinds,
                HasSocket, Needed
  <1>2. CASE mnet_init
    BY <1>2, InitCallInv
  <1>3. CASE mnet_fini
    BY <1>3, FiniInv
  <1>4. ASSUME NEW n \in Channs, AppCall(n)
        PROVE  Inv'
    BY <1>4, OpenInv, CloseInv, DisconnectInv, ListenConnectInv,
       ConnectFailsInv, SendEventInv, TimerEventInv, RecvInv, FailedCallInv,
       SendCachedInv, DgramCachedInv DEF AppCall
  <1>5. CASE Poll
    BY <1>5, PollInv DEF Poll
  <1>6. CASE NextStep
    <2>1. ASSUME NEW kev \in evt, KevStep(kev)
          PROVE  Inv'
      <3>1. CASE kev_ignored(kev) \/ kev_accept_fails(kev) \/ kev_recv(kev)
        BY <3>1, QuietNextInv
      <3>2. CASE kev_error(kev) \/ kev_connect_fails(kev)
        BY <3>2, DropInv
      <3>3. CASE \E c \in Channs, f \in Fds, more \in BOOLEAN :
                   kev_accept(kev, c, f, more)
        BY <3>3, AcceptInv
      <3>4. CASE kev_connected(kev)
        BY <3>4, ConnectedInv
      <3>5. CASE \/ kev_flushed(kev)
                 \/ \E left \in 1..MaxCached : kev_flush_blocks(kev, left)
        BY <3>5, FlushInv
      <3>6. CASE kev_flush_fails(kev)
        BY <3>6, SpinInv DEF kev_flush_fails
      <3>7. CASE \E f \in Fds, more \in BOOLEAN : kev_accept_lost(kev, f, more)
        BY <3>7, AcceptLostInv
      <3> QED BY <2>1, <3>1, <3>2, <3>3, <3>4, <3>5, <3>6, <3>7 DEF KevStep
    <2> QED BY <1>6, <2>1, QuietNextInv, NextDisconnectedInv DEF NextStep
  <1>7. ASSUME NEW f \in Fds, KernelStep(f)
        PROVE  Inv'
    BY <1>7, KernelInv
  <1>8. CASE Lost
    BY <1>1, <1>8 DEF Lost
  <1> QED BY <1>1, <1>2, <1>3, <1>4, <1>5, <1>6, <1>7, <1>8 DEF Next

\* The inductive invariant holds in every reachable state.
LEMMA Inductive == Spec => []Inv
  BY InitInv, NextInv, PTL DEF Spec

\* Every variable keeps its type; in particular the timers that mnet_poll()
\* found due are armed timers.
THEOREM TypeCorrect == Spec => []TypeOK
  <1>1. Inv => TypeOK
    BY DEF Inv
  <1> QED BY <1>1, Inductive, PTL

\* close(n->fd), send(n->fd) and epoll_ctl(n->fd) never hit a descriptor that
\* was recycled for another chann, however the application's calls, the event
\* loop and the peers interleave.
THEOREM OwnsItsSocket == Spec => []SocketOwner
  <1>1. Inv => SocketOwner
    BY DEF Inv
  <1> QED BY <1>1, Inductive, PTL

\* epoll watches each live socket for its own chann, for what n->epoll_events
\* says and for at least what the chann needs to make progress, and nothing
\* else: _evt_add() and _evt_del() never lose track of the kernel.
THEOREM StaysRegistered == Spec => []Registered
  <1>1. Inv => Registered
    BY DEF Inv
  <1> QED BY <1>1, Inductive, PTL

\* Neither a queued epoll event, nor an armed timer, nor the delete list ever
\* refers to a chann_t that mnet_poll() has freed.
THEOREM NeverStale == Spec => []NoStalePointer
  <1>1. Inv => NoStalePointer
    BY DEF Inv
  <1> QED BY <1>1, Inductive, PTL

=============================================================================
