------------------------------ MODULE MnetCore ------------------------------
(***************************************************************************)
(* The channel core of m_net (src/src/mnet_core.c), Linux/epoll build: the *)
(* life of a chann_t, its socket, its registration with epoll, and the     *)
(* mnet_poll()/mnet_result_next() loop that hands events to the one thread *)
(* of the application.  The application is the environment: it makes any   *)
(* API call of Ops in any order, inside and outside the result loop.  The  *)
(* kernel and the peers act between any two steps of the program.          *)
(***************************************************************************)
EXTENDS Integers, FiniteSets

CONSTANTS
  Channs,       \* addresses a chann_t can be allocated at
  Fds,          \* descriptors socket() and accept() can return
  Null,         \* the NULL pointer, and a descriptor that is 0 or -1
  Types,        \* raw types in use: "STREAM", "DGRAM" (BROADCAST is "DGRAM")
  Ops,          \* the API calls the application makes
  Disciplined,  \* the application drains mnet_result_next() before it polls
  MaxCached     \* bound: blocks in one rwb_send (0: socket buffers never fill)

ASSUME NullAssumption == Null \notin Channs /\ Null \notin Fds
ASSUME TypesAssumption == Types \subseteq {"STREAM", "DGRAM"}
ASSUME BoundAssumption == MaxCached \in Nat
ASSUME DisciplinedAssumption == Disciplined \in BOOLEAN

VARIABLES
  \* mnet_t
  init, channs, del_channs, dis_channs, tm_clock,
  tm_due,       \* the timers from tm_pos on that are due in this round
  evt,          \* the entries of evt.array after fd_index
  \* chann_t, one function per field
  ctype, state, fd, epoll_events, active_send_event,
  rwb_send,     \* number of cached blocks
  dis_next,
  msg,          \* the event of n->msg, as far as dis_channs can hand it out
  \* control
  pc,           \* "app": in the application; "next": between two turns of
                \* the loop of _evt_result_next()
  ret,          \* what the last mnet_result_next() returned
  fault,        \* "none", or how the process was lost
  \* the kernel: sockets, unread input, epoll registrations
  sock, rx, kq

kernel == <<sock, rx, kq>>
fields == <<ctype, state, fd, epoll_events, active_send_event, rwb_send>>
dislist == <<dis_channs, dis_next>>
timers == <<tm_clock, tm_due>>
control == <<evt, pc, ret>>
library == <<init, channs, del_channs, dislist, timers, msg, control>>
vars == <<library, fields, fault, kernel>>

States == {"CLOSED", "DISCONNECT", "CONNECTING", "CONNECTED", "LISTENING"}
Events == {"RECV", "SEND", "ACCEPT", "CONNECTED", "DISCONNECT", "TIMER"}
Flags == {"IN", "OUT", "HUP", "ERR"}
Socks == {"free", "idle", "listen", "connecting", "refused", "est", "eof",
          "reset", "dgram"}

Registration == [ptr: Channs \cup {Null}, events: SUBSET Flags]
Unregistered == [ptr |-> Null, events |-> {}]
NoMsg == [n |-> Null, event |-> "none"]

TypeOK ==
  /\ init \in BOOLEAN
  /\ channs \subseteq Channs /\ del_channs \subseteq Channs
  /\ dis_channs \in Channs \cup {Null}
  /\ dis_next \in [Channs -> Channs \cup {Null}]
  /\ tm_clock \subseteq Channs /\ tm_due \subseteq tm_clock
  /\ evt \subseteq Registration
  /\ ctype \in [Channs -> {"STREAM", "DGRAM"}]
  /\ state \in [Channs -> States]
  /\ fd \in [Channs -> Fds \cup {Null}]
  /\ epoll_events \in [Channs -> SUBSET Flags]
  /\ active_send_event \in [Channs -> BOOLEAN]
  /\ rwb_send \in [Channs -> 0..MaxCached]
  /\ msg \in [Channs -> Events \cup {"none"}]
  /\ pc \in {"app", "next"}
  /\ ret \in [n: Channs \cup {Null}, event: Events \cup {"none"}]
  /\ fault \in {"none", "hang", "uaf"}
  /\ sock \in [Fds -> Socks]
  /\ rx \in [Fds -> BOOLEAN]
  /\ kq \in [Fds -> Registration]

Init ==
  /\ init = FALSE /\ channs = {} /\ del_channs = {}
  /\ dis_channs = Null /\ dis_next = [n \in Channs |-> Null]
  /\ tm_clock = {} /\ tm_due = {} /\ evt = {}
  /\ ctype = [n \in Channs |-> "STREAM"]
  /\ state = [n \in Channs |-> "CLOSED"]
  /\ fd = [n \in Channs |-> Null]
  /\ epoll_events = [n \in Channs |-> {}]
  /\ active_send_event = [n \in Channs |-> FALSE]
  /\ rwb_send = [n \in Channs |-> 0]
  /\ msg = [n \in Channs |-> "none"]
  /\ pc = "app" /\ ret = NoMsg /\ fault = "none"
  /\ sock = [f \in Fds |-> "free"]
  /\ rx = [f \in Fds |-> FALSE]
  /\ kq = [f \in Fds |-> Unregistered]
-----------------------------------------------------------------------------
(* Fragments of actions: the static functions the API is built from.       *)

FreeFds == {f \in Fds : sock[f] = "free"}
HasSocket(n) == fd[n] # Null /\ state[n] \notin {"CLOSED", "DISCONNECT"}

\* The process is in the application, which makes an API call; or it calls
\* mnet_result_next() (pc = "app") or is inside it (pc = "next").
InApp == fault = "none" /\ init /\ pc = "app"
InNext == fault = "none" /\ init

\* _rwb_destroy() frees a block only once it is drained, and loops while there
\* are blocks: with unsent data the process never leaves it.
Spins(n) == HasSocket(n) /\ rwb_send[n] > 0

spin ==
  /\ fault' = "hang"
  /\ UNCHANGED <<library, fields, kernel>>

\* close(2): the descriptor is free again and epoll forgets it.
close_fd(f) ==
  /\ sock' = [sock EXCEPT ![f] = "free"]
  /\ rx' = [rx EXCEPT ![f] = FALSE]
  /\ kq' = [kq EXCEPT ![f] = Unregistered]

\* Mutant: n->fd = -1 is forgotten.
disconnect_keeps_fd(n, s) ==
  /\ IF HasSocket(n)
     THEN /\ close_fd(fd[n])
          /\ epoll_events' = [epoll_events EXCEPT ![n] = {}]
     ELSE UNCHANGED <<kernel, epoll_events>>
  /\ state' = [state EXCEPT ![n] = s]
  /\ UNCHANGED <<fd, ctype, active_send_event, rwb_send>>

\* Mutant: the socket is taken out of epoll and not closed.
disconnect_without_close(n, s) ==
  /\ IF HasSocket(n)
     THEN /\ kq' = [kq EXCEPT ![fd[n]] = Unregistered]
          /\ fd' = [fd EXCEPT ![n] = Null]
          /\ epoll_events' = [epoll_events EXCEPT ![n] = {}]
     ELSE UNCHANGED <<kq, fd, epoll_events>>
  /\ state' = [state EXCEPT ![n] = s]
  /\ UNCHANGED <<ctype, active_send_event, rwb_send, sock, rx>>

\* _chann_disconnect_socket() for ~Spins(n), leaving n in state s.
chann_disconnect_socket(n, s) ==
  /\ IF HasSocket(n)
     THEN /\ close_fd(fd[n])
          /\ fd' = [fd EXCEPT ![n] = Null]
          /\ epoll_events' = [epoll_events EXCEPT ![n] = {}]
     ELSE UNCHANGED <<kernel, fd, epoll_events>>
  /\ state' = [state EXCEPT ![n] = s]
  /\ UNCHANGED <<ctype, active_send_event, rwb_send>>

\* The state a disconnect leaves: only a chann with a socket changes it.
Disconnected(n) == IF HasSocket(n) THEN "DISCONNECT" ELSE state[n]

\* _chann_msg(); the filter of the internal types lets every message through.
\* The steps that take a message from the event array return it at once and
\* happen only while nobody is queued on dis_channs, so msg leaves it out.
chann_msg(n, event) == msg' = [msg EXCEPT ![n] = event]

\* Mutant: n->dis_next is not set, the rest of the list is lost.
queue_alone(n) ==
  /\ chann_disconnect_socket(n, Disconnected(n))
  /\ chann_msg(n, "DISCONNECT")
  /\ dis_channs' = n
  /\ UNCHANGED dis_next

\* Mutant: queued with its socket still open.
queue_without_disconnect(n) ==
  /\ chann_msg(n, "DISCONNECT")
  /\ dis_next' = [dis_next EXCEPT ![n] = dis_channs]
  /\ dis_channs' = n
  /\ UNCHANGED <<fields, kernel>>

\* A failed send or recv: the message waits in n->msg on the dis_channs list.
fail_and_queue(n) ==
  /\ chann_disconnect_socket(n, Disconnected(n))
  /\ chann_msg(n, "DISCONNECT")
  /\ dis_next' = [dis_next EXCEPT ![n] = dis_channs]
  /\ dis_channs' = n

\* epoll_ctl() on f: n->epoll_events chooses between ADD and MOD, and the
\* kernel refuses the one that does not fit what it has registered.
epoll_ctl(n, f, events) ==
  IF (epoll_events[n] # {}) <=> (kq[f].events # {})
  THEN /\ kq' = [kq EXCEPT ![f] = [ptr |-> n, events |-> events]]
       /\ epoll_events' = [epoll_events EXCEPT ![n] = events]
  ELSE UNCHANGED <<kq, epoll_events>>

\* Mutant: EPOLLRDHUP is not asked for.
add_without_hup(n, f, flag) == epoll_ctl(n, f, epoll_events[n] \cup {flag})

evt_add(n, f, flag) == epoll_ctl(n, f, epoll_events[n] \cup {flag, "HUP"})
evt_del(n, f, flag) == epoll_ctl(n, f, epoll_events[n] \ {flag})

\* Mutant: the second half is forgotten.
write_to_nothing(n, f) == epoll_ctl(n, f, epoll_events[n] \ {"OUT"})

\* _evt_del(n, WRITE) followed by _evt_add(n, READ)
evt_write_to_read(n, f) ==
  epoll_ctl(n, f, (epoll_events[n] \ {"OUT"}) \cup {"IN", "HUP"})
-----------------------------------------------------------------------------
(* The API.  A call whose guard fails returns at once and changes nothing. *)

mnet_init ==
  /\ fault = "none" /\ ~init
  /\ init' = TRUE
  /\ UNCHANGED <<channs, del_channs, dislist, timers, fields, msg, control,
                 fault, kernel>>

\* A freed chann_t is back to what mm_malloc() hands out: all zero.
zeroed(gone) ==
  /\ ctype' = [n \in Channs |-> IF n \in gone THEN "STREAM" ELSE ctype[n]]
  /\ state' = [n \in Channs |-> IF n \in gone THEN "CLOSED" ELSE state[n]]
  /\ fd' = [n \in Channs |-> IF n \in gone THEN Null ELSE fd[n]]
  /\ epoll_events' = [n \in Channs |-> IF n \in gone THEN {} ELSE epoll_events[n]]
  /\ active_send_event' =
       [n \in Channs |-> IF n \in gone THEN FALSE ELSE active_send_event[n]]
  /\ rwb_send' = [n \in Channs |-> IF n \in gone THEN 0 ELSE rwb_send[n]]
  /\ dis_next' = [n \in Channs |-> IF n \in gone THEN Null ELSE dis_next[n]]
  /\ msg' = [n \in Channs |-> IF n \in gone THEN "none" ELSE msg[n]]

\* mnet_fini(): every chann is disconnected, closed and destroyed, the epoll
\* descriptor is closed and mnet_t is cleared.
mnet_fini ==
  /\ InApp /\ "fini" \in Ops
  /\ IF \E n \in channs : Spins(n)
     THEN spin
     ELSE LET closed == {fd[n] : n \in {c \in channs : HasSocket(c)}} IN
          /\ sock' = [f \in Fds |-> IF f \in closed THEN "free" ELSE sock[f]]
          /\ rx' = [f \in Fds |-> rx[f] /\ f \notin closed]
          /\ kq' = [f \in Fds |-> Unregistered]
          /\ zeroed(Channs)
          /\ init' = FALSE /\ channs' = {} /\ del_channs' = {}
          /\ dis_channs' = Null /\ tm_clock' = {} /\ tm_due' = {}
          /\ evt' = {} /\ ret' = NoMsg
          /\ UNCHANGED <<pc, fault>>

mnet_chann_open(n, t) ==
  /\ InApp /\ n \notin channs
  /\ channs' = channs \cup {n}
  /\ ctype' = [ctype EXCEPT ![n] = t]
  /\ state' = [state EXCEPT ![n] = "DISCONNECT"]
  /\ UNCHANGED <<init, del_channs, dislist, timers, fd, epoll_events,
                 active_send_event, rwb_send, msg, control, fault, kernel>>

\* Mutant: the chann is freed at once, not by the next mnet_poll().
close_frees(n) ==
  /\ InApp /\ n \in channs /\ ~HasSocket(n)
  /\ channs' = channs \ {n} /\ tm_clock' = tm_clock \ {n}
  /\ tm_due' = tm_due \ {n}
  /\ zeroed({n})
  /\ UNCHANGED <<init, del_channs, dis_channs, control, fault, kernel>>

mnet_chann_close(n) ==
  /\ InApp /\ n \in channs /\ state[n] # "CLOSED"
  /\ IF Spins(n)
     THEN spin
     ELSE /\ chann_disconnect_socket(n, "CLOSED")
          /\ del_channs' = del_channs \cup {n}
          /\ UNCHANGED <<init, channs, dislist, timers, msg, control, fault>>

mnet_chann_disconnect(n) ==
  /\ InApp /\ "disconnect" \in Ops /\ n \in channs /\ HasSocket(n)
  /\ IF Spins(n)
     THEN spin
     ELSE /\ chann_disconnect_socket(n, "DISCONNECT")
          /\ UNCHANGED <<library, fault>>

\* _chann_open_socket() gave n the descriptor f, in kernel state k; n goes to
\* state s and registers for flag.
open_socket(n, f, k, s, flag) ==
  /\ sock' = [sock EXCEPT ![f] = k]
  /\ fd' = [fd EXCEPT ![n] = f]
  /\ state' = [state EXCEPT ![n] = s]
  /\ evt_add(n, f, flag)
  /\ UNCHANGED <<rx, ctype, active_send_event, rwb_send>>

mnet_chann_listen(n, f) ==
  /\ InApp /\ "listen" \in Ops
  /\ n \in channs /\ state[n] = "DISCONNECT" /\ f \in FreeFds
  /\ open_socket(n, f, IF ctype[n] = "STREAM" THEN "listen" ELSE "dgram",
                 "LISTENING", "IN")
  /\ UNCHANGED <<library, fault>>

mnet_chann_connect(n, f) ==
  /\ InApp /\ "connect" \in Ops
  /\ n \in channs /\ state[n] = "DISCONNECT" /\ f \in FreeFds
  /\ IF ctype[n] = "STREAM"
     THEN open_socket(n, f, "connecting", "CONNECTING", "OUT")
     ELSE open_socket(n, f, "dgram", "CONNECTED", "IN")
  /\ UNCHANGED <<library, fault>>

\* connect(2) fails at once (no route, say): n->fd is already set, the state
\* is not, and nothing closes the descriptor.
mnet_chann_connect_fails(n, f) ==
  /\ InApp /\ "connect_fails" \in Ops
  /\ n \in channs /\ state[n] = "DISCONNECT" /\ ctype[n] = "STREAM"
  /\ f \in FreeFds
  /\ sock' = [sock EXCEPT ![f] = "idle"]
  /\ fd' = [fd EXCEPT ![n] = f]
  /\ UNCHANGED <<library, ctype, state, epoll_events, active_send_event,
                 rwb_send, fault, rx, kq>>

\* Mutant: switching the event off forgets that data is still cached.
send_event_off_stops_flush(n, v) ==
  /\ InApp /\ "active_send" \in Ops
  /\ n \in channs /\ state[n] = "CONNECTED" /\ active_send_event[n] # v
  /\ active_send_event' = [active_send_event EXCEPT ![n] = v]
  /\ IF v THEN evt_add(n, fd[n], "OUT") ELSE evt_del(n, fd[n], "OUT")
  /\ UNCHANGED <<library, ctype, state, fd, rwb_send, fault, sock, rx>>

\* mnet_chann_active_event(n, CHANN_EVENT_SEND, v)
active_event_send(n, v) ==
  /\ InApp /\ "active_send" \in Ops
  /\ n \in channs /\ state[n] = "CONNECTED" /\ active_send_event[n] # v
  /\ active_send_event' = [active_send_event EXCEPT ![n] = v]
  /\ IF v THEN evt_add(n, fd[n], "OUT")
     ELSE IF rwb_send[n] = 0 THEN evt_del(n, fd[n], "OUT")
     ELSE UNCHANGED <<kq, epoll_events>>
  /\ UNCHANGED <<library, ctype, state, fd, rwb_send, fault, sock, rx>>

\* mnet_chann_active_event(n, CHANN_EVENT_TIMER, v), v = arm: _tm_active() or
\* _tm_update(), otherwise _tm_kill().  While tm_pos is live (timers are still
\* due, or the last result was one) the application touches only the timer
\* it is being told about.
active_event_timer(n, arm) ==
  /\ InApp /\ "timer" \in Ops
  /\ n \in channs /\ state[n] # "CLOSED"
  /\ (tm_due = {} /\ ret.event # "TIMER") \/ ret = [n |-> n, event |-> "TIMER"]
  /\ tm_clock' = IF arm THEN tm_clock \cup {n} ELSE tm_clock \ {n}
  /\ tm_due' = tm_due \ {n}
  /\ UNCHANGED <<init, channs, del_channs, dislist, fields, msg, control,
                 fault, kernel>>

\* recv and send check n->state >= CHANN_STATE_CONNECTED, which lets them
\* through on a listening STREAM chann too: an application that does that is
\* one whose Ops include "misuse".
Usable(n) ==
  /\ n \in channs /\ state[n] \in {"CONNECTED", "LISTENING"}
  /\ state[n] = "LISTENING" /\ ctype[n] = "STREAM" => "misuse" \in Ops

\* What recv(2) and send(2) can answer on each kind of socket.
RecvFails(f) == sock[f] \in {"refused", "reset", "listen"}
SendTakes(f) == sock[f] \in {"est", "eof", "dgram"}
SendBlocks(f) == SendTakes(f) \/ sock[f] = "connecting"
SendFails(f) == sock[f] \in {"refused", "reset", "listen", "dgram"}

\* The call took input; some may be left unread.
mnet_chann_recv(n, left) ==
  /\ InApp /\ "recv" \in Ops /\ Usable(n)
  /\ ~RecvFails(fd[n]) /\ rx[fd[n]]
  /\ rx' = [rx EXCEPT ![fd[n]] = left]
  /\ UNCHANGED <<library, fields, fault, sock, kq>>

mnet_chann_recv_fails(n) ==
  /\ InApp /\ "recv" \in Ops /\ Usable(n) /\ RecvFails(fd[n])
  /\ IF Spins(n)
     THEN spin
     ELSE /\ fail_and_queue(n)
          /\ UNCHANGED <<init, channs, del_channs, timers, control, fault>>

\* Data is queued behind cached data, or the socket took less than all of it;
\* a call the socket takes entirely leaves the state alone.
mnet_chann_send_cached(n) ==
  /\ InApp /\ "send" \in Ops /\ Usable(n)
  /\ rwb_send[n] < MaxCached
  /\ rwb_send[n] > 0 \/ SendBlocks(fd[n])
  /\ rwb_send' = [rwb_send EXCEPT ![n] = @ + 1]
  /\ IF rwb_send[n] > 0
     THEN UNCHANGED <<kq, epoll_events>>
     ELSE evt_add(n, fd[n], "OUT")
  /\ UNCHANGED <<library, ctype, state, fd, active_send_event, fault, sock,
                 rx>>

mnet_chann_send_fails(n) ==
  /\ InApp /\ "send" \in Ops /\ Usable(n)
  /\ rwb_send[n] = 0 /\ SendFails(fd[n])
  /\ fail_and_queue(n)
  /\ UNCHANGED <<init, channs, del_channs, timers, control, fault>>

\* mnet_dgram_send() on a DGRAM chann without a socket connects it and sends.
\* With a socket it is mnet_chann_send(), and when the datagram is taken it is
\* mnet_chann_connect().
mnet_dgram_send_cached(n, f) ==
  /\ InApp /\ "dgram_send" \in Ops /\ MaxCached > 0
  /\ n \in channs /\ ctype[n] = "DGRAM" /\ state[n] = "DISCONNECT"
  /\ f \in FreeFds
  /\ sock' = [sock EXCEPT ![f] = "dgram"]
  /\ fd' = [fd EXCEPT ![n] = f]
  /\ state' = [state EXCEPT ![n] = "CONNECTED"]
  /\ epoll_ctl(n, f, epoll_events[n] \cup {"IN", "OUT", "HUP"})
  /\ rwb_send' = [rwb_send EXCEPT ![n] = 1]
  /\ UNCHANGED <<library, ctype, active_send_event, fault, rx>>

\* The send fails: the socket just opened is closed again.
mnet_dgram_send_fails(n) ==
  /\ InApp /\ "dgram_send" \in Ops
  /\ n \in channs /\ ctype[n] = "DGRAM" /\ state[n] = "DISCONNECT"
  /\ FreeFds # {}
  /\ fail_and_queue(n)
  /\ UNCHANGED <<init, channs, del_channs, timers, control, fault>>
-----------------------------------------------------------------------------
(* mnet_poll() and mnet_result_next().                                     *)

Drained == tm_due = {} /\ dis_channs = Null /\ evt = {}

\* What epoll sees on socket f when the sockets of W have room to send.
Ready(f, W) ==
  {flag \in Flags :
     \/ sock[f] \in {"refused", "reset"}
     \/ flag = "IN" /\ (rx[f] \/ sock[f] = "eof")
     \/ flag = "HUP" /\ sock[f] = "eof"
     \/ flag = "OUT" /\ f \in W /\ sock[f] \in {"est", "eof", "dgram"}}

\* epoll_wait(): errors are reported whether asked for or not; "HUP" is the
\* peer's half-close (EPOLLRDHUP), reported only where it is asked for.
Reported(f, W) == Ready(f, W) \cap (kq[f].events \cup {"ERR"})
epoll_wait(W) ==
  {[ptr |-> kq[f].ptr, events |-> Reported(f, W)] :
     f \in {g \in Fds : kq[g].events # {} /\ Reported(g, W) # {}}}

\* Mutant: the due timers are found before the closed channs are destroyed.
schedule_before_destroy(due, W) ==
  /\ InApp /\ (Disciplined => Drained)
  /\ channs' = channs \ del_channs
  /\ zeroed(del_channs)
  /\ del_channs' = {}
  /\ tm_clock' = tm_clock \ del_channs
  /\ due \subseteq tm_clock /\ tm_due' = due
  /\ evt' = epoll_wait(W)
  /\ ret' = NoMsg
  /\ UNCHANGED <<init, dis_channs, pc, fault, kernel>>

\* _evt_poll(): destroy the closed channs, find the timers that are due, wait.
mnet_poll(due, W) ==
  /\ InApp /\ (Disciplined => Drained)
  /\ channs' = channs \ del_channs
  /\ zeroed(del_channs)
  /\ del_channs' = {}
  /\ tm_clock' = tm_clock \ del_channs
  /\ due \subseteq tm_clock' /\ tm_due' = due
  /\ evt' = epoll_wait(W)
  /\ ret' = NoMsg
  /\ UNCHANGED <<init, dis_channs, pc, fault, kernel>>

\* One turn of the for (;;) of _evt_result_next() is one step.  Some turns
\* return a message:
returns(n, event) == pc' = "app" /\ ret' = [n |-> n, event |-> event]

\* _tm_next(): timers come first; the timer is re-armed.
next_timer(n) ==
  /\ InNext /\ n \in tm_due
  /\ tm_due' = tm_due \ {n}
  /\ chann_msg(n, "TIMER") /\ returns(n, "TIMER")
  /\ UNCHANGED <<init, channs, del_channs, dislist, tm_clock, fields, evt,
                 fault, kernel>>

\* Then the head of dis_channs, whatever n->msg holds by now.  A chann that
\* was freed while it was on the list is read all the same.
next_disconnected ==
  /\ InNext /\ tm_due = {} /\ dis_channs # Null
  /\ IF dis_channs \in channs
     THEN /\ returns(dis_channs, msg[dis_channs])
          /\ dis_channs' = dis_next[dis_channs]
          /\ UNCHANGED fault
     ELSE /\ fault' = "uaf"
          /\ UNCHANGED <<pc, ret, dis_channs>>
  /\ UNCHANGED <<init, channs, del_channs, dis_next, timers, fields, msg, evt,
                 kernel>>

next_none ==
  /\ InNext /\ Drained
  /\ pc' = "app" /\ ret' = NoMsg
  /\ UNCHANGED <<init, channs, del_channs, dislist, timers, fields, msg, evt,
                 fault, kernel>>

\* The next entry of evt.array is kev: no timer is due, nobody is queued.
at(kev) == InNext /\ tm_due = {} /\ dis_channs = Null /\ kev \in evt
take(kev) ==
  /\ evt' = evt \ {kev}
  /\ UNCHANGED <<init, del_channs, dislist, timers, msg, fault>>

HasError(kev) == kev.events \cap {"ERR", "HUP"} # {}
\* Mutant: only the descriptor is looked at.
skip_no_fd(n) == fd[n] = Null
Skipped(n) == state[n] = "CLOSED" \/ fd[n] = Null
Healthy(kev, s) ==
  at(kev) /\ ~Skipped(kev.ptr) /\ ~HasError(kev) /\ state[kev.ptr] = s
continues == pc' = "next" /\ ret' = NoMsg

\* Entries nothing is done for: a closed or disconnected chann, and a chann
\* whose reconnect failed at once.
kev_ignored(kev) ==
  /\ at(kev)
  /\ Skipped(kev.ptr) \/ Healthy(kev, "DISCONNECT")
  /\ take(kev) /\ continues
  /\ UNCHANGED <<channs, fields, kernel>>

\* Drop n's socket and report it, from inside _evt_result_next().
drop_and_report(n, kev) ==
  IF Spins(n)
  THEN spin
  ELSE /\ take(kev) /\ UNCHANGED channs
       /\ chann_disconnect_socket(n, Disconnected(n))
       /\ returns(n, "DISCONNECT")

\* Error and hang-up are looked at first, whatever else the entry says.
kev_error(kev) ==
  /\ at(kev) /\ ~Skipped(kev.ptr) /\ HasError(kev)
  /\ drop_and_report(kev.ptr, kev)

\* _chann_accept(): accept(2) gives f, the new chann is c; more connections
\* may be waiting.
kev_accept(kev, c, f, more) ==
  LET n == kev.ptr IN
  /\ Healthy(kev, "LISTENING") /\ ctype[n] = "STREAM"
  /\ rx[fd[n]] /\ c \notin channs /\ f \in FreeFds
  /\ take(kev)
  /\ channs' = channs \cup {c}
  /\ ctype' = [ctype EXCEPT ![c] = ctype[n]]
  /\ state' = [state EXCEPT ![c] = "CONNECTED"]
  /\ fd' = [fd EXCEPT ![c] = f]
  /\ sock' = [sock EXCEPT ![f] = "est"]
  /\ rx' = [rx EXCEPT ![fd[n]] = more]
  /\ evt_add(c, f, "IN")
  /\ returns(n, "ACCEPT")
  /\ UNCHANGED <<active_send_event, rwb_send>>

\* accept(2) fails: nobody is waiting any more, or no descriptor (or, the
\* bound of the model, no chann_t) is left.
kev_accept_fails(kev) ==
  /\ Healthy(kev, "LISTENING") /\ ctype[kev.ptr] = "STREAM"
  /\ ~rx[fd[kev.ptr]] \/ FreeFds = {} \/ channs = Channs
  /\ take(kev) /\ continues
  /\ UNCHANGED <<channs, fields, kernel>>

\* accept(2) gives f and _set_nonblocking(f) fails: the descriptor is dropped
\* without being closed.
kev_accept_lost(kev, f, more) ==
  LET n == kev.ptr IN
  /\ Healthy(kev, "LISTENING") /\ ctype[n] = "STREAM"
  /\ "nonblock_fails" \in Ops /\ rx[fd[n]] /\ f \in FreeFds
  /\ take(kev) /\ continues
  /\ sock' = [sock EXCEPT ![f] = "est"]
  /\ rx' = [rx EXCEPT ![fd[n]] = more]
  /\ UNCHANGED <<channs, fields, kq>>

\* A listening DGRAM chann reports RECV for every entry; a connected chann
\* reports it when there is input, and looks at OUT only when there is none.
kev_recv(kev) ==
  /\ \/ Healthy(kev, "LISTENING") /\ ctype[kev.ptr] = "DGRAM"
     \/ Healthy(kev, "CONNECTED") /\ "IN" \in kev.events
  /\ take(kev)
  /\ returns(kev.ptr, "RECV")
  /\ UNCHANGED <<channs, fields, kernel>>

\* CONNECTING is decided by SO_ERROR alone.
HasSoError(f) == sock[f] \in {"refused", "reset"}

kev_connected(kev) ==
  LET n == kev.ptr IN
  /\ Healthy(kev, "CONNECTING") /\ ~HasSoError(fd[n])
  /\ take(kev)
  /\ evt_write_to_read(n, fd[n])
  /\ state' = [state EXCEPT ![n] = "CONNECTED"]
  /\ returns(n, "CONNECTED")
  /\ UNCHANGED <<channs, ctype, fd, active_send_event, rwb_send, sock, rx>>

kev_connect_fails(kev) ==
  /\ Healthy(kev, "CONNECTING") /\ HasSoError(fd[kev.ptr])
  /\ drop_and_report(kev.ptr, kev)

Flushable(kev) ==
  Healthy(kev, "CONNECTED") /\ "IN" \notin kev.events /\ "OUT" \in kev.events

\* Mutant: EPOLLOUT is given up before the application is told.
flushed_drops_out(kev) ==
  LET n == kev.ptr IN
  /\ Flushable(kev)
  /\ rwb_send[n] = 0 \/ SendTakes(fd[n])
  /\ take(kev)
  /\ rwb_send' = [rwb_send EXCEPT ![n] = 0]
  /\ evt_del(n, fd[n], "OUT")
  /\ IF active_send_event[n] THEN returns(n, "SEND") ELSE continues
  /\ UNCHANGED <<channs, ctype, state, fd, active_send_event, sock, rx>>

\* _chann_sended_rwb() has nothing left to send: tell the application, or
\* stop watching OUT.
kev_flushed(kev) ==
  LET n == kev.ptr IN
  /\ Flushable(kev)
  /\ rwb_send[n] = 0 \/ SendTakes(fd[n])
  /\ take(kev)
  /\ rwb_send' = [rwb_send EXCEPT ![n] = 0]
  /\ IF active_send_event[n]
     THEN /\ returns(n, "SEND")
          /\ UNCHANGED <<kq, epoll_events>>
     ELSE evt_del(n, fd[n], "OUT") /\ continues
  /\ UNCHANGED <<channs, ctype, state, fd, active_send_event, sock, rx>>

\* The socket filled up again with left blocks to go.
kev_flush_blocks(kev, left) ==
  LET n == kev.ptr IN
  /\ Flushable(kev) /\ SendBlocks(fd[n]) /\ left \in 1..rwb_send[n]
  /\ take(kev) /\ continues
  /\ rwb_send' = [rwb_send EXCEPT ![n] = left]
  /\ UNCHANGED <<channs, ctype, state, fd, epoll_events, active_send_event,
                 kernel>>

\* A failed send disconnects while the block that failed is still cached.
kev_flush_fails(kev) ==
  /\ Flushable(kev) /\ rwb_send[kev.ptr] > 0 /\ SendFails(fd[kev.ptr])
  /\ spin
-----------------------------------------------------------------------------
(* The kernel and the peers, at any moment while the process runs.         *)

SockStep(f, from, to) ==
  /\ fault = "none" /\ sock[f] \in from
  /\ sock' = [sock EXCEPT ![f] = to]
  /\ UNCHANGED <<library, fields, fault, rx, kq>>

ConnectDone(f) == SockStep(f, {"connecting"}, "est")
ConnectFail(f) == SockStep(f, {"connecting"}, "refused")
PeerFin(f) == SockStep(f, {"est"}, "eof")
PeerReset(f) == SockStep(f, {"est", "eof"}, "reset")

\* Data for a stream or datagram socket, a connection for a listening one.
Arrive(f) ==
  /\ fault = "none" /\ sock[f] \in {"est", "dgram", "listen"} /\ ~rx[f]
  /\ rx' = [rx EXCEPT ![f] = TRUE]
  /\ UNCHANGED <<library, fields, fault, sock, kq>>

\* A process that is lost stays lost.
Lost == fault # "none" /\ UNCHANGED vars
-----------------------------------------------------------------------------
AppCall(n) ==
  \/ \E t \in Types : mnet_chann_open(n, t)
  \/ mnet_chann_close(n)
  \/ mnet_chann_disconnect(n)
  \/ \E f \in Fds : \/ mnet_chann_listen(n, f)
                    \/ mnet_chann_connect(n, f)
                    \/ mnet_chann_connect_fails(n, f)
                    \/ mnet_dgram_send_cached(n, f)
  \/ \E v \in BOOLEAN : \/ active_event_send(n, v)
                        \/ active_event_timer(n, v)
                        \/ mnet_chann_recv(n, v)
  \/ mnet_chann_recv_fails(n)
  \/ mnet_chann_send_cached(n)
  \/ mnet_chann_send_fails(n)
  \/ mnet_dgram_send_fails(n)

\* Sockets have room to send or not; always, where buffers never fill.
Rooms == IF MaxCached = 0 THEN {Fds} ELSE SUBSET Fds
Poll == \E due \in SUBSET tm_clock, W \in Rooms : mnet_poll(due, W)

KevStep(kev) ==
  \/ kev_ignored(kev)
  \/ kev_error(kev)
  \/ \E c \in Channs, f \in Fds, more \in BOOLEAN : kev_accept(kev, c, f, more)
  \/ kev_accept_fails(kev)
  \/ \E f \in Fds, more \in BOOLEAN : kev_accept_lost(kev, f, more)
  \/ kev_recv(kev)
  \/ kev_connected(kev)
  \/ kev_connect_fails(kev)
  \/ kev_flushed(kev)
  \/ \E left \in 1..MaxCached : kev_flush_blocks(kev, left)
  \/ kev_flush_fails(kev)

NextStep ==
  \/ \E n \in tm_due : next_timer(n)
  \/ next_disconnected
  \/ next_none
  \/ \E kev \in evt : KevStep(kev)

KernelStep(f) ==
  ConnectDone(f) \/ ConnectFail(f) \/ PeerFin(f) \/ PeerReset(f) \/ Arrive(f)

Next ==
  \/ mnet_init
  \/ mnet_fini
  \/ \E n \in Channs : AppCall(n)
  \/ Poll
  \/ NextStep
  \/ \E f \in Fds : KernelStep(f)
  \/ Lost

Spec == Init /\ [][Next]_vars

\* The program keeps running its loop: mnet_result_next() is called again and
\* returns, and the application comes back to mnet_poll().
Fairness ==
  /\ WF_vars(NextStep)
  /\ SF_vars(Poll)
FairSpec == Spec /\ Fairness
-----------------------------------------------------------------------------
(* Safety.  Nothing is claimed of a process that is lost.                  *)

Running == fault = "none"

\* Kernel states the socket of a chann can be in, by the state of the chann.
\* A chann without a connection can still hold a socket whose connect() failed.
Kinds(n) ==
  IF state[n] \in {"CLOSED", "DISCONNECT"} THEN {"idle"}
  ELSE IF ctype[n] = "DGRAM" THEN {"dgram"}
  ELSE IF state[n] = "LISTENING" THEN {"listen"}
  ELSE {"connecting", "refused", "est", "eof", "reset"}

\* The descriptor in n->fd is always open, of the kind n->state says, and no
\* other chann's: close(n->fd) and send(n->fd) never hit a recycled descriptor.
SocketOwner ==
  Running =>
    /\ \A n \in Channs : fd[n] # Null => n \in channs /\ sock[fd[n]] \in Kinds(n)
    /\ \A n \in Channs : fd[n] = Null => state[n] \in {"CLOSED", "DISCONNECT"}
    /\ \A m, n \in Channs : m # n /\ fd[m] = fd[n] => fd[m] = Null

\* The events the event loop relies on for n to make progress.
Needed(n) ==
  {"HUP"} \cup (IF state[n] = "CONNECTING" THEN {"OUT"} ELSE {"IN"})
          \cup (IF rwb_send[n] > 0 THEN {"OUT"} ELSE {})

\* epoll and n->epoll_events never drift apart: a live socket is registered
\* under its own chann with the events n->epoll_events says, which include the
\* ones its state and its cached data need; nothing else is registered, and
\* only a chann with a connection has cached data.
Registered ==
  Running =>
    /\ \A n \in Channs : HasSocket(n) =>
         /\ kq[fd[n]] = [ptr |-> n, events |-> epoll_events[n]]
         /\ Needed(n) \subseteq epoll_events[n]
    /\ \A n \in Channs : ~HasSocket(n) => epoll_events[n] = {}
    /\ \A f \in Fds : kq[f].events # {} =>
         kq[f].ptr \in channs /\ HasSocket(kq[f].ptr) /\ fd[kq[f].ptr] = f
    /\ \A n \in Channs : rwb_send[n] > 0 => state[n] \in {"CONNECTED", "LISTENING"}

\* Neither the event array, nor the timers, nor the delete list point to a
\* freed chann_t, and the delete list holds exactly the closed ones: each is
\* freed once, by the next mnet_poll().
NoStalePointer ==
  Running =>
    /\ \A kev \in evt : kev.ptr \in channs
    /\ tm_clock \subseteq channs
    /\ del_channs = {n \in channs : state[n] = "CLOSED"}
    /\ \A n \in Channs \ channs : state[n] = "CLOSED"

\* An application that takes every result before it polls again never makes
\* the library read a freed chann_t from the dis_channs list.
NoUseAfterFree == fault # "uaf"

\* An event that epoll_wait() collected is never reported for a chann that a
\* handler closed meanwhile.  (Timers and queued disconnects may be.)
ClosedStaysSilent ==
  [][evt' # evt /\ ret'.n # Null => state[ret'.n] # "CLOSED"]_vars

\* S holds every chann that the dis_channs list runs through, and n is on the
\* list.
Spans(S) ==
  /\ dis_channs \in S \cup {Null}
  /\ \A n \in S : dis_next[n] \in S \cup {Null}
Queued(n) == \A S \in SUBSET Channs : Spans(S) => n \in S

\* The list of queued disconnects has no cycle: followed from its head it leaves
\* every set of channs, and so comes to NULL.  A STREAM chann cannot fail a
\* second call before its first DISCONNECT is taken; a DGRAM chann can, since
\* mnet_dgram_send() reconnects it at once.
DisListEnds ==
  Running => \A S \in SUBSET Channs :
    dis_channs \in S => \E n \in S : dis_next[n] \notin S

\* A chann leaves the list of queued disconnects only when mnet_result_next()
\* hands it out or mnet_fini() ends everything: neither a failed call of another
\* chann, nor closing channs that are on the list, nor the poll that frees them
\* loses anybody.
QueueLosesNobody ==
  [][\A n \in Channs : Queued(n) /\ ~Queued(n)' => ret'.n = n \/ ~init']_vars

\* Every open descriptor belongs to a chann that can still close it, as long
\* as no connect(2) fails at once and every accepted one is made non-blocking.
NoFdLeak == \A f \in Fds : sock[f] # "free" => \E n \in channs : fd[n] = f

\* A connected chann that asked for CHANN_EVENT_SEND watches EPOLLOUT, as long
\* as it is never reconnected.
SendEventArmed ==
  Running => \A n \in Channs :
    state[n] = "CONNECTED" /\ active_send_event[n] => "OUT" \in epoll_events[n]
-----------------------------------------------------------------------------
(* What the documentation promises and the code does not always keep.      *)

\* Closing, disconnecting or losing a chann never blocks the caller.
NoHang == fault # "hang"

\* CHANN_EVENT_CONNECTED is reported for an established connection.
ConnectedIsConnected ==
  [][ret' # ret /\ ret'.event = "CONNECTED" =>
       sock[fd[ret'.n]] # "connecting"]_vars

\* What mnet_result_next() hands out from the list of failed calls is the
\* disconnect, not another event.
QueuedIsDisconnect ==
  [][dis_channs # Null /\ tm_due = {} /\ ret' # ret /\ ret'.n = dis_channs =>
       ret'.event = "DISCONNECT"]_vars
-----------------------------------------------------------------------------
(* Liveness, under FairSpec.                                               *)

\* A connection the peer ended, or a connect that failed, is noticed: its
\* socket is closed, with no call of the application needed.
PeerEndNoticed ==
  \A f \in Fds : sock[f] \in {"eof", "reset", "refused"} ~> sock[f] = "free"

\* Input on an open connection is reported to the application, unless the
\* connection ends or the input is taken first.
InputReported ==
  \A f \in Fds : sock[f] = "est" /\ rx[f] ~>
    \/ ~rx[f] \/ sock[f] # "est"
    \/ ret.event = "RECV" /\ fd[ret.n] = f
=============================================================================
