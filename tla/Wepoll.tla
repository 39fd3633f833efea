------------------------------- MODULE Wepoll -------------------------------
(* epoll for Windows, src/src/wepoll.c: the event back end of the Windows    *)
(* build.  Threads call epoll_create, epoll_ctl, epoll_wait and epoll_close  *)
(* on one port.  A registered socket has a sock_state whose AFD poll         *)
(* completes through the port's completion port (IOCP); completed polls are  *)
(* fed back, and sock_states on the update queue get a new poll.             *)
(*                                                                           *)
(* The port's critical section is held in `lock` across the steps of a call  *)
(* that loop over queues; GetQueuedCompletionStatusEx runs without it.  The  *)
(* update queue, the deleted queue and the completion port are sets: their   *)
(* order is left out.  Poll groups keep their order, which decides reuse.    *)
EXTENDS Integers, Sequences, FiniteSets

CONSTANTS Threads,
          Waiters,        \* the threads that call epoll_wait
          Callers,        \* the threads that call the other functions
          Sockets,
          Objs,           \* addresses sock__alloc() can hand out; none left is ENOMEM
          Interests,      \* event sets the application passes to epoll_ctl
          Signals,        \* AFD events the network can raise on a socket
          Timeouts,       \* subset of {"zero", "timed", "forever"}
          MaxEvents,      \* maxevents of epoll_wait
          MaxGroupSize,   \* POLL_GROUP__MAX_GROUP_SIZE, 32 in the code
          MaxCalls,       \* calls of epoll_ctl, epoll_wait and epoll_close
          MaxFaults,      \* failures of AFD requests and allocations
          Nil

ASSUME WepollAssumption ==
    /\ Waiters \subseteq Threads /\ Callers \subseteq Threads
    /\ IsFiniteSet(Objs) /\ IsFiniteSet(Threads)
    /\ Nil \notin Objs /\ Nil \notin Threads
    /\ MaxEvents \in Nat \ {0} /\ MaxGroupSize \in Nat \ {0} /\ MaxFaults \in Nat /\ MaxCalls \in Nat
    /\ Timeouts \subseteq {"zero", "timed", "forever"}

(* SOCK__KNOWN_EPOLL_EVENTS; the RDNORM/WRNORM/RDBAND/WRBAND twins are merged *)
Known == {"IN", "PRI", "OUT", "ERR", "HUP", "RDHUP"}
Epoll == Known \cup {"ONESHOT"}
Afd == {"RECEIVE", "EXPEDITED", "SEND", "DISCONNECT", "ABORT", "CONNECT_FAIL", "LOCAL_CLOSE"}
Failed == {"FAILED"}      \* the result of a poll that ended with an error status

ASSUME EventAssumption == Interests \subseteq SUBSET Epoll /\ Signals \subseteq Afd \ {"LOCAL_CLOSE"}

VARIABLES
    port,      \* "none", "open" (the handle works), "closed" (iocp_handle = NULL)
    reg,       \* the handle is in epoll__handle_tree
    refs,      \* reflock: references held
    destroy,   \* reflock: the DESTROY bit
    lock,      \* holder of port_state->lock across steps, or Nil
    active,    \* active_poll_count
    tree,      \* sock_tree: socket -> sock_state or Nil
    objs,      \* allocated sock_states
    sk,        \* their fields
    upd,       \* sock_update_queue
    del,       \* sock_deleted_queue
    gq,        \* poll_group_queue
    gsize,     \* group_size of each group
    pc,        \* where a thread is in its call
    arg,       \* its arguments
    got,       \* completions it took from the port and has not fed yet
    n,         \* events it has found (epoll_event_count > 0)
    kst,       \* the kernel's side of a sock_state's poll ("stray": it was freed by epoll_close)
    kev,       \* what the completed poll reports
    iocp,      \* completions waiting in the completion port
    ready,     \* conditions that hold on a socket
    shut,      \* sockets closed with closesocket()
    calls,     \* calls so far
    faults     \* failures so far

portVars == <<port, reg, refs, destroy>>
sockVars == <<tree, objs, sk, upd, del, gq, gsize>>
thrVars == <<pc, arg, got, n>>
kernVars == <<kst, kev, iocp>>
netVars == <<ready, shut>>
vars == <<portVars, lock, active, sockVars, thrVars, kernVars, netVars, calls, faults>>

-----------------------------------------------------------------------------
(* Event masks *)

(* sock__epoll_events_to_afd_events(): what a poll for these events watches  *)
ToAfd(es) ==
    {"LOCAL_CLOSE"}
      \cup (IF "IN" \in es THEN {"RECEIVE", "DISCONNECT"} ELSE {})
      \cup (IF "PRI" \in es THEN {"EXPEDITED"} ELSE {})
      \cup (IF "OUT" \in es THEN {"SEND"} ELSE {})
      \cup (IF "RDHUP" \in es THEN {"DISCONNECT"} ELSE {})
      \cup (IF "HUP" \in es THEN {"ABORT"} ELSE {})
      \cup (IF "ERR" \in es THEN {"CONNECT_FAIL"} ELSE {})

(* sock__afd_events_to_epoll_events() *)
ToEpoll(as) ==
    (IF "RECEIVE" \in as THEN {"IN"} ELSE {})
      \cup (IF "EXPEDITED" \in as THEN {"PRI"} ELSE {})
      \cup (IF "SEND" \in as THEN {"OUT"} ELSE {})
      \cup (IF "DISCONNECT" \in as THEN {"IN", "RDHUP"} ELSE {})
      \cup (IF "ABORT" \in as THEN {"HUP"} ELSE {})
      \cup (IF "CONNECT_FAIL" \in as THEN {"IN", "OUT", "ERR", "RDHUP"} ELSE {})

-----------------------------------------------------------------------------
(* Poll groups *)

(* queue_remove() of the group's node, which is on the queue once or not yet *)
Without(q, g) ==
    IF \E i \in DOMAIN q : q[i] = g
    THEN LET i == CHOOSE i \in DOMAIN q : q[i] = g IN
            [j \in 1..(Len(q) - 1) |-> q[IF j < i THEN j ELSE j + 1]]
    ELSE q

(* poll_group_acquire(): the last group if it has room, else a new one *)
NeedGroup == IF gq = <<>> THEN TRUE ELSE gsize[gq[Len(gq)]] >= MaxGroupSize
Group == IF NeedGroup THEN Len(gq) + 1 ELSE gq[Len(gq)]
PollGroupAcquire ==
    /\ gsize' = [gsize EXCEPT ![Group] = @ + 1]
    /\ gq' = IF gsize[Group] + 1 = MaxGroupSize
             THEN <<Group>> \o Without(gq, Group)
             ELSE IF NeedGroup THEN Append(gq, Group) ELSE gq

\* Mutant: a group that has room again stays where it is.
release_in_place(g) ==
    /\ gsize' = [gsize EXCEPT ![g] = @ - 1]
    /\ UNCHANGED gq

(* poll_group_release(): a group with room goes to the end of the queue *)
PollGroupRelease(g) ==
    /\ gsize' = [gsize EXCEPT ![g] = @ - 1]
    /\ gq' = Append(Without(gq, g), g)

(* poll_group_acquire() undone by sock_new()'s error path *)
AcquireAndRelease ==
    /\ gq' = Append(Without(gq, Group), Group)
    /\ UNCHANGED gsize

-----------------------------------------------------------------------------
(* sock_state *)

NewSock(s, g, ue) == [sock |-> s, grp |-> g, ue |-> ue, pe |-> {}, st |-> "IDLE", dp |-> FALSE]
NoSock == NewSock(Nil, 0, {})

Uncovered(o) == (sk[o].ue \cap Known) \ sk[o].pe

(* afd_cancel_poll() asks for the completion of a poll still under way; one  *)
(* that has completed already keeps its result.                              *)
AfdCancel(o) == kst' = [kst EXCEPT ![o] = IF @ = "armed" THEN "cancel" ELSE @]

(* sock__delete() of a sock_state that is free to go *)
FreeSock(o) ==
    /\ objs' = objs \ {o}
    /\ sk' = [sk EXCEPT ![o] = NoSock]
    /\ del' = del \ {o}
    /\ PollGroupRelease(sk[o].grp)

\* Mutant: the memory of a pending poll is freed at once.
delete_at_once(o) ==
    /\ upd' = upd \ {o}
    /\ tree' = [tree EXCEPT ![sk[o].sock] = Nil]
    /\ FreeSock(o)
    /\ AfdCancel(o)
    /\ UNCHANGED faults

\* Mutant: a deleted socket stays on the update queue.
delete_keeps_update(o) ==
    /\ upd' = upd
    /\ tree' = [tree EXCEPT ![sk[o].sock] = Nil]
    /\ IF sk[o].st = "IDLE"
       THEN FreeSock(o) /\ UNCHANGED <<kst, faults>>
       ELSE /\ del' = del \cup {o}
            /\ sk' = [sk EXCEPT ![o] = [@ EXCEPT !.dp = TRUE, !.st = "CANCELLED", !.pe = {}]]
            /\ AfdCancel(o)
            /\ UNCHANGED <<objs, gq, gsize, faults>>

(* sock__delete(): the socket leaves the tree and the update queue at once;  *)
(* a poll that has not completed keeps the memory until it does.  Whether    *)
(* the cancellation succeeds is the kernel's choice.                         *)
SockDelete(o) ==
    /\ upd' = upd \ {o}
    /\ tree' = [tree EXCEPT ![sk[o].sock] = Nil]
    /\ IF sk[o].st = "IDLE"
       THEN FreeSock(o) /\ UNCHANGED <<kst, faults>>
       ELSE /\ del' = del \cup {o}
            /\ \/ /\ sk[o].st = "PENDING"
                  /\ sk' = [sk EXCEPT ![o] = [@ EXCEPT !.dp = TRUE, !.st = "CANCELLED", !.pe = {}]]
                  /\ AfdCancel(o)
                  /\ UNCHANGED faults
               \/ /\ sk[o].st = "CANCELLED" \/ (kst[o] = "armed" /\ faults < MaxFaults)
                  /\ sk' = [sk EXCEPT ![o].dp = TRUE]
                  /\ faults' = IF sk[o].st = "CANCELLED" THEN faults ELSE faults + 1
                  /\ UNCHANGED kst
            /\ UNCHANGED <<objs, gq, gsize>>

-----------------------------------------------------------------------------
(* Entering and leaving calls *)

Goto(t, where) == pc' = [pc EXCEPT ![t] = where]

(* ts_tree_find_and_ref(): a call that finds the handle holds a reference;   *)
(* one that does not returns an error and changes nothing.                   *)
Enter(t, where, a) ==
    /\ pc[t] = "idle" /\ reg /\ calls < MaxCalls
    /\ calls' = calls + 1
    /\ refs' = refs + 1
    /\ Goto(t, where)
    /\ arg' = [arg EXCEPT ![t] = a]
    /\ UNCHANGED <<port, destroy, lock, active, sockVars, got, n, kernVars, netVars, faults>>

NoArg == [op |-> "none", s |-> Nil, ev |-> {}, to |-> "zero", then |-> "exit"]

EpollCtl(t, op, s, ev) == Enter(t, "ctl", [NoArg EXCEPT !.op = op, !.s = s, !.ev = ev]) /\ UNCHANGED reg

EpollWait(t, to) == Enter(t, "wait", [NoArg EXCEPT !.to = to, !.then = "poll"]) /\ UNCHANGED reg

(* ts_tree_del_and_ref(): the handle can be closed once *)
EpollClose(t) == Enter(t, "close", NoArg) /\ reg' = FALSE

(* epoll__create() *)
EpollCreate(t) ==
    /\ pc[t] = "idle" /\ port = "none"
    /\ port' = "open" /\ reg' = TRUE
    /\ UNCHANGED <<refs, destroy, lock, active, sockVars, thrVars, kernVars, netVars, faults, calls>>

\* Mutant: the last reference does not wake the closer.
unref_silently(t) ==
    /\ pc[t] = "unref"
    /\ refs' = refs - 1
    /\ Goto(t, "idle")
    /\ arg' = [arg EXCEPT ![t] = NoArg]
    /\ n' = [n EXCEPT ![t] = FALSE]
    /\ UNCHANGED <<port, reg, destroy, lock, active, sockVars, got, kernVars, netVars, faults, calls>>

(* ts_tree_node_unref() at the end of a call; the last one wakes the closer  *)
Unref(t) ==
    /\ pc[t] = "unref"
    /\ refs' = refs - 1
    /\ pc' = [u \in Threads |->
                 IF u = t THEN "idle"
                 ELSE IF destroy /\ refs = 1 /\ pc[u] = "await" THEN "delete" ELSE pc[u]]
    /\ arg' = [arg EXCEPT ![t] = NoArg]
    /\ n' = [n EXCEPT ![t] = FALSE]
    /\ UNCHANGED <<port, reg, destroy, lock, active, sockVars, got, kernVars, netVars, faults, calls>>

\* Mutant: the queue is left to the next epoll_wait.
update_later(t, polls) ==
    /\ lock' = Nil
    /\ Goto(t, "unref")
    /\ UNCHANGED arg

(* port__update_events_if_polling() at the end of a critical section: with   *)
(* `polls` threads waiting the queue is worked off before the lock goes.     *)
UpdateIfPolling(t, polls) ==
    IF polls > 0
    THEN /\ lock' = t
         /\ Goto(t, "update")
         /\ arg' = [arg EXCEPT ![t].then = "exit"]
    ELSE /\ lock' = Nil
         /\ Goto(t, "unref")
         /\ UNCHANGED arg

-----------------------------------------------------------------------------
(* epoll_ctl *)

(* What sock__alloc() can hand out.  Memory that a stray poll will write to  *)
(* is left out: what the write does to its next owner is not followed.       *)
Available == {o \in Objs \ objs : kst[o] = "none"}

(* port__ctl_add().  Where it needs a new group behind port_close(), the     *)
(* assertion in port_get_iocp_handle() ends the process, and what is said    *)
(* here never happens; a build without assertions goes on as is said here,   *)
(* with a completion port for the group that nobody waits on.                *)
CtlAdd(t, s) ==
    /\ ~shut[s] /\ tree[s] = Nil /\ Available # {}
    /\ LET o == CHOOSE o \in Available : TRUE IN    \* which one does not matter
          /\ objs' = objs \cup {o}
          /\ sk' = [sk EXCEPT ![o] = NewSock(s, Group, arg[t].ev \cup {"ERR", "HUP"})]
          /\ tree' = [tree EXCEPT ![s] = o]
          /\ upd' = upd \cup {o}
    /\ PollGroupAcquire
    /\ UpdateIfPolling(t, active)
    /\ UNCHANGED <<portVars, active, del, got, n, kernVars, netVars, faults, calls>>

(* The ways sock_new() can fail: a closed socket; no poll group; no memory;  *)
(* a socket that is registered already.                                      *)
CtlAddFails(t, s) ==
    /\ \/ shut[s] /\ UNCHANGED <<gq, gsize, faults>>
       \/ ~shut[s] /\ NeedGroup /\ faults < MaxFaults /\ faults' = faults + 1 /\ UNCHANGED <<gq, gsize>>
       \/ ~shut[s] /\ (tree[s] # Nil \/ Available = {}) /\ AcquireAndRelease /\ UNCHANGED faults
    /\ Goto(t, "unref")
    /\ UNCHANGED <<portVars, lock, active, tree, objs, sk, upd, del, arg, got, n, kernVars, netVars, calls>>

\* Mutant: a pending poll is taken to watch whatever is asked for.
set_event_if_idle(o, ev) ==
    /\ sk' = [sk EXCEPT ![o].ue = ev \cup {"ERR", "HUP"}]
    /\ upd' = IF sk[o].st = "IDLE" THEN upd \cup {o} ELSE upd

(* sock_set_event() on a registered socket *)
SockSetEvent(o, ev) ==
    /\ sk' = [sk EXCEPT ![o].ue = ev \cup {"ERR", "HUP"}]
    /\ upd' = IF ((ev \cup {"ERR", "HUP"}) \cap Known) \ sk[o].pe # {} THEN upd \cup {o} ELSE upd

\* Mutant: only epoll_ctl(ADD) updates for those who poll.
mod_without_update(t, s) ==
    /\ tree[s] # Nil
    /\ SockSetEvent(tree[s], arg[t].ev)
    /\ Goto(t, "unref")
    /\ UNCHANGED <<portVars, lock, active, tree, objs, del, gq, gsize, arg, got, n, kernVars, netVars, faults, calls>>

(* port__ctl_mod() *)
CtlMod(t, s) ==
    /\ tree[s] # Nil
    /\ SockSetEvent(tree[s], arg[t].ev)
    /\ UpdateIfPolling(t, active)
    /\ UNCHANGED <<portVars, active, tree, objs, del, gq, gsize, got, n, kernVars, netVars, faults, calls>>

(* port__ctl_del() *)
CtlDel(t, s) ==
    /\ tree[s] # Nil
    /\ SockDelete(tree[s])
    /\ Goto(t, "unref")
    /\ UNCHANGED <<portVars, lock, active, arg, got, n, kev, iocp, netVars, calls>>

(* port_find_socket() finds nothing to change or delete *)
CtlNotFound(t, s) ==
    /\ tree[s] = Nil
    /\ Goto(t, "unref")
    /\ UNCHANGED <<portVars, lock, active, sockVars, arg, got, n, kernVars, netVars, faults, calls>>

(* port_ctl() takes the lock *)
PortCtl(t) ==
    /\ pc[t] = "ctl" /\ lock = Nil
    /\ \/ arg[t].op = "ADD" /\ (CtlAdd(t, arg[t].s) \/ CtlAddFails(t, arg[t].s))
       \/ arg[t].op = "MOD" /\ CtlMod(t, arg[t].s)
       \/ arg[t].op = "DEL" /\ CtlDel(t, arg[t].s)
       \/ arg[t].op \in {"MOD", "DEL"} /\ CtlNotFound(t, arg[t].s)

-----------------------------------------------------------------------------
(* port__update_events(): one sock_update() a step *)

(* All the user's events are watched, or the completion of a cancelled poll  *)
(* will bring the socket back to the queue.                                  *)
UpdateNothing(o) ==
    /\ sk[o].st = "CANCELLED" \/ (sk[o].st = "PENDING" /\ Uncovered(o) = {})
    /\ upd' = upd \ {o}
    /\ UNCHANGED <<sk, kst, kev, tree, objs, del, gq, gsize>>

(* The pending poll misses events: cancel it *)
UpdateCancel(o) ==
    /\ sk[o].st = "PENDING" /\ Uncovered(o) # {}
    /\ AfdCancel(o)
    /\ sk' = [sk EXCEPT ![o] = [@ EXCEPT !.st = "CANCELLED", !.pe = {}]]
    /\ upd' = upd \ {o}
    /\ UNCHANGED <<kev, tree, objs, del, gq, gsize>>

(* afd_poll() accepts the request *)
UpdatePoll(o) ==
    /\ sk[o].st = "IDLE" /\ ~shut[sk[o].sock]
    /\ kst' = [kst EXCEPT ![o] = "armed"]
    /\ kev' = [kev EXCEPT ![o] = ToAfd(sk[o].ue)]
    /\ sk' = [sk EXCEPT ![o] = [@ EXCEPT !.st = "PENDING", !.pe = sk[o].ue]]
    /\ upd' = upd \ {o}
    /\ UNCHANGED <<tree, objs, del, gq, gsize>>

(* ERROR_INVALID_HANDLE: the socket was closed, its sock_state is dropped *)
UpdateDrop(o) ==
    /\ sk[o].st = "IDLE" /\ shut[sk[o].sock]
    /\ SockDelete(o)
    /\ UNCHANGED kev

SockUpdate(t) ==
    /\ pc[t] = "update" /\ lock = t
    /\ \E o \in upd : UpdateNothing(o) \/ UpdateCancel(o) \/ UpdatePoll(o) \/ UpdateDrop(o)
    /\ UNCHANGED <<portVars, lock, active, thrVars, iocp, netVars, faults, calls>>

(* A request or a cancellation fails otherwise: the socket stays queued.     *)
(* port__poll() returns -1 and epoll_wait ends (its last act is another      *)
(* update if others poll); port__update_events_if_polling() ignores it.      *)
SockUpdateFails(t) ==
    /\ pc[t] = "update" /\ lock = t /\ faults < MaxFaults
    /\ \E o \in upd : \/ sk[o].st = "IDLE" /\ ~shut[sk[o].sock]
                      \/ sk[o].st = "PENDING" /\ Uncovered(o) # {} /\ kst[o] = "armed"
    /\ faults' = faults + 1
    /\ UpdateIfPolling(t, IF arg[t].then = "poll" THEN active ELSE 0)
    /\ UNCHANGED <<portVars, active, sockVars, got, n, kernVars, netVars, calls>>

(* The queue is empty: port__poll() counts the thread in and leaves the lock *)
SockUpdateDone(t) ==
    /\ pc[t] = "update" /\ lock = t /\ upd = {}
    /\ lock' = Nil
    /\ IF arg[t].then = "poll"
       THEN active' = active + 1 /\ Goto(t, "poll")
       ELSE UNCHANGED active /\ Goto(t, "unref")
    /\ UNCHANGED <<portVars, sockVars, arg, got, n, kernVars, netVars, faults, calls>>

-----------------------------------------------------------------------------
(* epoll_wait *)

(* port_wait() takes the lock and starts port__poll() *)
PortWait(t) ==
    /\ pc[t] = "wait" /\ lock = Nil
    /\ lock' = t
    /\ Goto(t, "update")
    /\ UNCHANGED <<portVars, active, sockVars, arg, got, n, kernVars, netVars, faults, calls>>

(* GetQueuedCompletionStatusEx() returns completions *)
Dequeue(t) ==
    /\ pc[t] = "poll" /\ port = "open" /\ iocp # {}
    /\ \E K \in SUBSET iocp :
          /\ Cardinality(K) = (IF Cardinality(iocp) < MaxEvents THEN Cardinality(iocp) ELSE MaxEvents)
          /\ iocp' = iocp \ K
          /\ got' = [got EXCEPT ![t] = K]
    /\ Goto(t, "got")
    /\ UNCHANGED <<portVars, lock, active, sockVars, arg, n, kst, kev, netVars, faults, calls>>

(* It fails: the handle is NULL or closed under the call, or time is up *)
DequeueFails(t) ==
    /\ pc[t] = "poll"
    /\ port # "open" \/ arg[t].to # "forever"
    /\ Goto(t, "failed")
    /\ UNCHANGED <<portVars, lock, active, sockVars, arg, got, n, kernVars, netVars, faults, calls>>

(* port__poll() after the call: back under the lock, counted out *)
Relock(t) ==
    /\ lock = Nil
    /\ active' = active - 1
    /\ \/ pc[t] = "got" /\ lock' = t /\ Goto(t, "feed") /\ UNCHANGED arg
       \/ pc[t] = "failed" /\ UpdateIfPolling(t, active - 1)
    /\ UNCHANGED <<portVars, sockVars, got, n, kernVars, netVars, faults, calls>>

(* sock_feed_event(): the poll is over.  A deleted socket can be freed now,  *)
(* a closed one is deleted; any other goes back to the update queue, and     *)
(* what the user asked for is reported.                                      *)
Reported(o) == (IF kev[o] = Failed THEN {"ERR"} ELSE ToEpoll(kev[o])) \cap sk[o].ue

FeedDeleted(o) ==
    /\ sk[o].dp
    /\ FreeSock(o)
    /\ UNCHANGED <<upd, tree, n>>

FeedClosed(o) ==
    /\ ~sk[o].dp /\ "LOCAL_CLOSE" \in kev[o]
    /\ upd' = upd \ {o}
    /\ tree' = [tree EXCEPT ![sk[o].sock] = Nil]
    /\ FreeSock(o)
    /\ UNCHANGED n

FeedEvents(t, o) ==
    /\ ~sk[o].dp /\ "LOCAL_CLOSE" \notin kev[o]
    /\ LET ue == IF Reported(o) # {} /\ "ONESHOT" \in sk[o].ue THEN {} ELSE sk[o].ue IN
          sk' = [sk EXCEPT ![o] = [@ EXCEPT !.st = "IDLE", !.pe = {}, !.ue = ue]]
    /\ upd' = upd \cup {o}
    /\ n' = [n EXCEPT ![t] = @ \/ Reported(o) # {}]
    /\ UNCHANGED <<tree, objs, del, gq, gsize>>

SockFeedEvent(t) ==
    /\ pc[t] = "feed" /\ lock = t
    /\ \E o \in got[t] :
          /\ got' = [got EXCEPT ![t] = @ \ {o}]
          /\ kst' = [kst EXCEPT ![o] = "none"]
          /\ kev' = [kev EXCEPT ![o] = {}]
          /\ FeedDeleted(o) \/ FeedClosed(o) \/ FeedEvents(t, o)
    /\ UNCHANGED <<portVars, lock, active, pc, arg, iocp, netVars, faults, calls>>

(* The end of port_wait()'s loop: return with events or when time is up,     *)
(* else poll again without giving up the lock.                               *)
FeedDone(t) ==
    /\ pc[t] = "feed" /\ lock = t /\ got[t] = {}
    /\ \/ /\ n[t] \/ arg[t].to # "forever"
          /\ UpdateIfPolling(t, active)
       \/ /\ ~n[t] /\ arg[t].to # "zero"
          /\ Goto(t, "update")
          /\ UNCHANGED <<lock, arg>>
    /\ UNCHANGED <<portVars, active, sockVars, got, n, kernVars, netVars, faults, calls>>

-----------------------------------------------------------------------------
(* epoll_close *)

(* port_close(): every thread blocked in the completion port is released *)
PortClose(t) ==
    /\ pc[t] = "close" /\ lock = Nil
    /\ port' = "closed"
    /\ Goto(t, "destroy")
    /\ UNCHANGED <<reg, refs, destroy, lock, active, sockVars, arg, got, n, kernVars, netVars, faults, calls>>

\* Mutant: the closer does not wait for the other references.
destroy_at_once(t) ==
    /\ pc[t] = "destroy"
    /\ refs' = refs - 1
    /\ destroy' = TRUE
    /\ Goto(t, "delete")
    /\ UNCHANGED <<port, reg, lock, active, sockVars, arg, got, n, kernVars, netVars, faults, calls>>

(* reflock_unref_and_destroy() *)
UnrefAndDestroy(t) ==
    /\ pc[t] = "destroy"
    /\ refs' = refs - 1
    /\ destroy' = TRUE
    /\ Goto(t, IF refs = 1 THEN "delete" ELSE "await")
    /\ UNCHANGED <<port, reg, lock, active, sockVars, arg, got, n, kernVars, netVars, faults, calls>>

Groups == 1..(Cardinality(Objs) + 1)

(* port_delete(): every sock_state, poll group and the port are freed, also  *)
(* the sock_states whose polls are under way (sock_force_delete).  What had  *)
(* completed goes with the completion port.  A later epoll_create starts     *)
(* afresh.                                                                   *)
PortDelete(t) ==
    /\ pc[t] = "delete"
    /\ port' = "none" /\ destroy' = FALSE
    /\ Goto(t, "idle")
    /\ arg' = [arg EXCEPT ![t] = NoArg]
    /\ tree' = [s \in Sockets |-> Nil]
    /\ objs' = {} /\ upd' = {} /\ del' = {} /\ gq' = <<>>
    /\ sk' = [o \in Objs |-> NoSock]
    /\ gsize' = [g \in Groups |-> 0]
    /\ kst' = [o \in Objs |-> IF kst[o] \in {"armed", "cancel", "stray"} THEN "stray" ELSE "none"]
    /\ kev' = [o \in Objs |-> {}]
    /\ iocp' = {}
    /\ UNCHANGED <<reg, refs, lock, active, got, n, netVars, faults, calls>>

-----------------------------------------------------------------------------
(* The kernel's AFD driver and the network *)

Conditions(o) ==
    IF shut[sk[o].sock] THEN {"LOCAL_CLOSE"} ELSE ready[sk[o].sock] \cap kev[o]

Completes(o, result) ==
    /\ kst[o] \in {"armed", "cancel"}
    /\ kst' = [kst EXCEPT ![o] = "done"]
    /\ kev' = [kev EXCEPT ![o] = result]
    /\ iocp' = iocp \cup {o}
    /\ UNCHANGED <<portVars, lock, active, sockVars, thrVars, netVars, calls>>

(* A poll completes when a watched condition holds or when it is cancelled *)
AfdComplete(o) ==
    /\ kst[o] \in {"armed", "cancel"}
    /\ \/ Conditions(o) # {} /\ Completes(o, Conditions(o))
       \/ kst[o] = "cancel" /\ Completes(o, {})
    /\ UNCHANGED faults

(* It may fail too, which sock_feed_event() reports as EPOLLERR *)
AfdFail(o) ==
    /\ faults < MaxFaults /\ faults' = faults + 1
    /\ Completes(o, Failed)

(* A poll that epoll_close left under way completes: the kernel writes its   *)
(* result into memory that was freed, and no completion port takes it.       *)
AfdStray(o) ==
    /\ kst[o] = "stray"
    /\ kst' = [kst EXCEPT ![o] = "none"]
    /\ UNCHANGED <<portVars, lock, active, sockVars, thrVars, kev, iocp, netVars, faults, calls>>

Kernel(o) == AfdComplete(o) \/ AfdFail(o) \/ AfdStray(o)

Raise(s, e) ==
    /\ ~shut[s] /\ e \notin ready[s]
    /\ ready' = [ready EXCEPT ![s] = @ \cup {e}]
    /\ UNCHANGED <<portVars, lock, active, sockVars, thrVars, kernVars, shut, faults, calls>>

(* The application reads or writes until the condition is gone *)
Drain(s, e) ==
    /\ e \in ready[s] \cap {"RECEIVE", "EXPEDITED", "SEND"}
    /\ ready' = [ready EXCEPT ![s] = @ \ {e}]
    /\ UNCHANGED <<portVars, lock, active, sockVars, thrVars, kernVars, shut, faults, calls>>

(* closesocket(); the number is not given to another socket *)
CloseSocket(s) ==
    /\ ~shut[s]
    /\ shut' = [shut EXCEPT ![s] = TRUE]
    /\ ready' = [ready EXCEPT ![s] = {}]
    /\ UNCHANGED <<portVars, lock, active, sockVars, thrVars, kernVars, faults, calls>>

-----------------------------------------------------------------------------
Init ==
    /\ port = "none" /\ reg = FALSE /\ refs = 0 /\ destroy = FALSE
    /\ lock = Nil /\ active = 0
    /\ tree = [s \in Sockets |-> Nil]
    /\ objs = {} /\ upd = {} /\ del = {} /\ gq = <<>>
    /\ sk = [o \in Objs |-> NoSock]
    /\ gsize = [g \in Groups |-> 0]
    /\ pc = [t \in Threads |-> "idle"]
    /\ arg = [t \in Threads |-> NoArg]
    /\ got = [t \in Threads |-> {}]
    /\ n = [t \in Threads |-> FALSE]
    /\ kst = [o \in Objs |-> "none"]
    /\ kev = [o \in Objs |-> {}]
    /\ iocp = {}
    /\ ready = [s \in Sockets |-> {}]
    /\ shut = [s \in Sockets |-> FALSE]
    /\ faults = 0 /\ calls = 0

Wait(t) == \E to \in Timeouts : EpollWait(t, to)
Call(t) ==
    \/ EpollCreate(t) \/ EpollClose(t)
    \/ \E s \in Sockets, ev \in Interests, op \in {"ADD", "MOD"} : EpollCtl(t, op, s, ev)
    \/ \E s \in Sockets : EpollCtl(t, "DEL", s, {})

TakeLock(t) == PortCtl(t) \/ PortWait(t) \/ Relock(t) \/ PortClose(t)
HoldLock(t) == SockUpdate(t) \/ SockUpdateFails(t) \/ SockUpdateDone(t) \/ SockFeedEvent(t) \/ FeedDone(t)
NoLock(t) == Dequeue(t) \/ DequeueFails(t) \/ Unref(t) \/ UnrefAndDestroy(t) \/ PortDelete(t)

Environment(s) == CloseSocket(s) \/ \E e \in Signals : Raise(s, e) \/ Drain(s, e)

Next ==
    \/ \E t \in Waiters : Wait(t)
    \/ \E t \in Callers : Call(t)
    \/ \E t \in Threads : TakeLock(t) \/ HoldLock(t) \/ NoLock(t)
    \/ \E o \in Objs : Kernel(o)
    \/ \E s \in Sockets : Environment(s)

Spec == Init /\ [][Next]_vars

(* A thread inside the library runs on; a critical section that is free      *)
(* again and again is granted; the kernel completes what it can complete.    *)
(* It need not fail, and a stray poll need not complete.                     *)
FairSpec ==
    /\ Spec
    /\ \A t \in Threads : SF_vars(TakeLock(t)) /\ WF_vars(HoldLock(t)) /\ WF_vars(NoLock(t))
    /\ \A o \in Objs : WF_vars(AfdComplete(o))
-----------------------------------------------------------------------------
(* Properties *)

SockState == [sock : Sockets \cup {Nil}, grp : Groups \cup {0}, ue : SUBSET Epoll, pe : SUBSET Epoll,
              st : {"IDLE", "PENDING", "CANCELLED"}, dp : BOOLEAN]
Arg == [op : {"none", "ADD", "MOD", "DEL"}, s : Sockets \cup {Nil}, ev : SUBSET Epoll,
        to : {"zero", "timed", "forever"}, then : {"poll", "exit"}]
PCs == {"idle", "ctl", "wait", "update", "poll", "got", "failed", "feed", "unref",
        "close", "destroy", "await", "delete"}

(* The types of the port's, the threads' and the kernel's state. *)
TypeOK ==
    /\ port \in {"none", "open", "closed"} /\ reg \in BOOLEAN /\ destroy \in BOOLEAN
    /\ refs \in 0..Cardinality(Threads) /\ active \in 0..Cardinality(Threads)
    /\ lock \in Threads \cup {Nil}
    /\ objs \subseteq Objs /\ upd \subseteq Objs /\ del \subseteq Objs /\ iocp \subseteq Objs
    /\ tree \in [Sockets -> Objs \cup {Nil}]
    /\ sk \in [Objs -> SockState] /\ kev \in [Objs -> SUBSET (Afd \cup Failed)]
    /\ gq \in Seq(Groups) /\ gsize \in [Groups -> 0..MaxGroupSize]
    /\ pc \in [Threads -> PCs] /\ arg \in [Threads -> Arg]
    /\ got \in [Threads -> SUBSET Objs] /\ n \in [Threads -> BOOLEAN]
    /\ kst \in [Objs -> {"none", "armed", "cancel", "done", "stray"}]
    /\ faults \in 0..MaxFaults /\ calls \in 0..MaxCalls

Registered == {o \in objs : tree[sk[o].sock] = o}

(* A registered socket is never forgotten: it is on the update queue, or a   *)
(* poll that watches every event the user asked for is under way, or a       *)
(* cancelled poll's completion will put it back on the queue.                *)
Watched ==
    \A o \in Registered :
        \/ o \in upd
        \/ kst[o] # "none" /\ sk[o].st = "CANCELLED"
        \/ kst[o] # "none" /\ sk[o].st = "PENDING" /\ Uncovered(o) = {}

(* While a thread sleeps in the completion port and nobody is in the         *)
(* critical section, no socket is left on the update queue: what it waits    *)
(* for is armed (unless an AFD request has failed).                          *)
SleeperIsArmed == lock = Nil /\ active > 0 /\ faults = 0 => upd = {}

(* The kernel never completes a poll into freed memory: the sock_state of a  *)
(* poll under way, in the completion port or taken from it, is allocated.    *)
(* The exception is a poll that epoll_close found under way ("stray"), whose *)
(* memory port_delete has freed.                                             *)
PollKeepsSock == \A o \in Objs : kst[o] \notin {"none", "stray"} => o \in objs /\ sk[o].st # "IDLE"

(* Nothing leaks and nothing is freed twice: every allocated sock_state is   *)
(* in the tree under its socket, or was deleted, is on the deleted queue and *)
(* has a poll whose completion will free it.  A deleted one is never queued  *)
(* for update (the assertion in sock_update).  Everything is of its type.    *)
SockAccounted ==
    /\ TypeOK
    /\ \A o \in objs \ Registered : o \in del /\ sk[o].dp /\ kst[o] # "none"
    /\ \A o \in Registered : o \notin del /\ ~sk[o].dp
    /\ \A s \in Sockets : tree[s] # Nil => tree[s] \in objs /\ sk[tree[s]].sock = s
    /\ upd \subseteq Registered

(* A poll group's size is the number of its sock_states, so it is 0 when     *)
(* port_delete frees it; a group with room is always found at the end of the *)
(* queue, so no group is added while one has room.                           *)
GroupsPacked ==
    /\ \A g \in Groups : gsize[g] = Cardinality({o \in objs : sk[o].grp = g})
    /\ \A i, j \in DOMAIN gq : i < j /\ gsize[gq[j]] = MaxGroupSize => gsize[gq[i]] = MaxGroupSize

(* epoll_close frees the port only when no other thread is inside a call,    *)
(* and the handle tree lets nobody in afterwards.                            *)
PortOutlivesCalls ==
    /\ refs = Cardinality({t \in Threads : pc[t] \notin {"idle", "await", "delete"}})
    /\ (\E t \in Threads : pc[t] = "delete") \/ port = "none" => refs = 0 /\ lock = Nil /\ active = 0

(* The user's interest in a socket is satisfied now *)
Due(s) ==
    /\ tree[s] # Nil /\ ~shut[s]
    /\ \E e \in ready[s] : ToEpoll({e}) \cap sk[tree[s]].ue # {}

(* A thread that waits without a timeout does not sleep on while an event it *)
(* should report is there: some waiter returns, or the event goes away, or   *)
(* the port is closed (unless an AFD request has failed).                    *)
WaiterWakes ==
    \A s \in Sockets, t \in Waiters :
        Due(s) /\ pc[t] = "poll" ~>
            (faults > 0 \/ port # "open" \/ ~Due(s) \/ \E u \in Threads : n[u])

(* epoll_close returns, whatever the other threads are in the middle of.     *)
CloseReturns == \A t \in Callers : pc[t] = "close" ~> pc[t] = "idle"
=============================================================================
