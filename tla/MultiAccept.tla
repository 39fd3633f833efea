----------------------------- MODULE MultiAccept -----------------------------
(* Several processes on one listening socket: the accept balancer and the    *)
(* event queue reset of src/src/mnet_core.c, as the server and the client of *)
(* src/examples/process use them.  A monitor listens, forks the workers and  *)
(* forks one again when it has ended; a semaphore decides which worker may   *)
(* accept.  A worker may be killed anywhere, fork() may fail, which ends the *)
(* monitor, and an interrupt from the terminal kills them all; the semaphore *)
(* has a name and outlives them.                                             *)
EXTENDS Integers, FiniteSets, Sequences

CONSTANTS Workers, First,  \* the slots of worker_pids[]; the one that exits by itself
          Monitor,
          Conns,           \* the clients, one connection each at a time
          Spare,           \* an epoll instance
          Null,
          AcLimit,         \* First exits after more accepts than this (512)
          MaxKills         \* bound on the crashes, interrupts and failures of fork()

ASSUME MultiAssumption ==
    /\ First \in Workers /\ Monitor \notin Workers /\ AcLimit \in Nat /\ MaxKills \in Nat
    /\ "svr" \notin Conns
    /\ Null \notin Conns \cup Workers \cup {Monitor, Spare} /\ Spare \notin Workers \cup {Monitor}

Procs == Workers \cup {Monitor}
Queues == Procs \cup {Spare}   \* epoll instances: each process makes one, and the monitor
                               \* a second while a child still has its first open
Svr == "svr"     \* pt->svr, which every process has at one address

VARIABLES
    slot,     \* worker_pids[w] and what waitpid() says of it
    index,    \* the monitor's loop over the slots: those it has not looked at
    forked,   \* fork_count > 0
    pc,       \* where each process is
    kq,       \* ss->kq
    reg,      \* external: the channs registered in an epoll instance, with their process
    ac,       \* ss->ac_fn and its callbacks
    ev,       \* what epoll_wait() has returned and is not worked on yet
    got,      \* what accept() has returned
    owns,     \* the connections a process has a chann for
    acCount,  \* ac_count of First
    sem,      \* external: the semaphore
    backlog,  \* external: the listening socket's queue
    conn,     \* external: how far a client has come
    kills, lost  \* crashes and failures so far; a process was killed between ac_before and ac_after

procVars == <<pc, kq, ac, ev, got, owns, acCount>>
monVars == <<slot, index, forked>>
killVars == <<kills, lost>>
vars == <<monVars, procVars, reg, sem, backlog, conn, killVars>>

Live == {p \in Procs : pc[p] # "none"}
Holders == {p \in Live : ac[p] = "workers" /\ pc[p] \in {"accept", "after"}}

(* epoll_create(): an instance no process has open *)
FreeQueue(p) == IF \E o \in Live \ {p} : kq[o] = p THEN Spare ELSE p

-----------------------------------------------------------------------------
(* The library *)

\* Mutant: the old event queue is kept, and the channs stay as they are.
keep_queue(p, acFn) ==
    /\ ac' = [ac EXCEPT ![p] = acFn]
    /\ UNCHANGED <<kq, reg>>

\* Mutant: the new event queue is left empty.
reset_empty(p, acFn) ==
    /\ kq' = [kq EXCEPT ![p] = FreeQueue(p)]
    /\ reg' = [reg EXCEPT ![FreeQueue(p)] = {}]
    /\ ac' = [ac EXCEPT ![p] = acFn]

(* mnet_multi_accept_balancer(), then mnet_multi_reset_event(): _evt_fini(), *)
(* _evt_init(), and every chann of the process is registered for input       *)
MultiReset(p, acFn) ==
    /\ kq' = [kq EXCEPT ![p] = FreeQueue(p)]
    /\ reg' = [q \in Queues |-> IF q = FreeQueue(p) THEN {p} \X ({Svr} \cup owns[p])
                                ELSE IF \E o \in Live \ {p} : kq[o] = q THEN reg[q] ELSE {}]
    /\ ac' = [ac EXCEPT ![p] = acFn]

(* mnet_poll(): the channs that are ready; the listener's event may be       *)
(* stale by the time it is worked on                                         *)
Ready(p) ==
    {e \in reg[kq[p]] : IF e[2] = Svr THEN backlog # <<>> ELSE conn[e[2]] \in {"sent", "ended"}}

(* It returns after its timeout when there is nothing *)
Poll(p) ==
    /\ pc[p] = "poll"
    /\ ev' = [ev EXCEPT ![p] = Ready(p)]
    /\ pc' = [pc EXCEPT ![p] = "result"]
    /\ UNCHANGED <<monVars, kq, ac, got, owns, acCount, reg, sem, backlog, conn, killVars>>

(* _chann_multiprocess_accept(): ac_before() has refused; the 0 it returns   *)
(* is no socket to _chann_accept()                                           *)
Refused(p) ==
    /\ pc' = [pc EXCEPT ![p] = "result"]
    /\ UNCHANGED sem

(* The listener's event: ac_fn() is accept() itself, or ac_before() decides: *)
(* _worker_before_ac() tries the semaphore, _monitor_before_after_ac() never *)
(* agrees to the listener                                                    *)
Before(p) ==
    /\ pc[p] = "result" /\ \E e \in ev[p] : e[2] = Svr
    /\ ev' = [ev EXCEPT ![p] = {e \in @ : e[2] # Svr}]
    /\ \/ /\ ac[p] = "plain"
          /\ pc' = [pc EXCEPT ![p] = "accept"] /\ UNCHANGED sem
       \/ /\ ac[p] = "workers" /\ sem > 0
          /\ pc' = [pc EXCEPT ![p] = "accept"] /\ sem' = sem - 1
       \/ /\ ac[p] = "monitor" \/ (ac[p] = "workers" /\ sem = 0)
          /\ Refused(p)
    /\ UNCHANGED <<monVars, kq, ac, got, owns, acCount, reg, backlog, conn, killVars>>

(* accept(), which fails when another process was first *)
AcceptCall(p) ==
    /\ pc[p] = "accept"
    /\ pc' = [pc EXCEPT ![p] = "after"]
    /\ IF backlog = <<>> THEN UNCHANGED <<got, backlog, conn>>
       ELSE /\ got' = [got EXCEPT ![p] = Head(backlog)]
            /\ backlog' = Tail(backlog)
            /\ conn' = [conn EXCEPT ![Head(backlog)] = "sent"]
    /\ UNCHANGED <<monVars, kq, ac, ev, owns, acCount, reg, sem, killVars>>

\* Mutant: ac_after() is left out when accept() fails.
post_on_success(p) == IF ac[p] = "workers" /\ got[p] # Null THEN sem + 1 ELSE sem

(* ac_after(): _worker_after_ac() gives the semaphore back *)
PostAfter(p) == IF ac[p] = "workers" THEN sem + 1 ELSE sem

(* ac_after(), the rest of _chann_accept(), and the worker's ACCEPT *)
After(p) ==
    /\ pc[p] = "after"
    /\ pc' = [pc EXCEPT ![p] = "result"]
    /\ sem' = PostAfter(p)
    /\ got' = [got EXCEPT ![p] = Null]
    /\ IF got[p] = Null THEN UNCHANGED <<owns, reg, acCount>>
       ELSE /\ owns' = [owns EXCEPT ![p] = @ \cup {got[p]}]
            /\ reg' = [reg EXCEPT ![kq[p]] = @ \cup {<<p, got[p]>>}]
            /\ acCount' = IF p = First THEN acCount + 1 ELSE acCount
    /\ UNCHANGED <<monVars, kq, ac, ev, backlog, conn, killVars>>

-----------------------------------------------------------------------------
(* The workers *)

(* RECV is answered; DISCONNECT closes the chann *)
ClientEvent(p, k) ==
    /\ pc[p] = "result" /\ <<p, k>> \in ev[p] /\ k \in owns[p]
    /\ ev' = [ev EXCEPT ![p] = @ \ {<<p, k>>}]
    /\ IF conn[k] = "sent"
       THEN conn' = [conn EXCEPT ![k] = "echoed"] /\ UNCHANGED <<owns, reg>>
       ELSE /\ owns' = [owns EXCEPT ![p] = @ \ {k}]
            /\ reg' = [reg EXCEPT ![kq[p]] = @ \ {<<p, k>>}]
            /\ conn' = [conn EXCEPT ![k] = "gone"]
    /\ UNCHANGED <<monVars, pc, kq, ac, got, acCount, sem, backlog, killVars>>

(* A process ends: its sockets are closed, and a client that had its         *)
(* connection here sees it.  The last one closes the listening socket.       *)
Exit(p) ==
    /\ pc' = [pc EXCEPT ![p] = "none"] /\ kq' = [kq EXCEPT ![p] = Null]
    /\ ev' = [ev EXCEPT ![p] = {}] /\ got' = [got EXCEPT ![p] = Null]
    /\ owns' = [owns EXCEPT ![p] = {}]
    /\ LET waiting == {k \in Conns : conn[k] = "pending" /\ Live = {p}} IN
          conn' = [k \in Conns |-> IF k \in owns[p] \cup {got[p]} \cup waiting THEN "gone" ELSE conn[k]]
    /\ backlog' = IF Live = {p} THEN <<>> ELSE backlog
    /\ reg' = [q \in Queues |-> {e \in reg[q] : e[1] # p}]
    /\ UNCHANGED <<index, forked, ac, acCount, sem>>

End(w) ==
    /\ slot' = [slot EXCEPT ![w] = "zombie"]
    /\ Exit(w)

(* The events are done: First has accepted enough and exits, or polls again *)
EndRound(w) ==
    /\ pc[w] = "result" /\ ev[w] = {}
    /\ IF w = First /\ acCount > AcLimit
       THEN End(w)
       ELSE /\ pc' = [pc EXCEPT ![w] = "poll"]
            /\ UNCHANGED <<monVars, kq, ac, ev, got, owns, acCount, reg, sem, backlog, conn>>
    /\ UNCHANGED killVars

(* After fork() in the child *)
ChildStart(w) ==
    /\ pc[w] = "forked"
    /\ MultiReset(w, "workers")
    /\ pc' = [pc EXCEPT ![w] = "poll"]
    /\ UNCHANGED <<monVars, ev, got, owns, acCount, sem, backlog, conn, killVars>>

-----------------------------------------------------------------------------
(* The monitor *)

Fork(w) ==
    /\ slot' = [slot EXCEPT ![w] = "alive"]
    /\ pc' = [pc EXCEPT ![w] = "forked"]
    /\ kq' = [kq EXCEPT ![w] = kq[Monitor]]
    /\ ac' = [ac EXCEPT ![w] = ac[Monitor]]
    /\ owns' = [owns EXCEPT ![w] = owns[Monitor]]
    /\ acCount' = IF w = First THEN 0 ELSE acCount
    /\ forked' = TRUE

\* Mutant: only a slot that was never used is forked.
fork_once(w) ==
    \/ slot[w] = "none" /\ Fork(w)
    \/ slot[w] \in {"alive", "reaped"} /\ UNCHANGED <<slot, pc, kq, ac, owns, acCount, forked>>
    \/ slot[w] = "zombie" /\ slot' = [slot EXCEPT ![w] = "reaped"] /\ UNCHANGED <<pc, kq, ac, owns, acCount, forked>>

(* One slot: waitpid() gives the pid of a worker that has ended, once, and   *)
(* -1 after that, and only then the worker is forked again                   *)
CheckSlot(w) ==
    \/ slot[w] \in {"none", "reaped"} /\ Fork(w)
    \/ slot[w] = "alive" /\ UNCHANGED <<slot, pc, kq, ac, owns, acCount, forked>>
    \/ slot[w] = "zombie" /\ slot' = [slot EXCEPT ![w] = "reaped"] /\ UNCHANGED <<pc, kq, ac, owns, acCount, forked>>

At(w) == pc[Monitor] = "scan" /\ w \in index /\ (First \in index => w = First)

Scan(w) ==
    /\ At(w)
    /\ index' = index \ {w}
    /\ CheckSlot(w)
    /\ UNCHANGED <<ev, got, reg, sem, backlog, conn, killVars>>

(* fork() fails: the monitor exits, and the workers go on without it *)
ForkFails(w) ==
    /\ At(w) /\ slot[w] \in {"none", "reaped"}
    /\ kills < MaxKills /\ kills' = kills + 1
    /\ Exit(Monitor)
    /\ UNCHANGED <<slot, lost>>

(* The loop over the slots is over; after a fork the monitor resets as well *)
Scanned ==
    /\ pc[Monitor] = "scan" /\ index = {}
    /\ pc' = [pc EXCEPT ![Monitor] = "poll"]
    /\ IF forked THEN MultiReset(Monitor, "monitor") ELSE UNCHANGED <<kq, reg, ac>>
    /\ forked' = FALSE
    /\ UNCHANGED <<slot, index, ev, got, owns, acCount, sem, backlog, conn, killVars>>

(* The monitor only looks at ACCEPT, which it never gets *)
MonitorRound ==
    /\ pc[Monitor] = "result" /\ ~ \E e \in ev[Monitor] : e[2] = Svr
    /\ ev' = [ev EXCEPT ![Monitor] = {}]
    /\ pc' = [pc EXCEPT ![Monitor] = "scan"]
    /\ index' = Workers
    /\ UNCHANGED <<slot, forked, kq, ac, got, owns, acCount, reg, sem, backlog, conn, killVars>>

-----------------------------------------------------------------------------
(* The clients, multi_process_cnt.c: connect and send, close on the answer *)

Connect(k) ==
    /\ conn[k] = "gone" /\ Live # {}
    /\ conn' = [conn EXCEPT ![k] = "pending"]
    /\ backlog' = Append(backlog, k)
    /\ UNCHANGED <<monVars, procVars, reg, sem, killVars>>

ClientClose(k) ==
    /\ conn[k] = "echoed"
    /\ conn' = [conn EXCEPT ![k] = "ended"]
    /\ UNCHANGED <<monVars, procVars, reg, sem, backlog, killVars>>

(* A worker is killed *)
Kill(w) ==
    /\ kills < MaxKills /\ slot[w] = "alive"
    /\ kills' = kills + 1
    /\ lost' = (lost \/ w \in Holders)
    /\ End(w)

(* main(): the state before the monitor's loop *)
Fresh ==
    /\ slot' = [w \in Workers |-> "none"] /\ index' = Workers /\ forked' = FALSE
    /\ pc' = [p \in Procs |-> IF p = Monitor THEN "scan" ELSE "none"]
    /\ kq' = [p \in Procs |-> IF p = Monitor THEN Monitor ELSE Null]
    /\ reg' = [o \in Queues |-> IF o = Monitor THEN {<<Monitor, Svr>>} ELSE {}]
    /\ ac' = [p \in Procs |-> "plain"]
    /\ ev' = [p \in Procs |-> {}] /\ got' = [p \in Procs |-> Null]
    /\ owns' = [p \in Procs |-> {}] /\ acCount' = 0
    /\ backlog' = <<>> /\ conn' = [k \in Conns |-> "gone"]

(* The terminal interrupts all processes and the server is started again:    *)
(* sem_open() finds the semaphore as it was left                             *)
Interrupt ==
    /\ kills < MaxKills
    /\ kills' = kills + 1
    /\ lost' = (lost \/ Holders # {})
    /\ Fresh
    /\ UNCHANGED sem

(* The server is started again after all of its processes have ended *)
Start ==
    /\ Live = {}
    /\ Fresh
    /\ UNCHANGED <<sem, killVars>>

Init ==
    /\ slot = [w \in Workers |-> "none"] /\ index = Workers /\ forked = FALSE
    /\ pc = [p \in Procs |-> IF p = Monitor THEN "scan" ELSE "none"]
    /\ kq = [p \in Procs |-> IF p = Monitor THEN Monitor ELSE Null]
    /\ reg = [o \in Queues |-> IF o = Monitor THEN {<<Monitor, Svr>>} ELSE {}]
    /\ ac = [p \in Procs |-> "plain"]
    /\ ev = [p \in Procs |-> {}] /\ got = [p \in Procs |-> Null]
    /\ owns = [p \in Procs |-> {}] /\ acCount = 0
    /\ sem = 1 /\ backlog = <<>> /\ conn = [k \in Conns |-> "gone"]
    /\ kills = 0 /\ lost = FALSE

Library(p) == Poll(p) \/ Before(p) \/ AcceptCall(p) \/ After(p)
WorkerLoop(w) == ChildStart(w) \/ EndRound(w) \/ \E k \in Conns : ClientEvent(w, k)
MonitorLoop == Scanned \/ MonitorRound \/ \E w \in Workers : Scan(w)

Next ==
    \/ \E p \in Procs : Library(p)
    \/ \E w \in Workers : WorkerLoop(w) \/ Kill(w) \/ ForkFails(w)
    \/ \E k \in Conns : Connect(k) \/ ClientClose(k)
    \/ MonitorLoop \/ Interrupt \/ Start

Spec == Init /\ [][Next]_vars

(* Every process that runs is scheduled *)
FairSpec ==
    /\ Spec
    /\ WF_vars(MonitorLoop \/ Library(Monitor))
    /\ \A w \in Workers : WF_vars(WorkerLoop(w) \/ Library(w))

-----------------------------------------------------------------------------
(* Properties *)

(* The types; the semaphore is a binary one. *)
TypeOK ==
    /\ slot \in [Workers -> {"none", "alive", "zombie", "reaped"}]
    /\ pc \in [Procs -> {"none", "forked", "scan", "poll", "result", "accept", "after"}]
    /\ kq \in [Procs -> Queues \cup {Null}]
    /\ ac \in [Procs -> {"plain", "workers", "monitor"}]
    /\ owns \in [Procs -> SUBSET Conns] /\ got \in [Procs -> Conns \cup {Null}]
    /\ conn \in [Conns -> {"gone", "pending", "sent", "echoed", "ended"}]
    /\ sem \in 0 .. 1 /\ acCount \in 0 .. AcLimit + 1

(* The semaphore is free or held by the one worker between ac_before() and   *)
(* ac_after(), for as long as no worker was killed there: at most one worker *)
(* is in accept(), and a failed accept() costs nobody the semaphore.         *)
SemAccounted == sem + Cardinality(Holders) = IF lost THEN 0 ELSE 1

(* A process that polls has an event queue of its own, in which only its own *)
(* channs are registered: an event's pointer is never another process's.     *)
(* Everything is of its type.                                                *)
OwnEvents ==
    /\ TypeOK
    /\ \A p \in Live : pc[p] \in {"poll", "result", "accept", "after"} =>
          /\ reg[kq[p]] = {p} \X ({Svr} \cup owns[p])
          /\ \A o \in Live \ {p} : kq[o] = kq[p] => pc[o] = "forked"

(* A client that connects is answered, or sees its connection end, unless a  *)
(* worker was killed with the semaphore in its hands.  The monitor, which    *)
(* watches the socket as well and answers nobody, must not accept it; it     *)
(* may be gone, as long as a worker is left.                                 *)
ClientServed == \A k \in Conns : conn[k] = "pending" ~> (conn[k] \in {"echoed", "gone"} \/ lost)

(* A worker that has exited or was killed is started again (the README of    *)
(* the example: "monitor will restart worker"), unless fork() has failed and *)
(* the monitor has exited.                                                   *)
WorkerRestarted == \A w \in Workers : slot[w] = "zombie" ~> (slot[w] = "alive" \/ pc[Monitor] = "none")
=============================================================================
