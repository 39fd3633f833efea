---------------------------- MODULE WepollProofs ----------------------------
(* The safety properties of epoll for Windows, proved for every number of    *)
(* threads, sockets and sock_states and every size of a poll group.          *)
(*                                                                           *)
(* The invariant has four layers.  CallsOK is about the threads, the         *)
(* reflock and the critical section; SleepOK about the update queue while a  *)
(* thread sleeps; SockOK about the sock_states, the kernel's polls and the   *)
(* completions; GroupOK about the poll groups.                               *)
EXTENDS PollGroupProofs, FiniteSetTheorems, TLAPS

Inside == {t \in Threads : pc[t] \notin {"idle", "await", "delete"}}
Polling == {t \in Threads : pc[t] \in {"poll", "got", "failed"}}
Closing == {t \in Threads : pc[t] \in {"close", "destroy", "await", "delete"}}

CallsType ==
    /\ pc \in [Threads -> PCs] /\ arg \in [Threads -> Arg]
    /\ lock \in Threads \cup {Nil}
    /\ port \in {"none", "open", "closed"} /\ reg \in BOOLEAN /\ destroy \in BOOLEAN
    /\ calls \in 0..MaxCalls

(* The counts count what they are meant to, the critical section has one     *)
(* thread in it, and the handle is closed by one thread, after which the     *)
(* reflock tells how far it is.                                              *)
CallsOK ==
    /\ CallsType
    /\ \A t \in Threads : pc[t] = "ctl" => arg[t].s \in Sockets /\ arg[t].op # "none"
    /\ refs = Cardinality(Inside)
    /\ active = Cardinality(Polling)
    /\ \A t \in Threads : pc[t] \in {"update", "feed"} <=> lock = t
    /\ \A t, u \in Closing : t = u
    /\ reg => port = "open" /\ Closing = {}
    /\ destroy <=> \E t \in Threads : pc[t] \in {"await", "delete"}
    /\ \A t \in Threads : (pc[t] = "await" => refs # 0) /\ (pc[t] = "delete" => refs = 0)
    /\ port = "none" => refs = 0 /\ Closing = {}

-----------------------------------------------------------------------------
(* The threads *)

(* A set of threads that gains or loses one of them. *)
LEMMA OneThread ==
  ASSUME NEW S \in SUBSET Threads, NEW T \in SUBSET Threads, NEW t \in Threads,
         \A u \in Threads \ {t} : u \in S <=> u \in T
  PROVE  /\ Cardinality(S) \in Nat /\ Cardinality(T) \in Nat
         /\ (t \in S <=> t \in T) => Cardinality(T) = Cardinality(S)
         /\ t \notin S /\ t \in T => Cardinality(T) = Cardinality(S) + 1
         /\ t \in S /\ t \notin T => Cardinality(T) = Cardinality(S) - 1
  <1>1. IsFiniteSet(S) /\ IsFiniteSet(T)
    BY FS_Subset, WepollAssumption
  <1>2. Cardinality(S) \in Nat /\ Cardinality(T) \in Nat
    BY <1>1, FS_CardinalityType
  <1>3. CASE t \in S <=> t \in T
    <2>1. S = T
      BY <1>3
    <2> QED BY <1>2, <1>3, <2>1
  <1>4. CASE t \notin S /\ t \in T
    <2>1. T = S \cup {t}
      BY <1>4
    <2> QED BY <1>1, <1>2, <1>4, <2>1, FS_AddElement
  <1>5. CASE t \in S /\ t \notin T
    <2>1. T = S \ {t}
      BY <1>5
    <2> QED BY <1>1, <1>2, <1>5, <2>1, FS_RemoveElement
  <1> QED BY <1>2, <1>3, <1>4, <1>5

(* A step that moves no thread. *)
LEMMA CallsFrame ==
  ASSUME CallsOK, UNCHANGED <<port, reg, refs, destroy, lock, active, pc, arg, calls>>
  PROVE  CallsOK'
  BY DEF CallsOK, CallsType, Inside, Polling, Closing

(* A thread goes on. *)
LEMMA GoesTo ==
  ASSUME CallsOK, NEW t \in Threads, NEW w \in PCs, Goto(t, w)
  PROVE  /\ pc' \in [Threads -> PCs] /\ pc'[t] = w
         /\ \A u \in Threads \ {t} : pc'[u] = pc[u]
  BY DEF CallsOK, CallsType, Goto

Work == {"ctl", "wait", "update", "poll", "got", "failed", "feed", "unref"}

(* A thread goes on in its call: what it holds of the critical section and   *)
(* whether it is counted in active_poll_count follow from where it is.       *)
LEMMA CallsMove ==
  ASSUME CallsOK, NEW t \in Threads, NEW w \in Work \ {"ctl"}, pc[t] \in Work, Goto(t, w),
         arg' \in [Threads -> Arg], \A u \in Threads \ {t} : arg'[u] = arg[u],
         lock' \in Threads \cup {Nil},
         lock' = t <=> w \in {"update", "feed"},
         \A u \in Threads \ {t} : lock' = u <=> lock = u,
         active' = active + (IF w \in {"poll", "got", "failed"} THEN 1 ELSE 0)
                          - (IF pc[t] \in {"poll", "got", "failed"} THEN 1 ELSE 0),
         UNCHANGED <<port, reg, refs, destroy, calls>>
  PROVE  CallsOK'
  <1>1. CallsType'
    BY GoesTo DEF CallsOK, CallsType, PCs, Work
  <1>2. pc'[t] = w /\ \A u \in Threads \ {t} : pc'[u] = pc[u]
    BY GoesTo DEF PCs, Work
  <1>3. Inside' = Inside /\ Closing' = Closing
    BY <1>2 DEF Inside, Closing, Work
  <1>4. active' = Cardinality(Polling')
    <2>1. \A u \in Threads \ {t} : u \in Polling <=> u \in Polling'
      BY <1>2 DEF Polling
    <2>2. /\ t \in Polling <=> pc[t] \in {"poll", "got", "failed"}
          /\ t \in Polling' <=> w \in {"poll", "got", "failed"}
      BY <1>2 DEF Polling
    <2>3. /\ Cardinality(Polling) \in Nat
          /\ (t \in Polling <=> t \in Polling') => Cardinality(Polling') = Cardinality(Polling)
          /\ t \notin Polling /\ t \in Polling' => Cardinality(Polling') = Cardinality(Polling) + 1
          /\ t \in Polling /\ t \notin Polling' => Cardinality(Polling') = Cardinality(Polling) - 1
      <3> HIDE DEF Polling
      <3>1. Polling \in SUBSET Threads /\ Polling' \in SUBSET Threads
        BY DEF Polling
      <3> QED BY <2>1, <3>1, OneThread
    <2> QED BY <2>2, <2>3 DEF CallsOK
  <1>5. \A u \in Threads : pc'[u] = "ctl" => arg'[u].s \in Sockets /\ arg'[u].op # "none"
    BY <1>2 DEF CallsOK
  <1>6. \A u \in Threads : pc'[u] \in {"update", "feed"} <=> lock' = u
    BY <1>2 DEF CallsOK
  <1>7. destroy' <=> \E u \in Threads : pc'[u] \in {"await", "delete"}
    BY <1>2 DEF CallsOK, Work
  <1>8. \A u \in Threads : (pc'[u] = "await" => refs' # 0) /\ (pc'[u] = "delete" => refs' = 0)
    BY <1>2 DEF CallsOK, Work
  <1> QED BY <1>1, <1>3, <1>4, <1>5, <1>6, <1>7, <1>8 DEF CallsOK

(* port__update_events_if_polling(), or the way out. *)
LEMMA CallsUpdate ==
  ASSUME CallsOK, NEW t \in Threads, NEW polls, pc[t] \in Work, UpdateIfPolling(t, polls),
         lock \in {Nil, t},
         active' = active - (IF pc[t] \in {"poll", "got", "failed"} THEN 1 ELSE 0),
         UNCHANGED <<port, reg, refs, destroy, calls>>
  PROVE  CallsOK'
  <1>1. arg \in [Threads -> Arg] /\ active \in Int
    <2>1. Polling \in SUBSET Threads
      BY DEF Polling
    <2> QED BY <2>1, OneThread DEF CallsOK, CallsType
  <1>2. CASE polls > 0
    <2>1. lock' = t /\ Goto(t, "update") /\ arg' = [arg EXCEPT ![t].then = "exit"]
      BY <1>2 DEF UpdateIfPolling
    <2>2. arg' \in [Threads -> Arg] /\ \A u \in Threads \ {t} : arg'[u] = arg[u]
      BY <1>1, <2>1 DEF Arg
    <2> QED BY <1>1, <2>1, <2>2, CallsMove, WepollAssumption DEF Work
  <1>3. CASE ~(polls > 0)
    <2>1. lock' = Nil /\ Goto(t, "unref") /\ arg' = arg
      BY <1>3 DEF UpdateIfPolling
    <2> QED BY <1>1, <2>1, CallsMove, WepollAssumption DEF Work
  <1> QED BY <1>2, <1>3

(* epoll_ctl() under the lock. *)
LEMMA CallsCtl ==
  ASSUME CallsOK, NEW t \in Threads, PortCtl(t)
  PROVE  CallsOK'
  <1>1. /\ pc[t] = "ctl" /\ lock = Nil /\ UNCHANGED <<port, reg, refs, destroy, calls, active>>
        /\ pc[t] \in Work
    BY DEF PortCtl, CtlAdd, CtlAddFails, CtlMod, CtlDel, CtlNotFound, portVars, Work
  <1>2. active \in Int /\ arg \in [Threads -> Arg]
    <2>1. Polling \in SUBSET Threads
      BY DEF Polling
    <2> QED BY <2>1, OneThread DEF CallsOK, CallsType
  <1>3. CASE UpdateIfPolling(t, active)
    BY <1>1, <1>2, <1>3, CallsUpdate
  <1>4. CASE Goto(t, "unref") /\ UNCHANGED <<lock, arg>>
    BY <1>1, <1>2, <1>4, CallsMove, WepollAssumption DEF Work
  <1> QED BY <1>3, <1>4 DEF PortCtl, CtlAdd, CtlAddFails, CtlMod, CtlDel, CtlNotFound

(* epoll_wait(), the update of the queue and the steps under the lock. *)
LEMMA CallsWait ==
  ASSUME CallsOK, NEW t \in Threads,
         \/ PortWait(t) \/ Relock(t) \/ Dequeue(t) \/ DequeueFails(t)
         \/ SockUpdateFails(t) \/ SockUpdateDone(t) \/ FeedDone(t)
  PROVE  CallsOK'
  <1>1. active \in Int /\ arg \in [Threads -> Arg] /\ lock \in Threads \cup {Nil}
    <2>1. Polling \in SUBSET Threads
      BY DEF Polling
    <2> QED BY <2>1, OneThread DEF CallsOK, CallsType
  <1>2. CASE PortWait(t)
    <2>1. /\ pc[t] = "wait" /\ lock = Nil /\ lock' = t /\ Goto(t, "update")
          /\ UNCHANGED <<port, reg, refs, destroy, calls, active, arg>>
      BY <1>2 DEF PortWait, portVars
    <2> QED BY <1>1, <2>1, CallsMove, WepollAssumption DEF Work
  <1>3. CASE Relock(t)
    <2>1. lock = Nil /\ active' = active - 1 /\ UNCHANGED <<port, reg, refs, destroy, calls>>
      BY <1>3 DEF Relock, portVars
    <2>2. CASE pc[t] = "got" /\ lock' = t /\ Goto(t, "feed") /\ UNCHANGED arg
      BY <1>1, <2>1, <2>2, CallsMove, WepollAssumption DEF Work
    <2>3. CASE pc[t] = "failed" /\ UpdateIfPolling(t, active - 1)
      BY <1>1, <2>1, <2>3, CallsUpdate DEF Work
    <2> QED BY <1>3, <2>2, <2>3 DEF Relock
  <1>4. CASE Dequeue(t) \/ DequeueFails(t)
    <2>1. /\ pc[t] = "poll" /\ (Goto(t, "got") \/ Goto(t, "failed"))
          /\ UNCHANGED <<port, reg, refs, destroy, calls, arg, lock, active>>
      BY <1>4 DEF Dequeue, DequeueFails, portVars
    <2>2. lock # t
      BY <2>1 DEF CallsOK
    <2> QED BY <1>1, <2>1, <2>2, CallsMove DEF Work
  <1>5. CASE SockUpdateFails(t)
    BY <1>1, <1>5, CallsUpdate DEF SockUpdateFails, Work, portVars
  <1>6. CASE SockUpdateDone(t)
    <2>1. /\ pc[t] = "update" /\ lock = t /\ lock' = Nil
          /\ UNCHANGED <<port, reg, refs, destroy, calls, arg>>
          /\ \/ active' = active + 1 /\ Goto(t, "poll")
             \/ active' = active /\ Goto(t, "unref")
      BY <1>6 DEF SockUpdateDone, portVars
    <2> QED BY <1>1, <2>1, CallsMove, WepollAssumption DEF Work
  <1>7. CASE FeedDone(t)
    <2>1. /\ pc[t] = "feed" /\ lock = t /\ UNCHANGED <<port, reg, refs, destroy, calls, active>>
      BY <1>7 DEF FeedDone, portVars
    <2>2. CASE UpdateIfPolling(t, active)
      BY <1>1, <2>1, <2>2, CallsUpdate DEF Work
    <2>3. CASE Goto(t, "update") /\ UNCHANGED <<lock, arg>>
      BY <1>1, <2>1, <2>3, CallsMove DEF Work
    <2> QED BY <1>7, <2>2, <2>3 DEF FeedDone
  <1> QED BY <1>2, <1>3, <1>4, <1>5, <1>6, <1>7

(* The counts are numbers, and 0 only when there is nobody to count. *)
LEMMA Counts ==
  ASSUME CallsOK
  PROVE  /\ refs \in 0..Cardinality(Threads) /\ active \in 0..Cardinality(Threads)
         /\ refs = 0 <=> Inside = {}
         /\ Polling \subseteq Inside
         /\ active = 0 <=> Polling = {}
  <1>1. Inside \in SUBSET Threads /\ Polling \in SUBSET Threads /\ Polling \subseteq Inside
    BY DEF Inside, Polling
  <1>2. IsFiniteSet(Inside) /\ IsFiniteSet(Polling)
    BY <1>1, FS_Subset, WepollAssumption
  <1>3. /\ Cardinality(Threads) \in Nat /\ Cardinality(Inside) \in Nat /\ Cardinality(Polling) \in Nat
    BY <1>2, FS_CardinalityType, WepollAssumption
  <1>4. Cardinality(Inside) <= Cardinality(Threads) /\ Cardinality(Polling) <= Cardinality(Threads)
    BY <1>1, FS_Subset, WepollAssumption
  <1>5. (Cardinality(Inside) = 0 <=> Inside = {}) /\ (Cardinality(Polling) = 0 <=> Polling = {})
    BY <1>2, FS_EmptySet
  <1> QED BY <1>1, <1>3, <1>4, <1>5 DEF CallsOK

(* A thread finds the handle and holds a reference. *)
LEMMA CallsEnter ==
  ASSUME CallsOK, NEW t \in Threads, NEW w \in {"ctl", "wait", "close"}, NEW a \in Arg, Enter(t, w, a),
         w = "ctl" => a.s \in Sockets /\ a.op # "none",
         IF w = "close" THEN reg' = FALSE ELSE reg' = reg
  PROVE  CallsOK'
  <1>1. /\ pc[t] = "idle" /\ reg /\ calls < MaxCalls /\ calls' = calls + 1 /\ refs' = refs + 1
        /\ Goto(t, w) /\ arg' = [arg EXCEPT ![t] = a] /\ UNCHANGED <<port, destroy, lock, active>>
    BY DEF Enter
  <1>2. /\ pc' \in [Threads -> PCs] /\ pc'[t] = w /\ \A u \in Threads \ {t} : pc'[u] = pc[u]
    BY <1>1, GoesTo DEF PCs
  <1>3. CallsType'
    <2>1. reg' \in BOOLEAN
      BY DEF CallsOK, CallsType
    <2>2. calls' \in 0..MaxCalls
      BY <1>1, WepollAssumption DEF CallsOK, CallsType
    <2>3. arg' \in [Threads -> Arg]
      BY <1>1 DEF CallsOK, CallsType
    <2> QED BY <1>1, <1>2, <2>1, <2>2, <2>3 DEF CallsOK, CallsType
  <1>4. Polling' = Polling
    BY <1>1, <1>2 DEF Polling
  <1>5. refs' = Cardinality(Inside') /\ refs' # 0
    <2>1. Inside \in SUBSET Threads /\ Inside' \in SUBSET Threads
      BY DEF Inside
    <2>2. \A u \in Threads \ {t} : u \in Inside <=> u \in Inside'
      BY <1>2 DEF Inside
    <2>3. t \notin Inside /\ t \in Inside'
      BY <1>1, <1>2 DEF Inside
    <2>4. Cardinality(Inside) \in Nat /\ Cardinality(Inside') = Cardinality(Inside) + 1
      BY <2>1, <2>2, <2>3, OneThread
    <2> QED BY <1>1, <2>4 DEF CallsOK
  <1>6. /\ port' = "open" /\ Closing = {} /\ Closing' = IF w = "close" THEN {t} ELSE {}
    BY <1>1, <1>2 DEF CallsOK, Closing
  <1>7. \A u \in Threads : pc'[u] \notin {"await", "delete"} /\ pc[u] \notin {"await", "delete"}
    BY <1>2, <1>6 DEF Closing
  <1>8. \A u \in Threads : pc'[u] = "ctl" => arg'[u].s \in Sockets /\ arg'[u].op # "none"
    BY <1>1, <1>2 DEF CallsOK, CallsType
  <1>9. \A u \in Threads : pc'[u] \in {"update", "feed"} <=> lock' = u
    BY <1>1, <1>2 DEF CallsOK
  <1> QED BY <1>1, <1>3, <1>4, <1>5, <1>6, <1>7, <1>8, <1>9 DEF CallsOK

(* The arguments of the calls. *)
LEMMA CallsCall ==
  ASSUME CallsOK, NEW t \in Threads, Wait(t) \/ Call(t)
  PROVE  CallsOK'
  <1>0. NoArg \in Arg
    BY DEF NoArg, Arg
  <1>1. ASSUME NEW to \in Timeouts, EpollWait(t, to)
        PROVE  CallsOK'
    <2> DEFINE a == [NoArg EXCEPT !.to = to, !.then = "poll"]
    <2>1. a \in Arg
      BY WepollAssumption DEF NoArg, Arg
    <2>2. Enter(t, "wait", a) /\ reg' = reg
      BY <1>1 DEF EpollWait
    <2> HIDE DEF a
    <2> QED BY <2>1, <2>2, CallsEnter
  <1>2. ASSUME NEW s \in Sockets, NEW ev \in SUBSET Epoll, NEW op \in {"ADD", "MOD", "DEL"},
               EpollCtl(t, op, s, ev)
        PROVE  CallsOK'
    <2> DEFINE a == [NoArg EXCEPT !.op = op, !.s = s, !.ev = ev]
    <2>1. a \in Arg /\ a.s = s /\ a.op = op
      BY DEF NoArg, Arg
    <2>2. Enter(t, "ctl", a) /\ reg' = reg
      BY <1>2 DEF EpollCtl
    <2> HIDE DEF a
    <2> QED BY <2>1, <2>2, CallsEnter
  <1>3. CASE EpollClose(t)
    BY <1>0, <1>3, CallsEnter DEF EpollClose
  <1>4. CASE EpollCreate(t)
    <2>1. /\ port = "none" /\ port' = "open" /\ reg' = TRUE
          /\ UNCHANGED <<refs, destroy, lock, active, pc, arg, calls>>
      BY <1>4 DEF EpollCreate, thrVars
    <2>2. Closing = {} /\ Closing' = Closing /\ Inside' = Inside /\ Polling' = Polling
      BY <2>1 DEF CallsOK, Closing, Inside, Polling
    <2>3. CallsType'
      BY <2>1 DEF CallsOK, CallsType
    <2> QED BY <2>1, <2>2, <2>3 DEF CallsOK
  <1>5. Interests \subseteq SUBSET Epoll /\ {} \in SUBSET Epoll
    BY EventAssumption
  <1> QED BY <1>1, <1>2, <1>3, <1>4, <1>5 DEF Wait, Call

(* The end of a call: the last reference wakes the closer. *)
LEMMA CallsUnref ==
  ASSUME CallsOK, NEW t \in Threads, Unref(t)
  PROVE  CallsOK'
  <1>1. /\ pc[t] = "unref" /\ refs' = refs - 1
        /\ pc' = [u \in Threads |->
                    IF u = t THEN "idle"
                    ELSE IF destroy /\ refs = 1 /\ pc[u] = "await" THEN "delete" ELSE pc[u]]
        /\ arg' = [arg EXCEPT ![t] = NoArg]
        /\ UNCHANGED <<port, reg, destroy, lock, active, calls>>
    BY DEF Unref
  <1>2. /\ pc'[t] = "idle"
        /\ \A u \in Threads \ {t} :
              pc'[u] = IF destroy /\ refs = 1 /\ pc[u] = "await" THEN "delete" ELSE pc[u]
    BY <1>1
  <1>3. CallsType'
    <2>1. pc' \in [Threads -> PCs]
      BY <1>1 DEF CallsOK, CallsType, PCs
    <2>2. NoArg \in Arg
      BY DEF NoArg, Arg
    <2> QED BY <1>1, <2>1, <2>2 DEF CallsOK, CallsType
  <1>4. /\ Polling' = Polling /\ Closing' = Closing /\ t \in Inside /\ t \notin Inside'
        /\ \A u \in Threads \ {t} : u \in Inside <=> u \in Inside'
    BY <1>1, <1>2 DEF Polling, Closing, Inside
  <1>5. refs' = Cardinality(Inside') /\ refs \in Nat \ {0} /\ refs' \in Nat
    <2>1. Inside \in SUBSET Threads /\ Inside' \in SUBSET Threads
      BY DEF Inside
    <2>2. /\ Cardinality(Inside) \in Nat /\ Cardinality(Inside') \in Nat
          /\ Cardinality(Inside') = Cardinality(Inside) - 1
      BY <1>4, <2>1, OneThread
    <2> QED BY <1>1, <2>2 DEF CallsOK
  <1>6. \A u \in Threads : pc'[u] = "ctl" => arg'[u].s \in Sockets /\ arg'[u].op # "none"
    BY <1>1, <1>2 DEF CallsOK, CallsType
  <1>7. \A u \in Threads : pc'[u] \in {"update", "feed"} <=> lock' = u
    BY <1>1, <1>2 DEF CallsOK
  <1>8. destroy' <=> \E u \in Threads : pc'[u] \in {"await", "delete"}
    <2>1. \A u \in Threads : pc[u] \in {"await", "delete"} <=> pc'[u] \in {"await", "delete"}
      BY <1>1, <1>2
    <2> QED BY <1>1, <2>1 DEF CallsOK
  <1>9. \A u \in Threads : (pc'[u] = "await" => refs' # 0) /\ (pc'[u] = "delete" => refs' = 0)
    <2> SUFFICES ASSUME NEW u \in Threads
                 PROVE  (pc'[u] = "await" => refs' # 0) /\ (pc'[u] = "delete" => refs' = 0)
      OBVIOUS
    <2>1. pc[u] # "delete"
      BY <1>5 DEF CallsOK
    <2>2. pc[u] = "await" => destroy
      BY DEF CallsOK
    <2> QED BY <1>1, <1>2, <1>5, <2>1, <2>2
  <1>10. port' # "none"
    BY <1>1, <1>5 DEF CallsOK
  <1> QED BY <1>1, <1>3, <1>4, <1>5, <1>6, <1>7, <1>8, <1>9, <1>10 DEF CallsOK

(* epoll_close(): the handle is closed, then the reference given back. *)
LEMMA CallsClose ==
  ASSUME CallsOK, NEW t \in Threads, PortClose(t) \/ UnrefAndDestroy(t)
  PROVE  CallsOK'
  <1>1. PICK w \in {"destroy", "await", "delete"} :
           /\ Goto(t, w) /\ UNCHANGED <<reg, lock, active, arg, calls>>
           /\ IF w = "destroy" THEN pc[t] = "close" /\ port' = "closed" /\ UNCHANGED <<refs, destroy>>
              ELSE /\ pc[t] = "destroy" /\ refs' = refs - 1 /\ destroy' = TRUE /\ port' = port
                   /\ w = "delete" <=> refs = 1
    BY DEF PortClose, UnrefAndDestroy
  <1>2. /\ pc' \in [Threads -> PCs] /\ pc'[t] = w /\ \A u \in Threads \ {t} : pc'[u] = pc[u]
    BY <1>1, GoesTo DEF PCs
  <1>3. CallsType'
    <2>1. destroy' \in BOOLEAN
      BY <1>1 DEF CallsOK, CallsType
    <2>2. port' \in {"none", "open", "closed"}
      BY <1>1 DEF CallsOK, CallsType
    <2> QED BY <1>1, <1>2, <2>1, <2>2 DEF CallsOK, CallsType
  <1>4. /\ Polling' = Polling /\ Closing' = Closing /\ t \in Closing /\ t \in Inside
        /\ \A u \in Threads \ {t} : u \in Inside <=> u \in Inside'
        /\ t \in Inside' <=> w = "destroy"
    BY <1>1, <1>2 DEF Polling, Closing, Inside
  <1>5. refs' = Cardinality(Inside') /\ refs \in Nat \ {0}
    <2>1. Inside \in SUBSET Threads /\ Inside' \in SUBSET Threads
      BY DEF Inside
    <2>2. /\ Cardinality(Inside) \in Nat /\ Cardinality(Inside') \in Nat
          /\ t \in Inside' => Cardinality(Inside') = Cardinality(Inside)
          /\ t \notin Inside' => Cardinality(Inside') = Cardinality(Inside) - 1
      BY <1>4, <2>1, OneThread
    <2>3. refs = Cardinality(Inside)
      BY DEF CallsOK
    <2>4. refs # 0
      BY <1>4, Counts
    <2> QED BY <1>1, <1>4, <2>2, <2>3, <2>4
  <1>6. \A u \in Closing : u = t
    BY <1>4 DEF CallsOK
  <1>7. \A u \in Threads \ {t} : pc[u] \notin {"close", "destroy", "await", "delete"}
    BY <1>6 DEF Closing
  <1>8. destroy' <=> \E u \in Threads : pc'[u] \in {"await", "delete"}
    <2>1. CASE w = "destroy"
      BY <1>1, <1>2, <1>7, <2>1 DEF CallsOK
    <2>2. CASE w # "destroy"
      BY <1>1, <1>2, <2>2
    <2> QED BY <2>1, <2>2
  <1>9. \A u \in Threads : (pc'[u] = "await" => refs' # 0) /\ (pc'[u] = "delete" => refs' = 0)
    BY <1>1, <1>2, <1>5, <1>7
  <1>10. \A u \in Threads : pc'[u] = "ctl" => arg'[u].s \in Sockets /\ arg'[u].op # "none"
    BY <1>1, <1>2 DEF CallsOK
  <1>11. \A u \in Threads : pc'[u] \in {"update", "feed"} <=> lock' = u
    BY <1>1, <1>2 DEF CallsOK
  <1>12. port' # "none" /\ ~reg'
    BY <1>1, <1>4 DEF CallsOK
  <1> QED BY <1>1, <1>3, <1>4, <1>5, <1>8, <1>9, <1>10, <1>11, <1>12 DEF CallsOK

(* port_delete(): everybody else is out. *)
LEMMA CallsDelete ==
  ASSUME CallsOK, NEW t \in Threads, PortDelete(t)
  PROVE  CallsOK' /\ \A u \in Threads \ {t} : pc[u] = "idle"
  <1>1. /\ pc[t] = "delete" /\ Goto(t, "idle") /\ arg' = [arg EXCEPT ![t] = NoArg]
        /\ port' = "none" /\ destroy' = FALSE /\ UNCHANGED <<reg, refs, lock, active, calls>>
    BY DEF PortDelete
  <1>2. /\ pc' \in [Threads -> PCs] /\ pc'[t] = "idle" /\ \A u \in Threads \ {t} : pc'[u] = pc[u]
    BY <1>1, GoesTo DEF PCs
  <1>3. refs = 0 /\ Inside = {} /\ t \in Closing
    BY <1>1, Counts DEF CallsOK, Closing
  <1>4. \A u \in Threads \ {t} : pc[u] = "idle"
    <2>1. \A u \in Threads \ {t} : u \notin Closing
      BY <1>3 DEF CallsOK
    <2> QED BY <1>3, <2>1 DEF Inside, Closing
  <1>5. Inside' = {} /\ Closing' = {} /\ Polling' = Polling
    BY <1>1, <1>2, <1>4 DEF Inside, Closing, Polling
  <1>6. CallsType'
    <2>1. NoArg \in Arg
      BY DEF NoArg, Arg
    <2> QED BY <1>1, <1>2, <2>1 DEF CallsOK, CallsType
  <1>7. refs' = Cardinality(Inside')
    BY <1>1, <1>3, <1>5 DEF CallsOK
  <1>8. ~reg'
    BY <1>1, <1>3 DEF CallsOK
  <1>9. \A u \in Threads : pc'[u] \in {"update", "feed"} <=> lock' = u
    BY <1>1, <1>2, <1>4 DEF CallsOK
  <1> QED BY <1>1, <1>2, <1>3, <1>4, <1>5, <1>6, <1>7, <1>8, <1>9 DEF CallsOK

(* Before the first epoll_create() every thread is outside. *)
LEMMA CallsInit ==
  Init => CallsOK
  <1> SUFFICES ASSUME Init PROVE CallsOK
    OBVIOUS
  <1>1. CallsType
    <2>1. NoArg \in Arg
      BY DEF NoArg, Arg
    <2>2. pc \in [Threads -> PCs] /\ arg \in [Threads -> Arg]
      BY <2>1 DEF Init, PCs
    <2>3. calls \in 0..MaxCalls
      BY WepollAssumption DEF Init
    <2>4. reg \in BOOLEAN /\ destroy \in BOOLEAN
      BY DEF Init
    <2> QED BY <2>2, <2>3, <2>4 DEF Init, CallsType
  <1>2. \A t \in Threads : pc[t] = "idle"
    BY DEF Init
  <1>3. Inside = {} /\ Polling = {} /\ Closing = {}
    BY <1>2 DEF Inside, Polling, Closing
  <1>4. refs = Cardinality(Inside) /\ active = Cardinality(Polling) /\ refs = 0
    BY <1>3, FS_EmptySet DEF Init
  <1>5. lock = Nil /\ destroy = FALSE /\ reg = FALSE
    BY DEF Init
  <1> QED BY <1>1, <1>2, <1>3, <1>4, <1>5, WepollAssumption DEF CallsOK

(* Every step keeps the counts, the lock and the order of closing. *)
LEMMA CallsNext ==
  CallsOK /\ [Next]_vars => CallsOK'
  <1> SUFFICES ASSUME CallsOK, [Next]_vars PROVE CallsOK'
    OBVIOUS
  <1>1. CASE UNCHANGED vars
    BY <1>1, CallsFrame DEF vars, portVars, thrVars
  <1>2. ASSUME NEW t \in Threads, Wait(t) \/ Call(t)
        PROVE  CallsOK'
    BY <1>2, CallsCall
  <1>3. ASSUME NEW t \in Threads, TakeLock(t) \/ HoldLock(t) \/ NoLock(t)
        PROVE  CallsOK'
    <2>1. CASE SockUpdate(t) \/ SockFeedEvent(t)
      BY <2>1, CallsFrame DEF SockUpdate, SockFeedEvent, portVars, thrVars
    <2> QED BY <1>3, <2>1, CallsCtl, CallsWait, CallsUnref, CallsClose, CallsDelete
            DEF TakeLock, HoldLock, NoLock
  <1>4. ASSUME NEW o \in Objs, Kernel(o)
        PROVE  CallsOK'
    BY <1>4, CallsFrame DEF Kernel, AfdComplete, AfdFail, AfdStray, Completes, portVars, thrVars
  <1>5. ASSUME NEW s \in Sockets, Environment(s)
        PROVE  CallsOK'
    BY <1>5, CallsFrame DEF Environment, CloseSocket, Raise, Drain, portVars, thrVars
  <1> QED BY <1>1, <1>2, <1>3, <1>4, <1>5, WepollAssumption DEF Next

(* The first layer of the invariant. *)
LEMMA CallsInvariant ==
  Spec => []CallsOK
  BY CallsInit, CallsNext, PTL DEF Spec

(* The reflock counts the threads inside a call, so that port_delete() runs  *)
(* when no other thread is inside, holds the lock or sleeps in the           *)
(* completion port.                                                          *)
THEOREM PortIsFreedLast ==
  Spec => []PortOutlivesCalls
  <1>1. CallsOK => PortOutlivesCalls
    <2> SUFFICES ASSUME CallsOK PROVE PortOutlivesCalls
      OBVIOUS
    <2>1. refs = Cardinality({t \in Threads : pc[t] \notin {"idle", "await", "delete"}})
      BY DEF CallsOK, Inside
    <2>2. ASSUME (\E t \in Threads : pc[t] = "delete") \/ port = "none"
          PROVE  refs = 0 /\ lock = Nil /\ active = 0
      <3>1. refs = 0
        BY <2>2 DEF CallsOK
      <3>2. Inside = {} /\ active = 0
        BY <3>1, Counts
      <3>3. lock = Nil
        BY <3>2 DEF CallsOK, CallsType, Inside
      <3> QED BY <3>1, <3>2, <3>3
    <2> QED BY <2>1, <2>2 DEF PortOutlivesCalls
  <1> QED BY <1>1, CallsInvariant, PTL

-----------------------------------------------------------------------------
(* Those who sleep in the completion port *)

SleepOK == faults \in 0..MaxFaults /\ SleeperIsArmed

(* A step that adds nothing to the update queue while the lock is free and   *)
(* takes nobody to sleep.                                                    *)
LEMMA SleepFrame ==
  ASSUME SleepOK, CallsOK,
         faults' = faults \/ (faults < MaxFaults /\ faults' = faults + 1),
         \/ UNCHANGED <<lock, active>> /\ (lock = Nil => upd' \subseteq upd)
         \/ lock' # Nil \/ upd' = {} \/ active' = 0
  PROVE  SleepOK'
  <1>1. active \in Nat /\ MaxFaults \in Nat
    BY Counts, WepollAssumption
  <1> QED BY <1>1 DEF SleepOK, SleeperIsArmed

(* port__update_events_if_polling(): the lock is not free as long as someone *)
(* sleeps and something is queued.                                           *)
LEMMA SleepUpdate ==
  ASSUME SleepOK, CallsOK, NEW t \in Threads, UpdateIfPolling(t, active'), faults' = faults, active' \in Nat
  PROVE  SleepOK'
  <1>1. lock' # Nil \/ active' = 0
    BY WepollAssumption DEF UpdateIfPolling
  <1> QED BY <1>1, SleepFrame

(* sock__delete() *)
LEMMA DeleteFaults ==
  ASSUME NEW o, SockDelete(o)
  PROVE  /\ faults' = faults \/ (faults < MaxFaults /\ faults' = faults + 1)
         /\ upd' \subseteq upd
  BY DEF SockDelete

(* Every step. *)
LEMMA SleepNext ==
  CallsOK /\ SleepOK /\ [Next]_vars => SleepOK'
  <1> SUFFICES ASSUME CallsOK, SleepOK, [Next]_vars PROVE SleepOK'
    OBVIOUS
  <1>0. active \in Nat /\ Nil \notin Threads
    BY Counts, WepollAssumption
  <1>1. CASE UNCHANGED vars
    BY <1>1, SleepFrame DEF vars, sockVars
  <1>2. ASSUME NEW t \in Threads, Wait(t) \/ Call(t)
        PROVE  SleepOK'
    <2>1. UNCHANGED <<lock, active, upd, faults>>
      BY <1>2 DEF Wait, Call, EpollWait, EpollCtl, EpollClose, EpollCreate, Enter, sockVars
    <2> QED BY <2>1, SleepFrame
  <1>3. ASSUME NEW t \in Threads, PortCtl(t)
        PROVE  SleepOK'
    <2>1. active' = active
      BY <1>3 DEF PortCtl, CtlAdd, CtlAddFails, CtlMod, CtlDel, CtlNotFound
    <2>2. CASE UpdateIfPolling(t, active) /\ faults' = faults
      BY <1>0, <2>1, <2>2, SleepUpdate
    <2>3. CASE /\ lock' = lock /\ upd' \subseteq upd
               /\ faults' = faults \/ (faults < MaxFaults /\ faults' = faults + 1)
      BY <2>1, <2>3, SleepFrame
    <2> QED BY <1>3, <2>2, <2>3, DeleteFaults
            DEF PortCtl, CtlAdd, CtlAddFails, CtlMod, CtlDel, CtlNotFound, sockVars
  <1>4. ASSUME NEW t \in Threads, PortWait(t) \/ PortClose(t)
        PROVE  SleepOK'
    BY <1>0, <1>4, SleepFrame DEF PortWait, PortClose, sockVars
  <1>5. ASSUME NEW t \in Threads, Relock(t)
        PROVE  SleepOK'
    <2>1. active' = active - 1 /\ faults' = faults
      BY <1>5 DEF Relock
    <2>2. CASE lock' = t
      BY <1>0, <2>1, <2>2, SleepFrame
    <2>3. CASE pc[t] = "failed" /\ UpdateIfPolling(t, active - 1)
      <3>1. t \in Polling
        BY <2>3 DEF Polling
      <3>2. active' \in Nat
        BY <1>0, <2>1, <3>1, Counts
      <3> QED BY <2>1, <2>3, <3>2, SleepUpdate
    <2> QED BY <1>5, <2>2, <2>3 DEF Relock
  <1>6. ASSUME NEW t \in Threads, SockUpdate(t) \/ SockFeedEvent(t)
        PROVE  SleepOK'
    <2>1. lock = t /\ lock' = t /\ faults' = faults
      BY <1>6 DEF SockUpdate, SockFeedEvent
    <2> QED BY <1>0, <2>1, SleepFrame
  <1>7. ASSUME NEW t \in Threads, SockUpdateFails(t)
        PROVE  SleepOK'
    BY <1>7, WepollAssumption DEF SockUpdateFails, SleepOK, SleeperIsArmed
  <1>8. ASSUME NEW t \in Threads, SockUpdateDone(t)
        PROVE  SleepOK'
    BY <1>8, SleepFrame DEF SockUpdateDone, sockVars
  <1>9. ASSUME NEW t \in Threads, FeedDone(t)
        PROVE  SleepOK'
    <2>1. active' = active /\ faults' = faults
      BY <1>9 DEF FeedDone
    <2>2. CASE UpdateIfPolling(t, active)
      BY <1>0, <2>1, <2>2, SleepUpdate
    <2>3. CASE lock = t /\ lock' = lock
      BY <1>0, <2>1, <2>3, SleepFrame
    <2> QED BY <1>9, <2>2, <2>3 DEF FeedDone
  <1>10. ASSUME NEW t \in Threads, NoLock(t)
         PROVE  SleepOK'
    <2>1. UNCHANGED <<lock, active, faults>> /\ upd' \subseteq upd
      BY <1>10 DEF NoLock, Dequeue, DequeueFails, Unref, UnrefAndDestroy, PortDelete, sockVars
    <2> QED BY <2>1, SleepFrame
  <1>11. ASSUME NEW o \in Objs, Kernel(o)
         PROVE  SleepOK'
    <2>1. UNCHANGED <<lock, active, upd>> /\ (faults' = faults \/ (faults < MaxFaults /\ faults' = faults + 1))
      BY <1>11 DEF Kernel, AfdComplete, AfdFail, AfdStray, Completes, sockVars
    <2> QED BY <2>1, SleepFrame
  <1>12. ASSUME NEW s \in Sockets, Environment(s)
         PROVE  SleepOK'
    BY <1>12, SleepFrame DEF Environment, CloseSocket, Raise, Drain, sockVars
  <1> QED BY <1>1, <1>2, <1>3, <1>4, <1>5, <1>6, <1>7, <1>8, <1>9, <1>10, <1>11, <1>12, WepollAssumption
          DEF Next, TakeLock, HoldLock

(* The second layer of the invariant. *)
LEMMA SleepInvariant ==
  Spec => []SleepOK
  <1>1. Init => SleepOK
    BY WepollAssumption DEF Init, SleepOK, SleeperIsArmed
  <1> QED BY <1>1, SleepNext, CallsInvariant, PTL DEF Spec

(* Whoever changes the update queue while a thread sleeps in the completion  *)
(* port works it off before the critical section is left, so no thread       *)
(* sleeps on a socket whose poll was not requested.                          *)
THEOREM SleepersAreArmed ==
  Spec => []SleeperIsArmed
  <1>1. SleepOK => SleeperIsArmed
    BY DEF SleepOK
  <1> QED BY <1>1, SleepInvariant, PTL

-----------------------------------------------------------------------------
(* The sock_states *)

SockType ==
    /\ objs \subseteq Objs /\ upd \subseteq Objs /\ del \subseteq Objs /\ iocp \subseteq Objs
    /\ tree \in [Sockets -> Objs \cup {Nil}]
    /\ sk \in [Objs -> SockState] /\ kev \in [Objs -> SUBSET (Afd \cup Failed)]
    /\ kst \in [Objs -> {"none", "armed", "cancel", "done", "stray"}]
    /\ got \in [Threads -> SUBSET Objs] /\ n \in [Threads -> BOOLEAN]

(* A sock_state that is free is on no queue and the kernel does not know it, *)
(* or has a stray poll for it.                                               *)
(* One that is allocated has a poll unless it is idle, is in the tree or on  *)
(* the deleted queue, and is not forgotten (Watched).                        *)
ObjOK(o) ==
    /\ o \notin objs => o \notin upd /\ o \notin del /\ kst[o] \in {"none", "stray"} /\ sk[o].grp = 0
    /\ o \in objs =>
          /\ sk[o].sock \in Sockets /\ sk[o].grp \in Groups
          /\ kst[o] = "none" <=> sk[o].st = "IDLE"
          /\ kst[o] # "stray"
          /\ sk[o].dp <=> tree[sk[o].sock] # o
          /\ o \in del <=> tree[sk[o].sock] # o
          /\ tree[sk[o].sock] # o => kst[o] # "none" /\ o \notin upd
          /\ tree[sk[o].sock] = o =>
                o \in upd \/ sk[o].st = "CANCELLED" \/ (sk[o].st = "PENDING" /\ Uncovered(o) = {})
    /\ o \in iocp => kst[o] = "done"

TreeOK == \A s \in Sockets : tree[s] # Nil => tree[s] \in objs /\ sk[tree[s]].sock = s

(* A completion is in the port or with one thread that has taken it. *)
GotOK ==
    /\ \A t \in Threads : got[t] # {} => pc[t] \in {"got", "feed"}
    /\ \A t \in Threads : \A o \in got[t] : kst[o] = "done" /\ o \notin iocp
    /\ \A t, u \in Threads : t # u => got[t] \cap got[u] = {}

SockOK == SockType /\ (\A o \in Objs : ObjOK(o)) /\ TreeOK /\ GotOK

(* A sock_state that the step does not concern. *)
LEMMA OtherObj ==
  ASSUME NEW o, ObjOK(o), sk'[o] = sk[o], kst'[o] = kst[o],
         o \in objs' <=> o \in objs, o \in upd' <=> o \in upd, o \in del' <=> o \in del,
         o \in iocp' => o \in iocp,
         o \in objs => (tree'[sk[o].sock] = o <=> tree[sk[o].sock] = o)
  PROVE  ObjOK(o)'
  <1>1. Uncovered(o)' = Uncovered(o)
    BY DEF Uncovered
  <1> QED BY <1>1 DEF ObjOK

(* A thread that has completions to feed does not leave. *)
KeepsPlace ==
    \A u \in Threads : got[u] # {} /\ pc[u] \in {"got", "feed"} => pc'[u] \in {"got", "feed"}

(* Completions stay where they are. *)
LEMMA GotFrame ==
  ASSUME GotOK, SockType, got' = got, iocp' = iocp,
         \A o \in Objs : kst[o] = "done" => kst'[o] = "done",
         KeepsPlace
  PROVE  GotOK'
  BY DEF GotOK, SockType, KeepsPlace

(* A step that leaves the sock_states and the kernel alone. *)
LEMMA SockFrame ==
  ASSUME SockOK, UNCHANGED <<tree, objs, sk, upd, del, got, kst, kev, iocp>>,
         n' \in [Threads -> BOOLEAN],
         KeepsPlace
  PROVE  SockOK'
  <1>1. SockType'
    BY DEF SockOK, SockType
  <1>2. \A o \in Objs : ObjOK(o)'
    BY OtherObj DEF SockOK
  <1>3. TreeOK'
    BY DEF SockOK, TreeOK
  <1>4. GotOK'
    BY GotFrame DEF SockOK
  <1> QED BY <1>1, <1>2, <1>3, <1>4 DEF SockOK

(* The steps that do. *)
LEMMA SockQuiet ==
  ASSUME CallsOK, SockOK, NEW t \in Threads,
         \/ Wait(t) \/ Call(t) \/ PortWait(t) \/ Relock(t) \/ PortClose(t)
         \/ SockUpdateFails(t) \/ SockUpdateDone(t) \/ FeedDone(t)
         \/ DequeueFails(t) \/ Unref(t) \/ UnrefAndDestroy(t)
  PROVE  SockOK'
  <1>1. UNCHANGED <<tree, objs, sk, upd, del, got, kst, kev, iocp>>
    BY DEF Wait, Call, EpollWait, EpollCtl, EpollClose, EpollCreate, Enter, PortWait, Relock, PortClose,
           SockUpdateFails, SockUpdateDone, FeedDone, DequeueFails, Unref, UnrefAndDestroy,
           sockVars, thrVars, kernVars
  <1>2. n' \in [Threads -> BOOLEAN]
    <2>1. n \in [Threads -> BOOLEAN]
      BY DEF SockOK, SockType
    <2>2. n' = n \/ n' = [n EXCEPT ![t] = FALSE]
      BY DEF Wait, Call, EpollWait, EpollCtl, EpollClose, EpollCreate, Enter, PortWait, Relock, PortClose,
             SockUpdateFails, SockUpdateDone, FeedDone, DequeueFails, Unref, UnrefAndDestroy, thrVars
    <2> QED BY <2>1, <2>2
  <1>3. KeepsPlace
    <2>1. CASE Wait(t) \/ Call(t)
      <3>1. pc' = pc \/ (pc[t] = "idle" /\ \E w : pc' = [pc EXCEPT ![t] = w])
        BY <2>1 DEF Wait, Call, EpollWait, EpollCtl, EpollClose, EpollCreate, Enter, Goto, thrVars
      <3> QED BY <3>1 DEF CallsOK, CallsType, KeepsPlace
    <2>2. CASE Relock(t)
      <3>1. \/ pc[t] = "got" /\ pc' = [pc EXCEPT ![t] = "feed"]
            \/ pc[t] = "failed" /\ \E w : pc' = [pc EXCEPT ![t] = w]
        BY <2>2 DEF Relock, UpdateIfPolling, Goto
      <3> QED BY <3>1 DEF CallsOK, CallsType, KeepsPlace
    <2>3. CASE Unref(t)
      BY <2>3 DEF Unref, KeepsPlace
    <2>4. CASE FeedDone(t)
      <3>1. got[t] = {} /\ \E w : pc' = [pc EXCEPT ![t] = w]
        BY <2>4 DEF FeedDone, UpdateIfPolling, Goto
      <3> QED BY <3>1 DEF CallsOK, CallsType, KeepsPlace
    <2>5. CASE \/ PortWait(t) \/ PortClose(t) \/ SockUpdateFails(t) \/ SockUpdateDone(t)
               \/ DequeueFails(t) \/ UnrefAndDestroy(t)
      <3>1. pc[t] \notin {"got", "feed"} /\ \E w : pc' = [pc EXCEPT ![t] = w]
        BY <2>5 DEF PortWait, PortClose, SockUpdateFails, SockUpdateDone, DequeueFails, UnrefAndDestroy,
                    UpdateIfPolling, Goto
      <3> QED BY <3>1 DEF CallsOK, CallsType, KeepsPlace
    <2> QED BY <2>1, <2>2, <2>3, <2>4, <2>5
  <1> QED BY <1>1, <1>2, <1>3, SockFrame

(* What sock_update(), sock__delete() and sock_feed_event() write into a     *)
(* sock_state leaves its socket and its group.  A poll is cancelled:         *)
LEMMA SkCancel ==
  ASSUME NEW r \in SockState
  PROVE  LET q == [r EXCEPT !.st = "CANCELLED", !.pe = {}] IN
         /\ q \in SockState /\ q.sock = r.sock /\ q.grp = r.grp
         /\ q.dp = r.dp /\ q.st = "CANCELLED"
  BY DEF SockState

(* A sock_state is deleted and its poll cancelled. *)
LEMMA SkDelCancel ==
  ASSUME NEW r \in SockState
  PROVE  LET q == [r EXCEPT !.dp = TRUE, !.st = "CANCELLED", !.pe = {}] IN
         /\ q \in SockState /\ q.sock = r.sock /\ q.grp = r.grp
         /\ q.dp /\ q.st = "CANCELLED"
  BY DEF SockState

(* A sock_state is deleted, its poll goes on. *)
LEMMA SkDel ==
  ASSUME NEW r \in SockState
  PROVE  LET q == [r EXCEPT !.dp = TRUE] IN
         /\ q \in SockState /\ q.sock = r.sock /\ q.grp = r.grp
         /\ q.dp /\ q.st = r.st
  BY DEF SockState

(* A poll for the user's events is requested. *)
LEMMA SkPoll ==
  ASSUME NEW r \in SockState
  PROVE  LET q == [r EXCEPT !.st = "PENDING", !.pe = r.ue] IN
         /\ q \in SockState /\ q.sock = r.sock /\ q.grp = r.grp
         /\ q.dp = r.dp /\ q.st = "PENDING" /\ q.pe = q.ue
  BY DEF SockState

(* A poll has completed. *)
LEMMA SkFeed ==
  ASSUME NEW r \in SockState, NEW e \in SUBSET Epoll
  PROVE  LET q == [r EXCEPT !.st = "IDLE", !.pe = {}, !.ue = e] IN
         /\ q \in SockState /\ q.sock = r.sock /\ q.grp = r.grp
         /\ q.dp = r.dp /\ q.st = "IDLE"
  BY DEF SockState

(* epoll_ctl() sets the user's events. *)
LEMMA SkEvent ==
  ASSUME NEW r \in SockState, NEW e \in SUBSET Epoll
  PROVE  LET q == [r EXCEPT !.ue = e] IN
         /\ q \in SockState /\ q.sock = r.sock /\ q.grp = r.grp
         /\ q.dp = r.dp /\ q.st = r.st /\ q.ue = e /\ q.pe = r.pe
  BY DEF SockState

(* sock_new(), or no sock_state. *)
LEMMA SkNew ==
  ASSUME NEW s \in Sockets \cup {Nil}, NEW g \in Groups \cup {0}, NEW e \in SUBSET Epoll
  PROVE  LET q == NewSock(s, g, e) IN
         /\ q \in SockState /\ q.sock = s /\ q.grp = g /\ q.ue = e
         /\ ~q.dp /\ q.st = "IDLE"
  BY DEF SockState, NewSock

(* A step that concerns one sock_state. *)
LEMMA OneSock ==
  ASSUME SockOK, NEW o \in Objs, SockType', TreeOK', GotOK', ObjOK(o)',
         \A p \in Objs \ {o} :
            /\ sk'[p] = sk[p] /\ kst'[p] = kst[p]
            /\ p \in objs' <=> p \in objs
            /\ p \in upd' <=> p \in upd
            /\ p \in del' <=> p \in del
            /\ p \in iocp' => p \in iocp
            /\ p \in objs => (tree'[sk[p].sock] = p <=> tree[sk[p].sock] = p)
  PROVE  SockOK'
  BY OtherObj DEF SockOK

(* The tree does not change. *)
LEMMA TreeSame ==
  ASSUME SockOK, NEW o \in Objs, tree' = tree,
         \A p \in Objs \ {o} : sk'[p] = sk[p] /\ (p \in objs' <=> p \in objs),
         tree[sk[o].sock] = o => o \in objs' /\ sk'[o].sock = sk[o].sock
  PROVE  TreeOK'
  BY DEF SockOK, TreeOK, SockType

(* A sock_state leaves the tree. *)
LEMMA TreeDrop ==
  ASSUME SockOK, NEW o \in objs, tree[sk[o].sock] = o, tree' = [tree EXCEPT ![sk[o].sock] = Nil],
         \A p \in Objs \ {o} : sk'[p] = sk[p] /\ (p \in objs' <=> p \in objs)
  PROVE  /\ TreeOK' /\ tree' \in [Sockets -> Objs \cup {Nil}] /\ tree'[sk[o].sock] = Nil
         /\ \A p \in Objs \ {o} : p \in objs => (tree'[sk[p].sock] = p <=> tree[sk[p].sock] = p)
  <1>1. /\ o \in Objs /\ sk[o].sock \in Sockets /\ tree \in [Sockets -> Objs \cup {Nil}]
        /\ \A p \in Objs : p \in objs => sk[p].sock \in Sockets
    BY DEF SockOK, SockType, ObjOK
  <1>2. TreeOK'
    BY <1>1, WepollAssumption DEF SockOK, TreeOK
  <1>3. ASSUME NEW p \in Objs \ {o}, p \in objs
        PROVE  tree'[sk[p].sock] = p <=> tree[sk[p].sock] = p
    BY <1>1, <1>3, WepollAssumption
  <1> QED BY <1>1, <1>2, <1>3

(* The memory of a sock_state is freed. *)
LEMMA SockFreed ==
  ASSUME SockOK, NEW o \in objs, FreeSock(o), upd' = upd \ {o},
         IF tree[sk[o].sock] = o THEN tree' = [tree EXCEPT ![sk[o].sock] = Nil] ELSE tree' = tree,
         kst' = [kst EXCEPT ![o] = "none"], kev' \in [Objs -> SUBSET (Afd \cup Failed)],
         iocp' = iocp, o \notin iocp,
         GotOK', got' \in [Threads -> SUBSET Objs], n' \in [Threads -> BOOLEAN]
  PROVE  SockOK'
  <1>1. o \in Objs /\ SockType /\ ObjOK(o)
    BY DEF SockOK, SockType
  <1>2. objs' = objs \ {o} /\ sk' = [sk EXCEPT ![o] = NoSock] /\ del' = del \ {o}
    BY DEF FreeSock
  <1>3. NoSock \in SockState /\ NoSock.grp = 0
    BY SkNew DEF NoSock
  <1>4. sk' \in [Objs -> SockState] /\ sk'[o].grp = 0 /\ \A p \in Objs \ {o} : sk'[p] = sk[p]
    <2> HIDE DEF NoSock
    <2> QED BY <1>1, <1>2, <1>3 DEF SockType
  <1>5. /\ TreeOK' /\ tree' \in [Sockets -> Objs \cup {Nil}]
        /\ \A p \in Objs \ {o} : p \in objs => (tree'[sk[p].sock] = p <=> tree[sk[p].sock] = p)
    <2>1. CASE tree[sk[o].sock] = o
      BY <1>2, <1>4, <2>1, TreeDrop
    <2>2. CASE tree[sk[o].sock] # o
      BY <1>1, <1>2, <1>4, <2>2, TreeSame DEF SockType
    <2> QED BY <2>1, <2>2
  <1>6. SockType'
    BY <1>1, <1>2, <1>4, <1>5 DEF SockType
  <1>7. ObjOK(o)'
    BY <1>1, <1>2, <1>4 DEF ObjOK, SockType
  <1>8. \A p \in Objs \ {o} :
            /\ sk'[p] = sk[p] /\ kst'[p] = kst[p]
            /\ p \in objs' <=> p \in objs
            /\ p \in upd' <=> p \in upd
            /\ p \in del' <=> p \in del
            /\ p \in iocp' => p \in iocp
            /\ p \in objs => (tree'[sk[p].sock] = p <=> tree[sk[p].sock] = p)
    BY <1>1, <1>2, <1>4, <1>5 DEF SockType
  <1> QED BY <1>1, <1>5, <1>6, <1>7, <1>8, OneSock

(* sock__delete() of a sock_state that is in the tree. *)
LEMMA SockDeleted ==
  ASSUME SockOK, NEW o \in objs, tree[sk[o].sock] = o, SockDelete(o),
         UNCHANGED <<kev, iocp, got, n>>, KeepsPlace
  PROVE  SockOK'
  <1>1. o \in Objs /\ SockType /\ ObjOK(o) /\ GotOK
    BY DEF SockOK, SockType
  <1>2. upd' = upd \ {o} /\ tree' = [tree EXCEPT ![sk[o].sock] = Nil]
    BY DEF SockDelete
  <1>3. CASE sk[o].st = "IDLE"
    <2>1. FreeSock(o) /\ kst' = kst
      BY <1>3 DEF SockDelete
    <2>2. kst[o] = "none"
      BY <1>1, <1>3 DEF ObjOK
    <2>3. kst' = [kst EXCEPT ![o] = "none"] /\ o \notin iocp
      BY <1>1, <2>1, <2>2 DEF SockType, ObjOK
    <2>4. GotOK'
      BY <1>1, <2>1, GotFrame
    <2> QED BY <1>1, <1>2, <2>1, <2>3, <2>4, SockFreed DEF SockType
  <1>4. CASE sk[o].st # "IDLE"
    <2>1. PICK r : /\ r \in SockState /\ r.sock = sk[o].sock /\ r.grp = sk[o].grp /\ r.dp /\ r.st # "IDLE"
                   /\ sk' = [sk EXCEPT ![o] = r]
      <3>1. sk[o] \in SockState
        BY <1>1 DEF SockType
      <3>2. CASE sk' = [sk EXCEPT ![o] = [@ EXCEPT !.dp = TRUE, !.st = "CANCELLED", !.pe = {}]]
        <4> DEFINE q == [sk[o] EXCEPT !.dp = TRUE, !.st = "CANCELLED", !.pe = {}]
        <4>1. q \in SockState /\ q.sock = sk[o].sock /\ q.grp = sk[o].grp /\ q.dp /\ q.st = "CANCELLED"
          BY <3>1, SkDelCancel
        <4>2. sk' = [sk EXCEPT ![o] = q]
          BY <3>2
        <4> HIDE DEF q
        <4> QED BY <4>1, <4>2
      <3>3. CASE sk' = [sk EXCEPT ![o].dp = TRUE]
        <4> DEFINE q == [sk[o] EXCEPT !.dp = TRUE]
        <4>1. q \in SockState /\ q.sock = sk[o].sock /\ q.grp = sk[o].grp /\ q.dp /\ q.st = sk[o].st
          BY <3>1, SkDel
        <4>2. sk' = [sk EXCEPT ![o] = q]
          BY <3>3
        <4> HIDE DEF q
        <4> QED BY <1>4, <4>1, <4>2
      <3> QED BY <1>4, <3>2, <3>3 DEF SockDelete
    <2>2. objs' = objs /\ del' = del \cup {o}
      BY <1>4 DEF SockDelete
    <2>3. /\ kst' \in [Objs -> {"none", "armed", "cancel", "done", "stray"}]
          /\ \A p \in Objs \ {o} : kst'[p] = kst[p]
          /\ kst'[o] = "none" <=> kst[o] = "none"
          /\ kst'[o] = "stray" <=> kst[o] = "stray"
          /\ kst[o] = "done" => kst'[o] = "done"
      <3>1. kst' = kst \/ kst' = [kst EXCEPT ![o] = IF @ = "armed" THEN "cancel" ELSE @]
        BY <1>4 DEF SockDelete, AfdCancel
      <3> QED BY <1>1, <3>1 DEF SockType
    <2>4. /\ sk' \in [Objs -> SockState] /\ sk'[o] = r /\ \A p \in Objs \ {o} : sk'[p] = sk[p]
      BY <1>1, <2>1 DEF SockType
    <2>5. /\ TreeOK' /\ tree' \in [Sockets -> Objs \cup {Nil}] /\ tree'[sk[o].sock] = Nil
          /\ \A p \in Objs \ {o} : p \in objs => (tree'[sk[p].sock] = p <=> tree[sk[p].sock] = p)
      BY <1>2, <2>2, <2>4, TreeDrop
    <2>6. SockType'
      BY <1>1, <1>2, <2>2, <2>3, <2>4, <2>5 DEF SockType
    <2>7. GotOK'
      <3>1. \A p \in Objs : kst[p] = "done" => kst'[p] = "done"
        BY <2>3
      <3> QED BY <1>1, <3>1, GotFrame
    <2>8. ObjOK(o)'
      BY <1>1, <1>2, <1>4, <2>1, <2>2, <2>3, <2>4, <2>5, WepollAssumption DEF ObjOK
    <2>9. \A p \in Objs \ {o} :
            /\ sk'[p] = sk[p] /\ kst'[p] = kst[p]
            /\ p \in objs' <=> p \in objs
            /\ p \in upd' <=> p \in upd
            /\ p \in del' <=> p \in del
            /\ p \in iocp' => p \in iocp
            /\ p \in objs => (tree'[sk[p].sock] = p <=> tree[sk[p].sock] = p)
      BY <1>2, <2>2, <2>3, <2>4, <2>5
    <2> QED BY <1>1, <2>5, <2>6, <2>7, <2>8, <2>9, OneSock
  <1> QED BY <1>3, <1>4

(* A step that changes the record or the poll of a sock_state in the tree,   *)
(* and whether it is on the update queue.                                    *)
LEMMA SockKept ==
  ASSUME SockOK, NEW o \in objs, NEW r \in SockState, tree[sk[o].sock] = o,
         r.sock = sk[o].sock, r.grp = sk[o].grp, r.dp = sk[o].dp,
         sk' = [sk EXCEPT ![o] = r],
         upd' \in {upd \ {o}, upd \cup {o}, upd},
         UNCHANGED <<tree, objs, del, iocp>>, n' \in [Threads -> BOOLEAN],
         kst' \in [Objs -> {"none", "armed", "cancel", "done", "stray"}], \A p \in Objs \ {o} : kst'[p] = kst[p],
         kst'[o] = "none" <=> r.st = "IDLE", kst'[o] # "stray", o \in iocp => kst'[o] = "done",
         kev' \in [Objs -> SUBSET (Afd \cup Failed)], got' \in [Threads -> SUBSET Objs],
         o \in upd' \/ r.st = "CANCELLED" \/ (r.st = "PENDING" /\ (r.ue \cap Known) \ r.pe = {}),
         GotOK'
  PROVE  SockOK'
  <1>1. o \in Objs /\ SockType /\ ObjOK(o)
    BY DEF SockOK, SockType
  <1>2. sk' \in [Objs -> SockState] /\ sk'[o] = r /\ \A p \in Objs \ {o} : sk'[p] = sk[p]
    BY <1>1 DEF SockType
  <1>3. SockType'
    BY <1>1, <1>2 DEF SockType
  <1>4. TreeOK'
    BY <1>1, <1>2, TreeSame
  <1>5. ObjOK(o)'
    <2>1. Uncovered(o)' = (r.ue \cap Known) \ r.pe
      BY <1>2 DEF Uncovered
    <2> QED BY <1>1, <1>2, <2>1 DEF ObjOK
  <1>6. \A p \in Objs \ {o} : p \in upd' <=> p \in upd
    OBVIOUS
  <1> QED BY <1>1, <1>2, <1>3, <1>4, <1>5, <1>6, OneSock

(* epoll_ctl() under the lock; a new sock_state has a poll group. *)
LEMMA SockCtl ==
  ASSUME CallsOK, SockOK, NEW t \in Threads, PortCtl(t), objs # Objs => Group \in Groups
  PROVE  SockOK'
  <1> DEFINE s == arg[t].s
             ev == arg[t].ev \cup {"ERR", "HUP"}
  <1>1. s \in Sockets /\ ev \in SUBSET Epoll
    <2>1. pc[t] = "ctl"
      BY DEF PortCtl
    <2>2. arg[t] \in Arg
      BY DEF CallsOK, CallsType
    <2>3. arg[t].ev \in SUBSET Epoll
      BY <2>2 DEF Arg
    <2> QED BY <2>1, <2>3 DEF CallsOK, Epoll, Known
  <1>2. KeepsPlace
    <2>1. pc[t] = "ctl" /\ \E w : pc' = [pc EXCEPT ![t] = w]
      BY DEF PortCtl, CtlAdd, CtlAddFails, CtlMod, CtlDel, CtlNotFound, UpdateIfPolling, Goto
    <2> QED BY <2>1 DEF KeepsPlace, CallsOK, CallsType
  <1>3. SockType /\ GotOK /\ TreeOK /\ \A o \in Objs : ObjOK(o)
    BY DEF SockOK
  <1>4. UNCHANGED <<kev, iocp, got, n>>
    BY DEF PortCtl, CtlAdd, CtlAddFails, CtlMod, CtlDel, CtlNotFound, kernVars
  <1>5. CASE CtlAdd(t, s)
    <2>1. tree[s] = Nil /\ Available # {} /\ objs # Objs /\ UNCHANGED <<del, kst>>
      BY <1>5 DEF CtlAdd, Available, kernVars
    <2>2. PICK o \in Objs :
            /\ o \notin objs /\ kst[o] = "none"
            /\ objs' = objs \cup {o} /\ sk' = [sk EXCEPT ![o] = NewSock(s, Group, ev)]
            /\ tree' = [tree EXCEPT ![s] = o] /\ upd' = upd \cup {o}
      <3> DEFINE x == CHOOSE x \in Available : TRUE
      <3>1. x \in Objs /\ x \notin objs /\ kst[x] = "none"
        BY <2>1 DEF Available
      <3>2. /\ objs' = objs \cup {x} /\ sk' = [sk EXCEPT ![x] = NewSock(s, Group, ev)]
            /\ tree' = [tree EXCEPT ![s] = x] /\ upd' = upd \cup {x}
        BY <1>5 DEF CtlAdd
      <3> HIDE DEF x
      <3> QED BY <3>1, <3>2
    <2> DEFINE q == NewSock(s, Group, ev)
    <2>3. /\ q \in SockState /\ q.sock = s /\ q.grp = Group /\ ~q.dp /\ q.st = "IDLE" /\ Group \in Groups
      BY <1>1, <2>1, SkNew
    <2> HIDE DEF q
    <2>4. kst[o] = "none" /\ o \notin del /\ o \notin iocp
      BY <1>3, <2>2 DEF ObjOK
    <2>5. /\ sk' \in [Objs -> SockState] /\ sk'[o] = q /\ \A p \in Objs \ {o} : sk'[p] = sk[p]
      BY <1>3, <2>2, <2>3 DEF SockType, q
    <2>6. /\ tree' \in [Sockets -> Objs \cup {Nil}] /\ tree'[s] = o
          /\ \A x \in Sockets \ {s} : tree'[x] = tree[x]
      BY <1>1, <1>3, <2>1, <2>2 DEF SockType
    <2>7. SockType'
      BY <1>3, <1>4, <2>1, <2>2, <2>5, <2>6 DEF SockType
    <2>8. \A x \in Sockets : tree[x] # o
      BY <1>3, <2>2, WepollAssumption DEF TreeOK
    <2>9. TreeOK'
      BY <1>1, <1>3, <2>1, <2>2, <2>3, <2>5, <2>6, <2>8 DEF TreeOK, SockType
    <2>10. ObjOK(o)'
      <3>1. /\ sk'[o].sock = s /\ sk'[o].grp \in Groups /\ sk'[o].st = "IDLE" /\ tree'[s] = o
            /\ o \in objs' /\ o \in upd' /\ o \notin del' /\ kst'[o] = "none" /\ o \notin iocp'
        BY <1>4, <2>1, <2>2, <2>3, <2>4, <2>5, <2>6
      <3>2. ~sk'[o].dp
        BY ONLY <2>3, <2>5, Zenon
      <3> QED BY <1>1, <3>1, <3>2 DEF ObjOK
    <2>11. GotOK'
      BY <1>2, <1>3, <1>4, <2>1, GotFrame
    <2>12. ASSUME NEW p \in Objs \ {o}, p \in objs
           PROVE  tree'[sk[p].sock] = p <=> tree[sk[p].sock] = p
      <3>1. sk[p].sock \in Sockets
        BY <1>3, <2>12 DEF ObjOK
      <3> QED BY <2>1, <2>6, <3>1, WepollAssumption
    <2>13. \A p \in Objs \ {o} :
            /\ sk'[p] = sk[p] /\ kst'[p] = kst[p]
            /\ p \in objs' <=> p \in objs
            /\ p \in upd' <=> p \in upd
            /\ p \in del' <=> p \in del
            /\ p \in iocp' => p \in iocp
            /\ p \in objs => (tree'[sk[p].sock] = p <=> tree[sk[p].sock] = p)
      BY <1>4, <2>1, <2>2, <2>5, <2>12
    <2> QED BY <2>2, <2>7, <2>9, <2>10, <2>11, <2>13, OneSock
  <1>6. CASE CtlAddFails(t, s) \/ CtlNotFound(t, s)
    BY <1>2, <1>3, <1>6, SockFrame DEF CtlAddFails, CtlNotFound, SockType, sockVars, kernVars
  <1>7. CASE CtlMod(t, s)
    <2> DEFINE o == tree[s]
               q == [sk[o] EXCEPT !.ue = ev]
    <2>1. /\ o # Nil /\ sk' = [sk EXCEPT ![o] = q]
          /\ upd' = IF (ev \cap Known) \ sk[o].pe # {} THEN upd \cup {o} ELSE upd
          /\ UNCHANGED <<tree, objs, del, kst>>
      BY <1>7 DEF CtlMod, SockSetEvent, kernVars
    <2>2. o \in objs /\ sk[o].sock = s /\ tree[sk[o].sock] = o /\ o \in Objs
      BY <1>1, <1>3, <2>1 DEF TreeOK, SockType
    <2>3. /\ q \in SockState /\ q.sock = sk[o].sock /\ q.grp = sk[o].grp
          /\ q.dp = sk[o].dp /\ q.st = sk[o].st /\ q.ue = ev /\ q.pe = sk[o].pe
      <3>1. sk[o] \in SockState
        BY <1>3, <2>2 DEF SockType
      <3> QED BY <1>1, <3>1, SkEvent
    <2>4. ObjOK(o)
      BY <1>3, <2>2
    <2> HIDE DEF o, q
    <2>5. o \in upd' \/ q.st = "CANCELLED" \/ (q.st = "PENDING" /\ (q.ue \cap Known) \ q.pe = {})
      <3>1. CASE (ev \cap Known) \ sk[o].pe # {}
        BY <2>1, <3>1
      <3>2. CASE (ev \cap Known) \ sk[o].pe = {}
        BY <2>1, <2>2, <2>3, <2>4, <3>2 DEF ObjOK
      <3> QED BY <3>1, <3>2
    <2>6. GotOK'
      BY <1>2, <1>3, <1>4, <2>1, GotFrame
    <2>7. upd' \in {upd \ {o}, upd \cup {o}, upd}
      BY <2>1
    <2>8. (kst'[o] = "none" <=> q.st = "IDLE") /\ kst'[o] # "stray" /\ (o \in iocp => kst'[o] = "done")
      BY <2>1, <2>2, <2>3, <2>4 DEF ObjOK
    <2> QED BY <1>3, <1>4, <2>1, <2>2, <2>3, <2>5, <2>6, <2>7, <2>8, SockKept DEF SockType
  <1>8. CASE CtlDel(t, s)
    <2>1. tree[s] # Nil /\ SockDelete(tree[s])
      BY <1>8 DEF CtlDel
    <2>2. tree[s] \in objs /\ sk[tree[s]].sock = s
      BY <1>1, <1>3, <2>1 DEF TreeOK
    <2> QED BY <1>2, <1>4, <2>1, <2>2, SockDeleted
  <1> QED BY <1>5, <1>6, <1>7, <1>8 DEF PortCtl

(* sock_update() *)
LEMMA SockUpdated ==
  ASSUME CallsOK, SockOK, NEW t \in Threads, SockUpdate(t)
  PROVE  SockOK'
  <1>1. SockType /\ GotOK /\ TreeOK /\ \A o \in Objs : ObjOK(o)
    BY DEF SockOK
  <1>2. PICK o \in upd : UpdateNothing(o) \/ UpdateCancel(o) \/ UpdatePoll(o) \/ UpdateDrop(o)
    BY DEF SockUpdate
  <1>3. o \in Objs /\ o \in objs /\ tree[sk[o].sock] = o /\ ObjOK(o) /\ sk[o] \in SockState
    BY <1>1 DEF SockType, ObjOK
  <1>4. UNCHANGED <<iocp, got, n>> /\ KeepsPlace
    BY DEF SockUpdate, thrVars, KeepsPlace
  <1>5. CASE UpdateNothing(o)
    <2>1. /\ sk[o].st = "CANCELLED" \/ (sk[o].st = "PENDING" /\ (sk[o].ue \cap Known) \ sk[o].pe = {})
          /\ upd' = upd \ {o} /\ UNCHANGED <<sk, kst, kev, tree, objs, del>>
      BY <1>5 DEF UpdateNothing, Uncovered
    <2>2. sk' = [sk EXCEPT ![o] = sk[o]]
      BY <1>1, <1>3, <2>1 DEF SockType
    <2>3. GotOK'
      BY <1>1, <1>4, <2>1, GotFrame
    <2>4. (kst'[o] = "none" <=> sk[o].st = "IDLE") /\ kst'[o] # "stray" /\ (o \in iocp => kst'[o] = "done")
      BY <1>3, <2>1 DEF ObjOK
    <2> QED BY <1>1, <1>3, <1>4, <2>1, <2>2, <2>3, <2>4, SockKept DEF SockType
  <1>6. CASE UpdateCancel(o)
    <2> DEFINE q == [sk[o] EXCEPT !.st = "CANCELLED", !.pe = {}]
    <2>1. /\ sk[o].st = "PENDING" /\ sk' = [sk EXCEPT ![o] = q] /\ upd' = upd \ {o}
          /\ kst' = [kst EXCEPT ![o] = IF @ = "armed" THEN "cancel" ELSE @]
          /\ UNCHANGED <<kev, tree, objs, del>>
      BY <1>6 DEF UpdateCancel, AfdCancel
    <2>2. /\ q \in SockState /\ q.sock = sk[o].sock /\ q.grp = sk[o].grp
          /\ q.dp = sk[o].dp /\ q.st = "CANCELLED"
      BY <1>3, SkCancel
    <2> HIDE DEF q
    <2>3. /\ kst' \in [Objs -> {"none", "armed", "cancel", "done", "stray"}]
          /\ \A p \in Objs \ {o} : kst'[p] = kst[p]
          /\ \A p \in Objs : kst[p] = "done" => kst'[p] = "done"
          /\ kst'[o] \notin {"none", "stray"} /\ (o \in iocp => kst'[o] = "done")
      BY <1>1, <1>3, <2>1 DEF SockType, ObjOK
    <2>4. GotOK'
      BY <1>1, <1>4, <2>3, GotFrame
    <2> QED BY <1>1, <1>3, <1>4, <2>1, <2>2, <2>3, <2>4, SockKept DEF SockType
  <1>7. CASE UpdatePoll(o)
    <2> DEFINE q == [sk[o] EXCEPT !.st = "PENDING", !.pe = sk[o].ue]
    <2>1. /\ sk[o].st = "IDLE" /\ sk' = [sk EXCEPT ![o] = q] /\ upd' = upd \ {o}
          /\ kst' = [kst EXCEPT ![o] = "armed"] /\ kev' = [kev EXCEPT ![o] = ToAfd(sk[o].ue)]
          /\ UNCHANGED <<tree, objs, del>>
      BY <1>7 DEF UpdatePoll
    <2>2. /\ q \in SockState /\ q.sock = sk[o].sock /\ q.grp = sk[o].grp
          /\ q.dp = sk[o].dp /\ q.st = "PENDING" /\ q.pe = q.ue
      BY <1>3, SkPoll
    <2>3. (q.ue \cap Known) \ q.pe = {}
      BY <2>2
    <2> HIDE DEF q
    <2>4. kst[o] = "none" /\ o \notin iocp
      BY <1>3, <2>1 DEF ObjOK
    <2>5. /\ kst' \in [Objs -> {"none", "armed", "cancel", "done", "stray"}]
          /\ \A p \in Objs \ {o} : kst'[p] = kst[p]
          /\ \A p \in Objs : kst[p] = "done" => kst'[p] = "done"
          /\ kst'[o] = "armed"
      BY <1>1, <1>3, <2>1, <2>4 DEF SockType
    <2>6. kev' \in [Objs -> SUBSET (Afd \cup Failed)]
      <3>1. ToAfd(sk[o].ue) \subseteq Afd
        BY DEF ToAfd, Afd
      <3> QED BY <1>1, <2>1, <3>1 DEF SockType
    <2>7. GotOK'
      BY <1>1, <1>4, <2>5, GotFrame
    <2> QED BY <1>1, <1>3, <1>4, <2>1, <2>2, <2>3, <2>4, <2>5, <2>6, <2>7, SockKept DEF SockType
  <1>8. CASE UpdateDrop(o)
    BY <1>3, <1>4, <1>8, SockDeleted DEF UpdateDrop
  <1> QED BY <1>2, <1>5, <1>6, <1>7, <1>8

(* GetQueuedCompletionStatusEx() hands completions to one thread. *)
LEMMA SockDequeued ==
  ASSUME CallsOK, SockOK, NEW t \in Threads, Dequeue(t)
  PROVE  SockOK'
  <1>1. SockType /\ GotOK /\ TreeOK /\ \A o \in Objs : ObjOK(o)
    BY DEF SockOK
  <1>2. PICK K \in SUBSET iocp : iocp' = iocp \ K /\ got' = [got EXCEPT ![t] = K]
    BY DEF Dequeue
  <1>3. /\ pc[t] = "poll" /\ Goto(t, "got")
        /\ UNCHANGED <<tree, objs, sk, upd, del, kst, kev, n>>
    BY DEF Dequeue, sockVars
  <1>4. pc'[t] = "got" /\ \A u \in Threads \ {t} : pc'[u] = pc[u]
    BY <1>3, GoesTo DEF PCs
  <1>5. SockType'
    BY <1>1, <1>2, <1>3 DEF SockType
  <1>6. \A o \in Objs : ObjOK(o)'
    BY <1>1, <1>2, <1>3, OtherObj
  <1>7. TreeOK'
    BY <1>1, <1>3 DEF TreeOK
  <1>8. GotOK'
    <2>1. got'[t] = K /\ \A u \in Threads \ {t} : got'[u] = got[u]
      BY <1>1, <1>2 DEF SockType
    <2>2. \A o \in K : o \in Objs /\ kst[o] = "done" /\ \A u \in Threads : o \notin got[u]
      BY <1>1 DEF SockType, ObjOK, GotOK
    <2>3. \A u \in Threads : got'[u] # {} => pc'[u] \in {"got", "feed"}
      BY <1>1, <1>4, <2>1 DEF GotOK
    <2>4. \A u \in Threads : \A o \in got'[u] : kst'[o] = "done" /\ o \notin iocp'
      BY <1>1, <1>2, <1>3, <2>1, <2>2 DEF GotOK
    <2>5. \A u, v \in Threads : u # v => got'[u] \cap got'[v] = {}
      BY <1>1, <2>1, <2>2 DEF GotOK
    <2> QED BY <2>3, <2>4, <2>5 DEF GotOK
  <1> QED BY <1>5, <1>6, <1>7, <1>8 DEF SockOK

(* sock_feed_event() *)
LEMMA SockFed ==
  ASSUME CallsOK, SockOK, NEW t \in Threads, SockFeedEvent(t)
  PROVE  SockOK'
  <1>1. SockType /\ GotOK /\ TreeOK /\ \A o \in Objs : ObjOK(o)
    BY DEF SockOK
  <1>2. PICK o \in got[t] :
          /\ got' = [got EXCEPT ![t] = @ \ {o}] /\ kst' = [kst EXCEPT ![o] = "none"]
          /\ kev' = [kev EXCEPT ![o] = {}]
          /\ FeedDeleted(o) \/ FeedClosed(o) \/ FeedEvents(t, o)
    BY DEF SockFeedEvent
  <1>3. o \in Objs /\ kst[o] = "done" /\ o \notin iocp
    BY <1>1 DEF SockType, GotOK
  <1>4. o \in objs /\ sk[o] \in SockState /\ ObjOK(o)
    BY <1>1, <1>3 DEF ObjOK, SockType
  <1>5. /\ got' \in [Threads -> SUBSET Objs] /\ kev' \in [Objs -> SUBSET (Afd \cup Failed)]
        /\ kst' \in [Objs -> {"none", "armed", "cancel", "done", "stray"}]
        /\ kst'[o] = "none" /\ \A p \in Objs \ {o} : kst'[p] = kst[p]
    BY <1>1, <1>2, <1>3 DEF SockType
  <1>6. iocp' = iocp /\ pc' = pc
    BY DEF SockFeedEvent
  <1>7. GotOK'
    <2>1. got'[t] = got[t] \ {o} /\ \A u \in Threads \ {t} : got'[u] = got[u]
      BY <1>1, <1>2 DEF SockType
    <2>2. \A u \in Threads \ {t} : o \notin got[u]
      BY <1>1, <1>2 DEF GotOK
    <2>3. \A u \in Threads : got'[u] \subseteq got[u] \ {o} /\ got[u] \subseteq Objs
      BY <1>1, <2>1, <2>2 DEF SockType
    <2> QED BY <1>1, <1>5, <1>6, <2>3 DEF GotOK
  <1>8. CASE FeedDeleted(o)
    <2>1. sk[o].dp /\ FreeSock(o) /\ UNCHANGED <<upd, tree, n>>
      BY <1>8 DEF FeedDeleted
    <2>2. tree[sk[o].sock] # o /\ o \notin upd
      BY <1>4, <2>1 DEF ObjOK
    <2>3. upd' = upd \ {o} /\ n' \in [Threads -> BOOLEAN]
      BY <1>1, <2>1, <2>2 DEF SockType
    <2> QED BY <1>2, <1>3, <1>4, <1>5, <1>6, <1>7, <2>1, <2>2, <2>3, SockFreed
  <1>9. CASE FeedClosed(o)
    <2>1. /\ ~sk[o].dp /\ FreeSock(o) /\ upd' = upd \ {o} /\ n' = n
          /\ tree' = [tree EXCEPT ![sk[o].sock] = Nil]
      BY <1>9 DEF FeedClosed
    <2>2. tree[sk[o].sock] = o /\ n' \in [Threads -> BOOLEAN]
      BY <1>1, <1>4, <2>1 DEF ObjOK, SockType
    <2> QED BY <1>2, <1>3, <1>4, <1>5, <1>6, <1>7, <2>1, <2>2, SockFreed
  <1>10. CASE FeedEvents(t, o)
    <2> DEFINE e == IF Reported(o) # {} /\ "ONESHOT" \in sk[o].ue THEN {} ELSE sk[o].ue
               q == [sk[o] EXCEPT !.st = "IDLE", !.pe = {}, !.ue = e]
    <2>1. /\ ~sk[o].dp /\ sk' = [sk EXCEPT ![o] = q] /\ upd' = upd \cup {o}
          /\ n' = [n EXCEPT ![t] = @ \/ Reported(o) # {}] /\ UNCHANGED <<tree, objs, del>>
      BY <1>10 DEF FeedEvents
    <2>2. e \in SUBSET Epoll
      BY <1>4 DEF SockState
    <2> HIDE DEF e
    <2>3. /\ q \in SockState /\ q.sock = sk[o].sock /\ q.grp = sk[o].grp
          /\ q.dp = sk[o].dp /\ q.st = "IDLE"
      BY <1>4, <2>2, SkFeed
    <2> HIDE DEF q
    <2>4. tree[sk[o].sock] = o
      BY <1>4, <2>1 DEF ObjOK
    <2>5. n' \in [Threads -> BOOLEAN]
      BY <1>1, <2>1 DEF SockType
    <2> QED BY <1>3, <1>4, <1>5, <1>6, <1>7, <2>1, <2>3, <2>4, <2>5, SockKept
  <1> QED BY <1>2, <1>8, <1>9, <1>10

(* port_delete() frees everything; nobody holds a completion any more. *)
LEMMA SockPortDeleted ==
  ASSUME CallsOK, SockOK, NEW t \in Threads, PortDelete(t)
  PROVE  SockOK'
  <1>1. SockType /\ GotOK
    BY DEF SockOK
  <1>2. /\ tree' = [s \in Sockets |-> Nil] /\ objs' = {} /\ upd' = {} /\ del' = {} /\ iocp' = {}
        /\ sk' = [o \in Objs |-> NoSock] /\ kev' = [o \in Objs |-> {}]
        /\ kst' = [o \in Objs |-> IF kst[o] \in {"armed", "cancel", "stray"} THEN "stray" ELSE "none"]
        /\ UNCHANGED <<got, n>>
    BY DEF PortDelete
  <1>3. NoSock \in SockState /\ NoSock.grp = 0
    BY SkNew DEF NoSock
  <1> HIDE DEF NoSock
  <1>4. SockType'
    BY <1>1, <1>2, <1>3 DEF SockType
  <1>5. \A u \in Threads : got[u] = {}
    <2>1. pc[t] = "delete" /\ \A u \in Threads \ {t} : pc[u] = "idle"
      BY CallsDelete DEF PortDelete
    <2> QED BY <1>1, <2>1 DEF GotOK
  <1>6. GotOK'
    BY <1>2, <1>5 DEF GotOK
  <1>7. \A o \in Objs : ObjOK(o)'
    BY <1>2, <1>3 DEF ObjOK
  <1>8. TreeOK'
    BY <1>2 DEF TreeOK
  <1> QED BY <1>4, <1>6, <1>7, <1>8 DEF SockOK

(* A poll that epoll_close left under way completes. *)
LEMMA SockStray ==
  ASSUME SockOK, NEW o \in Objs, AfdStray(o)
  PROVE  SockOK'
  <1>1. SockType /\ GotOK /\ TreeOK /\ \A p \in Objs : ObjOK(p)
    BY DEF SockOK
  <1>2. /\ kst[o] = "stray" /\ kst' = [kst EXCEPT ![o] = "none"]
        /\ UNCHANGED <<tree, objs, sk, upd, del, pc, got, n, kev, iocp>>
    BY DEF AfdStray, sockVars, thrVars
  <1>3. o \notin objs /\ kst'[o] = "none" /\ \A p \in Objs \ {o} : kst'[p] = kst[p]
    BY <1>1, <1>2 DEF SockType, ObjOK
  <1>4. SockType'
    BY <1>1, <1>2 DEF SockType
  <1>5. ObjOK(o)'
    BY <1>1, <1>2, <1>3 DEF ObjOK
  <1>6. TreeOK'
    BY <1>1, <1>2 DEF TreeOK
  <1>7. GotOK'
    <2>1. \A u \in Threads : o \notin got[u] /\ got[u] \subseteq Objs
      BY <1>1, <1>2 DEF GotOK, SockType
    <2> QED BY <1>1, <1>2, <1>3, <2>1 DEF GotOK
  <1> QED BY <1>2, <1>3, <1>4, <1>5, <1>6, <1>7, OneSock

(* A poll completes. *)
LEMMA SockCompleted ==
  ASSUME CallsOK, SockOK, NEW o \in Objs, AfdComplete(o) \/ AfdFail(o)
  PROVE  SockOK'
  <1>1. SockType /\ GotOK /\ TreeOK /\ \A p \in Objs : ObjOK(p)
    BY DEF SockOK
  <1>2. /\ kst[o] \in {"armed", "cancel"} /\ kst' = [kst EXCEPT ![o] = "done"] /\ iocp' = iocp \cup {o}
        /\ UNCHANGED <<tree, objs, sk, upd, del, pc, got, n>>
    BY DEF AfdComplete, AfdFail, Completes, sockVars, thrVars
  <1>3. kev' \in [Objs -> SUBSET (Afd \cup Failed)]
    <2>1. Conditions(o) \subseteq Afd \cup Failed
      BY <1>1 DEF Conditions, SockType, Afd
    <2>2. \E v \in SUBSET (Afd \cup Failed) : kev' = [kev EXCEPT ![o] = v]
      BY <2>1 DEF AfdComplete, AfdFail, Completes
    <2> QED BY <1>1, <2>2 DEF SockType
  <1>4. SockType'
    BY <1>1, <1>2, <1>3 DEF SockType
  <1>5. kst'[o] = "done" /\ \A p \in Objs \ {o} : kst'[p] = kst[p]
    BY <1>1, <1>2 DEF SockType
  <1>6. ObjOK(o)'
    <2>1. Uncovered(o)' = Uncovered(o)
      BY <1>2 DEF Uncovered
    <2> QED BY <1>1, <1>2, <1>5, <2>1 DEF ObjOK
  <1>7. TreeOK'
    BY <1>1, <1>2 DEF TreeOK
  <1>8. GotOK'
    <2>1. \A u \in Threads : o \notin got[u] /\ got[u] \subseteq Objs
      BY <1>1, <1>2 DEF GotOK, SockType
    <2> QED BY <1>1, <1>2, <1>5, <2>1 DEF GotOK
  <1> QED BY <1>2, <1>4, <1>5, <1>6, <1>7, <1>8, OneSock

-----------------------------------------------------------------------------
(* The poll groups *)

GroupOK == GroupsOK(objs, sk, gq, gsize)

(* A step that leaves the groups and their members alone. *)
LEMMA GroupFrame ==
  ASSUME GroupOK, UNCHANGED <<objs, gq, gsize>>, SameGroups(objs, sk', sk)
  PROVE  GroupOK'
  <1>1. \A g : Members(objs, sk', g) = Members(objs, sk, g)
    BY DEF Members, SameGroups
  <1>2. \A o \in objs : sk'[o].grp = sk[o].grp
    BY DEF SameGroups
  <1> QED BY <1>1, <1>2 DEF GroupOK, GroupsOK

(* sock__free() *)
LEMMA GroupFreed ==
  ASSUME SockOK, GroupOK, NEW o \in objs, FreeSock(o)
  PROVE  GroupOK'
  <1>1. objs \in SUBSET Objs /\ GroupsOK(objs, sk, gq, gsize) /\ o \in objs
    BY DEF SockOK, SockType, GroupOK
  <1>2. SameGroups(objs \ {o}, sk', sk)
    BY DEF SockOK, SockType, FreeSock, SameGroups
  <1>3. gq' = Append(Without(gq, sk[o].grp), sk[o].grp) /\ gsize' = [gsize EXCEPT ![sk[o].grp] = @ - 1]
    BY DEF FreeSock, PollGroupRelease
  <1>4. GroupsOK(objs \ {o}, sk', gq', gsize')
    BY ONLY <1>1, <1>2, <1>3, Released
  <1>5. objs' = objs \ {o}
    BY DEF FreeSock
  <1> QED BY <1>4, <1>5 DEF GroupOK

(* sock__delete() *)
LEMMA GroupDeleted ==
  ASSUME SockOK, GroupOK, NEW o \in objs, SockDelete(o)
  PROVE  GroupOK'
  <1>1. CASE FreeSock(o)
    BY <1>1, GroupFreed
  <1>2. CASE UNCHANGED <<objs, gq, gsize>>
    <2>1. o \in Objs /\ sk \in [Objs -> SockState]
      BY DEF SockOK, SockType
    <2>2. ASSUME NEW p \in objs PROVE sk'[p].grp = sk[p].grp
      <3>1. p \in Objs
        BY DEF SockOK, SockType
      <3>2. CASE p = o
        <4>1. CASE sk' = [sk EXCEPT ![o] = [@ EXCEPT !.dp = TRUE, !.st = "CANCELLED", !.pe = {}]]
          BY <2>1, <3>2, <4>1, SkDelCancel
        <4>2. CASE sk' = [sk EXCEPT ![o].dp = TRUE]
          BY <2>1, <3>2, <4>2, SkDel
        <4>3. CASE FreeSock(o) /\ sk[o].st = "IDLE"
          BY <4>3, <1>2 DEF FreeSock
        <4> QED BY <4>1, <4>2, <4>3 DEF SockDelete
      <3>3. CASE p # o
        BY <2>1, <3>1, <3>3 DEF SockDelete, FreeSock
      <3> QED BY <3>2, <3>3
    <2> QED BY <1>2, <2>2, GroupFrame DEF SameGroups
  <1> QED BY <1>1, <1>2 DEF SockDelete

(* The group of a new sock_state exists and has room. *)
LEMMA GroupExists ==
  ASSUME SockOK, GroupOK
  PROVE  /\ Group = Taken(gq, gsize) /\ NeedGroup = NoRoom(gq, gsize)
         /\ Group \in Groups
  <1>1. objs \in SUBSET Objs /\ GroupsOK(objs, sk, gq, gsize)
    BY DEF SockOK, SockType, GroupOK
  <1>2. Group = Taken(gq, gsize) /\ NeedGroup = NoRoom(gq, gsize)
    BY DEF Group, NeedGroup, Taken, NoRoom
  <1>3. Taken(gq, gsize) \in Groups
    BY ONLY <1>1, GroupFound
  <1> QED BY <1>2, <1>3

(* epoll_ctl() *)
LEMMA GroupCtl ==
  ASSUME CallsOK, SockOK, GroupOK, NEW t \in Threads, PortCtl(t)
  PROVE  GroupOK'
  <1>1. /\ objs \subseteq Objs /\ sk \in [Objs -> SockState] /\ GroupsOK(objs, sk, gq, gsize)
        /\ arg[t].s \in Sockets /\ arg[t].ev \in SUBSET Epoll /\ pc[t] = "ctl"
    BY DEF CallsOK, CallsType, SockOK, SockType, GroupOK, PortCtl, Arg
  <1>2. /\ Group = Taken(gq, gsize) /\ NeedGroup = NoRoom(gq, gsize) /\ Group \in Groups
    BY GroupExists
  <1>3. PICK s : s = arg[t].s
    OBVIOUS
  <1>4. CASE CtlAdd(t, s)
    <2>1. PICK o : o = CHOOSE p \in Available : TRUE
      OBVIOUS
    <2>2. o \in Objs /\ o \notin objs
      BY <1>4, <2>1 DEF CtlAdd, Available
    <2>3. /\ objs' = objs \cup {o}
          /\ sk' = [sk EXCEPT ![o] = NewSock(s, Group, arg[t].ev \cup {"ERR", "HUP"})]
          /\ PollGroupAcquire
      BY <1>4, <2>1 DEF CtlAdd
    <2>4. PICK g : g = Group
      OBVIOUS
    <2>5. sk'[o].grp = g /\ SameGroups(objs, sk', sk)
      BY <1>1, <2>2, <2>3, <2>4 DEF NewSock, SameGroups
    <2>6. /\ gq' = IF gsize[g] + 1 = MaxGroupSize THEN <<g>> \o Without(gq, g)
                   ELSE IF NoRoom(gq, gsize) THEN Append(gq, g) ELSE gq
          /\ gsize' = [gsize EXCEPT ![g] = @ + 1]
      BY <1>2, <2>3, <2>4 DEF PollGroupAcquire
    <2>7. objs \in SUBSET Objs /\ g = Taken(gq, gsize) /\ GroupsOK(objs, sk, gq, gsize)
      BY ONLY <1>1, <1>2, <2>4
    <2>8. GroupsOK(objs \cup {o}, sk', gq', gsize')
      BY ONLY <2>2, <2>5, <2>6, <2>7, Acquired
    <2> QED BY <2>3, <2>8 DEF GroupOK
  <1>5. CASE CtlAddFails(t, s)
    <2>1. objs' = objs /\ sk' = sk /\ SameGroups(objs, sk', sk)
      BY <1>5 DEF CtlAddFails, SameGroups
    <2>2. CASE UNCHANGED <<gq, gsize>>
      BY <2>1, <2>2, GroupFrame
    <2>3. CASE AcquireAndRelease
      <3>1. PICK g : g = Group
        OBVIOUS
      <3>2. gq' = Append(Without(gq, g), g) /\ gsize' = gsize
        BY <2>3, <3>1 DEF AcquireAndRelease
      <3>3. objs \in SUBSET Objs /\ g = Taken(gq, gsize) /\ GroupsOK(objs, sk, gq, gsize)
        BY ONLY <1>1, <1>2, <3>1
      <3>4. GroupsOK(objs, sk, gq', gsize)
        BY ONLY <3>2, <3>3, Undone
      <3> QED BY <2>1, <3>2, <3>4 DEF GroupOK
    <2> QED BY <1>5, <2>2, <2>3 DEF CtlAddFails
  <1>6. CASE CtlMod(t, s)
    <2>1. PICK e \in SUBSET Epoll : e = arg[t].ev \cup {"ERR", "HUP"}
      BY <1>1 DEF Epoll, Known
    <2>2. PICK o : o = tree[s]
      OBVIOUS
    <2>3. o \in objs /\ o \in Objs
      BY <1>1, <1>3, <1>6, <2>2 DEF CtlMod, SockOK, TreeOK
    <2>4. sk' = [sk EXCEPT ![o].ue = e] /\ UNCHANGED <<objs, gq, gsize>>
      BY <1>6, <2>1, <2>2 DEF CtlMod, SockSetEvent
    <2>5. sk'[o].grp = sk[o].grp
      BY <1>1, <2>3, <2>4, SkEvent
    <2>6. \A p \in objs \ {o} : sk'[p] = sk[p]
      BY <1>1, <2>3, <2>4
    <2> QED BY <2>4, <2>5, <2>6, GroupFrame DEF SameGroups
  <1>7. CASE CtlDel(t, s)
    <2>1. tree[s] \in objs /\ SockDelete(tree[s])
      BY <1>1, <1>3, <1>7 DEF CtlDel, SockOK, TreeOK
    <2> QED BY <2>1, GroupDeleted
  <1>8. CASE CtlNotFound(t, s)
    BY <1>8, GroupFrame DEF CtlNotFound, sockVars, SameGroups
  <1> QED BY <1>3, <1>4, <1>5, <1>6, <1>7, <1>8 DEF PortCtl

(* sock_update() and sock_feed_event() *)
LEMMA GroupWork ==
  ASSUME SockOK, GroupOK, NEW t \in Threads, SockUpdate(t) \/ SockFeedEvent(t)
  PROVE  GroupOK'
  <1>1. /\ objs \subseteq Objs /\ sk \in [Objs -> SockState] /\ \A o \in Objs : ObjOK(o)
        /\ upd \subseteq Objs
    BY DEF SockOK, SockType
  <1>2. ASSUME NEW o \in Objs, NEW r \in SockState, r.grp = sk[o].grp,
               sk' = [sk EXCEPT ![o] = r], UNCHANGED <<objs, gq, gsize>>
        PROVE  GroupOK'
    <2>1. \A p \in objs : sk'[p].grp = sk[p].grp
      BY <1>1, <1>2
    <2> QED BY <1>2, <2>1, GroupFrame DEF SameGroups
  <1>3. CASE SockUpdate(t)
    <2>1. PICK o \in upd : UpdateNothing(o) \/ UpdateCancel(o) \/ UpdatePoll(o) \/ UpdateDrop(o)
      BY <1>3 DEF SockUpdate
    <2>2. o \in Objs /\ o \in objs /\ sk[o] \in SockState
      BY <1>1 DEF ObjOK
    <2>3. CASE UpdateNothing(o)
      BY <2>3, GroupFrame DEF UpdateNothing, SameGroups
    <2>4. CASE UpdateCancel(o)
      <3>1. PICK r : r = [sk[o] EXCEPT !.st = "CANCELLED", !.pe = {}]
        OBVIOUS
      <3>2. sk' = [sk EXCEPT ![o] = r] /\ UNCHANGED <<objs, gq, gsize>>
        BY <2>4, <3>1 DEF UpdateCancel
      <3>3. r \in SockState /\ r.grp = sk[o].grp
        BY <2>2, <3>1, SkCancel
      <3> QED BY <1>2, <2>2, <3>2, <3>3
    <2>5. CASE UpdatePoll(o)
      <3>1. PICK r : r = [sk[o] EXCEPT !.st = "PENDING", !.pe = sk[o].ue]
        OBVIOUS
      <3>2. sk' = [sk EXCEPT ![o] = r] /\ UNCHANGED <<objs, gq, gsize>>
        BY <2>5, <3>1 DEF UpdatePoll
      <3>3. r \in SockState /\ r.grp = sk[o].grp
        BY <2>2, <3>1, SkPoll
      <3> QED BY <1>2, <2>2, <3>2, <3>3
    <2>6. CASE UpdateDrop(o)
      BY <2>2, <2>6, GroupDeleted DEF UpdateDrop
    <2> QED BY <2>1, <2>3, <2>4, <2>5, <2>6
  <1>4. CASE SockFeedEvent(t)
    <2>1. PICK o \in got[t] : FeedDeleted(o) \/ FeedClosed(o) \/ FeedEvents(t, o)
      BY <1>4 DEF SockFeedEvent
    <2>2. o \in Objs /\ kst[o] = "done"
      BY DEF SockOK, SockType, GotOK
    <2>3. o \in objs /\ sk[o] \in SockState
      BY <1>1, <2>2 DEF ObjOK
    <2>4. CASE FeedDeleted(o) \/ FeedClosed(o)
      BY <2>3, <2>4, GroupFreed DEF FeedDeleted, FeedClosed
    <2>5. CASE FeedEvents(t, o)
      <3>1. PICK e : e = IF Reported(o) # {} /\ "ONESHOT" \in sk[o].ue THEN {} ELSE sk[o].ue
        OBVIOUS
      <3>2. e \in SUBSET Epoll
        BY <2>3, <3>1 DEF SockState
      <3>3. PICK r : r = [sk[o] EXCEPT !.st = "IDLE", !.pe = {}, !.ue = e]
        OBVIOUS
      <3>4. sk' = [sk EXCEPT ![o] = r] /\ UNCHANGED <<objs, gq, gsize>>
        BY <2>5, <3>1, <3>3 DEF FeedEvents
      <3>5. r \in SockState /\ r.grp = sk[o].grp
        BY <2>3, <3>2, <3>3, SkFeed
      <3> QED BY <1>2, <2>2, <3>4, <3>5
    <2> QED BY <2>1, <2>4, <2>5
  <1> QED BY <1>3, <1>4

(* No sock_state and no group: before the first epoll_create() and after     *)
(* port_delete().                                                            *)
LEMMA NoGroups ==
  ASSUME NEW s
  PROVE  GroupsOK({}, s, <<>>, [g \in Groups |-> 0])
  <1>1. <<>> \in Seq(Nat) /\ Len(<<>>) = 0 /\ DOMAIN <<>> = {} /\ 1..0 = {}
    OBVIOUS
  <1>2. Cardinality(Objs) \in Nat /\ MaxGroupSize \in Nat
    BY WepollAssumption, FS_CardinalityType
  <1>3. \A g : Members({}, s, g) = {}
    BY DEF Members
  <1>4. \A g \in Groups : [h \in Groups |-> 0][g] = Cardinality(Members({}, s, g))
    BY <1>3, FS_EmptySet
  <1>5. Dealt(<<>>) /\ Packed(<<>>, [g \in Groups |-> 0])
    BY <1>1 DEF Dealt, Packed
  <1>6. [g \in Groups |-> 0] \in [Groups -> 0..MaxGroupSize]
    BY <1>2
  <1> QED BY <1>1, <1>2, <1>4, <1>5, <1>6 DEF GroupsOK

(* Every step keeps the poll groups. *)
LEMMA GroupNext ==
  CallsOK /\ SockOK /\ GroupOK /\ [Next]_vars => GroupOK'
  <1> SUFFICES ASSUME CallsOK, SockOK, GroupOK, [Next]_vars PROVE GroupOK'
    OBVIOUS
  <1>1. UNCHANGED sockVars => GroupOK'
    BY GroupFrame DEF sockVars, SameGroups
  <1>2. CASE UNCHANGED vars
    BY <1>1, <1>2 DEF vars
  <1>3. ASSUME NEW t \in Threads, Wait(t) \/ Call(t)
        PROVE  GroupOK'
    BY <1>1, <1>3 DEF Wait, Call, EpollWait, EpollCreate, EpollClose, EpollCtl, Enter
  <1>4. ASSUME NEW t \in Threads, TakeLock(t) \/ HoldLock(t) \/ NoLock(t)
        PROVE  GroupOK'
    <2>1. CASE PortWait(t) \/ Relock(t) \/ PortClose(t)
      BY <1>1, <2>1 DEF PortWait, Relock, PortClose
    <2>2. CASE SockUpdateFails(t) \/ SockUpdateDone(t) \/ FeedDone(t)
      BY <1>1, <2>2 DEF SockUpdateFails, SockUpdateDone, FeedDone
    <2>3. CASE Dequeue(t) \/ DequeueFails(t) \/ Unref(t) \/ UnrefAndDestroy(t)
      BY <1>1, <2>3 DEF Dequeue, DequeueFails, Unref, UnrefAndDestroy
    <2>4. CASE PortDelete(t)
      BY <2>4, NoGroups DEF PortDelete, GroupOK
    <2> QED BY <1>4, <2>1, <2>2, <2>3, <2>4, GroupCtl, GroupWork DEF TakeLock, HoldLock, NoLock
  <1>5. ASSUME NEW o \in Objs, Kernel(o)
        PROVE  GroupOK'
    BY <1>1, <1>5 DEF Kernel, AfdComplete, AfdFail, AfdStray, Completes
  <1>6. ASSUME NEW s \in Sockets, Environment(s)
        PROVE  GroupOK'
    BY <1>1, <1>6 DEF Environment, CloseSocket, Raise, Drain
  <1> QED BY <1>2, <1>3, <1>4, <1>5, <1>6, WepollAssumption DEF Next

(* Every step keeps the sock_states. *)
LEMMA SockNext ==
  CallsOK /\ SockOK /\ GroupOK /\ [Next]_vars => SockOK'
  <1> SUFFICES ASSUME CallsOK, SockOK, GroupOK, [Next]_vars PROVE SockOK'
    OBVIOUS
  <1>1. UNCHANGED <<sockVars, thrVars, kernVars>> => SockOK'
    <2> SUFFICES ASSUME UNCHANGED <<sockVars, thrVars, kernVars>> PROVE SockOK'
      OBVIOUS
    <2>1. UNCHANGED <<tree, objs, sk, upd, del, got, kst, kev, iocp>> /\ n' = n /\ pc' = pc
      BY DEF sockVars, thrVars, kernVars
    <2>2. KeepsPlace /\ n' \in [Threads -> BOOLEAN]
      BY <2>1 DEF KeepsPlace, SockOK, SockType
    <2> QED BY <2>1, <2>2, SockFrame
  <1>2. CASE UNCHANGED vars
    BY <1>1, <1>2 DEF vars
  <1>3. ASSUME NEW t \in Threads, Wait(t) \/ Call(t)
        PROVE  SockOK'
    BY <1>3, SockQuiet
  <1>4. ASSUME NEW t \in Threads, TakeLock(t) \/ HoldLock(t) \/ NoLock(t)
        PROVE  SockOK'
    <2>1. objs # Objs => Group \in Groups
      BY GroupExists
    <2>2. CASE PortCtl(t)
      BY <2>1, <2>2, SockCtl
    <2>3. CASE SockUpdate(t) \/ SockFeedEvent(t) \/ Dequeue(t) \/ PortDelete(t)
      BY <2>3, SockUpdated, SockFed, SockDequeued, SockPortDeleted
    <2> QED BY <1>4, <2>2, <2>3, SockQuiet DEF TakeLock, HoldLock, NoLock
  <1>5. ASSUME NEW o \in Objs, Kernel(o)
        PROVE  SockOK'
    BY <1>5, SockCompleted, SockStray DEF Kernel
  <1>6. ASSUME NEW s \in Sockets, Environment(s)
        PROVE  SockOK'
    BY <1>1, <1>6 DEF Environment, CloseSocket, Raise, Drain
  <1> QED BY <1>2, <1>3, <1>4, <1>5, <1>6, WepollAssumption DEF Next

(* The last two layers of the invariant, which need each other: the group of *)
(* a sock_state, and the sock_states of a group.                             *)
LEMMA SockInvariant ==
  Spec => [](SockOK /\ GroupOK)
  <1>1. Init => SockOK
    <2> SUFFICES ASSUME Init PROVE SockOK
      OBVIOUS
    <2>1. NoSock \in SockState /\ NoSock.grp = 0
      <3>1. Nil \in Sockets \cup {Nil} /\ 0 \in Groups \cup {0} /\ {} \in SUBSET Epoll
        OBVIOUS
      <3> QED BY <3>1, SkNew DEF NoSock
    <2>2. SockType
      BY <2>1 DEF Init, SockType
    <2>3. \A o \in Objs : ObjOK(o)
      BY <2>1 DEF Init, ObjOK
    <2>4. TreeOK /\ GotOK
      BY DEF Init, TreeOK, GotOK
    <2> QED BY <2>2, <2>3, <2>4 DEF SockOK
  <1>2. Init => GroupOK
    BY NoGroups DEF Init, GroupOK
  <1> QED BY <1>1, <1>2, SockNext, GroupNext, CallsInvariant, PTL DEF Spec

-----------------------------------------------------------------------------
(* What the layers say *)

(* The kernel never completes a poll into freed memory, whichever of         *)
(* epoll_ctl(DEL), a closed socket and a completion comes first, except the  *)
(* polls that epoll_close found under way (port_delete frees their           *)
(* sock_states all the same).                                                *)
THEOREM PollsKeepTheirMemory ==
  Spec => []PollKeepsSock
  <1>1. SockOK => PollKeepsSock
    BY DEF SockOK, ObjOK, PollKeepsSock
  <1> QED BY <1>1, SockInvariant, PTL

(* No registered socket is forgotten: it is queued for sock_update(), or its *)
(* poll covers what the user asked for, or the completion of its cancelled   *)
(* poll will queue it.                                                       *)
THEOREM NoSocketForgotten ==
  Spec => []Watched
  <1>1. SockOK => Watched
    BY DEF SockOK, SockType, ObjOK, Watched, Registered
  <1> QED BY <1>1, SockInvariant, PTL

(* Every sock_state is in the tree under its socket or on the deleted queue  *)
(* with a poll whose completion frees it, and a deleted one is never updated *)
(* (the assertion in sock_update()).                                         *)
THEOREM NoSockLeaks ==
  Spec => []SockAccounted
  <1>1. CallsOK /\ SleepOK /\ SockOK /\ GroupOK => SockAccounted
    <2> SUFFICES ASSUME CallsOK, SleepOK, SockOK, GroupOK PROVE SockAccounted
      OBVIOUS
    <2>1. gq \in Seq(Groups) /\ gsize \in [Groups -> 0..MaxGroupSize]
      <3>1. /\ gq \in Seq(Nat) /\ Dealt(gq) /\ gsize \in [Groups -> 0..MaxGroupSize]
            /\ objs \in SUBSET Objs /\ GroupsOK(objs, sk, gq, gsize)
        BY DEF GroupOK, GroupsOK, SockOK, SockType
      <3>2. /\ Len(gq) \in Nat /\ DOMAIN gq = 1..Len(gq) /\ \A g \in 1..Len(gq) : g \in Groups
        BY ONLY <3>1, GroupTypes
      <3>3. \A i \in 1..Len(gq) : gq[i] \in Groups
        BY ONLY <3>1, <3>2 DEF Dealt
      <3>4. gq = [i \in 1..Len(gq) |-> gq[i]]
        BY ONLY <3>1
      <3>5. gq \in Seq(Groups)
        BY ONLY <3>2, <3>3, <3>4
      <3> QED BY <3>1, <3>5
    <2>2. refs \in 0..Cardinality(Threads) /\ active \in 0..Cardinality(Threads)
      BY Counts
    <2>3. TypeOK
      BY <2>1, <2>2 DEF TypeOK, CallsOK, CallsType, SleepOK, SockOK, SockType
    <2>4. \A o \in objs \ Registered : o \in del /\ sk[o].dp /\ kst[o] # "none"
      BY DEF SockOK, SockType, ObjOK, Registered
    <2>5. \A o \in Registered : o \notin del /\ ~sk[o].dp
      BY DEF SockOK, SockType, ObjOK, Registered
    <2>6. \A s \in Sockets : tree[s] # Nil => tree[s] \in objs /\ sk[tree[s]].sock = s
      BY DEF SockOK, TreeOK
    <2>7. upd \subseteq Registered
      BY DEF SockOK, SockType, ObjOK, Registered
    <2> QED BY <2>3, <2>4, <2>5, <2>6, <2>7 DEF SockAccounted
  <1> QED BY <1>1, CallsInvariant, SleepInvariant, SockInvariant, PTL

(* A poll group counts its sock_states, and no group is made while another   *)
(* has room.                                                                 *)
THEOREM GroupsStayPacked ==
  Spec => []GroupsPacked
  <1>1. GroupOK => GroupsPacked
    <2> SUFFICES ASSUME GroupOK PROVE GroupsPacked
      OBVIOUS
    <2>1. \A g \in Groups : gsize[g] = Cardinality({o \in objs : sk[o].grp = g})
      BY DEF GroupOK, GroupsOK, Members
    <2>2. \A i, j \in DOMAIN gq : i < j /\ gsize[gq[j]] = MaxGroupSize => gsize[gq[i]] = MaxGroupSize
      BY DEF GroupOK, GroupsOK, Packed
    <2> QED BY <2>1, <2>2 DEF GroupsPacked
  <1> QED BY <1>1, SockInvariant, PTL
=============================================================================
