------------------------- MODULE MultiAcceptProofs -------------------------
(***************************************************************************)
(* Proofs about MultiAccept for any number of workers, clients and         *)
(* crashes: the semaphore around accept(2) is accounted for, and every     *)
(* process has an event queue of its own.                                  *)
(***************************************************************************)
EXTENDS MultiAccept, FiniteSetTheorems, TLAPS

Entries == Procs \X ({Svr} \cup Conns)
Active == {"poll", "result", "accept", "after"}

\* The types of all variables.
TypeInv ==
  /\ TypeOK
  /\ index \subseteq Workers /\ forked \in BOOLEAN /\ lost \in BOOLEAN /\ kills \in Nat
  /\ reg \in [Queues -> SUBSET Entries] /\ ev \in [Procs -> SUBSET Entries]
  /\ backlog \in Seq(Conns)

\* A process that is somewhere is alive.
PlaceInv ==
  /\ pc[Monitor] \in Active \cup {"scan", "none"}
  /\ \A w \in Workers : IF slot[w] = "alive" THEN pc[w] \in Active \cup {"forked"}
                                             ELSE pc[w] = "none"

\* p is between ac_before(), which took the semaphore, and ac_after().
HoldsSem(p) == ac[p] = "workers" /\ pc[p] \in {"accept", "after"}

\* SemAccounted without counting.
SemInv ==
  /\ \A p, q \in Procs : HoldsSem(p) /\ HoldsSem(q) => p = q
  /\ lost => sem = 0 /\ \A p \in Procs : ~ HoldsSem(p)
  /\ ~ lost => (sem = 1 <=> \A p \in Procs : ~ HoldsSem(p))

\* Which event queue a process has, and what is registered in it.
QueueInv ==
  /\ pc[Monitor] # "none" => /\ kq[Monitor] \in {Monitor, Spare}
                             /\ reg[kq[Monitor]] = {Monitor} \X ({Svr} \cup owns[Monitor])
  /\ \A w \in Workers : pc[w] = "forked" => kq[w] \in {Monitor, Spare}
  /\ \A w \in Workers : pc[w] \in Active => kq[w] = w /\ reg[w] = {w} \X ({Svr} \cup owns[w])

\* The first worker accepts at most one client after its last look at ac_count.
LimitInv ==
  /\ pc[First] \in {"forked", "poll", "accept", "after"} => acCount <= AcLimit
  /\ pc[First] = "result" /\ (\E e \in ev[First] : e[2] = Svr) => acCount <= AcLimit
  /\ pc[First] \in {"accept", "after"} => ~ \E e \in ev[First] : e[2] = Svr

\* The inductive invariant.
Inv == TypeInv /\ PlaceInv /\ SemInv /\ QueueInv /\ LimitInv
-----------------------------------------------------------------------------
\* The workers that hold the semaphore are alive.
LEMMA HoldersAre ==
  ASSUME TypeInv, PlaceInv
  PROVE  Holders = {p \in Procs : HoldsSem(p)}
  BY DEF TypeInv, TypeOK, PlaceInv, Holders, HoldsSem, Live, Procs, Active

\* The initial states.
LEMMA InitInv == Init => Inv
<1> SUFFICES ASSUME Init PROVE Inv
  OBVIOUS
<1> USE MultiAssumption DEF Init
<1>1. TypeInv
  <2>1. TypeOK
    BY DEF TypeOK, Procs, Queues
  <2>2. reg \in [Queues -> SUBSET Entries] /\ ev \in [Procs -> SUBSET Entries]
    BY DEF Procs, Queues, Entries
  <2>3. forked \in BOOLEAN /\ lost \in BOOLEAN
    BY Zenon
  <2>4. backlog \in Seq(Conns) /\ index \subseteq Workers /\ kills \in Nat
    OBVIOUS
  <2> QED BY <2>1, <2>2, <2>3, <2>4 DEF TypeInv
<1>2. PlaceInv
  BY DEF PlaceInv, Procs, Active
<1>3. SemInv
  BY DEF SemInv, HoldsSem, Procs
<1>4. QueueInv
  BY DEF QueueInv, Procs, Queues, Active
<1>5. LimitInv
  BY DEF LimitInv, Procs
<1> QED BY <1>1, <1>2, <1>3, <1>4, <1>5 DEF Inv
-----------------------------------------------------------------------------
(* The steps of the library.                                               *)

\* mnet_poll() takes events of the process's own queue.
LEMMA PollInv == ASSUME Inv, NEW p \in Procs, Poll(p) PROVE Inv'
<1> USE MultiAssumption DEF Poll, Inv, monVars, killVars
<1>1. Ready(p) \in SUBSET Entries
  <2>1. kq[p] \in Queues
    BY DEF PlaceInv, QueueInv, TypeInv, TypeOK, Procs, Queues, Active
  <2> QED BY <2>1 DEF Ready, TypeInv
<1>2. TypeInv'
  BY <1>1 DEF TypeInv, TypeOK
<1>3. PlaceInv'
  BY DEF PlaceInv, Active, TypeInv, TypeOK, Procs
<1>4. SemInv'
  BY DEF SemInv, HoldsSem, TypeInv, TypeOK
<1>5. QueueInv'
  BY DEF QueueInv, TypeInv, TypeOK, Active
<1>6. LimitInv'
  BY DEF LimitInv, TypeInv, TypeOK, Procs
<1> QED BY <1>2, <1>3, <1>4, <1>5, <1>6 DEF Inv

\* ac_before() takes the semaphore only when it is free.
LEMMA BeforeInv == ASSUME Inv, NEW p \in Procs, Before(p) PROVE Inv'
<1> USE MultiAssumption DEF Inv, monVars, killVars
<1>0. /\ pc[p] = "result"
      /\ ev' = [ev EXCEPT ![p] = {e \in @ : e[2] # Svr}]
      /\ UNCHANGED <<slot, index, forked, kq, ac, got, owns, acCount, reg, backlog, conn, kills, lost>>
  BY DEF Before
<1>1. /\ pc[p] = "result" /\ pc' = [pc EXCEPT ![p] = pc'[p]] /\ pc'[p] \in {"result", "accept"}
      /\ \/ HoldsSem(p)' /\ sem = 1 /\ sem' = 0
         \/ ~ HoldsSem(p)' /\ sem' = sem
  <2>1. CASE ac[p] = "plain" /\ pc' = [pc EXCEPT ![p] = "accept"] /\ sem' = sem
    BY <1>0, <2>1 DEF HoldsSem, TypeInv, TypeOK
  <2>2. CASE ac[p] = "workers" /\ sem > 0 /\ pc' = [pc EXCEPT ![p] = "accept"] /\ sem' = sem - 1
    BY <1>0, <2>2 DEF HoldsSem, TypeInv, TypeOK
  <2>3. CASE pc' = [pc EXCEPT ![p] = "result"] /\ sem' = sem
    BY <1>0, <2>3 DEF HoldsSem, TypeInv, TypeOK
  <2> QED BY <2>1, <2>2, <2>3 DEF Before, Refused
<1>2. \/ HoldsSem(p)' /\ sem = 1 /\ sem' = 0
      \/ ~ HoldsSem(p)' /\ sem' = sem
  BY <1>1
<1>3. TypeInv'
  <2>1. sem' \in 0 .. 1
    BY <1>2 DEF TypeInv, TypeOK
  <2>2. pc' \in [Procs -> {"none", "forked", "scan", "poll", "result", "accept", "after"}]
    BY <1>1 DEF TypeInv, TypeOK
  <2>3. ev' \in [Procs -> SUBSET Entries]
    BY <1>0 DEF TypeInv
  <2> QED BY <1>0, <2>1, <2>2, <2>3 DEF TypeInv, TypeOK
<1>4. PlaceInv'
  BY <1>0, <1>1 DEF PlaceInv, Active, TypeInv, TypeOK, Procs
<1>5. SemInv'
  <2>1. \A q \in Procs : q # p => (HoldsSem(q)' <=> HoldsSem(q))
    BY <1>0, <1>1 DEF HoldsSem, TypeInv, TypeOK
  <2>2. ~ HoldsSem(p)
    BY <1>0, <1>1 DEF HoldsSem
  <2> QED BY <1>0, <1>2, <2>1, <2>2 DEF SemInv
<1>a. /\ \A q \in Procs \ {p} : pc'[q] = pc[q] /\ ev'[q] = ev[q]
      /\ ~ \E e \in ev'[p] : e[2] = Svr
  BY <1>0, <1>1 DEF TypeInv, TypeOK
<1>6. QueueInv'
  <2>1. \A w \in Workers : /\ pc'[w] = "forked" => pc[w] = "forked"
                           /\ pc'[w] \in Active => pc[w] \in Active
    BY <1>0, <1>1, <1>a DEF Active, Procs
  <2>2. pc'[Monitor] # "none" => pc[Monitor] # "none"
    BY <1>0, <1>1, <1>a DEF Procs
  <2> QED BY <1>0, <2>1, <2>2 DEF QueueInv
<1>7. LimitInv'
  <2>1. CASE p = First
    <3>1. acCount <= AcLimit
      BY <1>0, <2>1 DEF LimitInv, Before
    <3> QED BY <1>0, <1>a, <2>1, <3>1 DEF LimitInv
  <2>2. CASE p # First
    BY <1>0, <1>a, <2>2 DEF LimitInv, Procs
  <2> QED BY <2>1, <2>2
<1> QED BY <1>3, <1>4, <1>5, <1>6, <1>7 DEF Inv

\* accept() leaves the semaphore where it is.
LEMMA AcceptCallInv == ASSUME Inv, NEW p \in Procs, AcceptCall(p) PROVE Inv'
<1> USE MultiAssumption DEF AcceptCall, Inv, monVars, killVars
<1>1. TypeInv'
  <2>1. backlog # <<>> => Head(backlog) \in Conns /\ Tail(backlog) \in Seq(Conns)
    BY DEF TypeInv
  <2>2. /\ got' \in [Procs -> Conns \cup {Null}]
        /\ conn' \in [Conns -> {"gone", "pending", "sent", "echoed", "ended"}]
        /\ backlog' \in Seq(Conns)
    <3>1. CASE backlog = <<>>
      BY <3>1 DEF TypeInv, TypeOK
    <3>2. CASE backlog # <<>>
      <4>1. /\ got' = [got EXCEPT ![p] = Head(backlog)]
            /\ backlog' = Tail(backlog)
            /\ conn' = [conn EXCEPT ![Head(backlog)] = "sent"]
        BY <3>2
      <4> QED BY <2>1, <3>2, <4>1 DEF TypeInv, TypeOK
    <3> QED BY <3>1, <3>2
  <2>3. pc' \in [Procs -> {"none", "forked", "scan", "poll", "result", "accept", "after"}]
    BY DEF TypeInv, TypeOK
  <2>4. UNCHANGED <<monVars, kq, ac, ev, owns, acCount, reg, sem, killVars>>
    OBVIOUS
  <2> QED BY <2>2, <2>3, <2>4 DEF TypeInv, TypeOK
<1>2. PlaceInv'
  BY DEF PlaceInv, Active, TypeInv, TypeOK, Procs
<1>3. SemInv'
  BY DEF SemInv, HoldsSem, TypeInv, TypeOK
<1>4. QueueInv'
  BY DEF QueueInv, TypeInv, TypeOK, Active
<1>5. LimitInv'
  BY DEF LimitInv, TypeInv, TypeOK, Procs
<1> QED BY <1>1, <1>2, <1>3, <1>4, <1>5 DEF Inv

\* ac_after() gives the semaphore back, and a new chann is registered.
LEMMA AfterInv == ASSUME Inv, NEW p \in Procs, After(p) PROVE Inv'
<1> USE MultiAssumption DEF After, PostAfter, Inv, monVars, killVars
<1>1. kq[p] \in Queues
  BY DEF PlaceInv, QueueInv, TypeInv, TypeOK, Procs, Queues, Active
<1>2. TypeInv'
  <2>1. sem' \in 0 .. 1
    BY DEF TypeInv, TypeOK, SemInv, HoldsSem
  <2>2. acCount' \in 0 .. AcLimit + 1
    BY DEF TypeInv, TypeOK, LimitInv
  <2>3. /\ pc' \in [Procs -> {"none", "forked", "scan", "poll", "result", "accept", "after"}]
        /\ got' \in [Procs -> Conns \cup {Null}]
        /\ owns' \in [Procs -> SUBSET Conns]
    BY DEF TypeInv, TypeOK
  <2>4. reg' \in [Queues -> SUBSET Entries]
    BY <1>1 DEF TypeInv, TypeOK, Entries
  <2>5. UNCHANGED <<monVars, kq, ac, ev, backlog, conn, killVars>>
    OBVIOUS
  <2> QED BY <2>1, <2>2, <2>3, <2>4, <2>5 DEF TypeInv, TypeOK
<1>3. PlaceInv'
  BY DEF PlaceInv, Active, TypeInv, TypeOK, Procs
<1>4. SemInv'
  BY DEF SemInv, HoldsSem, TypeInv, TypeOK
<1>5. QueueInv'
  BY <1>1 DEF QueueInv, TypeInv, TypeOK, Active, Procs, Queues
<1>6. LimitInv'
  BY DEF LimitInv, TypeInv, TypeOK, Procs
<1> QED BY <1>2, <1>3, <1>4, <1>5, <1>6 DEF Inv
-----------------------------------------------------------------------------
(* The steps of the workers, the monitor and the clients.                  *)

\* A chann that is closed leaves the process's queue.
LEMMA ClientEventInv ==
  ASSUME Inv, NEW w \in Workers, NEW k \in Conns, ClientEvent(w, k) PROVE Inv'
<1> USE MultiAssumption DEF Inv, monVars, killVars
<1>0. /\ pc[w] = "result" /\ k \in owns[w] /\ kq[w] = w /\ w \in Procs /\ w \in Queues /\ k # Svr
      /\ ev' = [ev EXCEPT ![w] = @ \ {<<w, k>>}]
      /\ UNCHANGED <<slot, index, forked, pc, kq, ac, got, acCount, sem, backlog, kills, lost>>
  BY DEF ClientEvent, QueueInv, Active, Procs, Queues, Svr
<1>1. /\ conn' \in [Conns -> {"gone", "pending", "sent", "echoed", "ended"}]
      /\ \/ owns' = owns /\ reg' = reg
         \/ owns' = [owns EXCEPT ![w] = @ \ {k}] /\ reg' = [reg EXCEPT ![w] = @ \ {<<w, k>>}]
  BY <1>0 DEF ClientEvent, TypeInv, TypeOK
<1>2. TypeInv'
  <2>1. owns' \in [Procs -> SUBSET Conns]
    BY <1>0, <1>1 DEF TypeInv, TypeOK
  <2>2. reg' \in [Queues -> SUBSET Entries] /\ ev' \in [Procs -> SUBSET Entries]
    BY <1>0, <1>1 DEF TypeInv
  <2> QED BY <1>0, <1>1, <2>1, <2>2 DEF TypeInv, TypeOK
<1>3. PlaceInv'
  BY <1>0 DEF PlaceInv
<1>4. SemInv'
  BY <1>0 DEF SemInv, HoldsSem
<1>5. QueueInv'
  <2>1. CASE owns' = owns /\ reg' = reg
    BY <1>0, <2>1 DEF QueueInv
  <2>2. CASE owns' = [owns EXCEPT ![w] = @ \ {k}] /\ reg' = [reg EXCEPT ![w] = @ \ {<<w, k>>}]
    <3>1. reg[w] \ {<<w, k>>} = {w} \X ({Svr} \cup (owns[w] \ {k}))
      BY <1>0 DEF QueueInv, Active
    <3>2. owns'[w] = owns[w] \ {k} /\ reg'[w] = {w} \X ({Svr} \cup (owns[w] \ {k}))
      BY <1>0, <2>2, <3>1 DEF TypeInv, TypeOK
    <3>3. /\ \A q \in Procs \ {w} : owns'[q] = owns[q]
          /\ \A q \in Queues \ {w} : reg'[q] = reg[q]
      BY <1>0, <2>2 DEF TypeInv, TypeOK
    <3> QED BY <1>0, <3>2, <3>3 DEF QueueInv, Procs, Queues
  <2> QED BY <1>1, <2>1, <2>2
<1>6. LimitInv'
  BY <1>0 DEF LimitInv, TypeInv, Procs
<1> QED BY <1>2, <1>3, <1>4, <1>5, <1>6 DEF Inv

\* A process that ends takes its sockets and its registrations with it.
LEMMA ExitInv ==
  ASSUME Inv, NEW w \in Procs, Exit(w), kills' \in Nat, lost' = (lost \/ HoldsSem(w)),
         slot' \in [Workers -> {"none", "alive", "zombie", "reaped"}],
         \A v \in Workers : IF v = w THEN slot'[v] # "alive" ELSE slot'[v] = slot[v]
  PROVE  Inv'
<1> USE MultiAssumption DEF Inv
<1>0. /\ pc' = [pc EXCEPT ![w] = "none"] /\ owns' = [owns EXCEPT ![w] = {}]
      /\ ev' = [ev EXCEPT ![w] = {}]
      /\ kq' = [kq EXCEPT ![w] = Null] /\ got' = [got EXCEPT ![w] = Null]
      /\ backlog' \in {backlog, <<>>}
      /\ UNCHANGED <<index, forked, ac, acCount, sem>>
  BY DEF Exit
<1>1. /\ pc'[w] = "none"
      /\ \A p \in Procs \ {w} : /\ pc'[p] = pc[p] /\ owns'[p] = owns[p]
                                 /\ ev'[p] = ev[p] /\ kq'[p] = kq[p]
  BY <1>0 DEF TypeInv, TypeOK
<1>2. reg' = [q \in Queues |-> {e \in reg[q] : e[1] # w}]
  BY DEF Exit
<1>3. TypeInv'
  <2>1. conn' \in [Conns -> {"gone", "pending", "sent", "echoed", "ended"}]
    BY DEF Exit, TypeInv, TypeOK
  <2>2. reg' \in [Queues -> SUBSET Entries]
    BY <1>2 DEF TypeInv
  <2>3. lost' \in BOOLEAN
    BY DEF HoldsSem
  <2>4. /\ pc' \in [Procs -> {"none", "forked", "scan", "poll", "result", "accept", "after"}]
        /\ kq' \in [Procs -> Queues \cup {Null}]
        /\ got' \in [Procs -> Conns \cup {Null}]
        /\ owns' \in [Procs -> SUBSET Conns]
        /\ ev' \in [Procs -> SUBSET Entries]
    BY <1>0 DEF TypeInv, TypeOK
  <2>5. backlog' \in Seq(Conns)
    <3>1. backlog \in Seq(Conns) /\ <<>> \in Seq(Conns)
      BY DEF TypeInv
    <3> QED BY <1>0, <3>1
  <2> QED BY <1>0, <2>1, <2>2, <2>3, <2>4, <2>5 DEF TypeInv, TypeOK
<1>4. PlaceInv'
  BY <1>0, <1>1 DEF PlaceInv, Procs
<1>5. SemInv'
  <2>1. /\ ~ HoldsSem(w)'
        /\ \A p \in Procs \ {w} : HoldsSem(p)' <=> HoldsSem(p)
    BY <1>0, <1>1 DEF HoldsSem
  <2>2. sem \in 0 .. 1
    BY DEF TypeInv, TypeOK
  <2>3. CASE HoldsSem(w)
    <3>1. lost' = TRUE
      BY <2>3, Zenon
    <3>2. ~ lost /\ sem # 1 /\ \A p \in Procs \ {w} : ~ HoldsSem(p)
      BY <1>0, <2>3 DEF SemInv
    <3> QED BY <1>0, <2>1, <2>2, <3>1, <3>2 DEF SemInv
  <2>4. CASE ~ HoldsSem(w)
    BY <1>0, <2>1, <2>2, <2>4 DEF SemInv
  <2> QED BY <2>3, <2>4
<1>6. QueueInv'
  <2>1. ASSUME NEW q \in Queues, NEW p \in Procs \ {w}, NEW S, reg[q] = {p} \X S
        PROVE  reg'[q] = {p} \X S
    BY <1>2, <2>1
  <2>2. ASSUME pc'[Monitor] # "none"
        PROVE  /\ kq'[Monitor] \in {Monitor, Spare}
               /\ reg'[kq'[Monitor]] = {Monitor} \X ({Svr} \cup owns'[Monitor])
    <3>0. w # Monitor
      BY <1>1, <2>2
    <3>1. kq[Monitor] \in {Monitor, Spare} /\ kq[Monitor] \in Queues /\ Monitor \in Procs \ {w}
      BY <1>1, <2>2, <3>0 DEF QueueInv, Queues, Procs
    <3>2. reg[kq[Monitor]] = {Monitor} \X ({Svr} \cup owns[Monitor])
      BY <1>1, <2>2, <3>1 DEF QueueInv
    <3>3. reg'[kq[Monitor]] = {Monitor} \X ({Svr} \cup owns[Monitor])
      <4> DEFINE S == {Svr} \cup owns[Monitor]
                 Q == kq[Monitor]
      <4>1. Q \in Queues /\ reg[Q] = {Monitor} \X S
        BY <3>1, <3>2
      <4> HIDE DEF S, Q
      <4>2. reg'[Q] = {Monitor} \X S
        BY <2>1, <3>1, <4>1
      <4> QED BY <4>2 DEF S, Q
    <3> QED BY <1>1, <3>1, <3>3
  <2>3. ASSUME NEW v \in Workers, pc'[v] \in Active
        PROVE  kq'[v] = v /\ reg'[v] = {v} \X ({Svr} \cup owns'[v])
    <3>1. v \in Queues /\ v \in Procs \ {w} /\ pc[v] \in Active
      BY <1>1, <2>3 DEF Active, Queues, Procs
    <3>2. kq[v] = v /\ reg[v] = {v} \X ({Svr} \cup owns[v])
      BY <3>1 DEF QueueInv
    <3>3. reg'[v] = {v} \X ({Svr} \cup owns[v])
      <4> DEFINE S == {Svr} \cup owns[v]
      <4>1. reg[v] = {v} \X S
        BY <3>2
      <4> HIDE DEF S
      <4>2. reg'[v] = {v} \X S
        BY <2>1, <3>1, <4>1
      <4> QED BY <4>2 DEF S
    <3> QED BY <1>1, <3>1, <3>2, <3>3
  <2>5. \A v \in Workers : pc'[v] = "forked" => kq'[v] \in {Monitor, Spare}
    BY <1>1 DEF QueueInv, Procs
  <2> QED BY <2>2, <2>3, <2>5 DEF QueueInv
<1>7. LimitInv'
  BY <1>0, <1>1 DEF LimitInv, Procs
<1> QED BY <1>3, <1>4, <1>5, <1>6, <1>7 DEF Inv

\* A worker that ends.
LEMMA EndInv ==
  ASSUME Inv, NEW w \in Workers, slot[w] = "alive", End(w), kills' \in Nat,
         lost' = (lost \/ HoldsSem(w))
  PROVE  Inv'
<1>1. w \in Procs /\ Exit(w)
  BY DEF End, Procs
<1>2. /\ slot' \in [Workers -> {"none", "alive", "zombie", "reaped"}]
      /\ \A v \in Workers : IF v = w THEN slot'[v] # "alive" ELSE slot'[v] = slot[v]
  BY DEF End, Inv, TypeInv, TypeOK
<1> QED BY <1>1, <1>2, ExitInv

\* fork() fails and the monitor ends; it never has the semaphore.
LEMMA ForkFailsInv == ASSUME Inv, NEW w \in Workers, ForkFails(w) PROVE Inv'
<1>1. Monitor \in Procs /\ Exit(Monitor) /\ kills' \in Nat /\ slot' = slot /\ pc[Monitor] = "scan"
  BY DEF ForkFails, At, Procs, Inv, TypeInv
<1>2. lost' = (lost \/ HoldsSem(Monitor))
  <2>1. lost \in BOOLEAN /\ lost' = lost /\ ~ HoldsSem(Monitor)
    BY <1>1 DEF ForkFails, HoldsSem, Inv, TypeInv
  <2> QED BY <2>1, Zenon
<1>3. /\ slot' \in [Workers -> {"none", "alive", "zombie", "reaped"}]
      /\ \A v \in Workers : IF v = Monitor THEN slot'[v] # "alive" ELSE slot'[v] = slot[v]
  BY <1>1, MultiAssumption DEF Inv, TypeInv, TypeOK
<1> QED BY <1>1, <1>2, <1>3, ExitInv

\* The end of a round: the first worker exits, others poll again.
LEMMA EndRoundInv == ASSUME Inv, NEW w \in Workers, EndRound(w) PROVE Inv'
<1> USE MultiAssumption DEF Inv
<1>0. /\ pc[w] = "result" /\ w \in Procs /\ w # Monitor /\ slot[w] = "alive" /\ ~ HoldsSem(w)
      /\ kills' = kills /\ lost' = lost
  BY DEF EndRound, killVars, PlaceInv, HoldsSem, Procs
<1>1. CASE w = First /\ acCount > AcLimit
  <2>1. End(w)
    BY <1>1 DEF EndRound
  <2>2. kills' \in Nat /\ lost' = (lost \/ HoldsSem(w))
    BY <1>0 DEF TypeInv
  <2> QED BY <1>0, <2>1, <2>2, EndInv
<1>2. CASE ~ (w = First /\ acCount > AcLimit)
  <2>0. /\ pc' = [pc EXCEPT ![w] = "poll"]
        /\ UNCHANGED <<slot, index, forked, kq, ac, ev, got, owns, acCount, reg, sem, backlog, conn>>
    BY <1>2 DEF EndRound, monVars
  <2>1. pc'[w] = "poll" /\ \A p \in Procs \ {w} : pc'[p] = pc[p]
    BY <1>0, <2>0 DEF TypeInv, TypeOK
  <2>2. TypeInv'
    BY <1>0, <2>0 DEF TypeInv, TypeOK
  <2>3. PlaceInv'
    BY <1>0, <2>0, <2>1 DEF PlaceInv, Procs, Active
  <2>4. SemInv'
    <3>1. \A p \in Procs : HoldsSem(p)' <=> HoldsSem(p)
      BY <1>0, <2>0, <2>1 DEF HoldsSem
    <3> QED BY <1>0, <2>0, <3>1 DEF SemInv
  <2>5. QueueInv'
    BY <1>0, <2>0, <2>1 DEF QueueInv, Procs, Active
  <2>6. LimitInv'
    BY <1>0, <1>2, <2>0, <2>1 DEF LimitInv, Procs, TypeInv, TypeOK
  <2> QED BY <2>2, <2>3, <2>4, <2>5, <2>6 DEF Inv
<1> QED BY <1>1, <1>2
\* mnet_multi_reset_event() of a process that holds no semaphore and goes on
\* to poll: it gets a queue that no running process has.
LEMMA ResetStep ==
  ASSUME Inv, NEW p \in Procs, NEW acFn \in {"workers", "monitor"}, MultiReset(p, acFn),
         p \in Live, pc[p] \in {"forked", "scan"},
         pc' = [pc EXCEPT ![p] = "poll"], forked' \in BOOLEAN,
         UNCHANGED <<slot, index, ev, got, owns, acCount, sem, backlog, conn, killVars>>
  PROVE  Inv'
<1> USE MultiAssumption DEF Inv, killVars
<1> DEFINE Q == FreeQueue(p)
<1>1. /\ pc'[p] = "poll" /\ \A q \in Procs \ {p} : pc'[q] = pc[q] /\ kq'[q] = kq[q] /\ ac'[q] = ac[q]
      /\ kq'[p] = Q /\ ac'[p] = acFn
  BY DEF MultiReset, TypeInv, TypeOK
<1>2. Q \in Queues /\ (p = Monitor => Q \in {Monitor, Spare})
  BY DEF FreeQueue, Queues
<1>3. p # Monitor => Q = p
  <2> SUFFICES ASSUME p \in Workers, NEW o \in Live \ {p}, kq[o] = p
               PROVE  FALSE
    BY DEF FreeQueue, Procs
  <2>1. (o = Monitor /\ pc[o] # "none") \/ (o \in Workers /\ pc[o] \in Active \cup {"forked"})
    BY DEF Live, PlaceInv, Procs
  <2> QED BY <2>1 DEF QueueInv
<1>4. reg'[Q] = {p} \X ({Svr} \cup owns[p])
  BY <1>2 DEF MultiReset
<1>5. \A q \in Queues : q # Q /\ (\E o \in Live \ {p} : kq[o] = q) => reg'[q] = reg[q]
  BY DEF MultiReset
<1>6. TypeInv'
  <2>1. reg' \in [Queues -> SUBSET Entries]
    <3>1. {p} \X ({Svr} \cup owns[p]) \in SUBSET Entries
      BY DEF Entries, TypeInv, TypeOK
    <3>2. reg \in [Queues -> SUBSET Entries]
      BY DEF TypeInv
    <3> QED BY <3>1, <3>2 DEF MultiReset
  <2>2. /\ pc' \in [Procs -> {"none", "forked", "scan", "poll", "result", "accept", "after"}]
        /\ kq' \in [Procs -> Queues \cup {Null}]
        /\ ac' \in [Procs -> {"plain", "workers", "monitor"}]
    BY <1>2 DEF MultiReset, TypeInv, TypeOK
  <2> QED BY <2>1, <2>2 DEF TypeInv, TypeOK
<1>7. PlaceInv'
  BY <1>1 DEF PlaceInv, Procs, Active, Live
<1>8. SemInv'
  <2>1. \A q \in Procs : HoldsSem(q)' <=> HoldsSem(q)
    BY <1>1 DEF HoldsSem
  <2> QED BY <2>1 DEF SemInv
<1>9. QueueInv'
  <2>1. ASSUME pc'[Monitor] # "none"
        PROVE  kq'[Monitor] \in {Monitor, Spare} /\ reg'[kq'[Monitor]] = {Monitor} \X ({Svr} \cup owns'[Monitor])
    <3>1. CASE p = Monitor
      BY <1>1, <1>2, <1>4, <3>1
    <3>2. CASE p # Monitor
      <4>0. pc[Monitor] # "none" /\ Monitor \in Procs
        BY <1>1, <2>1, <3>2 DEF Procs
      <4>1. kq'[Monitor] = kq[Monitor] /\ kq[Monitor] \in {Monitor, Spare} /\ Q = p /\ p \in Workers
        BY <1>1, <1>3, <3>2, <4>0 DEF QueueInv, Procs
      <4>2. kq[Monitor] \in Queues /\ kq[Monitor] # Q /\ Monitor \in Live \ {p}
        BY <3>2, <4>0, <4>1 DEF Queues, Live
      <4>3. reg'[kq[Monitor]] = reg[kq[Monitor]]
        BY <1>5, <4>2
      <4> QED BY <4>0, <4>1, <4>3 DEF QueueInv
    <3> QED BY <3>1, <3>2
  <2>2. \A w \in Workers : pc'[w] = "forked" => kq'[w] \in {Monitor, Spare}
    BY <1>1 DEF QueueInv, Procs
  <2>3. ASSUME NEW w \in Workers, pc'[w] \in Active
        PROVE  kq'[w] = w /\ reg'[w] = {w} \X ({Svr} \cup owns'[w])
    <3>1. CASE w = p
      BY <1>1, <1>3, <1>4, <3>1
    <3>2. CASE w # p
      <4>1. pc[w] \in Active /\ kq[w] = w /\ kq'[w] = w
        BY <1>1, <2>3, <3>2 DEF QueueInv, Procs
      <4>2. w \in Queues /\ w # Q /\ w \in Live \ {p}
        <5>1. w \in Live /\ w \in Queues
          BY <4>1 DEF PlaceInv, Active, Live, Queues, Procs
        <5>2. w # Q
          BY <1>2, <1>3, <3>2 DEF Procs
        <5> QED BY <3>2, <5>1, <5>2
      <4>3. reg'[w] = reg[w]
        BY <1>5, <4>1, <4>2
      <4> QED BY <4>1, <4>3 DEF QueueInv
    <3> QED BY <3>1, <3>2
  <2> QED BY <2>1, <2>2, <2>3 DEF QueueInv
<1>10. LimitInv'
  BY <1>1 DEF LimitInv, Procs, PlaceInv, Active
<1> QED BY <1>6, <1>7, <1>8, <1>9, <1>10 DEF Inv

\* A forked worker leaves the monitor's queue.
LEMMA ChildStartInv == ASSUME Inv, NEW w \in Workers, ChildStart(w) PROVE Inv'
<1>1. w \in Procs /\ w \in Live /\ forked' \in BOOLEAN
  BY DEF ChildStart, Inv, TypeInv, PlaceInv, Live, Procs, monVars
<1> QED BY <1>1, ResetStep DEF ChildStart, monVars

\* The monitor resets when it has forked.
LEMMA ScannedInv == ASSUME Inv, Scanned PROVE Inv'
<1> USE MultiAssumption DEF Inv
<1>0. /\ pc[Monitor] = "scan" /\ pc' = [pc EXCEPT ![Monitor] = "poll"] /\ forked' = FALSE
      /\ UNCHANGED <<slot, index, ev, got, owns, acCount, sem, backlog, conn, killVars>>
  BY DEF Scanned
<1>1. CASE forked
  <2>1. Monitor \in Procs /\ Monitor \in Live /\ forked' \in BOOLEAN /\ MultiReset(Monitor, "monitor")
    BY <1>0, <1>1 DEF Scanned, Live, Procs
  <2> QED BY <1>0, <2>1, ResetStep
<1>2. CASE ~ forked
  <2>0. UNCHANGED <<kq, reg, ac, kills, lost>>
    BY <1>2 DEF Scanned, killVars
  <2>1. pc'[Monitor] = "poll" /\ \A p \in Procs \ {Monitor} : pc'[p] = pc[p]
    BY <1>0 DEF TypeInv, TypeOK, Procs
  <2>2. TypeInv'
    BY <1>0, <2>0 DEF TypeInv, TypeOK
  <2>3. PlaceInv'
    BY <1>0, <2>1 DEF PlaceInv, Procs, Active
  <2>4. SemInv'
    <3>1. \A p \in Procs : HoldsSem(p)' <=> HoldsSem(p)
      BY <1>0, <2>0, <2>1 DEF HoldsSem
    <3> QED BY <1>0, <2>0, <3>1 DEF SemInv
  <2>5. QueueInv'
    BY <1>0, <2>0, <2>1 DEF QueueInv, Procs
  <2>6. LimitInv'
    BY <1>0, <2>0, <2>1 DEF LimitInv, Procs
  <2> QED BY <2>2, <2>3, <2>4, <2>5, <2>6 DEF Inv
<1> QED BY <1>1, <1>2 DEF TypeInv
\* A slot is forked, reaped or left alone.
LEMMA ScanInv == ASSUME Inv, NEW w \in Workers, Scan(w) PROVE Inv'
<1> USE MultiAssumption DEF Inv
<1>0. /\ pc[Monitor] = "scan" /\ index' = index \ {w} /\ w \in Procs /\ w # Monitor
      /\ UNCHANGED <<ev, got, reg, sem, backlog, conn, kills, lost>>
  BY DEF Scan, At, killVars, Procs
<1>1. CASE slot[w] # "alive" /\ Fork(w)
  <2>0. /\ slot' = [slot EXCEPT ![w] = "alive"] /\ pc' = [pc EXCEPT ![w] = "forked"]
        /\ kq' = [kq EXCEPT ![w] = kq[Monitor]] /\ ac' = [ac EXCEPT ![w] = ac[Monitor]]
        /\ owns' = [owns EXCEPT ![w] = owns[Monitor]]
        /\ acCount' = (IF w = First THEN 0 ELSE acCount) /\ forked' = TRUE
    BY <1>1 DEF Fork
  <2>1. /\ pc'[w] = "forked" /\ slot'[w] = "alive" /\ kq'[w] = kq[Monitor]
        /\ \A p \in Procs \ {w} : /\ pc'[p] = pc[p] /\ kq'[p] = kq[p]
                                   /\ ac'[p] = ac[p] /\ owns'[p] = owns[p]
        /\ \A v \in Workers \ {w} : slot'[v] = slot[v]
    BY <1>0, <2>0 DEF TypeInv, TypeOK
  <2>2. TypeInv'
    <3>1. Monitor \in Procs
      BY DEF Procs
    <3>2. acCount' \in 0 .. AcLimit + 1
      BY <2>0 DEF TypeInv, TypeOK
    <3>3. /\ pc' \in [Procs -> {"none", "forked", "scan", "poll", "result", "accept", "after"}]
          /\ slot' \in [Workers -> {"none", "alive", "zombie", "reaped"}]
      BY <1>0, <2>0 DEF TypeInv, TypeOK
    <3>4. /\ kq' \in [Procs -> Queues \cup {Null}]
          /\ ac' \in [Procs -> {"plain", "workers", "monitor"}]
          /\ owns' \in [Procs -> SUBSET Conns]
      BY <1>0, <2>0, <3>1 DEF TypeInv, TypeOK
    <3>5. forked' \in BOOLEAN /\ index' \subseteq Workers
      BY <1>0, <2>0 DEF TypeInv
    <3> QED BY <1>0, <3>2, <3>3, <3>4, <3>5 DEF TypeInv, TypeOK
  <2>3. PlaceInv'
    BY <1>0, <2>1 DEF PlaceInv, Procs, Active
  <2>4. SemInv'
    <3>1. ~ HoldsSem(w) /\ ~ HoldsSem(w)'
      BY <1>1, <2>1 DEF HoldsSem, PlaceInv
    <3>2. \A p \in Procs : HoldsSem(p)' <=> HoldsSem(p)
      BY <2>1, <3>1 DEF HoldsSem
    <3> QED BY <1>0, <3>2 DEF SemInv
  <2>5. QueueInv'
    BY <1>0, <2>1 DEF QueueInv, Procs, Active
  <2>6. LimitInv'
    <3>1. CASE w = First
      BY <1>0, <2>0, <2>1, <3>1 DEF LimitInv
    <3>2. CASE w # First
      BY <1>0, <2>0, <2>1, <3>2 DEF LimitInv, Procs
    <3> QED BY <3>1, <3>2
  <2> QED BY <2>2, <2>3, <2>4, <2>5, <2>6 DEF Inv
<1>2. CASE /\ slot' = slot \/ (slot[w] = "zombie" /\ slot' = [slot EXCEPT ![w] = "reaped"])
           /\ UNCHANGED <<pc, kq, ac, owns, acCount, forked>>
  <2>1. TypeInv'
    <3>1. slot' \in [Workers -> {"none", "alive", "zombie", "reaped"}]
      BY <1>2 DEF TypeInv, TypeOK
    <3>2. index' \subseteq Workers
      BY <1>0 DEF TypeInv
    <3> QED BY <1>0, <1>2, <3>1, <3>2 DEF TypeInv, TypeOK
  <2>2. PlaceInv'
    <3>1. \A v \in Workers : slot'[v] = "alive" <=> slot[v] = "alive"
      BY <1>2 DEF TypeInv, TypeOK
    <3> QED BY <1>2, <3>1 DEF PlaceInv
  <2>3. SemInv'
    BY <1>0, <1>2 DEF SemInv, HoldsSem
  <2>4. QueueInv'
    BY <1>0, <1>2 DEF QueueInv
  <2>5. LimitInv'
    BY <1>0, <1>2 DEF LimitInv
  <2> QED BY <2>1, <2>2, <2>3, <2>4, <2>5 DEF Inv
<1> QED BY <1>1, <1>2 DEF Scan, CheckSlot

\* The monitor's round touches nothing the invariant speaks of but its place.
LEMMA MonitorRoundInv == ASSUME Inv, MonitorRound PROVE Inv'
<1> USE MultiAssumption DEF Inv
<1>0. /\ pc[Monitor] = "result" /\ pc' = [pc EXCEPT ![Monitor] = "scan"] /\ Monitor \in Procs
      /\ ev' = [ev EXCEPT ![Monitor] = {}] /\ index' = Workers
      /\ UNCHANGED <<slot, forked, kq, ac, got, owns, acCount, reg, sem, backlog, conn, kills, lost>>
  BY DEF MonitorRound, killVars, Procs
<1>1. pc'[Monitor] = "scan" /\ \A p \in Procs \ {Monitor} : pc'[p] = pc[p] /\ ev'[p] = ev[p]
  BY <1>0 DEF TypeInv, TypeOK
<1>2. TypeInv'
  BY <1>0 DEF TypeInv, TypeOK
<1>3. PlaceInv'
  BY <1>0, <1>1 DEF PlaceInv, Procs
<1>4. SemInv'
  <2>1. \A p \in Procs : HoldsSem(p)' <=> HoldsSem(p)
    BY <1>0, <1>1 DEF HoldsSem
  <2> QED BY <1>0, <2>1 DEF SemInv
<1>5. QueueInv'
  BY <1>0, <1>1 DEF QueueInv, Procs
<1>6. LimitInv'
  BY <1>0, <1>1 DEF LimitInv, Procs
<1> QED BY <1>2, <1>3, <1>4, <1>5, <1>6 DEF Inv

\* Clients connect and close.
LEMMA ClientInv == ASSUME Inv, NEW k \in Conns, Connect(k) \/ ClientClose(k) PROVE Inv'
<1> USE DEF Inv
<1>0. UNCHANGED <<slot, index, forked, pc, kq, ac, ev, got, owns, acCount, reg, sem, kills, lost>>
  BY DEF Connect, ClientClose, monVars, procVars, killVars
<1>1. /\ conn' \in [Conns -> {"gone", "pending", "sent", "echoed", "ended"}]
      /\ backlog' \in Seq(Conns)
  <2>1. CASE Connect(k)
    <3>1. backlog \in Seq(Conns) /\ backlog' = Append(backlog, k)
      BY <2>1 DEF Connect, TypeInv
    <3>2. backlog' \in Seq(Conns)
      BY <3>1
    <3> QED BY <2>1, <3>2 DEF Connect, TypeInv, TypeOK
  <2>2. CASE ClientClose(k)
    BY <2>2 DEF ClientClose, TypeInv, TypeOK
  <2> QED BY <2>1, <2>2
<1>2. TypeInv'
  BY <1>0, <1>1 DEF TypeInv, TypeOK
<1>3. PlaceInv' /\ SemInv' /\ QueueInv' /\ LimitInv'
  BY <1>0 DEF PlaceInv, SemInv, HoldsSem, QueueInv, LimitInv
<1> QED BY <1>2, <1>3 DEF Inv

\* A worker that is killed with the semaphore loses it.
LEMMA KillInv == ASSUME Inv, NEW w \in Workers, Kill(w) PROVE Inv'
<1>1. w \in Holders <=> HoldsSem(w)
  BY HoldersAre DEF Inv, Procs
<1>2. lost' = (lost \/ HoldsSem(w))
  <2>1. lost \in BOOLEAN /\ lost' = (lost \/ w \in Holders)
    BY DEF Kill, Inv, TypeInv
  <2> QED BY <1>1, <2>1, Zenon
<1>3. kills' \in Nat /\ slot[w] = "alive" /\ End(w)
  BY DEF Kill, Inv, TypeInv
<1> QED BY <1>2, <1>3, EndInv

\* The server is started again: the semaphore is as it was.
LEMMA FreshInv ==
  ASSUME Inv, Fresh, sem' = sem, kills' \in Nat, lost' = (lost \/ Holders # {})
  PROVE  Inv'
<1> USE MultiAssumption DEF Fresh
<1>0. lost \in BOOLEAN
  BY DEF Inv, TypeInv
<1>1. TypeInv'
  <2>1. TypeOK'
    BY DEF Inv, TypeInv, TypeOK, Procs, Queues
  <2>2. reg' \in [Queues -> SUBSET Entries] /\ ev' \in [Procs -> SUBSET Entries]
    BY DEF Procs, Queues, Entries
  <2>3. forked' \in BOOLEAN /\ lost' \in BOOLEAN
    BY <1>0, Zenon
  <2>4. backlog' \in Seq(Conns) /\ index' \subseteq Workers
    OBVIOUS
  <2> QED BY <2>1, <2>2, <2>3, <2>4 DEF TypeInv
<1>2. PlaceInv'
  BY DEF PlaceInv, Procs, Active
<1>3. SemInv'
  <2>1. \A p \in Procs : ~ HoldsSem(p)'
    BY DEF HoldsSem
  <2>2. Holders = {p \in Procs : HoldsSem(p)}
    BY HoldersAre DEF Inv
  <2>3. sem \in 0 .. 1
    BY DEF Inv, TypeInv, TypeOK
  <2>4. lost' => sem = 0
    BY <1>0, <2>2, <2>3 DEF Inv, SemInv
  <2>5. ~ lost' => sem = 1
    BY <1>0, <2>2, <2>3 DEF Inv, SemInv
  <2> QED BY <2>1, <2>4, <2>5 DEF SemInv
<1>4. QueueInv'
  BY DEF QueueInv, Procs, Queues, Active
<1>5. LimitInv'
  BY DEF LimitInv, Procs
<1> QED BY <1>1, <1>2, <1>3, <1>4, <1>5 DEF Inv

\* An interrupt may find a worker with the semaphore; a start finds nobody.
LEMMA StartInv == ASSUME Inv, Interrupt \/ Start PROVE Inv'
<1>1. CASE Interrupt
  <2>1. kills' \in Nat
    BY <1>1 DEF Interrupt, Inv, TypeInv
  <2> QED BY <1>1, <2>1, FreshInv DEF Interrupt
<1>2. CASE Start
  <2>1. Holders = {} /\ lost \in BOOLEAN /\ lost' = lost /\ kills' \in Nat
    BY <1>2 DEF Start, Holders, killVars, Inv, TypeInv
  <2>2. lost' = (lost \/ Holders # {})
    BY <2>1, Zenon
  <2> QED BY <1>2, <2>1, <2>2, FreshInv DEF Start
<1> QED BY <1>1, <1>2

\* Every step preserves the invariant.
LEMMA NextInv == Inv /\ [Next]_vars => Inv'
<1> SUFFICES ASSUME Inv, [Next]_vars PROVE Inv'
  OBVIOUS
<1>1. ASSUME NEW p \in Procs, Library(p) PROVE Inv'
  BY <1>1, PollInv, BeforeInv, AcceptCallInv, AfterInv DEF Library
<1>2. ASSUME NEW w \in Workers, WorkerLoop(w) \/ Kill(w) \/ ForkFails(w) PROVE Inv'
  BY <1>2, ChildStartInv, EndRoundInv, ClientEventInv, KillInv, ForkFailsInv DEF WorkerLoop
<1>3. ASSUME NEW k \in Conns, Connect(k) \/ ClientClose(k) PROVE Inv'
  BY <1>3, ClientInv
<1>4. CASE MonitorLoop
  BY <1>4, ScannedInv, MonitorRoundInv, ScanInv DEF MonitorLoop
<1>5. CASE Interrupt \/ Start
  BY <1>5, StartInv
<1>6. CASE UNCHANGED vars
  <2>1. UNCHANGED <<slot, index, forked, pc, kq, ac, ev, got, owns, acCount, reg, sem, backlog, conn, kills, lost>>
    BY <1>6 DEF vars, monVars, procVars, killVars
  <2> QED BY <2>1 DEF Inv, TypeInv, TypeOK, PlaceInv, SemInv, HoldsSem, QueueInv, LimitInv
<1> QED BY <1>1, <1>2, <1>3, <1>4, <1>5, <1>6 DEF Next

\* The invariant holds always.
THEOREM Invariant == Spec => []Inv
<1> QED BY InitInv, NextInv, PTL DEF Spec
-----------------------------------------------------------------------------
(* The theorems.                                                           *)

\* SemAccounted: whatever fails and whoever dies, the semaphore is free, held
\* by the one worker in accept(2), or was lost with a worker killed there.
THEOREM SemaphoreAccounted == Spec => []SemAccounted
<1>1. Inv => SemAccounted
  <2> SUFFICES ASSUME Inv PROVE SemAccounted
    OBVIOUS
  <2>1. Holders = {p \in Procs : HoldsSem(p)}
    BY HoldersAre DEF Inv
  <2>2. sem \in 0 .. 1 /\ lost \in BOOLEAN
    BY DEF Inv, TypeInv, TypeOK
  <2>3. CASE Holders = {}
    <3>1. Cardinality(Holders) = 0
      BY <2>3, FS_EmptySet
    <3>2. \A p \in Procs : ~ HoldsSem(p)
      BY <2>1, <2>3
    <3> QED BY <2>2, <3>1, <3>2 DEF SemAccounted, Inv, SemInv
  <2>4. CASE Holders # {}
    <3>1. PICK p \in Procs : HoldsSem(p)
      BY <2>1, <2>4
    <3>2. Holders = {p}
      BY <2>1, <3>1 DEF Inv, SemInv
    <3>3. Cardinality(Holders) = 1
      BY <3>2, FS_Singleton
    <3>4. ~ lost /\ sem = 0
      BY <2>2, <3>1 DEF Inv, SemInv
    <3> QED BY <3>3, <3>4 DEF SemAccounted
  <2> QED BY <2>3, <2>4
<1> QED BY <1>1, Invariant, PTL

\* OwnEvents: a process that polls has an event queue to itself, and only its
\* own channs are registered there, after any sequence of forks and crashes.
THEOREM QueuesAreOwn == Spec => []OwnEvents
<1>1. Inv => OwnEvents
  <2> SUFFICES ASSUME Inv PROVE OwnEvents
    OBVIOUS
  <2> USE MultiAssumption DEF Inv
  <2>1. TypeOK
    BY DEF TypeInv
  <2>2. ASSUME NEW p \in Live, pc[p] \in Active
        PROVE  reg[kq[p]] = {p} \X ({Svr} \cup owns[p])
    <3>1. CASE p = Monitor
      BY <3>1 DEF Live, QueueInv
    <3>2. CASE p \in Workers
      BY <2>2, <3>2 DEF QueueInv
    <3> QED BY <3>1, <3>2 DEF Live, Procs
  <2>3. ASSUME NEW p \in Live, pc[p] \in Active, NEW o \in Live \ {p}, kq[o] = kq[p], pc[o] # "forked"
        PROVE  FALSE
    <3>1. ASSUME NEW v \in Procs, pc[v] # "none", pc[v] # "forked"
          PROVE  \/ v = Monitor /\ kq[v] \in {Monitor, Spare}
                 \/ v \in Workers /\ kq[v] = v
      <4>1. CASE v = Monitor
        BY <3>1, <4>1 DEF QueueInv
      <4>2. CASE v \in Workers
        BY <3>1, <4>2 DEF PlaceInv, QueueInv
      <4> QED BY <4>1, <4>2 DEF Procs
    <3>2. p \in Procs /\ o \in Procs /\ pc[p] # "none" /\ pc[p] # "forked" /\ pc[o] # "none"
      BY <2>3 DEF Live, Active
    <3> QED BY <2>3, <3>1, <3>2
  <2> QED BY <2>1, <2>2, <2>3 DEF OwnEvents, Active
<1> QED BY <1>1, Invariant, PTL
=============================================================================
