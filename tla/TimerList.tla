----------------------------- MODULE TimerList -----------------------------
(* The timers of src/src/mnet_core.c: a skip list ordered by expiry time     *)
(* (tm_clock), mnet_poll() putting a cursor (tm_pos) on its first node, and  *)
(* mnet_result_next() walking the cursor over the due nodes while every node *)
(* it passes is taken out and put back at its next expiry, and the handler   *)
(* of the event may set, kill or close any timer it likes.                   *)
(*                                                                           *)
(* A chann has one node at most, so a node is named by its chann.  Time is   *)
(* in ticks; tm->interval is an int of range -IntMax-1..IntMax.              *)
EXTENDS Integers, Sequences, FiniteSets, SequencesExt, FiniteSetsExt

CONSTANTS Channs,
          MaxLevel,     \* MNET_SKIPLIST_MAX_LEVEL, 32 in the code
          Intervals,    \* what the application asks for
          IntMax,       \* INT_MAX
          MaxTime,      \* bound of the clock
          Null,         \* no chann, no node
          ListHead,     \* the list's head as a place in the list
          Freed         \* a node that was freed

ASSUME TimerAssumption ==
    /\ IsFiniteSet(Channs) /\ {Null, ListHead, Freed} \cap Channs = {}
    /\ Null # ListHead /\ Null # Freed /\ ListHead # Freed /\ Null \notin Int
    /\ MaxLevel \in Nat \ {0} /\ IntMax \in Nat /\ MaxTime \in Nat
    /\ Intervals \subseteq Nat \ {0}

VARIABLES
    link,        \* link[i] is the i-th list, its first node first
    height,      \* level of a chann's node
    level,       \* list->level
    time,        \* tm->time
    interval,    \* tm->interval
    state,       \* "open"; "closed" until the next poll destroys it; "free"
    now,         \* what _tm_current() returns
    pos,         \* tm_pos
    current,     \* tm_current
    crashed,     \* a freed node was read, and the process did not survive it
    wild,        \* history: channs whose interval did not fit
    told,        \* history: the last step has reported a timer
    due          \* history: the earliest time the application expects the event

vars == <<link, height, level, time, interval, state, now, pos, current, crashed, wild, told, due>>

Levels == 1..MaxLevel
Armed == ToSet(link[1])      \* channs whose timer_node is not NULL

(* The conversion of an int64_t to int *)
Int32(v) == ((v + IntMax + 1) % (2 * (IntMax + 1))) - (IntMax + 1)

-----------------------------------------------------------------------------
(* The skip list: operators on the lists ls, the list level lv, and the keys *)

Index(s, c, default) == IF c \in ToSet(s) THEN CHOOSE i \in DOMAIN s : s[i] = c ELSE default

\* Mutant: only the top level is searched.
search_top_only(ls, lv, key) ==
    LET S == {k \in DOMAIN ls[lv] : time[ls[lv][k]] >= key}
    IN  [i \in 1..lv |-> IF S = {} THEN ListHead ELSE ls[lv][Min(S)]]

(* skiplist_insert()'s search: on each level, from the top, the node that    *)
(* the new one goes before, sought between the two places the level above    *)
(* has found: hi, and the node in front of hi there.                         *)
EndIn(ls, lv, key, i, hi) ==
    LET lo == IF i = lv THEN 0
              ELSE LET k == Index(ls[i + 1], hi, Len(ls[i + 1]) + 1)
                   IN  IF k = 1 THEN 0 ELSE Index(ls[i], ls[i + 1][k - 1], 0)
        S  == {k \in DOMAIN ls[i] : lo < k /\ k < Index(ls[i], hi, Len(ls[i]) + 1)
                                           /\ time[ls[i][k]] >= key}
    IN  IF S = {} THEN hi ELSE ls[i][Min(S)]
EndAt(ls, lv, key) ==
    LET end[i \in 1..lv] == EndIn(ls, lv, key, i, IF i = lv THEN ListHead ELSE end[i + 1])
    IN  end

(* skiplist_insert() of a node of level h *)
InsertedLevel(lv, h) == IF h > lv THEN h ELSE lv
Inserted(ls, lv, c, key, h) ==
    LET end == EndAt(ls, InsertedLevel(lv, h), key)
    IN  [i \in Levels |-> IF i <= h
                          THEN InsertAt(ls[i], Index(ls[i], end[i], Len(ls[i]) + 1), c)
                          ELSE ls[i]]

(* skiplist_remove_skipnode() of the nodes of C: a level that becomes empty  *)
(* takes one from list->level                                                *)
NthOf(D, k) == CHOOSE i \in D : Cardinality({j \in D : j <= i}) = k
Kept(s, C) ==      \* SelectSeq(), without its recursion
    LET D == {i \in DOMAIN s : s[i] \notin C} IN [k \in 1..Cardinality(D) |-> s[NthOf(D, k)]]
Removed(C) == [i \in Levels |-> Kept(link[i], C)]

RemovedLevel(C) == level - Cardinality({i \in Levels : link[i] # <<>> /\ Removed(C)[i] = <<>>})

(* A cursor on a node that is removed is left on freed memory *)
CursorWithout(p, C) == IF p \in C THEN Freed ELSE p

-----------------------------------------------------------------------------
(* Timer operations *)

(* The node of c is put at time t, whatever skiplist_random_level() says *)
PutAt(c, t) ==
    \E h \in Levels :
       /\ link' = Inserted(Removed({c}), RemovedLevel({c}), c, t, h)
       /\ level' = InsertedLevel(RemovedLevel({c}), h)
       /\ height' = [height EXCEPT ![c] = h]
       /\ time' = [time EXCEPT ![c] = t]

\* Mutant: the next expiry is counted from the last one.
update_from_last(c, v) ==
    /\ interval' = [interval EXCEPT ![c] = Int32(v)]
    /\ PutAt(c, time[c] + Int32(v))

(* _tm_update(): the interval goes through the int *)
TmUpdate(c, v) ==
    /\ interval' = [interval EXCEPT ![c] = Int32(v)]
    /\ PutAt(c, now + Int32(v))

(* _tm_active(): the first expiry does not *)
TmActive(c, v) ==
    /\ interval' = [interval EXCEPT ![c] = Int32(v)]
    /\ PutAt(c, now + v)

(* _tm_kill() of the timers of C *)
TmKill(C) ==
    /\ link' = Removed(C)
    /\ level' = RemovedLevel(C)
    /\ height' = [c \in Channs |-> IF c \in C THEN 0 ELSE height[c]]
    /\ interval' = [c \in Channs |-> IF c \in C THEN 0 ELSE interval[c]]
    /\ time' = [c \in Channs |-> IF c \in C THEN 0 ELSE time[c]]
    /\ wild' = wild \ C
    /\ due' = [c \in Channs |-> IF c \in C THEN 0 ELSE due[c]]

Fits(v) == Int32(v) = v

(* mnet_chann_active_event(n, CHANN_EVENT_TIMER, v), v > 0 *)
SetTimer(c, v) ==
    /\ state[c] = "open"
    /\ IF c \in Armed THEN TmUpdate(c, v) ELSE TmActive(c, v)
    /\ pos' = CursorWithout(pos, {c})
    /\ wild' = IF Fits(v) THEN wild \ {c} ELSE wild \cup {c}
    /\ due' = [due EXCEPT ![c] = IF Fits(v) THEN now + v ELSE 0]
    /\ UNCHANGED <<state, now, current, crashed>>
    /\ told' = FALSE

(* The same with v = 0 *)
KillTimer(c) ==
    /\ state[c] = "open" /\ c \in Armed
    /\ TmKill({c})
    /\ pos' = CursorWithout(pos, {c})
    /\ UNCHANGED <<state, now, current, crashed>>
    /\ told' = FALSE

(* mnet_chann_close(): the timer stays until the chann is destroyed *)
Close(c) ==
    /\ state[c] = "open"
    /\ state' = [state EXCEPT ![c] = "closed"]
    /\ UNCHANGED <<link, height, level, time, interval, now, pos, current, crashed, wild, due>>
    /\ told' = FALSE

Closed == {c \in Channs : state[c] = "closed"}

(* _tm_schedule() on the lists that are left *)
TmSchedule ==
    IF link'[1] = <<>> THEN pos' = Null /\ UNCHANGED current
    ELSE IF time'[link'[1][1]] > now THEN pos' = Null /\ UNCHANGED current
         ELSE pos' = link'[1][1] /\ current' = now

\* Mutant: _chann_destroy() forgets the timer.
poll_keeps_timers ==
    /\ state' = [c \in Channs |-> IF c \in Closed THEN "free" ELSE state[c]]
    /\ UNCHANGED <<link, height, level, time, interval, wild, due>>
    /\ TmSchedule
    /\ told' = FALSE
    /\ UNCHANGED <<now, crashed>>

(* mnet_poll(): closed channs are destroyed with their timers, then          *)
(* _tm_schedule() puts the cursor on the first timer if it is due            *)
Poll ==
    /\ state' = [c \in Channs |-> IF c \in Closed THEN "free" ELSE state[c]]
    /\ TmKill(Closed)
    /\ TmSchedule
    /\ told' = FALSE
    /\ UNCHANGED <<now, crashed>>

Next1(c) == LET i == Index(link[1], c, 0) IN IF i = Len(link[1]) THEN ListHead ELSE link[1][i + 1]

\* Mutant: one timer is reported per poll.
hit_ends_round(c) ==
    /\ pos = c /\ time[c] <= current
    /\ TmUpdate(c, interval[c])
    /\ pos' = Null
    /\ due' = [due EXCEPT ![c] = IF c \in wild THEN 0 ELSE now + interval[c]]
    /\ told' = TRUE
    /\ UNCHANGED <<state, now, current, crashed, wild>>

\* Mutant: the cursor is moved on after the node was put back.
hit_then_move(c) ==
    /\ pos = c /\ time[c] <= current
    /\ TmUpdate(c, interval[c])
    /\ pos' = CursorWithout(pos, {c})
    /\ due' = [due EXCEPT ![c] = IF c \in wild THEN 0 ELSE now + interval[c]]
    /\ told' = TRUE
    /\ UNCHANGED <<state, now, current, crashed, wild>>

(* _tm_next() on a due timer: the cursor moves on, the node is put back at   *)
(* its next expiry and CHANN_EVENT_TIMER is reported                         *)
TmHit(c) ==
    /\ pos = c /\ time[c] <= current
    /\ TmUpdate(c, interval[c])
    /\ pos' = CursorWithout(Next1(c), {c})
    /\ due' = [due EXCEPT ![c] = IF c \in wild THEN 0 ELSE now + interval[c]]
    /\ told' = TRUE
    /\ UNCHANGED <<state, now, current, crashed, wild>>

(* _tm_next() on a timer that is not due: the round is over *)
TmMiss ==
    /\ pos \in Channs /\ time[pos] > current
    /\ pos' = Null
    /\ UNCHANGED <<link, height, level, time, interval, state, now, current, crashed, wild, due>>
    /\ told' = FALSE

(* _tm_next() through a cursor on freed memory.  list_del() has linked the   *)
(* node to itself and its timer now expires later, so what is left in the    *)
(* memory ends the round, if reading it does not end the process.            *)
TmNextFreed ==
    /\ pos = Freed
    /\ pos' = Null
    /\ crashed' \in BOOLEAN
    /\ UNCHANGED <<link, height, level, time, interval, state, now, current, wild, due>>
    /\ told' = FALSE

Tick ==
    /\ now < MaxTime
    /\ now' = now + 1
    /\ UNCHANGED <<link, height, level, time, interval, state, pos, current, crashed, wild, due>>
    /\ told' = FALSE

-----------------------------------------------------------------------------
(* skiplist_create(): an empty list has level 1 before its first insertion.  *)
(* The channs have been opened.                                              *)
Init ==
    /\ link = [i \in Levels |-> <<>>]
    /\ level = 1
    /\ height = [c \in Channs |-> 0]
    /\ time = [c \in Channs |-> 0] /\ interval = [c \in Channs |-> 0]
    /\ state = [c \in Channs |-> "open"]
    /\ now = 0 /\ pos = Null /\ current = 0 /\ crashed = FALSE
    /\ wild = {} /\ told = FALSE /\ due = [c \in Channs |-> 0]

ResultNext == TmMiss \/ TmNextFreed \/ \E c \in Channs : TmHit(c)

Next ==
    /\ ~crashed
    /\ \/ Tick \/ Poll \/ ResultNext
       \/ \E c \in Channs : Close(c) \/ KillTimer(c) \/ \E v \in Intervals : SetTimer(c, v)

Spec == Init /\ [][Next]_vars

-----------------------------------------------------------------------------
(* Properties *)

(* The types of the list, the cursor and the timers. *)
TypeOK ==
    /\ \A i \in Levels : ToSet(link[i]) \subseteq Channs
    /\ height \in [Channs -> 0..MaxLevel] /\ level \in 0..MaxLevel
    /\ state \in [Channs -> {"free", "open", "closed"}]
    /\ pos \in Channs \cup {Null, ListHead, Freed}
    /\ now \in 0..MaxTime /\ current \in 0..now
    /\ interval \in [Channs -> (-IntMax - 1)..IntMax]

(* However nodes of random height come and go, the skip list stays one:      *)
(* every level is ordered by time and holds, in the order of the lowest, the *)
(* nodes that reach up to it, each once, and list->level counts the levels   *)
(* in use.  Everything is of its type.                                       *)
ListShape ==
    /\ TypeOK
    /\ \A i \in Levels :
          /\ \A k \in 1..(Len(link[i]) - 1) : time[link[i][k]] <= time[link[i][k + 1]]
          /\ ToSet(link[i]) = {c \in Armed : height[c] >= i}
          /\ \A j, k \in DOMAIN link[i] : j < k => Index(link[1], link[i][j], 0) < Index(link[1], link[i][k], 0)
    /\ level = Cardinality({i \in Levels : link[i] # <<>>}) \/ (link[1] = <<>> /\ level = 1)

(* A timer never outlives its chann: the chann a node points to is not freed. *)
TimerOwnerAlive == \A c \in Armed : state[c] # "free"

(* The library never leaves its own cursor on a freed node: only a handler   *)
(* that sets or kills the very timer the cursor is on does.                  *)
CursorKept == [][pos' = Freed /\ pos # Freed => \E c \in Channs : pos = c /\ (KillTimer(c) \/ \E v \in Intervals : SetTimer(c, v))]_vars

(* An interval that fits the int is kept: CHANN_EVENT_TIMER is not reported  *)
(* before it has passed since the timer was set or last reported.            *)
NeverEarly == [][\A c \in Channs \ wild : TmHit(c) => now >= due[c]]_vars

(* What the cursor has yet to hand out *)
Owed ==
    IF pos \in Armed
    THEN {link[1][k] : k \in {k \in DOMAIN link[1] : k >= Index(link[1], pos, 0) /\ time[link[1][k]] <= current}}
    ELSE {}

Service == INSTANCE TimerService WITH
               None   <- Null,
               Times  <- Int,
               deadline <- [c \in Channs |-> IF c \in Armed THEN time[c] ELSE Null],
               owed   <- Owed

(* The list with its cursor implements the timer service: the timers due at  *)
(* a poll are handed out in order, none twice and none left out, although    *)
(* each one that is handed out moves within the list the cursor walks.       *)
RefinesService == Service!Spec
=============================================================================
