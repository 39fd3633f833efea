---------------------------- MODULE TimerService ----------------------------
(* What the timers of src/src/mnet_core.c promise, without the list that     *)
(* keeps them: a poll finds the timers that are due, and they are handed out *)
(* one by one, the earliest first, none twice and none left out.             *)
EXTENDS Integers

CONSTANTS Channs,
          Times,        \* the deadlines a timer can have
          None          \* the deadline of a chann without a timer

VARIABLES now,
          deadline,     \* when a chann's timer is due
          wild,         \* channs whose interval does not fit the code's int
          owed,         \* due at the last poll and not handed out yet
          told          \* a timer has just been handed out

vars == <<now, deadline, wild, owed, told>>

Due == {c \in Channs : deadline[c] # None /\ deadline[c] <= now}

(* The timers that may be handed out now *)
Nearest == {c \in owed : \A d \in owed : deadline[c] <= deadline[d]}

Init ==
    /\ now = 0
    /\ deadline = [c \in Channs |-> None]
    /\ wild = {} /\ owed = {} /\ told = FALSE

Tick == now' = now + 1 /\ told' = FALSE /\ UNCHANGED <<deadline, wild, owed>>

Idle == told' = FALSE /\ UNCHANGED <<now, deadline, wild, owed>>

(* Handlers may set and clear timers while others are owed.  Doing so to     *)
(* one that may be next forfeits the rest of the round.                      *)
Forgo(c) == owed' = owed \ {c} \/ (c \in Nearest /\ owed' = {})

Set(c) ==
    /\ deadline'[c] \in Times
    /\ \/ deadline'[c] > now /\ wild' = wild \ {c} /\ Forgo(c)
       \/ wild' = wild \cup {c} /\ (Forgo(c) \/ owed' = owed \cup {c})
    /\ told' = FALSE /\ UNCHANGED now

Clear(c) ==
    /\ deadline[c] # None /\ deadline'[c] = None
    /\ wild' = wild \ {c}
    /\ Forgo(c)
    /\ told' = FALSE /\ UNCHANGED now

Fire(c) ==
    /\ c \in Nearest
    /\ deadline'[c] \in Times
    /\ told' = TRUE
    /\ \/ deadline'[c] > now /\ owed' = owed \ {c}
       \/ c \in wild /\ owed' \in {owed \ {c}, owed}
    /\ UNCHANGED <<now, wild>>

(* A poll first drops the timers of the channs it destroys *)
Poll(gone) ==
    /\ deadline' = [c \in Channs |-> IF c \in gone THEN None ELSE deadline[c]]
    /\ wild' = wild \ gone
    /\ owed' = Due \ gone /\ told' = FALSE
    /\ UNCHANGED now

Next ==
    \/ Tick \/ Idle
    \/ \E c \in Channs : /\ deadline' = [deadline EXCEPT ![c] = deadline'[c]]
                         /\ Set(c) \/ Clear(c) \/ Fire(c)
    \/ \E gone \in SUBSET Channs : Poll(gone)

Spec == Init /\ [][Next]_vars
=============================================================================
