------------------------------ MODULE TaskRounds ------------------------------
(***************************************************************************)
(* What the cooperative scheduler of epic-taskmgr promises, without its    *)
(* table, its countdowns or its flags.  Tasks become due; a round takes    *)
(* every task that is due at one instant and runs each of them once, to    *)
(* completion, in priority order; what becomes due meanwhile waits for the *)
(* next round.  Two sentences of the documentation are not part of it: the *)
(* order of tasks of equal priority is left open, and stopping a task does *)
(* not take it out of a round that has begun.  The code keeps neither:     *)
(* they are TiesBySpawnOrder and StoppedIsSkipped of TaskClaims.           *)
(***************************************************************************)
EXTENDS Naturals

CONSTANTS Slots,        \* places in the task table
          Priorities,   \* lower runs first
          Nobody        \* "no task is running"

VARIABLES due,      \* tasks waiting for the next round
          round,    \* tasks of the current round that have not started
          running,  \* the task whose function is executing, or Nobody
          prio      \* priority of each slot; lower runs first

roundVars == <<due, round, running, prio>>

RoundInit == due = {} /\ round = {} /\ running = Nobody /\ prio \in [Slots -> {0}]

BecomeDue ==
  /\ \E S \in SUBSET Slots : due' = due \cup S
  /\ UNCHANGED <<round, running, prio>>

\* A task is stopped, re-armed or removed, or the table is cleared; it stays
\* in a round that holds it (see StoppedIsSkipped).
Withdraw ==
  /\ \E S \in SUBSET Slots : due' = due \ S
  /\ UNCHANGED <<round, running, prio>>

\* Only a slot that no round refers to can get a new task.
Register(i, p) ==
  /\ i \notin round \cup {running} \cup due
  /\ prio' = [prio EXCEPT ![i] = p]
  /\ UNCHANGED <<due, round, running>>

Unregister ==
  /\ round = {} /\ running = Nobody
  /\ due' = {} /\ prio' = [i \in Slots |-> 0]
  /\ UNCHANGED <<round, running>>

StartRound ==
  /\ round = {} /\ running = Nobody
  /\ round' = due
  /\ due' = {}
  /\ UNCHANGED <<running, prio>>

\* A smaller priority runs first; which of equals does is left open.
StartTask(i) ==
  /\ running = Nobody /\ i \in round
  /\ \A j \in round : prio[i] <= prio[j]
  /\ running' = i
  /\ round' = round \ {i}
  /\ UNCHANGED <<due, prio>>

\* A task that fires once leaves the table when it completes.
Complete ==
  /\ running # Nobody
  /\ running' = Nobody
  /\ due' \in {due, due \ {running}}
  /\ UNCHANGED <<round, prio>>

RoundNext ==
  \/ BecomeDue
  \/ Withdraw
  \/ \E i \in Slots, p \in Priorities : Register(i, p)
  \/ Unregister
  \/ StartRound
  \/ \E i \in Slots : StartTask(i)
  \/ Complete

RoundSpec == RoundInit /\ [][RoundNext]_roundVars
=============================================================================
