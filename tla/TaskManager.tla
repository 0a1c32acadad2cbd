----------------------------- MODULE TaskManager -----------------------------
(***************************************************************************)
(* The cooperative scheduler epic-taskmgr/src/task_manager.c.  The tick    *)
(* ISR may fall between any two steps of the main program; a critical      *)
(* section of the C code is one action.  The main program is either        *)
(* outside run_once ("idle"), about to call the next snapshot entry        *)
(* ("call"), inside a task function ("fn") or back from one ("ret").       *)
(***************************************************************************)
EXTENDS Integers, Sequences, FiniteSets

CONSTANTS MaxTasks,     \* TASK_MGR_MAX_TASKS
          Periods,      \* period_ticks values passed by callers; 0 = one-shot
          Priorities,   \* priority values passed by callers
          TickModulus   \* 2^16 in the code: width of g_ticks

ASSUME TaskManagerAssumption ==
  /\ MaxTasks \in Nat \ {0}
  /\ Periods \subseteq Nat
  /\ Priorities \subseteq 0 .. 255
  /\ TickModulus \in Nat \ {0}

VARIABLES tasks,    \* g_tasks
          ticks,    \* g_ticks
          pc,       \* where the main program is
          order,    \* run_once's snapshot of the ready set
          k,        \* the snapshot entry run_once is at, from 1
          since,    \* history: ticks counted by a slot since armed or last due
          armed,    \* history: period in force when the slot was last armed
          runs      \* history: calls since spawn or set_period, up to 2

vars == <<tasks, ticks, pc, order, k, since, armed, runs>>
history == <<since, armed, runs>>
control == <<pc, order, k>>

Slots == 0 .. MaxTasks - 1
NoTask == -1

\* fn is "set" in a claimed slot and "NULL" in a free one; arg travels with it.
FreeSlot == [fn |-> "NULL", period |-> 0, countdown |-> 0, priority |-> 0,
             used |-> FALSE, enabled |-> FALSE, ready |-> FALSE]

\* Faulty variants, named in PROJECT.json, stand before what they replace.
ArmCountdownFullPeriod(period) == period
ArmCountdown(period) == IF period = 0 THEN 0 ELSE period - 1

Current == IF pc = "idle" THEN NoTask ELSE order[k]

\* Application code runs when main is outside run_once or inside a task.
UserCode == pc \in {"idle", "fn"}
-----------------------------------------------------------------------------
Init ==
  /\ tasks = [i \in Slots |-> FreeSlot]
  /\ ticks = 0
  /\ pc = "idle" /\ order = <<>> /\ k = 1
  /\ since = [i \in Slots |-> 0]
  /\ armed = [i \in Slots |-> 0]
  /\ runs = [i \in Slots |-> 0]

\* task_manager_init: outside run_once, every slot is cleared.
TaskManagerInit ==
  /\ pc = "idle"
  /\ tasks' = [i \in Slots |-> FreeSlot]
  /\ ticks' = 0
  /\ since' = [i \in Slots |-> 0]
  /\ armed' = [i \in Slots |-> 0]
  /\ runs' = [i \in Slots |-> 0]
  /\ UNCHANGED control

\* The slot is armed with period p: the history restarts with it.
Rearmed(i, p) ==
  /\ since' = [since EXCEPT ![i] = 0]
  /\ armed' = [armed EXCEPT ![i] = p]

\* task_spawn: the lowest free slot is claimed; a full table changes nothing.
TaskSpawn(period, priority) ==
  /\ UserCode
  /\ \E i \in Slots :
       /\ ~tasks[i].used
       /\ \A j \in Slots : j < i => tasks[j].used
       /\ tasks' = [tasks EXCEPT ![i] =
            [fn |-> "set", period |-> period, countdown |-> ArmCountdown(period),
             priority |-> priority, used |-> TRUE, enabled |-> TRUE, ready |-> FALSE]]
       /\ Rearmed(i, period)
       /\ runs' = [runs EXCEPT ![i] = 0]
  /\ UNCHANGED <<ticks, control>>

\* task_start and task_reset have the same body.
TaskStart(i) ==
  /\ UserCode
  /\ tasks[i].used
  /\ tasks' = [tasks EXCEPT ![i].countdown = ArmCountdown(tasks[i].period),
                            ![i].enabled = TRUE,
                            ![i].ready = FALSE]
  /\ Rearmed(i, tasks[i].period)
  /\ UNCHANGED <<ticks, control, runs>>

TaskReset(i) == TaskStart(i)

\* Faulty: stopping gives the slot back.
TaskStopFrees(i) ==
  /\ UserCode
  /\ tasks[i].used
  /\ tasks' = [tasks EXCEPT ![i].fn = "NULL", ![i].used = FALSE,
                            ![i].enabled = FALSE, ![i].ready = FALSE]
  /\ UNCHANGED <<ticks, control, history>>

TaskStop(i) ==
  /\ UserCode
  /\ tasks[i].used
  /\ tasks' = [tasks EXCEPT ![i].enabled = FALSE, ![i].ready = FALSE]
  /\ UNCHANGED <<ticks, control, history>>

TaskSetPeriod(i, period) ==
  /\ UserCode
  /\ tasks[i].used
  /\ tasks' = [tasks EXCEPT ![i].period = period]
  /\ runs' = [runs EXCEPT ![i] = 0]
  /\ UNCHANGED <<ticks, control, since, armed>>
-----------------------------------------------------------------------------
\* task_manager_tick, one slot: count down, or mark ready and reload.
Counts(t) == t.used /\ t.enabled
Expires(t) == Counts(t) /\ t.countdown = 0
Reloads(t) == Expires(t) /\ t.period # 0

TickSlot(t) ==
  [t EXCEPT !.ready = @ \/ Expires(t),
            !.countdown = IF Reloads(t) THEN ArmCountdown(t.period)
                          ELSE IF Counts(t) /\ @ > 0 THEN @ - 1
                          ELSE @]

Tick ==
  /\ ticks' = (ticks + 1) % TickModulus
  /\ tasks' = [i \in Slots |-> TickSlot(tasks[i])]
  /\ since' = [i \in Slots |-> IF Reloads(tasks[i]) THEN 0
                               ELSE IF Counts(tasks[i]) /\ ~Expires(tasks[i])
                                    THEN since[i] + 1 ELSE since[i]]
  /\ armed' = [i \in Slots |-> IF Reloads(tasks[i]) THEN tasks[i].period ELSE armed[i]]
  /\ UNCHANGED <<control, runs>>
-----------------------------------------------------------------------------
\* The selection loop of run_once: its search starts from best_prio = 0xFF
\* and takes only a strictly smaller priority, lowest slot first.
Ready(i) == tasks[i].used /\ tasks[i].enabled /\ tasks[i].ready
Selectable(i) == Ready(i) /\ tasks[i].priority < 255
Selected == {i \in Slots : Selectable(i)}

\* The lowest slot among equals, as the comment of line 174 says; the header
\* says spawn order (TiesBySpawnOrder of TaskClaims).
SelectedBefore(i, j) ==
  \/ tasks[i].priority < tasks[j].priority
  \/ tasks[i].priority = tasks[j].priority /\ i < j

\* Faulty: forgets to compare priorities.
SelectionOrdersBySlot(S) ==
  {s \in [1 .. Cardinality(S) -> S] :
     \A a, b \in 1 .. Cardinality(S) : a < b => s[a] < s[b]}

SelectionOrders(S) ==
  {s \in [1 .. Cardinality(S) -> S] :
     \A a, b \in 1 .. Cardinality(S) : a < b => SelectedBefore(s[a], s[b])}

\* Faulty: leaves READY for the tick to clear.
RunOnceKeepsReady ==
  /\ pc = "idle"
  /\ order' \in SelectionOrders(Selected)
  /\ k' = 1
  /\ pc' = IF order' = <<>> THEN "idle" ELSE "call"
  /\ UNCHANGED <<tasks, ticks, history>>

\* Faulty: a round is the single best task.
RunOnceBestOnly ==
  /\ pc = "idle"
  /\ IF Selected = {} THEN order' = <<>> /\ tasks' = tasks
     ELSE \E i \in Selected :
            /\ \A j \in Selected \ {i} : SelectedBefore(i, j)
            /\ order' = <<i>>
            /\ tasks' = [tasks EXCEPT ![i].ready = FALSE]
  /\ k' = 1
  /\ pc' = IF order' = <<>> THEN "idle" ELSE "call"
  /\ UNCHANGED <<ticks, history>>

RunOnce ==
  /\ pc = "idle"
  /\ order' \in SelectionOrders(Selected)
  /\ tasks' = [i \in Slots |-> IF i \in Selected THEN [tasks[i] EXCEPT !.ready = FALSE]
                               ELSE tasks[i]]
  /\ k' = 1
  /\ pc' = IF order' = <<>> THEN "idle" ELSE "call"
  /\ UNCHANGED <<ticks, history>>

\* t->fn(t->arg): no flag of the slot is looked at again, not even the one
\* task_stop clears (StoppedIsSkipped of TaskClaims).
CallTask ==
  /\ pc = "call"
  /\ pc' = "fn"
  /\ runs' = [runs EXCEPT ![order[k]] = IF @ < 2 THEN @ + 1 ELSE 2]
  /\ UNCHANGED <<tasks, ticks, order, k, since, armed>>

TaskReturns ==
  /\ pc = "fn"
  /\ pc' = "ret"
  /\ UNCHANGED <<tasks, ticks, order, k, history>>

\* A task whose period is 0 when it has returned loses its slot.
RetireSlotKeepsUsed(t) == [t EXCEPT !.ready = FALSE]
RetireSlot(t) == [t EXCEPT !.fn = "NULL", !.used = FALSE, !.enabled = FALSE, !.ready = FALSE]

AfterTask ==
  /\ pc = "ret"
  /\ tasks' = IF tasks[order[k]].period = 0
              THEN [tasks EXCEPT ![order[k]] = RetireSlot(@)] ELSE tasks
  /\ IF k < Len(order)
     THEN pc' = "call" /\ k' = k + 1 /\ order' = order
     ELSE pc' = "idle" /\ k' = 1 /\ order' = <<>>
  /\ UNCHANGED <<ticks, history>>

Mutator ==
  \/ \E p \in Periods, q \in Priorities : TaskSpawn(p, q)
  \/ \E i \in Slots : TaskStart(i)
  \/ \E i \in Slots : TaskReset(i)
  \/ \E i \in Slots : TaskStop(i)
  \/ \E i \in Slots, p \in Periods : TaskSetPeriod(i, p)

Scheduler == RunOnce \/ CallTask \/ TaskReturns \/ AfterTask

Next == Tick \/ TaskManagerInit \/ Mutator \/ Scheduler

Spec == Init /\ [][Next]_vars

\* main calls run_once for ever, and every task function returns.
Fairness ==
  /\ WF_vars(RunOnce)
  /\ WF_vars(CallTask)
  /\ WF_vars(TaskReturns)
  /\ WF_vars(AfterTask)

FairSpec == Spec /\ Fairness
-----------------------------------------------------------------------------
TCB == [fn : {"set", "NULL"}, period : Nat, countdown : Nat, priority : 0 .. 255,
        used : BOOLEAN, enabled : BOOLEAN, ready : BOOLEAN]

TypeOK ==
  /\ tasks \in [Slots -> TCB]
  /\ ticks \in 0 .. TickModulus - 1
  /\ pc \in {"idle", "call", "fn", "ret"}
  /\ order \in Seq(Slots)
  /\ k \in Nat \ {0}
  /\ since \in [Slots -> Nat]
  /\ armed \in [Slots -> Nat]
  /\ runs \in [Slots -> 0 .. 2]

\* Snapshot entries that have not started, in order.
Remaining == IF pc = "call" THEN {order[j] : j \in k .. Len(order)}
             ELSE {order[j] : j \in k + 1 .. Len(order)}

\* Whatever ticks fall into a round and whatever the round's tasks spawn, stop
\* or re-arm, the entries run_once has still to call are allocated slots with
\* a function to call (a call through NULL restarts the PIC).
RoundTasksCallable ==
  \A i \in Remaining \cup ({Current} \ {NoTask}) : tasks[i].used /\ tasks[i].fn = "set"

\* The tasks of a round run in the order their priorities demand at the moment
\* each is called, although tasks of the same round may spawn and retire others.
\* Of the order among equals the code and its header say different things.
RoundInPriorityOrder ==
  \A a, b \in k .. Len(order) :
     a < b => tasks[order[a]].priority <= tasks[order[b]].priority

\* A one-shot task, or a periodic one demoted by set_period(0), is called at
\* most once more: ticks that mark it ready again while it waits in the
\* snapshot or runs never lead to a second call.
OneShotRunsOnce ==
  \A i \in Slots : tasks[i].used /\ tasks[i].period = 0 => runs[i] <= 1

\* ARCHITECTURE.md "Period semantics": a slot armed with period p is marked
\* ready at the p-th tick it counts, and again p ticks later, coalesced ticks,
\* stops, re-arms and period changes included.
SpacingExact ==
  [][\A i \in Slots : Tick /\ Reloads(tasks[i]) /\ armed[i] # 0
                        => since[i] + 1 = armed[i]]_vars

\* A task that is due is called unless the application re-arms, stops or
\* clears it first: tasks of higher priority that are due again at every tick
\* cannot starve it, because a round is fixed when it starts.
Waiting(i) == Selectable(i) \/ i \in Remaining
DueIsServed ==
  \A i \in Slots : Waiting(i) ~> ((pc = "fn" /\ Current = i) \/ ~Waiting(i))
-----------------------------------------------------------------------------
\* The table implements the abstract rounds.
Rounds == INSTANCE TaskRounds WITH
  Nobody  <- NoTask,
  due     <- Selected,
  round   <- Remaining,
  running <- IF pc \in {"fn", "ret"} THEN Current ELSE NoTask,
  prio    <- [i \in Slots |-> tasks[i].priority]

\* The flags, countdowns and snapshot of task_manager.c are an implementation
\* of rounds that take every due task once, in priority order.
ImplementsRounds == Rounds!RoundSpec
=============================================================================
