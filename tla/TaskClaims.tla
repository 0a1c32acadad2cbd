------------------------------ MODULE TaskClaims ------------------------------
(***************************************************************************)
(* What task_manager.h says of the scheduler beyond what TaskManager shows *)
(* of it: the order of equals, stopped tasks, every ready task.  The steps *)
(* are those of TaskManager; the histories are the claimed slots in the    *)
(* order in which their tasks were spawned, and the claims the behaviour   *)
(* has broken so far.                                                      *)
(***************************************************************************)
EXTENDS TaskManager

VARIABLES spawned,   \* history: the claimed slots, oldest task first
          broken     \* history: the claims broken

\* What a step leaves of the first history: a freed slot drops out of it.
StillClaimed == SelectSeq(spawned, LAMBDA i : tasks'[i].used)
Claimed(i) == ~tasks[i].used /\ tasks'[i].used
Oldest(i, j) == \E a, b \in 1 .. Len(spawned) : a < b /\ spawned[a] = i /\ spawned[b] = j

\* task_manager.h:88, "ties break by spawn order": of two tasks of a round with the
\* same priority, the one spawned first runs first.  The code takes the lower slot,
\* and a slot freed by a one-shot is claimed again by a task younger than those above.
TiesBySpawnOrder ==
  RunOnce => \A a, b \in 1 .. Len(order') :
     a < b /\ tasks[order'[a]].priority = tasks[order'[b]].priority => Oldest(order'[a], order'[b])

\* task_manager.h:103, "Disable a task so the scheduler skips it until task_start".
\* The code calls the later entries of a round whatever an earlier one stopped.
StoppedIsSkipped == CallTask => tasks[order[k]].enabled

\* task_manager.h:132, "Run every task ready now".  The code never takes one of
\* priority 255.
EveryReadyTaskRuns == RunOnce => \A i \in Slots : Ready(i) => \E j \in 1 .. Len(order') : order'[j] = i

Claims == {"TiesBySpawnOrder", "StoppedIsSkipped", "EveryReadyTaskRuns"}
Kept(claim) ==
  CASE claim = "TiesBySpawnOrder" -> TiesBySpawnOrder
    [] claim = "StoppedIsSkipped" -> StoppedIsSkipped
    [] OTHER -> EveryReadyTaskRuns

ClaimsInit == Init /\ spawned = <<>> /\ broken = {}
ClaimsNext ==
  /\ Next
  /\ spawned' = IF \E i \in Slots : Claimed(i)
                THEN Append(StillClaimed, CHOOSE i \in Slots : Claimed(i)) ELSE StillClaimed
  /\ broken' = broken \cup {claim \in Claims : ~Kept(claim)}
ClaimsSpec == ClaimsInit /\ [][ClaimsNext]_<<vars, spawned, broken>>

\* The header promises that ties break by spawn order, that a stopped task is skipped
\* and that a round runs every task that is ready.  One of the three holds; a behaviour
\* that breaks this has broken each of them.
SomeSchedulerClaimHolds == broken # Claims
=============================================================================
