-------------------------- MODULE TaskManagerProofs --------------------------
(***************************************************************************)
(* For every table size, every set of periods and priorities: the types,   *)
(* the snapshot of a round, one-shots, activations without drift, and that *)
(* the scheduler implements the rounds of TaskRounds.                      *)
(***************************************************************************)
EXTENDS TaskManager, FiniteSetTheorems, TLAPS

\* A claimed slot has a function, a free one is not ready.
SlotsConsistent ==
  \A i \in Slots : /\ tasks[i].used => tasks[i].fn = "set"
                   /\ ~tasks[i].used => ~tasks[i].ready

\* Where run_once is in its snapshot.
CursorInSnapshot == IF pc = "idle" THEN order = <<>> /\ k = 1 ELSE k <= Len(order)

\* The entries from the cursor on are claimed; nothing but AfterTask frees.
SnapshotClaimed == \A j \in k .. Len(order) : tasks[order[j]].used

\* A one-shot that has been called is the current task: it is freed before
\* any other task is called.
CalledOneShotIsCurrent ==
  \A i \in Slots : tasks[i].used /\ tasks[i].period = 0 /\ runs[i] # 0
                     => runs[i] = 1 /\ pc \in {"fn", "ret"} /\ i = order[k]

\* The entries from the cursor on are in the order of the selection loop,
\* lowest slot first among equals.
SnapshotSorted ==
  \A a, b \in k .. Len(order) : a < b => SelectedBefore(order[a], order[b])

IInv == /\ TypeOK
        /\ SlotsConsistent
        /\ CursorInSnapshot
        /\ SnapshotClaimed
        /\ SnapshotSorted
        /\ CalledOneShotIsCurrent
-----------------------------------------------------------------------------
\* The slots run_once selects are finitely many, so a snapshot has a length.
LEMMA SelectedFinite == ASSUME TaskManagerAssumption
                        PROVE  Cardinality(Selected) \in Nat
<1>1. IsFiniteSet(Slots)
  BY FS_Interval, 0 \in Int, MaxTasks - 1 \in Int DEF Slots, TaskManagerAssumption
<1>2. Selected \subseteq Slots
  BY DEF Selected
<1>3. QED
  BY <1>1, <1>2, FS_Subset, FS_CardinalityType

\* A snapshot is a sequence of selected slots, each before the later ones.
LEMMA SnapshotShape ==
  ASSUME NEW s \in SelectionOrders(Selected)
  PROVE  /\ s \in Seq(Slots)
         /\ Len(s) = Cardinality(Selected)
         /\ \A j \in 1 .. Len(s) : s[j] \in Selected
         /\ \A a, b \in 1 .. Len(s) : a < b => SelectedBefore(s[a], s[b])
<1>1. Cardinality(Selected) \in Nat
  BY SelectedFinite, TaskManagerAssumption
<1>2. s \in [1 .. Cardinality(Selected) -> Selected]
  BY DEF SelectionOrders
<1>3. Selected \subseteq Slots
  BY DEF Selected
<1>4. s \in Seq(Slots) /\ Len(s) = Cardinality(Selected)
  BY <1>1, <1>2, <1>3
<1>5. QED
  BY <1>2, <1>4 DEF SelectionOrders

\* The selection order respects the priorities.
LEMMA SelectedBeforeIsNotLater ==
  ASSUME TypeOK, NEW i \in Slots, NEW j \in Slots, SelectedBefore(i, j)
  PROVE  tasks[i].priority <= tasks[j].priority
<1> DEFINE x == tasks[i].priority
           y == tasks[j].priority
<1>1. x \in 0 .. 255 /\ y \in 0 .. 255
  BY DEF TypeOK, TCB
<1>2. x < y \/ x = y
  BY Zenon DEF SelectedBefore
<1> HIDE DEF x, y
<1>3. x <= y
  BY <1>1, <1>2
<1>4. QED
  BY <1>3 DEF x, y

\* The initial table satisfies the invariant.
LEMMA InitIInv == Init => IInv
  BY TaskManagerAssumption DEF Init, IInv, TypeOK, TCB, FreeSlot, SlotsConsistent,
     CursorInSnapshot, SnapshotClaimed, SnapshotSorted, CalledOneShotIsCurrent,
     TaskManagerAssumption
-----------------------------------------------------------------------------
LEMMA InitStep == IInv /\ TaskManagerInit => IInv'
  BY TaskManagerAssumption DEF TaskManagerInit, control, IInv, TypeOK, TCB, FreeSlot,
     SlotsConsistent, CursorInSnapshot, SnapshotClaimed, SnapshotSorted,
     CalledOneShotIsCurrent, TaskManagerAssumption

\* One slot of the tick: a control block stays one, its identity is kept.
LEMMA TickSlotKeeps ==
  ASSUME NEW t \in TCB
  PROVE  /\ TickSlot(t) \in TCB
         /\ TickSlot(t).used = t.used
         /\ TickSlot(t).fn = t.fn
         /\ TickSlot(t).period = t.period
         /\ TickSlot(t).priority = t.priority
         /\ ~t.used => TickSlot(t).ready = t.ready
<1> DEFINE down == IF Reloads(t) THEN ArmCountdown(t.period)
                   ELSE IF Counts(t) /\ t.countdown > 0 THEN t.countdown - 1
                   ELSE t.countdown
           up == t.ready \/ Expires(t)
<1>1. TickSlot(t) = [t EXCEPT !.ready = up, !.countdown = down]
  BY DEF TickSlot
<1>2. down \in Nat
  BY DEF TCB, ArmCountdown, Reloads
<1>3. up \in BOOLEAN
  OBVIOUS
<1>4. ~t.used => up = t.ready
  BY t.ready \in BOOLEAN DEF Expires, Counts, TCB
<1> HIDE DEF down, up
<1>5. TickSlot(t) \in TCB
  BY <1>1, <1>2, <1>3 DEF TCB
<1>6. QED
  BY <1>1, <1>4, <1>5 DEF TCB

\* The entries from position m on keep their claim and their order in every
\* step that changes neither the claim nor the priority of those slots.
LEMMA SnapshotKept ==
  ASSUME TypeOK, SnapshotClaimed, SnapshotSorted,
         NEW m \in Nat \ {0}, m >= k, k' = m, order' = order,
         \A j \in m .. Len(order) : /\ tasks'[order[j]].used
                                   /\ tasks'[order[j]].priority = tasks[order[j]].priority
  PROVE  SnapshotClaimed' /\ SnapshotSorted'
<1>1. SnapshotClaimed'
  BY DEF SnapshotClaimed
<1>2. ASSUME NEW a \in m .. Len(order), NEW b \in m .. Len(order), a < b
      PROVE  SelectedBefore(order[a], order[b])'
  <2>1. a \in k .. Len(order) /\ b \in k .. Len(order)
    BY DEF TypeOK
  <2>2. SelectedBefore(order[a], order[b])
    BY <1>2, <2>1 DEF SnapshotSorted
  <2>3. QED
    BY <2>2 DEF SelectedBefore
<1>3. QED
  BY <1>1, <1>2 DEF SnapshotSorted

LEMMA TickStep == IInv /\ Tick => IInv'
<1> SUFFICES ASSUME IInv, Tick PROVE IInv'
  OBVIOUS
<1> USE DEF IInv
<1>1. \A i \in Slots : /\ TickSlot(tasks[i]) \in TCB
                       /\ tasks'[i].used = tasks[i].used
                       /\ tasks'[i].fn = tasks[i].fn
                       /\ tasks'[i].period = tasks[i].period
                       /\ tasks'[i].priority = tasks[i].priority
                       /\ ~tasks[i].used => tasks'[i].ready = tasks[i].ready
  BY TickSlotKeeps DEF Tick, TypeOK
<1>2. TypeOK'
  <2>1. ticks' \in 0 .. TickModulus - 1
    BY TaskManagerAssumption DEF Tick, TypeOK, TaskManagerAssumption
  <2>2. since' \in [Slots -> Nat] /\ armed' \in [Slots -> Nat]
    BY DEF Tick, TypeOK, TCB
  <2>3. QED
    BY <1>1, <2>1, <2>2 DEF Tick, TypeOK, control
<1>3. SlotsConsistent'
  BY <1>1 DEF SlotsConsistent, TypeOK
<1>4. CursorInSnapshot'
  BY DEF Tick, CursorInSnapshot, control
<1>5. SnapshotClaimed' /\ SnapshotSorted'
  <2>1. \A j \in k .. Len(order) : order[j] \in Slots
    BY DEF TypeOK
  <2>2. order' = order /\ k' = k /\ k \in Nat \ {0} /\ k >= k
    BY DEF Tick, control, TypeOK
  <2>3. QED
    BY <1>1, <2>1, <2>2, SnapshotKept DEF SnapshotClaimed
<1>6. CalledOneShotIsCurrent'
  BY <1>1 DEF Tick, control, CalledOneShotIsCurrent
<1>7. QED
  BY <1>2, <1>3, <1>4, <1>5, <1>6

\* task_spawn claims a slot no snapshot entry refers to.
LEMMA SpawnStep ==
  ASSUME IInv, NEW p \in Periods, NEW q \in Priorities, TaskSpawn(p, q)
  PROVE  IInv'
<1> DEFINE new == [fn |-> "set", period |-> p, countdown |-> ArmCountdown(p),
                   priority |-> q, used |-> TRUE, enabled |-> TRUE, ready |-> FALSE]
<1>1. PICK i \in Slots : /\ ~tasks[i].used
                         /\ tasks' = [tasks EXCEPT ![i] = new]
                         /\ Rearmed(i, p)
                         /\ runs' = [runs EXCEPT ![i] = 0]
  BY DEF TaskSpawn
<1>2. new \in TCB /\ p \in Nat
  BY TaskManagerAssumption DEF TCB, ArmCountdown, TaskManagerAssumption
<1>3. /\ new.fn = "set" /\ new.used /\ ~new.ready
  OBVIOUS
<1> HIDE DEF new
<1> USE DEF IInv
<1>4. UNCHANGED control /\ UNCHANGED ticks
  BY DEF TaskSpawn
<1>5. TypeOK'
  BY <1>1, <1>2, <1>4 DEF TypeOK, control, Rearmed
<1>6. SlotsConsistent'
  BY <1>1, <1>3 DEF SlotsConsistent, TypeOK
<1>7. CursorInSnapshot'
  BY <1>4 DEF CursorInSnapshot, control
<1>8. SnapshotClaimed' /\ SnapshotSorted'
  <2>1. \A j \in k .. Len(order) : order[j] \in Slots /\ order[j] # i
    BY <1>1 DEF TypeOK, SnapshotClaimed
  <2>2. \A j \in k .. Len(order) : tasks'[order[j]] = tasks[order[j]]
    BY <1>1, <2>1 DEF TypeOK
  <2>3. order' = order /\ k' = k /\ k \in Nat \ {0} /\ k >= k
    BY <1>4 DEF control, TypeOK
  <2>4. QED
    BY <2>2, <2>3, SnapshotKept DEF SnapshotClaimed
<1>9. CalledOneShotIsCurrent'
  BY <1>1, <1>4 DEF CalledOneShotIsCurrent, control, TypeOK
<1>10. QED
  BY <1>5, <1>6, <1>7, <1>8, <1>9

\* What task_start, task_reset, task_stop and task_set_period have in common:
\* they write one claimed slot and leave its claim, function and priority.
LEMMA SlotWriteStep ==
  ASSUME IInv, NEW i \in Slots, NEW t \in TCB,
         tasks[i].used,
         tasks' = [tasks EXCEPT ![i] = t],
         t.used, t.fn = tasks[i].fn, t.priority = tasks[i].priority,
         \/ t.period = tasks[i].period /\ runs' = runs
         \/ runs' = [runs EXCEPT ![i] = 0],
         since' \in [Slots -> Nat], armed' \in [Slots -> Nat],
         UNCHANGED <<ticks, control>>
  PROVE  IInv'
<1> USE DEF IInv
<1>1. pc' = pc /\ order' = order /\ k' = k /\ ticks' = ticks
  BY DEF control
<1>2. TypeOK'
  <2>1. runs' \in [Slots -> 0 .. 2]
    <3>1. runs \in [Slots -> 0 .. 2]
      BY DEF TypeOK
    <3>2. [runs EXCEPT ![i] = 0] \in [Slots -> 0 .. 2]
      BY <3>1
    <3>3. QED
      BY <3>1, <3>2
  <2>2. tasks' \in [Slots -> TCB]
    BY DEF TypeOK
  <2>3. QED
    BY <1>1, <2>1, <2>2 DEF TypeOK
<1>3. SlotsConsistent' /\ CursorInSnapshot'
  BY <1>1 DEF SlotsConsistent, CursorInSnapshot, TypeOK
<1>4. SnapshotClaimed' /\ SnapshotSorted'
  <2>1. \A j \in k .. Len(order) : order[j] \in Slots
    BY DEF TypeOK
  <2>2. \A j \in k .. Len(order) : /\ tasks'[order[j]].used
                                   /\ tasks'[order[j]].priority = tasks[order[j]].priority
    BY <2>1 DEF TypeOK, SnapshotClaimed
  <2>3. k \in Nat \ {0} /\ k >= k
    BY DEF TypeOK
  <2>4. QED
    BY <1>1, <2>2, <2>3, SnapshotKept
<1>5. CalledOneShotIsCurrent'
  BY <1>1 DEF CalledOneShotIsCurrent, TypeOK
<1>6. QED
  BY <1>2, <1>3, <1>4, <1>5

LEMMA StartStep == ASSUME IInv, NEW i \in Slots, TaskStart(i) PROVE IInv'
<1> DEFINE t == [tasks[i] EXCEPT !.countdown = ArmCountdown(tasks[i].period),
                                 !.enabled = TRUE, !.ready = FALSE]
<1>1. tasks[i] \in TCB /\ tasks[i].used
  BY DEF IInv, TypeOK, TaskStart
<1>2. /\ t \in TCB /\ t.used /\ t.fn = tasks[i].fn
      /\ t.priority = tasks[i].priority /\ t.period = tasks[i].period
  <2>1. ArmCountdown(tasks[i].period) \in Nat
    BY <1>1 DEF TCB, ArmCountdown
  <2>2. QED
    BY <1>1, <2>1 DEF TCB
<1>3. tasks' = [tasks EXCEPT ![i] = t]
  BY DEF TaskStart, IInv, TypeOK
<1>4. since' \in [Slots -> Nat] /\ armed' \in [Slots -> Nat]
  BY <1>1 DEF TaskStart, Rearmed, IInv, TypeOK, TCB
<1>5. runs' = runs /\ UNCHANGED <<ticks, control>>
  BY DEF TaskStart
<1> HIDE DEF t
<1>6. QED
  BY <1>1, <1>2, <1>3, <1>4, <1>5, SlotWriteStep

LEMMA StopStep == ASSUME IInv, NEW i \in Slots, TaskStop(i) PROVE IInv'
<1> DEFINE t == [tasks[i] EXCEPT !.enabled = FALSE, !.ready = FALSE]
<1>1. tasks[i] \in TCB /\ tasks[i].used
  BY DEF IInv, TypeOK, TaskStop
<1>2. /\ t \in TCB /\ t.used /\ t.fn = tasks[i].fn
      /\ t.priority = tasks[i].priority /\ t.period = tasks[i].period
  BY <1>1 DEF TCB
<1>3. tasks' = [tasks EXCEPT ![i] = t]
  BY DEF TaskStop, IInv, TypeOK
<1>4. since' \in [Slots -> Nat] /\ armed' \in [Slots -> Nat]
  BY DEF TaskStop, history, IInv, TypeOK
<1>5. runs' = runs /\ UNCHANGED <<ticks, control>>
  BY DEF TaskStop, history
<1> HIDE DEF t
<1>6. QED
  BY <1>1, <1>2, <1>3, <1>4, <1>5, SlotWriteStep

LEMMA SetPeriodStep ==
  ASSUME IInv, NEW i \in Slots, NEW p \in Periods, TaskSetPeriod(i, p) PROVE IInv'
<1> DEFINE t == [tasks[i] EXCEPT !.period = p]
<1>1. tasks[i] \in TCB /\ tasks[i].used
  BY DEF IInv, TypeOK, TaskSetPeriod
<1>2. t \in TCB /\ t.used /\ t.fn = tasks[i].fn /\ t.priority = tasks[i].priority
  BY <1>1, TaskManagerAssumption DEF TCB, TaskManagerAssumption
<1>3. tasks' = [tasks EXCEPT ![i] = t]
  BY DEF TaskSetPeriod, IInv, TypeOK
<1>4. since' \in [Slots -> Nat] /\ armed' \in [Slots -> Nat]
  BY DEF TaskSetPeriod, IInv, TypeOK
<1>5. runs' = [runs EXCEPT ![i] = 0] /\ UNCHANGED <<ticks, control>>
  BY DEF TaskSetPeriod
<1> HIDE DEF t
<1>6. QED
  BY <1>1, <1>2, <1>3, <1>4, <1>5, SlotWriteStep

LEMMA RunOnceStep == IInv /\ RunOnce => IInv'
<1> SUFFICES ASSUME IInv, RunOnce PROVE IInv'
  OBVIOUS
<1> USE DEF IInv
<1>1. PICK s \in SelectionOrders(Selected) : order' = s
  BY DEF RunOnce
<1>2. /\ order' \in Seq(Slots)
      /\ Len(order') = Cardinality(Selected)
      /\ \A j \in 1 .. Len(order') : order'[j] \in Selected
      /\ \A a, b \in 1 .. Len(order') : a < b => SelectedBefore(order'[a], order'[b])
  BY <1>1, SnapshotShape
<1>3. \A i \in Slots : /\ tasks'[i] \in TCB
                       /\ tasks'[i].used = tasks[i].used
                       /\ tasks'[i].fn = tasks[i].fn
                       /\ tasks'[i].period = tasks[i].period
                       /\ tasks'[i].priority = tasks[i].priority
                       /\ ~tasks[i].used => ~tasks'[i].ready
  <2>1. ASSUME NEW i \in Slots
        PROVE  tasks'[i] = IF i \in Selected THEN [tasks[i] EXCEPT !.ready = FALSE]
                           ELSE tasks[i]
    BY DEF RunOnce
  <2>2. \A i \in Slots : tasks[i] \in TCB
    BY DEF TypeOK
  <2>3. \A i \in Slots : ~tasks[i].used => ~tasks[i].ready
    BY DEF SlotsConsistent
  <2>4. ASSUME NEW t \in TCB
        PROVE  LET u == [t EXCEPT !.ready = FALSE]
               IN /\ u \in TCB /\ u.used = t.used /\ u.fn = t.fn
                  /\ u.period = t.period /\ u.priority = t.priority /\ ~u.ready
    BY DEF TCB
  <2>5. QED
    BY <2>1, <2>2, <2>3, <2>4
<1>4. pc = "idle" /\ k' = 1 /\ (pc' = IF order' = <<>> THEN "idle" ELSE "call")
  BY DEF RunOnce
<1>5. TypeOK'
  <2>1. tasks' \in [Slots -> TCB]
    BY <1>3 DEF RunOnce
  <2>2. QED
    BY <1>2, <1>4, <2>1 DEF RunOnce, TypeOK, history
<1>6. SlotsConsistent'
  BY <1>3 DEF SlotsConsistent
<1>7. CursorInSnapshot'
  <2>1. order' # <<>> => Len(order') >= 1
    BY <1>2
  <2>2. QED
    BY <1>4, <2>1 DEF CursorInSnapshot
<1>8. SnapshotClaimed'
  BY <1>2, <1>3, <1>4 DEF SnapshotClaimed, Selected, Selectable, Ready
<1>9. SnapshotSorted'
  <2>1. ASSUME NEW a \in 1 .. Len(order'), NEW b \in 1 .. Len(order'), a < b
        PROVE  SelectedBefore(order[a], order[b])'
    <3>1. order'[a] \in Slots /\ order'[b] \in Slots
      BY <1>2, <2>1 DEF Selected
    <3>2. SelectedBefore(order'[a], order'[b])
      BY <1>2, <2>1
    <3>3. QED
      BY <1>3, <3>1, <3>2 DEF SelectedBefore
  <2>2. QED
    BY <1>4, <2>1 DEF SnapshotSorted
<1>10. CalledOneShotIsCurrent'
  BY <1>3, <1>4 DEF CalledOneShotIsCurrent, RunOnce, history
<1>11. QED
  BY <1>5, <1>6, <1>7, <1>8, <1>9, <1>10

LEMMA CallStep == IInv /\ CallTask => IInv'
<1> SUFFICES ASSUME IInv, CallTask PROVE IInv'
  OBVIOUS
<1> USE DEF IInv
<1>1. /\ pc = "call" /\ pc' = "fn" /\ tasks' = tasks /\ order' = order /\ k' = k
      /\ runs' = [runs EXCEPT ![order[k]] = IF @ < 2 THEN @ + 1 ELSE 2]
  BY DEF CallTask
<1>2. order[k] \in Slots
  BY <1>1 DEF CursorInSnapshot, TypeOK
<1>3. TypeOK'
  <2>1. runs' \in [Slots -> 0 .. 2]
    <3>1. runs \in [Slots -> 0 .. 2] /\ runs[order[k]] \in 0 .. 2
      BY <1>2 DEF TypeOK
    <3>2. (IF runs[order[k]] < 2 THEN runs[order[k]] + 1 ELSE 2) \in 0 .. 2
      BY <3>1
    <3>3. QED
      BY <1>1, <3>1, <3>2
  <2>2. QED
    BY <1>1, <2>1 DEF TypeOK, CallTask
<1>4. SlotsConsistent' /\ CursorInSnapshot' /\ SnapshotClaimed'
  BY <1>1 DEF SlotsConsistent, CursorInSnapshot, SnapshotClaimed
<1>5. SnapshotSorted'
  BY <1>1 DEF SnapshotSorted, SelectedBefore
<1>6. CalledOneShotIsCurrent'
  <2>1. \A i \in Slots : tasks[i].used /\ tasks[i].period = 0 => runs[i] = 0
    BY <1>1 DEF CalledOneShotIsCurrent
  <2>2. QED
    BY <1>1, <1>2, <2>1 DEF CalledOneShotIsCurrent, TypeOK
<1>7. QED
  BY <1>3, <1>4, <1>5, <1>6

LEMMA ReturnStep == IInv /\ TaskReturns => IInv'
  BY DEF TaskReturns, history, IInv, TypeOK, SlotsConsistent, CursorInSnapshot,
     SnapshotClaimed, SnapshotSorted, SelectedBefore, CalledOneShotIsCurrent

\* The only step that frees a slot frees the entry the cursor leaves.
LEMMA AfterTaskStep == IInv /\ AfterTask => IInv'
<1> SUFFICES ASSUME IInv, AfterTask PROVE IInv'
  OBVIOUS
<1> USE DEF IInv
<1> DEFINE c == order[k]
<1>1. c \in Slots /\ k \in 1 .. Len(order) /\ pc = "ret"
  BY DEF AfterTask, CursorInSnapshot, TypeOK
<1>2. \A i \in Slots \ {c} : tasks'[i] = tasks[i]
  BY <1>1 DEF AfterTask, TypeOK
<1>3. IF tasks[c].period = 0 THEN tasks'[c] = RetireSlot(tasks[c])
                             ELSE tasks'[c] = tasks[c]
  BY <1>1 DEF AfterTask, TypeOK
<1>4. RetireSlot(tasks[c]) \in TCB /\ ~RetireSlot(tasks[c]).used /\ ~RetireSlot(tasks[c]).ready
  <2>1. tasks[c] \in TCB
    BY <1>1 DEF TypeOK
  <2>2. ASSUME NEW t \in TCB
        PROVE  RetireSlot(t) \in TCB /\ ~RetireSlot(t).used /\ ~RetireSlot(t).ready
    BY DEF RetireSlot, TCB
  <2>3. QED
    BY <2>1, <2>2
<1>5. ticks' = ticks /\ since' = since /\ armed' = armed /\ runs' = runs
  BY DEF AfterTask, history
<1>6. \/ k < Len(order) /\ pc' = "call" /\ k' = k + 1 /\ order' = order
      \/ pc' = "idle" /\ k' = 1 /\ order' = <<>>
  BY DEF AfterTask
<1>7. TypeOK'
  <2>1. tasks' \in [Slots -> TCB]
    <3>1. tasks' = [i \in Slots |-> tasks'[i]]
      BY <1>1 DEF AfterTask, TypeOK
    <3>2. QED
      BY <1>2, <1>3, <1>4, <3>1 DEF TypeOK
  <2>2. order' \in Seq(Slots) /\ k' \in Nat \ {0} /\ pc' \in {"idle", "call", "fn", "ret"}
    <3>1. order \in Seq(Slots) /\ <<>> \in Seq(Slots) /\ k + 1 \in Nat \ {0}
      BY <1>1 DEF TypeOK
    <3>2. CASE k < Len(order) /\ pc' = "call" /\ k' = k + 1 /\ order' = order
      BY <3>1, <3>2
    <3>3. CASE pc' = "idle" /\ k' = 1 /\ order' = <<>>
      BY <3>1, <3>3
    <3>4. QED
      BY <1>6, <3>2, <3>3
  <2>3. QED
    BY <1>5, <2>1, <2>2 DEF TypeOK
<1>8. SlotsConsistent'
  <2>1. ASSUME NEW i \in Slots
        PROVE  (tasks'[i].used => tasks'[i].fn = "set") /\ (~tasks'[i].used => ~tasks'[i].ready)
    BY <1>1, <1>2, <1>3, <1>4 DEF SlotsConsistent
  <2>2. QED
    BY <2>1 DEF SlotsConsistent
<1>9. CursorInSnapshot'
  BY <1>1, <1>6 DEF CursorInSnapshot, TypeOK
<1>10. SnapshotClaimed' /\ SnapshotSorted'
  <2>1. CASE k < Len(order) /\ k' = k + 1 /\ order' = order
    <3>1. ASSUME NEW j \in k + 1 .. Len(order)
          PROVE  order[j] \in Slots \ {c} /\ tasks[order[j]].used
      <4>1. order[j] \in Slots /\ tasks[order[j]].used
        BY <1>1, <3>1 DEF TypeOK, SnapshotClaimed
      <4>2. SelectedBefore(c, order[j])
        BY <1>1, <3>1 DEF SnapshotSorted
      <4>3. tasks[c].priority \in Int /\ c \in Int
        <5>1. tasks[c] \in TCB
          BY <1>1 DEF TypeOK
        <5>2. MaxTasks \in Int
          BY TaskManagerAssumption DEF TaskManagerAssumption
        <5>3. tasks[c].priority \in 0 .. 255
          BY <5>1 DEF TCB
        <5>4. \A i \in Slots : i \in Int
          BY <5>2 DEF Slots
        <5>5. \A q \in 0 .. 255 : q \in Int
          OBVIOUS
        <5>6. QED
          BY <1>1, <5>3, <5>4, <5>5, Zenon
      <4>4. c # order[j]
        BY <4>2, <4>3 DEF SelectedBefore
      <4>5. QED
        BY <4>1, <4>4
    <3>2. \A j \in k + 1 .. Len(order) : tasks'[order[j]] = tasks[order[j]]
      BY <1>2, <3>1
    <3>3. k + 1 \in Nat \ {0} /\ k + 1 >= k
      BY <1>1
    <3>4. QED
      BY <2>1, <3>1, <3>2, <3>3, SnapshotKept
  <2>2. CASE k' = 1 /\ order' = <<>>
    BY <2>2 DEF SnapshotClaimed, SnapshotSorted
  <2>3. QED
    BY <1>6, <2>1, <2>2
<1>11. CalledOneShotIsCurrent'
  <2>1. ASSUME NEW i \in Slots, tasks'[i].used, tasks'[i].period = 0, runs[i] # 0
        PROVE  FALSE
    <3>1. i # c
      BY <1>3, <1>4, <2>1
    <3>2. QED
      BY <1>2, <2>1, <3>1 DEF CalledOneShotIsCurrent
  <2>2. QED
    BY <1>5, <2>1 DEF CalledOneShotIsCurrent
<1>12. QED
  BY <1>7, <1>8, <1>9, <1>10, <1>11
-----------------------------------------------------------------------------
\* Every behaviour of the scheduler keeps the invariant.
THEOREM Invariance == Spec => []IInv
<1>1. IInv /\ [Next]_vars => IInv'
  <2> SUFFICES ASSUME IInv, [Next]_vars PROVE IInv'
    OBVIOUS
  <2>1. CASE Tick
    BY <2>1, TickStep
  <2>2. CASE TaskManagerInit
    BY <2>2, InitStep
  <2>3. CASE Mutator
    BY <2>3, SpawnStep, StartStep, StopStep, SetPeriodStep DEF Mutator, TaskReset
  <2>4. CASE Scheduler
    BY <2>4, RunOnceStep, CallStep, ReturnStep, AfterTaskStep DEF Scheduler
  <2>5. CASE UNCHANGED vars
    BY <2>5 DEF vars, IInv, TypeOK, SlotsConsistent, CursorInSnapshot,
       SnapshotClaimed, SnapshotSorted, SelectedBefore, CalledOneShotIsCurrent
  <2>6. QED
    BY <2>1, <2>2, <2>3, <2>4, <2>5 DEF Next
<1>2. QED
  BY InitIInv, <1>1, PTL DEF Spec

\* The table, the counters and the snapshot keep their types.
THEOREM TypeCorrect == Spec => []TypeOK
  BY Invariance, PTL DEF IInv

\* run_once never calls through a freed slot, whatever the tasks of the round
\* do to the table and however ticks fall.
THEOREM SnapshotCallable == Spec => []RoundTasksCallable
<1>1. IInv => RoundTasksCallable
  <2> SUFFICES ASSUME IInv, NEW i \in Remaining \cup ({Current} \ {NoTask})
               PROVE  tasks[i].used /\ tasks[i].fn = "set"
    BY DEF RoundTasksCallable
  <2> USE DEF IInv
  <2>1. PICK j \in k .. Len(order) : i = order[j]
    BY DEF Remaining, Current, CursorInSnapshot, TypeOK
  <2>2. i \in Slots
    BY <2>1 DEF TypeOK
  <2>3. QED
    BY <2>1, <2>2 DEF SnapshotClaimed, SlotsConsistent
<1>2. QED
  BY <1>1, Invariance, PTL

\* A round is executed in the order of priorities: the selection loop sorts by
\* them first, and no task can change its priority.
THEOREM RoundSorted == Spec => []RoundInPriorityOrder
<1>1. IInv => RoundInPriorityOrder
  <2> SUFFICES ASSUME IInv, NEW a \in k .. Len(order), NEW b \in k .. Len(order), a < b
               PROVE  tasks[order[a]].priority <= tasks[order[b]].priority
    BY DEF RoundInPriorityOrder
  <2>1. order[a] \in Slots /\ order[b] \in Slots
    BY DEF IInv, TypeOK
  <2>2. SelectedBefore(order[a], order[b])
    BY DEF IInv, SnapshotSorted
  <2>3. QED
    BY <2>1, <2>2, SelectedBeforeIsNotLater DEF IInv
<1>2. QED
  BY <1>1, Invariance, PTL

\* A task with period 0 is called once and is gone.
THEOREM OneShotOnce == Spec => []OneShotRunsOnce
<1>1. IInv => OneShotRunsOnce
  BY DEF IInv, CalledOneShotIsCurrent, OneShotRunsOnce, TypeOK
<1>2. QED
  BY <1>1, Invariance, PTL
-----------------------------------------------------------------------------
\* A slot armed with a period counts it down: what has been counted and what is
\* left make the period.
CountsItsPeriod ==
  \A i \in Slots : armed[i] # 0 => tasks[i].countdown + since[i] + 1 = armed[i]

\* A slot that is armed anew starts counting.
LEMMA ArmedCounts ==
  ASSUME IInv, CountsItsPeriod, NEW i \in Slots, NEW p \in Nat,
         NEW t \in TCB, t.countdown = ArmCountdown(p),
         tasks' = [tasks EXCEPT ![i] = t], Rearmed(i, p)
  PROVE  CountsItsPeriod'
<1>1. /\ tasks \in [Slots -> TCB] /\ since \in [Slots -> Nat] /\ armed \in [Slots -> Nat]
  BY DEF IInv, TypeOK
<1>2. ASSUME NEW j \in Slots, armed'[j] # 0
      PROVE  tasks'[j].countdown + since'[j] + 1 = armed'[j]
  <2>1. CASE j = i
    BY <1>1, <1>2, <2>1 DEF Rearmed, ArmCountdown
  <2>2. CASE j # i
    BY <1>1, <1>2, <2>2 DEF Rearmed, CountsItsPeriod
  <2>3. QED
    BY <2>1, <2>2
<1>3. QED
  BY <1>2 DEF CountsItsPeriod

\* A step that leaves countdowns and history alone keeps the count.
LEMMA CountKept ==
  ASSUME CountsItsPeriod, UNCHANGED <<since, armed>>,
         \A i \in Slots : tasks'[i].countdown = tasks[i].countdown
  PROVE  CountsItsPeriod'
  BY DEF CountsItsPeriod

LEMMA TickCounts == IInv /\ CountsItsPeriod /\ Tick => CountsItsPeriod'
<1> SUFFICES ASSUME IInv, CountsItsPeriod, Tick, NEW i \in Slots, armed'[i] # 0
             PROVE  tasks'[i].countdown + since'[i] + 1 = armed'[i]
  BY DEF CountsItsPeriod
<1> DEFINE t == tasks[i]
<1>1. t \in TCB /\ since[i] \in Nat /\ armed[i] \in Nat
  BY DEF IInv, TypeOK
<1>2. /\ t.countdown \in Nat /\ t.period \in Nat
  BY <1>1 DEF TCB
<1>3. /\ tasks'[i] = TickSlot(t)
      /\ since'[i] = IF Reloads(t) THEN 0
                     ELSE IF Counts(t) /\ ~Expires(t) THEN since[i] + 1 ELSE since[i]
      /\ armed'[i] = IF Reloads(t) THEN t.period ELSE armed[i]
  BY DEF Tick
<1>4. TickSlot(t).countdown = IF Reloads(t) THEN ArmCountdown(t.period)
                              ELSE IF Counts(t) /\ t.countdown > 0 THEN t.countdown - 1
                              ELSE t.countdown
  BY <1>1 DEF TickSlot, TCB
<1> HIDE DEF t
<1>5. CASE Reloads(t)
  BY <1>2, <1>3, <1>4, <1>5 DEF ArmCountdown, Reloads
<1>6. CASE ~Reloads(t)
  <2>1. armed[i] # 0 /\ t.countdown + since[i] + 1 = armed[i]
    BY <1>3, <1>6 DEF CountsItsPeriod, t
  <2>2. QED
    BY <1>1, <1>2, <1>3, <1>4, <1>6, <2>1 DEF Expires
<1>7. QED
  BY <1>5, <1>6

LEMMA CountStep == IInv /\ CountsItsPeriod /\ [Next]_vars => CountsItsPeriod'
<1> SUFFICES ASSUME IInv, CountsItsPeriod, [Next]_vars PROVE CountsItsPeriod'
  OBVIOUS
<1>1. /\ tasks \in [Slots -> TCB] /\ TypeOK
  BY DEF IInv, TypeOK
<1>2. CASE Tick
  BY <1>2, TickCounts
<1>3. CASE TaskManagerInit
  BY <1>3 DEF TaskManagerInit, CountsItsPeriod
<1>4. ASSUME NEW p \in Periods, NEW q \in Priorities, TaskSpawn(p, q) PROVE CountsItsPeriod'
  <2> DEFINE t == [fn |-> "set", period |-> p, countdown |-> ArmCountdown(p),
                   priority |-> q, used |-> TRUE, enabled |-> TRUE, ready |-> FALSE]
  <2>1. PICK i \in Slots : tasks' = [tasks EXCEPT ![i] = t] /\ Rearmed(i, p)
    BY <1>4 DEF TaskSpawn
  <2>2. p \in Nat /\ t \in TCB /\ t.countdown = ArmCountdown(p)
    BY TaskManagerAssumption DEF TCB, ArmCountdown, TaskManagerAssumption
  <2> HIDE DEF t
  <2>3. QED
    BY <2>1, <2>2, ArmedCounts
<1>5. ASSUME NEW i \in Slots, TaskStart(i) PROVE CountsItsPeriod'
  <2> DEFINE p == tasks[i].period
             t == [tasks[i] EXCEPT !.countdown = ArmCountdown(p), !.enabled = TRUE, !.ready = FALSE]
  <2>1. tasks[i] \in TCB /\ p \in Nat /\ ArmCountdown(p) \in Nat
    BY <1>1 DEF TCB, ArmCountdown
  <2>2. t \in TCB /\ t.countdown = ArmCountdown(p)
    BY <2>1 DEF TCB
  <2>3. tasks' = [tasks EXCEPT ![i] = t] /\ Rearmed(i, p)
    BY <1>1, <1>5 DEF TaskStart
  <2> HIDE DEF t, p
  <2>4. QED
    BY <2>1, <2>2, <2>3, ArmedCounts
<1>6. ASSUME NEW i \in Slots, TaskStop(i) PROVE CountsItsPeriod'
  <2>1. \A j \in Slots : tasks'[j].countdown = tasks[j].countdown
    BY <1>1, <1>6 DEF TaskStop, TCB
  <2>2. QED
    BY <1>6, <2>1, CountKept DEF TaskStop, history
<1>7. ASSUME NEW i \in Slots, NEW p \in Periods, TaskSetPeriod(i, p) PROVE CountsItsPeriod'
  <2>1. \A j \in Slots : tasks'[j].countdown = tasks[j].countdown
    BY <1>1, <1>7 DEF TaskSetPeriod, TCB
  <2>2. QED
    BY <1>7, <2>1, CountKept DEF TaskSetPeriod
<1>8. CASE RunOnce
  <2>1. \A j \in Slots : tasks'[j].countdown = tasks[j].countdown
    BY <1>1, <1>8 DEF RunOnce, TCB
  <2>2. QED
    BY <1>8, <2>1, CountKept DEF RunOnce, history
<1>9. CASE CallTask \/ TaskReturns \/ UNCHANGED vars
  BY <1>9, CountKept DEF CallTask, TaskReturns, vars, history
<1>10. CASE AfterTask
  <2>1. \A j \in Slots : tasks'[j].countdown = tasks[j].countdown
    BY <1>1, <1>10 DEF AfterTask, RetireSlot, TCB
  <2>2. QED
    BY <1>10, <2>1, CountKept DEF AfterTask, history
<1>11. QED
  BY <1>2, <1>3, <1>4, <1>5, <1>6, <1>7, <1>8, <1>9, <1>10
     DEF Next, Mutator, Scheduler, TaskReset

\* Due every p ticks, no more and no less, for every period and every table.
THEOREM NoDrift == Spec => SpacingExact
<1>1. Init => CountsItsPeriod
  BY DEF Init, CountsItsPeriod
<1>2. Spec => []CountsItsPeriod
  BY <1>1, CountStep, Invariance, PTL DEF Spec
<1>3. IInv /\ CountsItsPeriod =>
        \A i \in Slots : Tick /\ Reloads(tasks[i]) /\ armed[i] # 0 => since[i] + 1 = armed[i]
  BY DEF IInv, TypeOK, CountsItsPeriod, Reloads, Expires
<1>4. QED
  BY <1>2, <1>3, Invariance, PTL DEF Spec, SpacingExact
-----------------------------------------------------------------------------
\* The refinement: TaskManager implements TaskRounds.  Each action of the table
\* is named with the step of the rounds it takes, or leaves them as they are.
due == Selected
running == IF pc \in {"fn", "ret"} THEN Current ELSE NoTask
prio == [i \in Slots |-> tasks[i].priority]
Untouched == UNCHANGED <<due, Remaining, running, prio>>

\* No slot runs before itself.
LEMMA BeforeIsStrict ==
  ASSUME TypeOK, NEW i \in Slots, NEW j \in Slots, SelectedBefore(i, j) PROVE i # j
<1>1. i \in Int /\ tasks[i] \in TCB
  BY TaskManagerAssumption DEF Slots, TaskManagerAssumption, TypeOK
<1>2. tasks[i].priority \in 0 .. 255
  BY <1>1 DEF TCB
<1>3. tasks[i].priority \in Int
  BY <1>2
<1>4. ~(tasks[i].priority < tasks[i].priority) /\ ~(i < i)
  BY <1>1, <1>3
<1>5. QED
  BY <1>4, Zenon DEF SelectedBefore

\* A snapshot is all of the due tasks.
LEMMA SnapshotIsAll ==
  ASSUME TypeOK, NEW s \in SelectionOrders(Selected)
  PROVE  {s[j] : j \in 1 .. Len(s)} = Selected
<1> DEFINE n == Cardinality(Selected)
<1>1. n \in Nat /\ Selected \subseteq Slots
  BY SelectedFinite, TaskManagerAssumption DEF Selected
<1>2. s \in [1 .. n -> Selected] /\ Len(s) = n
  BY SnapshotShape DEF SelectionOrders
<1>3. IsFiniteSet(Selected)
  <2>1. IsFiniteSet(Slots)
    <3>1. 0 \in Int /\ MaxTasks - 1 \in Int
      BY TaskManagerAssumption DEF TaskManagerAssumption
    <3>2. QED
      BY <3>1, FS_Interval DEF Slots
  <2>2. QED
    BY <1>1, <2>1, FS_Subset
<1>4. s \in Injection(1 .. n, Selected)
  <2>2. ASSUME NEW a \in 1 .. n, NEW b \in 1 .. n, a < b PROVE s[a] # s[b]
    <3>1. SelectedBefore(s[a], s[b])
      BY <1>2, <2>2, SnapshotShape
    <3>2. s[a] \in Slots /\ s[b] \in Slots
      BY <1>1, <1>2
    <3>3. QED
      BY <3>1, <3>2, BeforeIsStrict
  <2>3. \A a, b \in 1 .. n : s[a] = s[b] => a = b
    <3>1. \A a, b \in 1 .. n : a # b => a < b \/ b < a
      BY <1>1
    <3>2. QED
      BY <2>2, <3>1
  <2>4. QED
    BY <1>2, <2>3 DEF Injection, IsInjective
<1>5. Cardinality(1 .. n) = n
  BY <1>1, FS_Interval, 1 \in Int, n \in Int
<1>6. s \in Surjection(1 .. n, Selected)
  BY <1>3, <1>4, <1>5, FS_Injection
<1>7. QED
  BY <1>2, <1>6 DEF Surjection

\* The priorities of a table: all that TaskRounds sees of the control blocks that
\* are not due.
LEMMA SamePrio ==
  ASSUME \A i \in Slots : tasks'[i].priority = tasks[i].priority
  PROVE  prio' = prio
  BY DEF prio

\* A step that leaves pc and the snapshot alone leaves the round alone.
LEMMA SameRound ==
  ASSUME UNCHANGED control
  PROVE  Remaining' = Remaining /\ running' = running
  BY DEF control, Remaining, running, Current

\* A tick makes tasks due.
LEMMA TickRounds == IInv /\ Tick => Rounds!BecomeDue
<1> SUFFICES ASSUME IInv, Tick PROVE Rounds!BecomeDue
  OBVIOUS
<1>1. \A i \in Slots : /\ tasks[i] \in TCB
                       /\ tasks'[i] = TickSlot(tasks[i])
  BY DEF Tick, IInv, TypeOK
<1>2. ASSUME NEW t \in TCB
      PROVE  /\ TickSlot(t).used = t.used /\ TickSlot(t).enabled = t.enabled
             /\ TickSlot(t).priority = t.priority /\ (t.ready => TickSlot(t).ready)
  BY DEF TickSlot, TCB
<1>3. due \subseteq due'
  BY <1>1, <1>2 DEF due, Selected, Selectable, Ready
<1>4. prio' = prio
  BY <1>1, <1>2, SamePrio
<1>5. Remaining' = Remaining /\ running' = running
  BY SameRound DEF Tick
<1>6. due' = due \cup (due' \ due) /\ due' \ due \in SUBSET Slots
  BY <1>3 DEF due, Selected
<1>7. QED
  BY <1>4, <1>5, <1>6 DEF Rounds!BecomeDue, due, running, prio

\* Clearing the table between rounds unregisters all.
LEMMA InitRounds == IInv /\ TaskManagerInit => Rounds!Unregister
<1> SUFFICES ASSUME IInv, TaskManagerInit PROVE Rounds!Unregister
  OBVIOUS
<1>1. Remaining = {} /\ running = NoTask /\ Remaining' = {} /\ running' = NoTask
  BY DEF IInv, CursorInSnapshot, TaskManagerInit, control, Remaining, running
<1>2. due' = {}
  BY DEF TaskManagerInit, FreeSlot, due, Selected, Selectable, Ready
<1>3. prio' = [i \in Slots |-> 0]
  BY DEF TaskManagerInit, FreeSlot, prio
<1>4. QED
  BY <1>1, <1>2, <1>3 DEF Rounds!Unregister, due, running, prio

\* The slots of the round and of the running task are claimed.
LEMMA RoundIsClaimed ==
  ASSUME IInv
  PROVE  \A i \in Remaining \cup ({running} \ {NoTask}) : i \in Slots /\ tasks[i].used
<1> SUFFICES ASSUME NEW i \in Remaining \cup ({running} \ {NoTask})
             PROVE  i \in Slots /\ tasks[i].used
  OBVIOUS
<1>1. PICK j \in k .. Len(order) : i = order[j]
  BY DEF IInv, Remaining, running, Current, CursorInSnapshot, TypeOK
<1>2. QED
  BY <1>1 DEF IInv, TypeOK, SnapshotClaimed

\* task_spawn registers a slot no round refers to.
LEMMA SpawnRounds ==
  ASSUME IInv, NEW p \in Periods, NEW q \in Priorities, TaskSpawn(p, q)
  PROVE  \E i \in Slots : Rounds!Register(i, q)
<1> DEFINE new == [fn |-> "set", period |-> p, countdown |-> ArmCountdown(p),
                   priority |-> q, used |-> TRUE, enabled |-> TRUE, ready |-> FALSE]
<1>1. PICK i \in Slots : ~tasks[i].used /\ tasks' = [tasks EXCEPT ![i] = new]
  BY DEF TaskSpawn
<1>2. new.priority = q /\ ~new.ready
  OBVIOUS
<1> HIDE DEF new
<1>3. \A j \in Slots : tasks'[j] = IF j = i THEN new ELSE tasks[j]
  BY <1>1 DEF IInv, TypeOK
<1>4. i \notin Remaining \cup {running} \cup due
  <2>1. i # NoTask
    BY TaskManagerAssumption DEF Slots, NoTask, TaskManagerAssumption
  <2>2. QED
    BY <1>1, <2>1, RoundIsClaimed DEF due, Selected, Selectable, Ready
<1>5. due' = due
  BY <1>1, <1>2, <1>3 DEF due, Selected, Selectable, Ready
<1>6. prio' = [prio EXCEPT ![i] = q]
  BY <1>2, <1>3 DEF prio
<1>7. Remaining' = Remaining /\ running' = running
  BY SameRound DEF TaskSpawn
<1>8. Rounds!Register(i, q)
  BY <1>4, <1>5, <1>6, <1>7 DEF Rounds!Register, due, running, prio
<1>9. QED
  BY <1>8

\* task_start, task_reset and task_stop withdraw their task at most.
LEMMA WithdrawRounds ==
  ASSUME IInv, NEW i \in Slots, NEW t \in TCB, ~t.ready, t.priority = tasks[i].priority,
         tasks' = [tasks EXCEPT ![i] = t], UNCHANGED control
  PROVE  Rounds!Withdraw
<1>1. \A j \in Slots : tasks'[j] = IF j = i THEN t ELSE tasks[j]
  BY DEF IInv, TypeOK
<1>2. due' = due \ {i}
  BY <1>1 DEF due, Selected, Selectable, Ready
<1>3. prio' = prio
  BY <1>1, SamePrio
<1>4. Remaining' = Remaining /\ running' = running
  BY SameRound
<1>5. {i} \in SUBSET Slots
  OBVIOUS
<1>6. QED
  BY <1>2, <1>3, <1>4, <1>5 DEF Rounds!Withdraw, due, running, prio

\* A period is nothing TaskRounds sees.
LEMMA SetPeriodRounds ==
  ASSUME IInv, NEW i \in Slots, NEW p \in Periods, TaskSetPeriod(i, p) PROVE Untouched
<1>1. \A j \in Slots : tasks[j] \in TCB
                       /\ tasks'[j] = IF j = i THEN [tasks[j] EXCEPT !.period = p] ELSE tasks[j]
  BY DEF TaskSetPeriod, IInv, TypeOK
<1>2. ASSUME NEW t \in TCB
      PROVE  LET u == [t EXCEPT !.period = p]
             IN u.used = t.used /\ u.enabled = t.enabled /\ u.ready = t.ready /\ u.priority = t.priority
  BY DEF TCB
<1>3. \A j \in Slots : Selectable(j)' = Selectable(j)
  <2>1. \A j \in Slots : /\ tasks'[j].used = tasks[j].used /\ tasks'[j].enabled = tasks[j].enabled
                         /\ tasks'[j].ready = tasks[j].ready
                         /\ tasks'[j].priority = tasks[j].priority
    BY <1>1, <1>2
  <2>2. QED
    BY <2>1, Zenon DEF Selectable, Ready
<1>4. due' = due
  BY <1>3 DEF due, Selected
<1>5. prio' = prio
  BY <1>1, <1>2, SamePrio
<1>6. QED
  BY <1>4, <1>5, SameRound DEF TaskSetPeriod, Untouched

\* run_once starts a round of all that is due.
LEMMA RunOnceRounds == IInv /\ RunOnce => Rounds!StartRound
<1> SUFFICES ASSUME IInv, RunOnce PROVE Rounds!StartRound
  OBVIOUS
<1>1. TypeOK /\ pc = "idle" /\ order = <<>> /\ k = 1 /\ k' = 1
      /\ (pc' = IF order' = <<>> THEN "idle" ELSE "call")
  BY DEF IInv, RunOnce, CursorInSnapshot
<1>2. PICK s \in SelectionOrders(Selected) : order' = s
  BY DEF RunOnce
<1>3. Remaining = {} /\ running = NoTask
  BY <1>1 DEF Remaining, running
<1>4. order' \in Seq(Slots) /\ {order'[j] : j \in 1 .. Len(order')} = due
  BY <1>1, <1>2, SnapshotShape, SnapshotIsAll DEF due
<1>5. Remaining' = due /\ running' = NoTask
  <2>1. CASE order' = <<>>
    BY <1>1, <1>4, <2>1 DEF Remaining, running
  <2>2. CASE order' # <<>>
    BY <1>1, <1>4, <2>2 DEF Remaining, running
  <2>3. QED
    BY <2>1, <2>2
<1>6. \A i \in Slots : /\ tasks[i] \in TCB
                       /\ tasks'[i] = IF i \in Selected THEN [tasks[i] EXCEPT !.ready = FALSE]
                                      ELSE tasks[i]
  BY <1>1 DEF RunOnce, TypeOK
<1>7. ASSUME NEW t \in TCB
      PROVE  LET u == [t EXCEPT !.ready = FALSE] IN u.priority = t.priority /\ ~u.ready
  BY DEF TCB
<1>8. due' = {}
  BY <1>6, <1>7 DEF due, Selected, Selectable, Ready
<1>9. prio' = prio
  BY <1>6, <1>7, SamePrio
<1>10. QED
  BY <1>3, <1>5, <1>8, <1>9 DEF Rounds!StartRound, due, running, prio

\* A call starts the first of the tasks that remain.
LEMMA CallRounds == IInv /\ CallTask => \E i \in Slots : Rounds!StartTask(i)
<1> SUFFICES ASSUME IInv, CallTask PROVE \E i \in Slots : Rounds!StartTask(i)
  OBVIOUS
<1> DEFINE c == order[k]
<1>1. /\ pc = "call" /\ pc' = "fn" /\ UNCHANGED <<tasks, order, k>> /\ TypeOK
      /\ k \in 1 .. Len(order) /\ \A j \in k .. Len(order) : order[j] \in Slots
  BY DEF IInv, CallTask, CursorInSnapshot, TypeOK
<1>2. running = NoTask /\ running' = c /\ c \in Slots /\ c \in Remaining
  BY <1>1 DEF running, Current, Remaining
<1>3. \A j \in k + 1 .. Len(order) : j \in k .. Len(order) /\ SelectedBefore(c, order[j])
  BY <1>1 DEF IInv, SnapshotSorted
<1>4. \A j \in k + 1 .. Len(order) : order[j] # c
  BY <1>1, <1>2, <1>3, BeforeIsStrict
<1>5. Remaining' = Remaining \ {c}
  <2>1. Remaining' = {order[j] : j \in k + 1 .. Len(order)}
    BY <1>1 DEF Remaining
  <2>2. \A j \in k .. Len(order) : j = k \/ j \in k + 1 .. Len(order)
    BY <1>1
  <2>3. QED
    BY <1>1, <1>3, <1>4, <2>1, <2>2 DEF Remaining
<1>6. \A j \in Remaining : prio[c] <= prio[j]
  <2>1. \A j \in Remaining : j \in Slots /\ (j = c \/ SelectedBefore(c, j))
    BY <1>1, <1>3 DEF Remaining
  <2>2. \A j \in Slots : tasks[j].priority \in 0 .. 255
    BY <1>1 DEF TypeOK, TCB
  <2>3. tasks[c].priority <= tasks[c].priority
    BY <1>2, <2>2
  <2>4. \A j \in Remaining : tasks[c].priority <= tasks[j].priority
    BY <1>1, <1>2, <2>1, <2>3, SelectedBeforeIsNotLater
  <2>5. QED
    BY <1>2, <2>1, <2>4 DEF prio
<1>7. due' = due /\ prio' = prio
  BY <1>1 DEF due, prio, Selected, Selectable, Ready
<1>8. Rounds!StartTask(c)
  BY <1>2, <1>5, <1>6, <1>7 DEF Rounds!StartTask, due, running, prio
<1>9. QED
  BY <1>2, <1>8

\* The return itself is nothing TaskRounds sees.
LEMMA ReturnRounds == TaskReturns => Untouched
  BY DEF TaskReturns, Untouched, due, Remaining, running, Current, prio, Selected, Selectable, Ready

\* What run_once does after the call completes the task; a one-shot leaves.
LEMMA AfterTaskRounds == IInv /\ AfterTask => Rounds!Complete
<1> SUFFICES ASSUME IInv, AfterTask PROVE Rounds!Complete
  OBVIOUS
<1> DEFINE c == order[k]
<1>1. /\ pc = "ret" /\ TypeOK /\ c \in Slots /\ k \in 1 .. Len(order) /\ order \in Seq(Slots)
  BY DEF IInv, AfterTask, CursorInSnapshot, TypeOK
<1>2. running = c /\ c # NoTask
  BY <1>1, TaskManagerAssumption DEF running, Current, Slots, NoTask, TaskManagerAssumption
<1>3. Remaining' = Remaining /\ running' = NoTask
  <2>1. CASE k < Len(order) /\ pc' = "call" /\ k' = k + 1 /\ order' = order
    BY <1>1, <2>1 DEF Remaining, running
  <2>2. CASE ~(k < Len(order)) /\ pc' = "idle" /\ k' = 1 /\ order' = <<>>
    BY <1>1, <2>2 DEF Remaining, running
  <2>3. QED
    BY <2>1, <2>2 DEF AfterTask
<1>4. ASSUME NEW t \in TCB PROVE RetireSlot(t).priority = t.priority /\ ~RetireSlot(t).used
  BY DEF RetireSlot, TCB
<1>5. CASE tasks[c].period = 0
  <2>1. \A i \in Slots : /\ tasks[i] \in TCB
                         /\ tasks'[i] = IF i = c THEN RetireSlot(tasks[c]) ELSE tasks[i]
    BY <1>1, <1>5 DEF AfterTask, TypeOK
  <2>2. due' = due \ {c} /\ prio' = prio
    BY <1>1, <1>4, <2>1, SamePrio DEF due, Selected, Selectable, Ready
  <2>3. QED
    BY <1>2, <1>3, <2>2 DEF Rounds!Complete, due, running, prio
<1>6. CASE tasks[c].period # 0
  <2>1. due' = due /\ prio' = prio
    BY <1>6 DEF AfterTask, due, prio, Selected, Selectable, Ready
  <2>2. QED
    BY <1>2, <1>3, <2>1 DEF Rounds!Complete, due, running, prio
<1>7. QED
  BY <1>5, <1>6

\* Every step of the scheduler is a step of the abstract rounds, or none.
LEMMA RoundStep == IInv /\ [Next]_vars => [Rounds!RoundNext]_(Rounds!roundVars)
<1> SUFFICES ASSUME IInv, [Next]_vars PROVE [Rounds!RoundNext]_(Rounds!roundVars)
  OBVIOUS
<1>1. CASE Tick
  BY <1>1, TickRounds DEF Rounds!RoundNext
<1>2. CASE TaskManagerInit
  BY <1>2, InitRounds DEF Rounds!RoundNext
<1>3. ASSUME NEW p \in Periods, NEW q \in Priorities, TaskSpawn(p, q) PROVE Rounds!RoundNext
  BY <1>3, SpawnRounds DEF Rounds!RoundNext
<1>4. ASSUME NEW i \in Slots, TaskStart(i) PROVE Rounds!Withdraw
  <2> DEFINE t == [tasks[i] EXCEPT !.countdown = ArmCountdown(tasks[i].period),
                                   !.enabled = TRUE, !.ready = FALSE]
  <2>1. tasks[i] \in TCB /\ ArmCountdown(tasks[i].period) \in Nat
    BY DEF IInv, TypeOK, TCB, ArmCountdown
  <2>2. t \in TCB /\ ~t.ready /\ t.priority = tasks[i].priority
    BY <2>1 DEF TCB
  <2>3. tasks' = [tasks EXCEPT ![i] = t] /\ UNCHANGED control
    BY <1>4 DEF TaskStart, IInv, TypeOK
  <2> HIDE DEF t
  <2>4. QED
    BY <2>2, <2>3, WithdrawRounds
<1>5. ASSUME NEW i \in Slots, TaskStop(i) PROVE Rounds!Withdraw
  <2> DEFINE t == [tasks[i] EXCEPT !.enabled = FALSE, !.ready = FALSE]
  <2>1. tasks[i] \in TCB
    BY DEF IInv, TypeOK
  <2>2. t \in TCB /\ ~t.ready /\ t.priority = tasks[i].priority
    BY <2>1 DEF TCB
  <2>3. tasks' = [tasks EXCEPT ![i] = t] /\ UNCHANGED control
    BY <1>5 DEF TaskStop, IInv, TypeOK
  <2> HIDE DEF t
  <2>4. QED
    BY <2>2, <2>3, WithdrawRounds
<1>6. CASE Scheduler
  BY <1>6, RunOnceRounds, CallRounds, ReturnRounds, AfterTaskRounds
     DEF Scheduler, Untouched, Rounds!RoundNext, Rounds!roundVars, due, running, prio
<1>7. CASE UNCHANGED vars
  BY <1>7 DEF vars, Rounds!roundVars, Remaining, Current, Selected, Selectable, Ready
<1>8. CASE Mutator
  BY <1>3, <1>4, <1>5, <1>8, SetPeriodRounds
     DEF Mutator, TaskReset, Untouched, Rounds!RoundNext, Rounds!roundVars, due, running, prio
<1>9. QED
  BY <1>1, <1>2, <1>6, <1>7, <1>8 DEF Next

\* Countdowns, flags and snapshot implement rounds that run every due task once.
THEOREM Refinement == Spec => ImplementsRounds
<1>1. Init => Rounds!RoundInit
  <2> SUFFICES ASSUME Init PROVE Rounds!RoundInit
    OBVIOUS
  <2>1. due = {} /\ Remaining = {} /\ running = NoTask
    BY DEF Init, FreeSlot, due, Selected, Selectable, Ready, Remaining, running
  <2>2. prio \in [Slots -> {0}]
    BY DEF Init, FreeSlot, prio
  <2>3. QED
    BY <2>1, <2>2 DEF Rounds!RoundInit, due, running, prio
<1>2. QED
  BY <1>1, RoundStep, Invariance, PTL DEF Spec, ImplementsRounds, Rounds!RoundSpec
=============================================================================
