------------------------------- MODULE IrqProofs -------------------------------
(***************************************************************************)
(* For every set of systems and any number of events: the types, what may  *)
(* run above what, and on PIC18 the callbacks.                             *)
(***************************************************************************)
EXTENDS Irq, SequenceTheorems, TLAPS

AllSystems == {"pic16", "pic18", "pic18_locks", "pic18_low", "pic18_poll"}

\* The systems whose only vector is the high one.
OneVectorSystems == {"pic16", "pic18", "pic18_locks"}

\* What may interrupt, or be called from, what: by the masters alone, and where
\* a callback may set GIEH.
MayRunAbove(upper, lower) ==
  \/ lower = "main" /\ upper # "main"
  \/ lower = "call" /\ upper \in {"low", "high"}
  \/ lower = "low" /\ upper = "high"
MayNest(upper, lower) ==
  MayRunAbove(upper, lower) \/ (system = "pic18_locks" /\ lower = "high" /\ upper = "high")

\* Where main can be.  It saves the masks at most twice; the inner time they
\* are off.
MainFrame(f) ==
  /\ f.pc \in {"idle", "poll", "disable", "clear", "clear_write"}
  /\ Len(f.prevs) <= 2
  /\ Len(f.prevs) = 2 => f.prevs[2] = 0

\* Where a dispatch can be.  Only callbacks that lock save the masks, once; on
\* PIC16 the vector has switched them off.
HandlerFrame(f) ==
  /\ f.pc \in Pcs \ {"idle", "poll"}
  /\ f.pc \in {"lock", "disable", "locked"} => system \in {"pic16", "pic18_locks"}
  /\ IF f.pc \in {"disable", "locked"}
     THEN f.prevs = <<0>> \/ (f.prevs = <<1>> /\ system = "pic18_locks")
     ELSE f.prevs = <<>>

\* An activation that handles a flag names its source.
NamesSource(f) ==
  f.pc \in {"poll", "clear", "clear_write", "handler", "callback"} => f.src \in Sources

FrameOK(f) ==
  /\ IF f.kind = "main" THEN MainFrame(f) ELSE HandlerFrame(f)
  /\ NamesSource(f)
  /\ f.pc = "clear_write" => Family = "pic16"

\* Main is at the bottom, and each activation may run above the ones below.
StackOrdered ==
  /\ stack # <<>>
  /\ stack[1].kind = "main"
  /\ \A i, j \in DOMAIN stack : i < j => MayNest(stack[j].kind, stack[i].kind)

\* A master bit that is set belongs to a vector that is not running, but for
\* GIEH where callbacks restore it.
MasterFree(i) == /\ gie /\ system # "pic18_locks" => stack[i].kind # "high"
                 /\ giel => stack[i].kind # "low"
MastersFree == \A i \in DOMAIN stack : MasterFree(i)

\* With one priority and no dispatch from main the only vector is the high one.
OneVector ==
  /\ system = "pic16" => ~giel
  /\ system \in OneVectorSystems => \A i \in DOMAIN stack : stack[i].kind \in {"main", "high"}

\* Inside a section the masks are off and nothing runs above.
SectionClosed ==
  \A i \in DOMAIN stack : InSection(stack[i]) => i = Len(stack) /\ ~gie /\ ~giel

StackInv == /\ stack \in Seq(Frames)
            /\ \A i \in DOMAIN stack : FrameOK(stack[i])
            /\ StackOrdered
            /\ MastersFree
            /\ OneVector
            /\ SectionClosed

\* The registers and the ledger; nothing is owed that was not raised.
DataInv == /\ flags \subseteq Sources /\ ideal \subseteq Sources /\ enabled \subseteq Sources
           /\ gie \in BOOLEAN /\ giel \in BOOLEAN
           /\ system \in Systems
           /\ credit \in [Sources -> -1 .. MaxEvents] /\ events \in 0 .. MaxEvents
           /\ \A s \in Sources : credit[s] <= events
           /\ busy \in MainWaits \cup {"none"}

IInv == DataInv /\ StackInv
-----------------------------------------------------------------------------
\* What the proofs use of the systems.
LEMMA KnownSystems ==
  ASSUME IrqAssumption, system \in Systems
  PROVE  /\ system \in AllSystems
         /\ Family = IF system = "pic16" THEN "pic16" ELSE "pic18"
         /\ Known[system].locks => system \in {"pic16", "pic18_locks"}
         /\ system = "pic18_locks" => RestoresInHandler
         /\ system \in OneVectorSystems => ~Known[system].dispatches /\ LowPriority = {}
         /\ LowPriority \subseteq Sources
         /\ MainWaits \subseteq Sources
         /\ system \in OneVectorSystems => MainWaits = {}
<1>1. system \in AllSystems
  BY DEF IrqAssumption, Known, AllSystems
<1>2. CASE system = "pic16"
  <2>1. Known[system] = [family |-> "pic16", locks |-> TRUE,  low |-> {}, dispatches |-> FALSE, waits |-> {}]
    BY <1>2 DEF Known
  <2>2. QED
    BY <1>2, <2>1 DEF Family, LowPriority, MainWaits, Sources, RestoresInHandler,
       OneVectorSystems, AllSystems
<1>3. CASE system = "pic18"
  <2>1. Known[system] = [family |-> "pic18", locks |-> FALSE, low |-> {}, dispatches |-> FALSE, waits |-> {}]
    BY <1>3 DEF Known
  <2>2. QED
    BY <1>3, <2>1 DEF Family, LowPriority, MainWaits, Sources, RestoresInHandler,
       OneVectorSystems, AllSystems
<1>4. CASE system = "pic18_locks"
  <2>1. Known[system] = [family |-> "pic18", locks |-> TRUE, low |-> {}, dispatches |-> FALSE, waits |-> {}]
    BY <1>4 DEF Known
  <2>2. QED
    BY <1>4, <2>1 DEF Family, LowPriority, MainWaits, Sources, RestoresInHandler,
       OneVectorSystems, AllSystems
<1>5. CASE system = "pic18_low"
  <2>1. Known[system] = [family |-> "pic18", locks |-> FALSE, low |-> {"SSP"}, dispatches |-> FALSE, waits |-> {}]
    BY <1>5 DEF Known
  <2>2. QED
    BY <1>5, <2>1 DEF Family, LowPriority, MainWaits, Sources, RestoresInHandler,
       OneVectorSystems, AllSystems
<1>6. CASE system = "pic18_poll"
  <2>1. Known[system] = [family |-> "pic18", locks |-> FALSE, low |-> {"SSP"}, dispatches |-> TRUE, waits |-> {"TMR2"}]
    BY <1>6 DEF Known
  <2>2. QED
    BY <1>6, <2>1 DEF Family, LowPriority, MainWaits, Sources, RestoresInHandler,
       OneVectorSystems, AllSystems
<1>7. QED
  BY <1>1, <1>2, <1>3, <1>4, <1>5, <1>6 DEF AllSystems

\* The activation on top; only main's own is alone.
LEMMA StackTop ==
  ASSUME StackInv
  PROVE  /\ Len(stack) \in Nat \ {0}
         /\ DOMAIN stack = 1 .. Len(stack)
         /\ Top \in Frames
         /\ FrameOK(Top)
         /\ Top = stack[Len(stack)]
         /\ InMain <=> Len(stack) = 1
<1>1. Len(stack) \in Nat \ {0} /\ DOMAIN stack = 1 .. Len(stack)
  BY DEF StackInv, StackOrdered
<1>2. Top \in Frames /\ FrameOK(Top)
  BY <1>1 DEF StackInv, Top
<1>3. InMain <=> Len(stack) = 1
  BY <1>1 DEF StackInv, StackOrdered, MayNest, MayRunAbove, InMain, Top
<1>4. QED
  BY <1>1, <1>2, <1>3 DEF Top

\* A step of the activation on top: its new record is a legal one of the same
\* kind, and the masters it sets are free.
LEMMA ReplaceTop ==
  ASSUME StackInv,
         NEW f \in Frames, Set(f), f.kind = Top.kind, FrameOK(f), system' = system,
         \A i \in DOMAIN stack : /\ gie' /\ system # "pic18_locks" => stack[i].kind # "high"
                                 /\ giel' => stack[i].kind # "low",
         system = "pic16" => ~giel',
         InSection(f) => ~gie' /\ ~giel'
  PROVE  StackInv' /\ Top' = f /\ Len(stack') = Len(stack)
<1>1. /\ Len(stack) \in Nat \ {0}
      /\ DOMAIN stack = 1 .. Len(stack)
      /\ InMain <=> Len(stack) = 1
  BY StackTop
<1>2. /\ stack' \in Seq(Frames)
      /\ DOMAIN stack' = 1 .. Len(stack)
      /\ Len(stack') = Len(stack)
      /\ stack'[Len(stack)] = f
      /\ \A i \in 1 .. Len(stack) : i # Len(stack) => stack'[i] = stack[i]
  <2> DEFINE n == Len(stack)
  <2>1. stack \in Seq(Frames) /\ n \in 1 .. Len(stack)
    BY <1>1 DEF StackInv
  <2>2. stack' = [stack EXCEPT ![n] = f]
    BY DEF Set
  <2> HIDE DEF n
  <2>3. /\ stack' \in Seq(Frames)
        /\ Len(stack') = Len(stack)
        /\ \A j \in 1 .. Len(stack) : stack'[j] = IF j = n THEN f ELSE stack[j]
    BY <2>1, <2>2, ExceptSeq
  <2>4. QED
    BY <2>1, <2>3 DEF n
<1>3. \A i \in 1 .. Len(stack) : stack'[i].kind = stack[i].kind
  BY <1>1, <1>2 DEF Top
<1>4. \A i \in DOMAIN stack' : FrameOK(stack[i])'
  <2>1. \A i \in DOMAIN stack' : FrameOK(stack'[i])
    BY <1>1, <1>2 DEF StackInv
  <2>2. QED
    BY <2>1 DEF FrameOK, MainFrame, HandlerFrame, NamesSource, Family
<1>5. StackOrdered'
  <2>1. stack' # <<>> /\ stack'[1].kind = "main"
    <3>1. stack'[1].kind = stack[1].kind
      BY <1>1, <1>3
    <3>2. QED
      BY <1>1, <1>2, <3>1, EmptySeq DEF StackInv, StackOrdered
  <2>2. ASSUME NEW i \in 1 .. Len(stack), NEW j \in 1 .. Len(stack), i < j
        PROVE  MayNest(stack'[j].kind, stack'[i].kind)
    BY <1>1, <1>3, <2>2 DEF StackInv, StackOrdered
  <2>3. QED
    BY <1>2, <2>1, <2>2 DEF StackOrdered, MayNest, MayRunAbove
<1>6. MastersFree' /\ OneVector'
  BY <1>1, <1>2, <1>3 DEF StackInv, MastersFree, MasterFree, OneVector
<1>7. SectionClosed'
  <2>1. ASSUME NEW i \in 1 .. Len(stack), InSection(stack'[i])
        PROVE  i = Len(stack) /\ ~gie' /\ ~giel'
    <3>1. CASE i = Len(stack)
      BY <1>2, <2>1, <3>1
    <3>2. CASE i # Len(stack)
      BY <1>1, <1>2, <2>1, <3>2 DEF StackInv, SectionClosed
    <3>3. QED
      BY <3>1, <3>2
  <2>2. QED
    BY <1>2, <2>1 DEF SectionClosed, InSection
<1>8. Top' = f
  BY <1>2 DEF Top
<1>9. QED
  BY <1>2, <1>4, <1>5, <1>6, <1>7, <1>8 DEF StackInv

\* The same when the step leaves the masters alone.
LEMMA StepTop ==
  ASSUME StackInv,
         NEW f \in Frames, Set(f), f.kind = Top.kind, FrameOK(f), system' = system,
         gie' = gie, giel' = giel,
         InSection(f) => InSection(Top)
  PROVE  StackInv' /\ Top' = f /\ Len(stack') = Len(stack)
<1>1. Len(stack) \in DOMAIN stack
  BY StackTop
<1>2. InSection(f) => ~gie' /\ ~giel'
  BY <1>1 DEF StackInv, SectionClosed, Top
<1>3. \A i \in DOMAIN stack : /\ gie' /\ system # "pic18_locks" => stack[i].kind # "high"
                              /\ giel' => stack[i].kind # "low"
  BY DEF StackInv, MastersFree, MasterFree
<1>4. system = "pic16" => ~giel'
  BY DEF StackInv, OneVector
<1>5. QED
  BY <1>2, <1>3, <1>4, ReplaceTop

\* A step that leaves the stack and the masters alone.
LEMMA SameStack ==
  ASSUME StackInv, UNCHANGED <<stack, system, gie, giel>>
  PROVE  StackInv'
  BY DEF StackInv, FrameOK, MainFrame, HandlerFrame, NamesSource, Family, StackOrdered,
     MayNest, MastersFree, MasterFree, OneVector, SectionClosed, InSection

\* An activation pushed above those it may interrupt, outside a section.
LEMMA PushTop ==
  ASSUME StackInv, system \in AllSystems,
         NEW kind \in {"call", "low", "high"}, Push(Frame(kind, "scan")), system' = system,
         \A i \in DOMAIN stack : MayNest(kind, stack[i].kind),
         ~InSection(Top),
         gie' => gie /\ kind # "high", giel' => giel /\ kind # "low",
         system \in OneVectorSystems => kind = "high"
  PROVE  StackInv' /\ Top' = Frame(kind, "scan") /\ Len(stack') = Len(stack) + 1
<1> DEFINE f == Frame(kind, "scan")
<1>1. Len(stack) \in Nat \ {0} /\ DOMAIN stack = 1 .. Len(stack)
  BY StackTop
<1>2. f \in Frames
  BY DEF Frame, Frames, Pcs, Sources, Scan
<1>3. f.kind = kind /\ FrameOK(f) /\ ~InSection(f)
  BY DEF InSection, Frame, FrameOK, HandlerFrame, NamesSource, Pcs
<1> HIDE DEF f
<1>4. /\ stack' \in Seq(Frames)
      /\ DOMAIN stack' = 1 .. Len(stack) + 1
      /\ Len(stack') = Len(stack) + 1
      /\ stack'[Len(stack) + 1] = f
      /\ \A i \in 1 .. Len(stack) : stack'[i] = stack[i]
  BY <1>1, <1>2 DEF Push, StackInv, f
<1>5. \A i \in DOMAIN stack' : FrameOK(stack[i])'
  <2>1. \A i \in DOMAIN stack' : FrameOK(stack'[i])
    BY <1>1, <1>3, <1>4 DEF StackInv
  <2>2. QED
    BY <2>1 DEF FrameOK, MainFrame, HandlerFrame, NamesSource, Family
<1>6. StackOrdered'
  <2>1. stack' # <<>> /\ stack'[1].kind = "main"
    BY <1>1, <1>4 DEF StackInv, StackOrdered
  <2>2. ASSUME NEW i \in 1 .. Len(stack) + 1, NEW j \in 1 .. Len(stack) + 1, i < j
        PROVE  MayNest(stack'[j].kind, stack'[i].kind)
    <3>1. CASE j = Len(stack) + 1
      BY <1>1, <1>3, <1>4, <2>2, <3>1
    <3>2. CASE j # Len(stack) + 1
      BY <1>1, <1>4, <2>2, <3>2 DEF StackInv, StackOrdered
    <3>3. QED
      BY <3>1, <3>2
  <2>3. QED
    BY <1>4, <2>1, <2>2 DEF StackOrdered, MayNest, MayRunAbove
<1>7. MastersFree' /\ OneVector'
  BY <1>1, <1>3, <1>4 DEF StackInv, MastersFree, MasterFree, OneVector
<1>8. SectionClosed'
  <2>1. ASSUME NEW i \in 1 .. Len(stack) + 1 PROVE ~InSection(stack'[i])
    <3>1. CASE i = Len(stack) + 1
      BY <1>3, <1>4, <3>1
    <3>2. CASE i # Len(stack) + 1
      BY <1>1, <1>4, <3>2 DEF StackInv, SectionClosed, Top
    <3>3. QED
      BY <3>1, <3>2
  <2>2. QED
    BY <1>4, <2>1 DEF SectionClosed, InSection
<1>9. Top' = f
  BY <1>1, <1>4 DEF Top
<1>10. QED
  BY <1>4, <1>5, <1>6, <1>7, <1>8, <1>9 DEF StackInv, f

\* The vector's return: the activations below stay, its master bit is set.
LEMMA PopTop ==
  ASSUME StackInv, system \in AllSystems, Return,
         gie \in BOOLEAN, giel \in BOOLEAN
  PROVE  StackInv' /\ Len(stack) > 1 /\ Len(stack') = Len(stack) - 1
         /\ \A i \in 1 .. Len(stack) - 1 : stack'[i] = stack[i]
<1>1. /\ Len(stack) \in Nat \ {0}
      /\ DOMAIN stack = 1 .. Len(stack)
      /\ InMain <=> Len(stack) = 1
      /\ FrameOK(Top)
      /\ Top = stack[Len(stack)]
  BY StackTop
<1>2. ~InMain
  BY <1>1 DEF Return, FrameOK, MainFrame, InMain, At
<1>3. Len(stack) > 1
  BY <1>1, <1>2
<1> DEFINE n == Len(stack) - 1
<1>4. n \in 1 .. Len(stack) /\ stack \in Seq(Frames)
  BY <1>1, <1>3 DEF StackInv
<1>5. /\ stack' \in Seq(Frames)
      /\ DOMAIN stack' = 1 .. n
      /\ Len(stack') = n
      /\ \A i \in 1 .. n : stack'[i] = stack[i]
  <2>1. stack' = SubSeq(stack, 1, n)
    BY DEF Return
  <2>2. QED
    BY <1>4, <2>1
<1>6. system' = system
  BY DEF Return, ledger
<1>7. \A i \in DOMAIN stack' : FrameOK(stack[i])'
  <2>1. \A i \in DOMAIN stack' : FrameOK(stack'[i])
    BY <1>1, <1>5 DEF StackInv
  <2>2. QED
    BY <1>6, <2>1 DEF FrameOK, MainFrame, HandlerFrame, NamesSource, Family
<1>8. StackOrdered'
  <2>1. stack' # <<>> /\ stack'[1].kind = "main"
    BY <1>1, <1>4, <1>5 DEF StackInv, StackOrdered
  <2>2. ASSUME NEW i \in 1 .. n, NEW j \in 1 .. n, i < j
        PROVE  MayNest(stack'[j].kind, stack'[i].kind)
    <3>1. i \in DOMAIN stack /\ j \in DOMAIN stack
      BY <1>1, <1>4
    <3>2. MayNest(stack[j].kind, stack[i].kind)
      BY <2>2, <3>1 DEF StackInv, StackOrdered
    <3>3. QED
      BY <1>5, <3>2
  <2>3. QED
    BY <1>5, <1>6, <2>1, <2>2 DEF StackOrdered, MayNest, MayRunAbove
<1>9. MastersFree'
  <2>1. ASSUME NEW i \in 1 .. n
        PROVE  MayNest(Top.kind, stack[i].kind)
    BY <1>1, <1>3, <2>1 DEF StackInv, StackOrdered
  <2>2. ASSUME NEW i \in 1 .. n
        PROVE  /\ gie' /\ system # "pic18_locks" => stack'[i].kind # "high"
               /\ giel' => stack'[i].kind # "low"
    <3>1. i \in DOMAIN stack /\ stack'[i] = stack[i]
      BY <1>1, <1>4, <1>5
    <3>2. /\ gie /\ system # "pic18_locks" => stack[i].kind # "high"
          /\ giel => stack[i].kind # "low"
      BY <3>1 DEF StackInv, MastersFree, MasterFree
    <3>3. gie' = (gie \/ Top.kind = "high") /\ giel' = (giel \/ Top.kind = "low")
      BY DEF Return
    <3>4. QED
      BY <2>1, <3>1, <3>2, <3>3 DEF MayNest, MayRunAbove
  <2>3. QED
    BY <1>5, <1>6, <2>2 DEF MastersFree, MasterFree
<1>10. OneVector'
  <2>1. system = "pic16" => ~giel'
    <3>1. giel' = (giel \/ Top.kind = "low")
      BY DEF Return
    <3>2. system = "pic16" => ~giel /\ Top.kind \in {"main", "high"}
      BY <1>1 DEF StackInv, OneVector, OneVectorSystems
    <3>3. QED
      BY <3>1, <3>2
  <2>2. system \in OneVectorSystems => \A i \in 1 .. n : stack'[i].kind \in {"main", "high"}
    BY <1>1, <1>4, <1>5 DEF StackInv, OneVector
  <2>3. QED
    BY <1>5, <1>6, <2>1, <2>2 DEF OneVector
<1>11. SectionClosed'
  <2>1. ASSUME NEW i \in 1 .. n PROVE i # Len(stack) /\ i \in DOMAIN stack
    <3>1. \A m \in Nat : i \in 1 .. m - 1 => i # m /\ i \in 1 .. m
      OBVIOUS
    <3>2. Len(stack) \in Nat /\ i \in 1 .. Len(stack) - 1
      BY <1>1
    <3>3. QED
      BY <1>1, <3>1, <3>2
  <2>2. \A i \in 1 .. n : ~InSection(stack'[i])
    BY <1>5, <2>1 DEF StackInv, SectionClosed
  <2>3. QED
    BY <1>5, <2>2 DEF SectionClosed, InSection
<1>12. QED
  BY <1>3, <1>5, <1>7, <1>8, <1>9, <1>10, <1>11 DEF StackInv
-----------------------------------------------------------------------------
LEMMA InitIInv == Init => IInv
<1> SUFFICES ASSUME Init PROVE IInv
  OBVIOUS
<1> DEFINE f == Frame("main", "idle")
<1>1. f \in Frames /\ FrameOK(f) /\ f.kind = "main" /\ ~InSection(f)
  BY DEF Frame, Frames, Pcs, Sources, Scan, FrameOK, MainFrame, NamesSource, InSection
<1> HIDE DEF f
<1>2. stack \in Seq(Frames) /\ Len(stack) = 1 /\ stack[1] = f /\ DOMAIN stack = {1}
  BY <1>1 DEF Init, f
<1>3. StackOrdered
  BY <1>1, <1>2 DEF StackOrdered
<1>4. MastersFree /\ SectionClosed
  BY <1>1, <1>2 DEF MastersFree, MasterFree, SectionClosed
<1>5. OneVector
  BY <1>1, <1>2, KnownSystems, IrqAssumption DEF OneVector, OneVectorSystems, Init
<1>6. DataInv
  BY IrqAssumption DEF Init, DataInv, Sources, IrqAssumption, MainWaits
<1>7. QED
  BY <1>1, <1>2, <1>3, <1>4, <1>5, <1>6 DEF IInv, StackInv

LEMMA RaiseStep == ASSUME IInv, NEW s \in Sources, Raise(s) PROVE IInv'
<1>1. StackInv'
  BY SameStack DEF IInv, Raise
<1>2. DataInv'
  BY IrqAssumption DEF IrqAssumption, IInv, DataInv, Raise, MainWaits, Sources
<1>3. QED
  BY <1>1, <1>2 DEF IInv

LEMMA SourceStep ==
  ASSUME IInv, NEW s \in Sources, EnableSrc(s) \/ DisableSrc(s) PROVE IInv'
<1>1. StackInv'
  BY SameStack DEF IInv, EnableSrc, DisableSrc, ledger
<1>2. DataInv'
  BY DEF IInv, DataInv, EnableSrc, DisableSrc, ledger, MainWaits
<1>3. QED
  BY <1>1, <1>2 DEF IInv

\* The fields of an activation.
LEMMA FrameFields ==
  ASSUME NEW t \in Frames
  PROVE  /\ t.kind \in {"main", "call", "high", "low"} /\ t.pc \in Pcs
         /\ t.row \in 0 .. Len(Scan) /\ t.snap \in SUBSET Sources
         /\ t.src \in Sources \cup {"none"} /\ t.read \in SUBSET Sources
         /\ t.prevs \in Seq(0 .. 1)
         /\ \A pc \in Pcs : [t EXCEPT !.pc = pc] \in Frames
  BY DEF Frames

\* Steps that touch nothing of the registers and the ledger but, perhaps, what
\* main waits for.
LEMMA SameData ==
  ASSUME DataInv, UNCHANGED <<registers, system, credit, events>>, busy' \in MainWaits \cup {"none"}
  PROVE  DataInv'
  BY DEF DataInv, registers, MainWaits

LEMMA DisableReadStep == ASSUME IInv, DisableRead PROVE IInv'
<1> DEFINE mask == IF gie \/ giel THEN 1 ELSE 0
           f == [Top EXCEPT !.pc = "disable", !.read = flags \cap Intcon,
                            !.prevs = Append(Top.prevs, mask)]
<1>1. /\ StackInv
      /\ Top \in Frames /\ FrameOK(Top)
      /\ InMain <=> Len(stack) = 1
      /\ 1 \in DOMAIN stack /\ Len(stack) \in DOMAIN stack
  BY StackTop DEF IInv
<1>2. system \in AllSystems
  BY KnownSystems, IrqAssumption DEF IInv, DataInv
<1>3. Top.prevs \in Seq(0 .. 1) /\ mask \in 0 .. 1
  BY <1>1, FrameFields
<1>4. f \in Frames /\ f.kind = Top.kind
  <2>1. Append(Top.prevs, mask) \in Seq(0 .. 1) /\ "disable" \in Pcs /\ flags \cap Intcon \in SUBSET Sources
    BY <1>3 DEF Pcs, Intcon, Register, Sources
  <2> HIDE DEF mask
  <2>2. QED
    BY <1>1, <2>1 DEF Frames
<1>5. f.pc = "disable" /\ f.prevs = Append(Top.prevs, mask)
  BY <1>1 DEF Frames
<1>6. InMain \/ (At("lock") /\ ~InMain)
  BY <1>1 DEF DisableRead, FrameOK, MainFrame, At, InMain
<1>7. CASE InMain
  <2>1. Top.pc = "idle" /\ Len(Top.prevs) < 2
    BY <1>1, <1>7 DEF DisableRead, FrameOK, MainFrame, At, InMain
  <2>2. Len(Top.prevs) = 1 => mask = 0
    <3>1. Len(Top.prevs) = 1 => InSection(Top)
      BY <2>1 DEF InSection
    <3>2. QED
      BY <1>1, <1>7, <3>1 DEF StackInv, SectionClosed, Top
  <2>3. MainFrame(f)
    <3> DEFINE ps == Top.prevs
    <3> HIDE DEF mask, f, ps
    <3>1. ps \in Seq(0 .. 1) /\ f.prevs = Append(ps, mask) /\ f.pc = "disable"
      BY <1>3, <1>5 DEF ps
    <3>2. Len(f.prevs) = Len(ps) + 1 /\ f.prevs[Len(ps) + 1] = mask
      BY <1>3, <3>1, AppendProperties
    <3>3. Len(ps) \in 0 .. 1 /\ (Len(ps) = 1 => mask = 0)
      <4>1. Len(ps) < 2 /\ (Len(ps) = 1 => mask = 0)
        BY <2>1, <2>2 DEF ps
      <4>2. Len(ps) \in Nat
        BY <3>1
      <4>3. Len(ps) \in 0 .. 1
        <5> DEFINE n == Len(ps)
        <5>1. n \in Nat /\ n < 2
          BY <4>1, <4>2
        <5> HIDE DEF n
        <5>2. n = 0 \/ n = 1
          BY <5>1
        <5>3. QED
          BY <5>2 DEF n
      <4>4. QED
        BY <4>1, <4>3
    <3>4. QED
      BY <3>1, <3>2, <3>3 DEF MainFrame
  <2>4. FrameOK(f)
    <3> HIDE DEF mask, f
    <3>1. QED
      BY <1>4, <1>5, <1>7, <2>3 DEF FrameOK, NamesSource, InMain
  <2>5. InSection(f) => InSection(Top)
    <3> HIDE DEF mask, f
    <3>1. QED
      BY <1>3, <1>5, <2>1 DEF InSection
  <2>6. QED
    BY <1>1, <1>4, <2>4, <2>5, StepTop, SameData DEF DisableRead, IInv, registers, ledger, DataInv
<1>8. CASE At("lock") /\ ~InMain
  <2>1. system \in {"pic16", "pic18_locks"} /\ Top.prevs = <<>>
    BY <1>1, <1>8 DEF FrameOK, HandlerFrame, At, InMain
  <2>2. system = "pic16" => mask = 0
    <3>1. system = "pic16" => Top.kind = "high"
      BY <1>1, <1>8 DEF StackInv, OneVector, OneVectorSystems, InMain, Top
    <3>2. system = "pic16" => ~gie /\ ~giel
      BY <1>1, <3>1 DEF StackInv, OneVector, MastersFree, MasterFree, Top
    <3>3. QED
      BY <3>2
  <2>3. f.prevs = <<0>> \/ (f.prevs = <<1>> /\ system = "pic18_locks")
    <3> HIDE DEF f, mask
    <3>1. mask = 0 \/ mask = 1
      BY <1>3
    <3>2. Append(Top.prevs, mask) = <<mask>>
      BY <2>1
    <3>3. QED
      BY <1>5, <2>1, <2>2, <3>1, <3>2
  <2>4. FrameOK(f)
    <3> HIDE DEF mask, f
    <3>1. QED
      BY <1>4, <1>5, <1>8, <2>1, <2>3 DEF FrameOK, HandlerFrame, NamesSource, InMain, Pcs
  <2>5. ~InSection(f)
    <3> HIDE DEF mask, f
    <3>1. f.prevs = <<0>> \/ f.prevs = <<1>>
      BY <2>3
    <3>2. Len(f.prevs) = 1
      BY <3>1
    <3>3. QED
      BY <1>5, <3>2 DEF InSection
  <2>6. QED
    BY <1>1, <1>4, <1>8, <2>4, <2>5, StepTop, SameData DEF DisableRead, IInv, registers, ledger, DataInv
<1>9. QED
  BY <1>6, <1>7, <1>8

LEMMA DisableWriteStep == ASSUME IInv, DisableWrite PROVE IInv'
<1> DEFINE next == IF InMain THEN "idle" ELSE "locked"
           f == [Top EXCEPT !.pc = next, !.read = {}]
<1>1. /\ StackInv
      /\ Top \in Frames /\ FrameOK(Top) /\ Top.pc = "disable"
  BY StackTop DEF IInv, DisableWrite, At
<1>2. f \in Frames /\ f.kind = Top.kind /\ f.pc = next /\ f.prevs = Top.prevs
  BY <1>1 DEF Frames, Pcs
<1>3. FrameOK(f)
  <2>1. Top.prevs \in Seq(0 .. 1)
    BY <1>1, FrameFields
  <2> HIDE DEF f
  <2>2. QED
    BY <1>1, <1>2, <2>1 DEF FrameOK, MainFrame, HandlerFrame, NamesSource, InMain, Pcs
<1>4. StackInv'
  <2>1. Set(f) /\ gie' = FALSE /\ giel' = FALSE /\ system' = system
    BY DEF DisableWrite, ledger
  <2> HIDE DEF f
  <2>2. QED
    BY <1>1, <1>2, <1>3, <2>1, ReplaceTop
<1>5. DataInv'
  <2>1. Top.read \in SUBSET Sources
    BY <1>1, FrameFields
  <2>2. QED
    BY <2>1 DEF DisableWrite, ledger, IInv, DataInv, MainWaits
<1>6. QED
  BY <1>4, <1>5 DEF IInv

LEMMA RestoreStep == ASSUME IInv, Restore PROVE IInv'
<1> DEFINE m == Len(Top.prevs)
           prev == Top.prevs[m] # 0
           next == IF InMain THEN "idle" ELSE "scan"
           rest == SubSeq(Top.prevs, 1, m - 1)
           f == [Top EXCEPT !.pc = next, !.prevs = rest]
<1>1. /\ StackInv
      /\ Top \in Frames /\ FrameOK(Top)
      /\ InMain <=> Len(stack) = 1
      /\ DOMAIN stack = 1 .. Len(stack) /\ Len(stack) \in Nat \ {0}
  BY StackTop DEF IInv
<1>2. system \in AllSystems /\ (system = "pic16" => Family = "pic16")
  BY KnownSystems, IrqAssumption DEF IInv, DataInv
<1>3. /\ gie' = prev /\ giel' = (prev /\ Family = "pic18") /\ Set(f)
      /\ UNCHANGED <<flags, ideal, enabled, ledger>>
      /\ (InMain /\ At("idle") /\ Top.prevs # <<>>) \/ At("locked")
  BY DEF Restore, RestoreTo
<1>4. Top.prevs \in Seq(0 .. 1) /\ m \in Nat \ {0} /\ m = Len(Top.prevs)
  <2>1. Top.prevs \in Seq(0 .. 1)
    BY <1>1, FrameFields
  <2>2. Top.prevs # <<>>
    <3>1. CASE InMain /\ At("idle") /\ Top.prevs # <<>>
      BY <3>1
    <3>2. CASE At("locked")
      <4>1. Top.prevs = <<0>> \/ Top.prevs = <<1>>
        BY <1>1, <3>2 DEF FrameOK, MainFrame, HandlerFrame, At
      <4>2. QED
        BY <4>1
    <3>3. QED
      BY <1>3, <3>1, <3>2
  <2>3. QED
    BY <2>1, <2>2, EmptySeq
<1>5. /\ rest \in Seq(0 .. 1)
      /\ Len(rest) = m - 1
      /\ \A i \in 1 .. m - 1 : rest[i] = Top.prevs[i]
  BY <1>4
<1> HIDE DEF m, rest
<1>6. /\ f \in Frames /\ f.kind = Top.kind /\ f.pc = next
      /\ f.prevs = rest /\ f.src = Top.src
  BY <1>1, <1>5 DEF Frames, Pcs
<1>7. FrameOK(f) /\ (InSection(f) => ~prev) /\ (~InMain /\ system # "pic18_locks" => ~prev)
  <2>1. CASE InMain
    <3>1. m <= 2 /\ (m = 2 => Top.prevs[2] = 0) /\ next = "idle"
      BY <1>1, <1>4, <2>1 DEF FrameOK, MainFrame, InMain
    <3> HIDE DEF f
    <3>2. FrameOK(f)
      BY <1>4, <1>5, <1>6, <2>1, <3>1 DEF FrameOK, MainFrame, NamesSource, InMain
    <3>3. m = 1 => rest = <<>>
      BY <1>5, EmptySeq
    <3>4. InSection(f) => ~prev
      <4>1. InSection(f) => m # 1
        BY <1>6, <3>3 DEF InSection
      <4>2. m = 2 => ~prev
        BY <3>1
      <4>3. m = 1 \/ m = 2
        <5>1. m \in Nat \ {0}
          BY <1>4
        <5>2. m <= 2
          BY <3>1
        <5>3. QED
          BY <5>1, <5>2
      <4>4. QED
        BY <4>1, <4>2, <4>3
    <3>5. QED
      BY <2>1, <3>2, <3>4
  <2>2. CASE ~InMain
    <3>1. /\ Top.prevs = <<0>> \/ (Top.prevs = <<1>> /\ system = "pic18_locks")
          /\ next = "scan"
      BY <1>1, <1>3, <2>2 DEF FrameOK, HandlerFrame, InMain, At
    <3>2. m = 1
      <4>1. Len(Top.prevs) = 1
        BY <3>1
      <4>2. QED
        BY <1>4, <4>1
    <3>3. rest = <<>>
      BY <1>5, <3>2, EmptySeq
    <3>4. system # "pic18_locks" => ~prev
      BY <3>1, <3>2
    <3> HIDE DEF f, prev
    <3>5. FrameOK(f) /\ ~InSection(f)
      BY <1>6, <2>2, <3>1, <3>3 DEF FrameOK, HandlerFrame, NamesSource, InMain, Pcs, InSection
    <3>6. QED
      BY <2>2, <3>4, <3>5
  <2>3. QED
    BY <2>1, <2>2
<1>8. StackInv'
  <2>1. \A i \in DOMAIN stack : /\ gie' /\ system # "pic18_locks" => stack[i].kind # "high"
                                /\ giel' => stack[i].kind # "low"
    <3>1. CASE InMain
      BY <1>1, <3>1 DEF InMain, Top
    <3>2. CASE ~InMain /\ system # "pic18_locks"
      BY <1>3, <1>7, <3>2
    <3>3. CASE system = "pic18_locks"
      BY <1>1, <3>3 DEF StackInv, OneVector, OneVectorSystems
    <3>4. QED
      BY <3>1, <3>2, <3>3
  <2>2. system' = system /\ (system = "pic16" => ~giel') /\ (InSection(f) => ~gie' /\ ~giel')
    BY <1>2, <1>3, <1>7 DEF ledger
  <2> HIDE DEF f, prev
  <2>3. QED
    BY <1>1, <1>3, <1>6, <1>7, <2>1, <2>2, ReplaceTop
<1>9. DataInv'
  BY <1>3 DEF ledger, IInv, DataInv, MainWaits
<1>10. QED
  BY <1>8, <1>9 DEF IInv

\* The activation on top, as its steps need it.
LEMMA TopFacts ==
  ASSUME IInv
  PROVE  /\ StackInv /\ DataInv
         /\ Top \in Frames /\ FrameOK(Top)
         /\ InMain <=> Top.kind = "main"
         /\ InMain => Top = stack[1]
         /\ system \in AllSystems
         /\ MainWaits \subseteq Sources
  BY StackTop, KnownSystems, IrqAssumption DEF IInv, DataInv, InMain, Top

\* One flag: read, written back, or cleared by one instruction.
LEMMA ClearReadStep == ASSUME IInv, ClearRead PROVE IInv'
<1> DEFINE f == [Top EXCEPT !.pc = "clear_write", !.read = flags \cap Register(Top.src)]
<1>1. /\ Set(f) /\ Top.pc = "clear" /\ Family = "pic16"
      /\ UNCHANGED <<registers, ledger>>
  BY DEF ClearRead, At
<1>2. /\ f \in Frames /\ f.kind = Top.kind /\ f.pc = "clear_write"
      /\ f.prevs = Top.prevs /\ f.src = Top.src
  BY TopFacts DEF Frames, Pcs, DataInv
<1> HIDE DEF f
<1>3. FrameOK(f) /\ (InSection(f) => InSection(Top))
  BY <1>1, <1>2, TopFacts
     DEF FrameOK, MainFrame, HandlerFrame, NamesSource, InMain, InSection, Pcs
<1>4. StackInv'
  BY <1>1, <1>2, <1>3, StepTop, TopFacts DEF registers, ledger
<1>5. DataInv'
  BY <1>1, SameData, TopFacts DEF ledger, registers, DataInv
<1>6. QED
  BY <1>4, <1>5 DEF IInv

\* What a clear leaves: main goes on, a handler calls back.
LEMMA ClearedStep ==
  ASSUME IInv, Top.pc \in {"clear", "clear_write"}, Cleared(Top.src),
         flags' \subseteq Sources, UNCHANGED <<system, enabled, gie, giel, busy, events>>
  PROVE  IInv'
<1> DEFINE next == IF InMain THEN "idle" ELSE "callback"
           f == [Top EXCEPT !.pc = next, !.read = {}]
<1>1. Set(f) /\ next \in {"idle", "callback"} /\ (next = "idle" <=> InMain)
  BY DEF Cleared
<1>2. Top.src \in Sources
  BY TopFacts DEF FrameOK, NamesSource
<1>3. /\ f \in Frames /\ f.kind = Top.kind /\ f.pc = next
      /\ f.prevs = Top.prevs /\ f.src = Top.src
  BY TopFacts DEF Frames, Pcs
<1> HIDE DEF f, next
<1>4. FrameOK(f) /\ (InSection(f) => InSection(Top))
  BY <1>1, <1>2, <1>3, TopFacts
     DEF FrameOK, MainFrame, HandlerFrame, NamesSource, InMain, InSection, Pcs
<1>5. StackInv'
  BY <1>1, <1>3, <1>4, StepTop, TopFacts
<1>6. DataInv'
  <2>1. /\ credit' \in [Sources -> -1 .. MaxEvents]
        /\ \A s \in Sources : credit'[s] <= events
    BY <1>2, TopFacts, IrqAssumption DEF Cleared, Took, DataInv, IrqAssumption
  <2>2. ideal' \subseteq Sources
    BY TopFacts DEF Cleared, DataInv
  <2>3. QED
    BY <2>1, <2>2, TopFacts DEF DataInv, MainWaits
<1>7. QED
  BY <1>5, <1>6 DEF IInv

LEMMA ClearStep == ASSUME IInv, ClearWrite \/ ClearBit PROVE IInv'
<1>1. Top.read \in SUBSET Sources
  BY TopFacts, FrameFields
<1>2. flags' \subseteq Sources
  BY <1>1, TopFacts DEF ClearWrite, ClearBit, DataInv
<1>3. QED
  BY <1>2, ClearedStep DEF ClearWrite, ClearBit, At

\* Main picks a flag to clear, or starts an operation and polls.
LEMMA MainPicks ==
  ASSUME IInv, NEW s \in Sources, MainClears(s) \/ BeginWait(s) PROVE IInv'
<1>1. InMain /\ Top.pc = "idle" /\ system' = system /\ UNCHANGED registers
  BY DEF MainClears, BeginWait, At, ledger
<1>2. \E pc \in {"clear", "poll"} : Set([Top EXCEPT !.pc = pc, !.src = s])
  BY DEF MainClears, BeginWait
<1>3. PICK pc \in {"clear", "poll"} : Set([Top EXCEPT !.pc = pc, !.src = s])
  BY <1>2
<1> DEFINE g == [Top EXCEPT !.pc = pc, !.src = s]
<1>4. /\ g \in Frames /\ g.kind = Top.kind /\ g.pc = pc
      /\ g.prevs = Top.prevs /\ g.src = s
  BY TopFacts DEF Frames, Pcs
<1>5. Set(g)
  BY <1>3
<1> HIDE DEF g
<1>6. FrameOK(g) /\ (InSection(g) => InSection(Top))
  BY <1>1, <1>4, TopFacts DEF FrameOK, MainFrame, NamesSource, InMain, InSection
<1>7. StackInv'
  BY <1>1, <1>4, <1>5, <1>6, StepTop, TopFacts DEF registers
<1>8. DataInv'
  <2>1. UNCHANGED <<registers, system, credit, events>> /\ busy' \in MainWaits \cup {"none"}
    BY TopFacts DEF MainClears, BeginWait, ledger, DataInv
  <2>2. QED
    BY <2>1, SameData, TopFacts
<1>9. QED
  BY <1>7, <1>8 DEF IInv

\* Steps that only move the activation on top.
LEMMA GotoStep ==
  ASSUME IInv, NEW pc \in Pcs, Goto(pc), UNCHANGED <<registers, ledger>>,
         FrameOK([Top EXCEPT !.pc = pc]), pc # "disable", Top.pc # "disable"
  PROVE  IInv'
<1> DEFINE f == [Top EXCEPT !.pc = pc]
<1>1. f \in Frames /\ f.kind = Top.kind /\ f.pc = pc /\ f.prevs = Top.prevs
  BY TopFacts DEF Frames
<1>2. Set(f) /\ FrameOK(f)
  BY DEF Goto
<1> HIDE DEF f
<1>3. InSection(f) => InSection(Top)
  BY <1>1 DEF InSection
<1>4. StackInv'
  BY <1>1, <1>2, <1>3, StepTop, TopFacts DEF registers, ledger
<1>5. DataInv'
  BY SameData, TopFacts DEF ledger, registers, DataInv
<1>6. QED
  BY <1>4, <1>5 DEF IInv

LEMMA PollStep == ASSUME IInv, Poll PROVE IInv'
<1>1. /\ Top.pc = "poll" /\ Goto("clear") /\ "clear" \in Pcs
      /\ UNCHANGED <<registers, ledger>>
  BY DEF Poll, At, Pcs
<1>2. FrameOK([Top EXCEPT !.pc = "clear"])
  BY <1>1, TopFacts DEF Frames, FrameOK, MainFrame, HandlerFrame, NamesSource, Pcs
<1>3. QED
  BY <1>1, <1>2, GotoStep

LEMMA HandlerTestStep == ASSUME IInv, HandlerTest PROVE IInv'
<1>1. /\ Top.pc = "handler" /\ UNCHANGED <<registers, ledger>>
      /\ \E pc \in {"clear", "scan"} : Goto(pc)
  BY DEF HandlerTest, At
<1>2. PICK pc \in {"clear", "scan"} : Goto(pc)
  BY <1>1
<1>3. FrameOK([Top EXCEPT !.pc = pc])
  BY <1>1, TopFacts DEF Frames, FrameOK, MainFrame, HandlerFrame, NamesSource, Pcs
<1>4. QED
  BY <1>1, <1>2, <1>3, GotoStep DEF Pcs

LEMMA CallbackStep == ASSUME IInv, Callback PROVE IInv'
<1>1. /\ Top.pc = "callback" /\ credit' = Took(Top.src)
      /\ UNCHANGED <<registers, system, busy, events>>
      /\ \E pc \in {"lock", "scan"} : Goto(pc) /\ (pc = "lock" => Known[system].locks)
  BY DEF Callback, At
<1>2. PICK pc \in {"lock", "scan"} : Goto(pc) /\ (pc = "lock" => Known[system].locks)
  BY <1>1
<1> DEFINE f == [Top EXCEPT !.pc = pc]
<1>3. f \in Frames /\ f.kind = Top.kind /\ f.pc = pc /\ f.prevs = Top.prevs
  BY TopFacts DEF Frames, Pcs
<1>4. Top.src \in Sources /\ ~InMain
  BY <1>1, TopFacts DEF FrameOK, MainFrame, NamesSource
<1>5. pc = "lock" => system \in {"pic16", "pic18_locks"}
  BY <1>2, KnownSystems, IrqAssumption, TopFacts DEF DataInv
<1>6. Set(f)
  BY <1>2 DEF Goto
<1> HIDE DEF f
<1>7. FrameOK(f)
  <2>1. Top.prevs = <<>>
    BY <1>1, <1>4, TopFacts DEF FrameOK, HandlerFrame, InMain
  <2>2. QED
    BY <1>1, <1>3, <1>4, <1>5, <2>1, TopFacts DEF FrameOK, HandlerFrame, NamesSource, Pcs
<1>8. StackInv'
  <2>1. Top.prevs = <<>>
    BY <1>1, <1>4, TopFacts DEF FrameOK, HandlerFrame, InMain
  <2>2. ~InSection(f)
    BY <1>3, <2>1 DEF InSection
  <2>3. QED
    BY <1>1, <1>3, <1>6, <1>7, <2>2, StepTop, TopFacts DEF registers
<1>9. DataInv'
  <2>1. /\ credit' \in [Sources -> -1 .. MaxEvents]
        /\ \A s \in Sources : credit'[s] <= events
    BY <1>1, <1>4, TopFacts, IrqAssumption DEF Took, DataInv, IrqAssumption
  <2>2. QED
    BY <1>1, <2>1, TopFacts DEF registers, DataInv, MainWaits
<1>10. QED
  BY <1>8, <1>9 DEF IInv

LEMMA NextRowStep == ASSUME IInv, NextRow PROVE IInv'
<1> DEFINE row == Top.row + 1
           snap == IF FirstOfRegister(row) THEN flags \cap Register(Scan[row]) ELSE Top.snap
           pc == IF Scan[row] \in snap THEN "handler" ELSE "scan"
           f == [Top EXCEPT !.row = row, !.snap = snap, !.src = Scan[row], !.pc = pc]
<1>1. Top.pc = "scan" /\ Top.row < Len(Scan) /\ Set(f) /\ UNCHANGED <<registers, ledger>>
  BY DEF NextRow, At
<1>2. Top.row \in 0 .. Len(Scan) /\ Top.snap \in SUBSET Sources
  BY FrameFields, TopFacts
<1>3. row \in 1 .. Len(Scan) /\ Len(Scan) = 3
  BY <1>1, <1>2 DEF Scan
<1>4. Scan[row] \in Sources
  BY <1>3 DEF Scan, Sources
<1>5. snap \in SUBSET Sources /\ pc \in {"handler", "scan"}
  BY <1>2, TopFacts DEF DataInv
<1> HIDE DEF row, snap, pc
<1>6. /\ f \in Frames /\ f.kind = Top.kind /\ f.pc = pc
      /\ f.prevs = Top.prevs /\ f.src = Scan[row]
  <2>1. row \in 0 .. Len(Scan) /\ pc \in Pcs
    BY <1>3, <1>5 DEF Pcs
  <2>2. QED
    BY <1>4, <1>5, <2>1, TopFacts DEF Frames
<1>7. ~InMain
  BY <1>1, TopFacts DEF FrameOK, MainFrame
<1> HIDE DEF f
<1>8. FrameOK(f)
  <2>1. Top.prevs = <<>>
    BY <1>1, <1>7, TopFacts DEF FrameOK, HandlerFrame, InMain
  <2>2. QED
    BY <1>1, <1>4, <1>5, <1>6, <1>7, <2>1, TopFacts DEF FrameOK, HandlerFrame, NamesSource, Pcs
<1>9. StackInv'
  <2>1. Top.prevs = <<>>
    BY <1>1, <1>7, TopFacts DEF FrameOK, HandlerFrame, InMain
  <2>2. ~InSection(f)
    BY <1>6, <2>1 DEF InSection
  <2>3. QED
    BY <1>1, <1>6, <1>8, <2>2, StepTop, TopFacts DEF registers, ledger
<1>10. DataInv'
  BY <1>1, SameData, TopFacts DEF ledger, registers, DataInv
<1>11. QED
  BY <1>9, <1>10 DEF IInv

\* The vectors and the dispatch from main.  What they find on the stack is what
\* the master bits, or main being on top, tell.
LEMMA InterruptStep == ASSUME IInv, Interrupt \/ InterruptLow \/ CallDispatch PROVE IInv'
<1>1. PICK kind \in {"call", "low", "high"} :
        /\ Push(Frame(kind, "scan"))
        /\ kind = "high" => Interrupt
        /\ kind = "low" => InterruptLow
        /\ kind = "call" => CallDispatch
  BY DEF Interrupt, InterruptLow, CallDispatch
<1>2. /\ system' = system
      /\ UNCHANGED <<flags, ideal, enabled, credit, busy, events>>
      /\ gie' \in BOOLEAN /\ giel' \in BOOLEAN
      /\ gie' => gie /\ kind # "high"
      /\ giel' => giel /\ kind # "low"
  <2>1. gie \in BOOLEAN /\ giel \in BOOLEAN
    BY TopFacts DEF DataInv
  <2>2. CASE kind = "high"
    <3>1. gie' = FALSE /\ giel' = giel /\ UNCHANGED <<flags, ideal, enabled, ledger>>
      BY <1>1, <2>2 DEF Interrupt
    <3>2. QED
      BY <2>1, <2>2, <3>1 DEF ledger
  <2>3. CASE kind = "low"
    <3>1. giel' = FALSE /\ gie' = gie /\ UNCHANGED <<flags, ideal, enabled, ledger>>
      BY <1>1, <2>3 DEF InterruptLow
    <3>2. QED
      BY <2>1, <2>3, <3>1 DEF ledger
  <2>4. CASE kind = "call"
    BY <1>1, <2>1, <2>4 DEF CallDispatch, ledger, registers
  <2>5. QED
    BY <2>2, <2>3, <2>4
<1>3. \A i \in DOMAIN stack : stack[i].kind \in {"main", "call", "high", "low"}
  <2>1. stack \in Seq(Frames) /\ DOMAIN stack = 1 .. Len(stack)
    BY StackTop, TopFacts DEF StackInv
  <2>2. \A i \in DOMAIN stack : stack[i] \in Frames
    BY <2>1
  <2>3. QED
    BY <2>2, FrameFields
<1>4. system \in OneVectorSystems => kind = "high"
  BY <1>1, KnownSystems, IrqAssumption, TopFacts DEF InterruptLow, CallDispatch, Pending, DataInv
<1>5. \A i \in DOMAIN stack : MayNest(kind, stack[i].kind)
  <2>1. CASE kind = "high"
    BY <1>1, <1>3, <1>4, <2>1, TopFacts
       DEF Interrupt, StackInv, MastersFree, MasterFree, MayNest, MayRunAbove
  <2>2. CASE kind = "low"
    <3>1. system # "pic18_locks" /\ gie /\ giel
      BY <1>1, <1>4, <2>2 DEF OneVectorSystems, InterruptLow
    <3>2. QED
      BY <1>3, <2>2, <3>1, TopFacts DEF StackInv, MastersFree, MasterFree, MayNest, MayRunAbove
  <2>3. CASE kind = "call"
    <3>1. Len(stack) = 1 /\ DOMAIN stack = {1}
      BY <1>1, <2>3, StackTop, TopFacts DEF CallDispatch
    <3>2. QED
      BY <2>3, <3>1, TopFacts DEF StackInv, StackOrdered, MayNest, MayRunAbove
  <2>4. QED
    BY <2>1, <2>2, <2>3
<1>6. ~InSection(Top)
  <2>1. CASE kind \in {"high", "low"}
    BY <1>1, <2>1, StackTop, TopFacts DEF Interrupt, InterruptLow, StackInv, SectionClosed
  <2>2. CASE kind = "call"
    BY <1>1, <2>2, TopFacts DEF CallDispatch, InSection
  <2>3. QED
    BY <2>1, <2>2
<1>7. StackInv'
  BY <1>1, <1>2, <1>4, <1>5, <1>6, PushTop, TopFacts
<1>8. DataInv'
  BY <1>2, TopFacts DEF DataInv, MainWaits
<1>9. QED
  BY <1>7, <1>8 DEF IInv

LEMMA ReturnStep == ASSUME IInv, Return PROVE IInv'
<1>1. StackInv'
  BY PopTop, TopFacts DEF DataInv
<1>2. DataInv'
  BY TopFacts DEF Return, ledger, DataInv, MainWaits
<1>3. QED
  BY <1>1, <1>2 DEF IInv

LEMMA NextIInv == IInv /\ [Next]_vars => IInv'
<1> SUFFICES ASSUME IInv, [Next]_vars PROVE IInv'
  OBVIOUS
<1>1. CASE \E s \in Sources : Raise(s)
  BY <1>1, RaiseStep
<1>2. CASE MainStep
  BY <1>2, SourceStep, MainPicks, PollStep, InterruptStep DEF MainStep
<1>3. CASE Critical
  BY <1>3, DisableReadStep, DisableWriteStep, RestoreStep DEF Critical
<1>4. CASE Clear
  BY <1>4, ClearReadStep, ClearStep DEF Clear
<1>5. CASE Dispatch
  BY <1>5, NextRowStep, HandlerTestStep, CallbackStep, ReturnStep DEF Dispatch
<1>6. CASE Interrupt \/ InterruptLow
  BY <1>6, InterruptStep
<1>7. CASE UNCHANGED vars
  <2>1. StackInv'
    BY <1>7, SameStack, TopFacts DEF vars
  <2>2. DataInv'
    BY <1>7, TopFacts DEF vars, DataInv, MainWaits
  <2>3. QED
    BY <2>1, <2>2 DEF IInv
<1>8. QED
  BY <1>1, <1>2, <1>3, <1>4, <1>5, <1>6, <1>7 DEF Next

LEMMA Invariance == Spec => []IInv
<1>1. QED
  BY InitIInv, NextIInv, PTL DEF Spec
-----------------------------------------------------------------------------
\* The registers, the activations and the counts stay within their types.
THEOREM Types == Spec => []TypeOK
<1>1. IInv => TypeOK
  BY DEF IInv, DataInv, StackInv, TypeOK
<1>2. QED
  BY <1>1, Invariance, PTL

\* Nothing runs above an activation inside a section, a handler's section
\* included; and where no PIC18 callback takes EPIC_IRQ_Disable and Restore, no
\* vector is entered again while it runs, whatever the peripherals do.
THEOREM Exclusion == Spec => []LockedOut
<1>1. IInv => SectionExcludes
  BY DEF IInv, StackInv, SectionClosed, SectionExcludes
<1>2. IInv => RestoresInHandler \/ VectorsNotReentered
  <2> SUFFICES ASSUME IInv, ~RestoresInHandler PROVE VectorsNotReentered
    OBVIOUS
  <2>1. system # "pic18_locks"
    BY KnownSystems, IrqAssumption, TopFacts DEF DataInv
  <2>2. QED
    BY <2>1 DEF IInv, StackInv, StackOrdered, MayNest, MayRunAbove, VectorsNotReentered
<1>3. QED
  BY <1>1, <1>2, Invariance, PTL DEF LockedOut
-----------------------------------------------------------------------------
LEMMA SystemKept == IInv /\ [Next]_vars => system' = system
  BY DEF Next, Raise, MainStep, EnableSrc, DisableSrc, MainClears, BeginWait, Poll, CallDispatch,
     Critical, DisableRead, DisableWrite, Restore, RestoreTo, Clear, ClearRead, ClearWrite,
     ClearBit, Dispatch, NextRow, HandlerTest, Callback, Return, Interrupt, InterruptLow,
     ledger, vars

\* On PIC18, one instruction for each bit (the assumption of Irq), no access
\* writes a flag back: the flags are those of the ideal controller.
Pic18FlagsExact == Family = "pic18" => flags = ideal

LEMMA FlagsStep == IInv /\ Pic18FlagsExact /\ [Next]_vars => Pic18FlagsExact'
<1> SUFFICES ASSUME IInv, Pic18FlagsExact, [Next]_vars, Family' = "pic18"
             PROVE  flags' = ideal'
  BY DEF Pic18FlagsExact
<1>1. Family = "pic18" /\ flags = ideal
  BY SystemKept DEF Family, Pic18FlagsExact
<1>2. CASE \E s \in Sources : Raise(s)
  BY <1>1, <1>2 DEF Raise
<1>3. CASE MainStep
  BY <1>1, <1>3 DEF MainStep, EnableSrc, DisableSrc, MainClears, BeginWait, Poll, CallDispatch,
     registers
<1>4. CASE Critical
  BY <1>1, <1>4 DEF Critical, DisableRead, DisableWrite, Restore, RestoreTo, registers
<1>5. CASE Clear
  <2>1. ~ClearWrite
    BY <1>1, TopFacts DEF ClearWrite, At, FrameOK
  <2>2. QED
    BY <1>1, <1>5, <2>1 DEF Clear, ClearRead, ClearBit, Cleared
<1>6. CASE Dispatch \/ Interrupt \/ InterruptLow \/ UNCHANGED vars
  BY <1>1, <1>6 DEF Dispatch, NextRow, HandlerTest, Callback, Return, Interrupt, InterruptLow,
     registers, vars
<1>7. QED
  BY <1>2, <1>3, <1>4, <1>5, <1>6 DEF Next

LEMMA FlagsExact == Spec => []Pic18FlagsExact
<1>1. Init => Pic18FlagsExact
  BY DEF Init, Pic18FlagsExact
<1>2. QED
  BY <1>1, FlagsStep, Invariance, PTL DEF Spec
-----------------------------------------------------------------------------
\* With one vector, the activation on top is main or the one handler.  A source
\* is owed an event for its flag, and one more for a handler that has cleared
\* the flag and is about to call back; a handler clears only a flag that is up.
Calling(s) == Top.pc = "callback" /\ Top.src = s
Covered(s) == credit[s] >= (IF s \in ideal THEN 1 ELSE 0) + (IF Calling(s) THEN 1 ELSE 0)
Answered ==
  system = "pic18" =>
    /\ \A s \in Sources : Covered(s)
    /\ Top.pc = "clear" /\ ~InMain => Top.src \in ideal

\* The record a step puts on top is the one found there.
LEMMA SetTop == ASSUME IInv, NEW f, Set(f) PROVE Top' = f
<1> DEFINE n == Len(stack)
           S == Frames \cup {f}
<1>1. stack \in Seq(S) /\ f \in S /\ n \in 1 .. Len(stack)
  BY StackTop, TopFacts DEF StackInv
<1>2. stack' = [stack EXCEPT ![n] = f]
  BY DEF Set
<1> HIDE DEF n, S
<1>3. Len(stack') = Len(stack) /\ stack'[n] = IF n = n THEN f ELSE stack[n]
  BY <1>1, <1>2, ExceptSeq
<1>4. QED
  BY <1>3 DEF Top, n

\* A step that takes no event and does not arrive at a callback.
LEMMA QuietStep ==
  ASSUME IInv, Answered, UNCHANGED <<system, ideal, credit>>,
         system = "pic18" => /\ Top'.pc # "callback"
                             /\ Top'.pc = "clear" => Top'.kind = "main" \/ Top'.src \in ideal
  PROVE  Answered'
<1>1. ASSUME system = "pic18", NEW s \in Sources PROVE Covered(s)'
  BY <1>1, TopFacts DEF Answered, Covered, Calling, DataInv
<1>2. QED
  BY <1>1 DEF Answered, InMain

\* The same, when the step leaves the activations alone.
LEMMA StackQuiet ==
  ASSUME IInv, Answered, UNCHANGED <<system, ideal, credit, stack>>
  PROVE  Answered'
  BY DEF Answered, Covered, Calling, Top, InMain

LEMMA RaiseAnswered == ASSUME IInv, Answered, NEW r \in Sources, Raise(r) PROVE Answered'
<1>1. /\ system' = system /\ ideal' = ideal \cup {r} /\ Top' = Top
      /\ credit' = [credit EXCEPT ![r] = IF r \in ideal THEN credit[r] ELSE credit[r] + 1]
  BY DEF Raise, Top
<1>2. ASSUME system = "pic18", NEW s \in Sources PROVE Covered(s)'
  <2>1. credit \in [Sources -> -1 .. MaxEvents] /\ Covered(s)
    BY <1>2, TopFacts DEF Answered, DataInv
  <2>2. Calling(s)' = Calling(s)
    BY <1>1 DEF Calling
  <2>3. credit'[s] = IF s = r /\ s \notin ideal THEN credit[s] + 1 ELSE credit[s]
    BY <1>1, <2>1
  <2>4. QED
    BY <1>1, <2>1, <2>2, <2>3, IrqAssumption DEF Covered, IrqAssumption
<1>3. QED
  BY <1>1, <1>2 DEF Answered, InMain

LEMMA MainAnswered == ASSUME IInv, Answered, MainStep PROVE Answered'
<1>1. UNCHANGED <<system, ideal, credit>>
  BY DEF MainStep, EnableSrc, DisableSrc, MainClears, BeginWait, Poll, CallDispatch, registers,
     ledger
<1>2. CASE \E s \in Sources : EnableSrc(s) \/ DisableSrc(s)
  BY <1>1, <1>2, StackQuiet DEF EnableSrc, DisableSrc
<1>3. CASE \E s \in Sources : MainClears(s) \/ BeginWait(s)
  <2>1. PICK s \in Sources, pc \in {"clear", "poll"} :
          InMain /\ Set([Top EXCEPT !.pc = pc, !.src = s])
    BY <1>3 DEF MainClears, BeginWait
  <2>2. Top' = [Top EXCEPT !.pc = pc, !.src = s]
    BY <2>1, SetTop
  <2>3. Top'.pc = pc /\ Top'.kind = "main"
    BY <2>1, <2>2, TopFacts DEF Frames
  <2>4. QED
    BY <1>1, <2>3, QuietStep
<1>4. CASE Poll
  <2>1. Top.pc = "poll" /\ Set([Top EXCEPT !.pc = "clear"])
    BY <1>4 DEF Poll, At, Goto
  <2>2. Top' = [Top EXCEPT !.pc = "clear"]
    BY <2>1, SetTop
  <2>3. Top.kind = "main"
    BY <2>1, TopFacts DEF FrameOK, HandlerFrame
  <2>4. Top'.pc = "clear" /\ Top'.kind = "main"
    BY <2>2, <2>3, TopFacts DEF Frames
  <2>5. QED
    BY <1>1, <2>4, QuietStep
<1>5. CASE CallDispatch
  <2>1. system # "pic18"
    BY <1>5, KnownSystems, IrqAssumption, TopFacts DEF CallDispatch, DataInv, OneVectorSystems
  <2>2. QED
    BY <1>1, <2>1 DEF Answered
<1>6. QED
  BY <1>2, <1>3, <1>4, <1>5 DEF MainStep

LEMMA CriticalAnswered == ASSUME IInv, Answered, Critical PROVE Answered'
<1>1. UNCHANGED <<system, ideal, credit>>
  BY DEF Critical, DisableRead, DisableWrite, Restore, RestoreTo, registers, ledger
<1>2. Top'.pc \in {"disable", "idle", "locked", "scan"}
  <2>1. CASE DisableRead
    <3> DEFINE f == [Top EXCEPT !.pc = "disable", !.read = flags \cap Intcon,
                       !.prevs = Append(@, IF gie \/ giel THEN 1 ELSE 0)]
    <3>1. Set(f)
      BY <2>1 DEF DisableRead
    <3>2. f.pc = "disable"
      BY TopFacts DEF Frames
    <3> HIDE DEF f
    <3>3. QED
      BY <3>1, <3>2, SetTop
  <2>2. CASE DisableWrite
    <3> DEFINE f == [Top EXCEPT !.pc = IF InMain THEN "idle" ELSE "locked", !.read = {}]
    <3>1. Set(f)
      BY <2>2 DEF DisableWrite
    <3>2. f.pc \in {"idle", "locked"}
      BY TopFacts DEF Frames
    <3> HIDE DEF f
    <3>3. QED
      BY <3>1, <3>2, SetTop
  <2>3. CASE Restore
    <3> DEFINE f == [Top EXCEPT !.pc = IF InMain THEN "idle" ELSE "scan",
                       !.prevs = SubSeq(@, 1, Len(@) - 1)]
    <3>1. Set(f)
      BY <2>3 DEF Restore, RestoreTo
    <3>2. f.pc \in {"idle", "scan"}
      BY TopFacts DEF Frames
    <3> HIDE DEF f
    <3>3. QED
      BY <3>1, <3>2, SetTop
  <2>4. QED
    BY <2>1, <2>2, <2>3 DEF Critical
<1>3. QED
  BY <1>1, <1>2, QuietStep

\* A clear by main takes the event of the flag; a clear by the handler turns
\* the flag into a call that is owed.
LEMMA ClearAnswered == ASSUME IInv, Answered, Clear PROVE Answered'
<1> SUFFICES ASSUME system = "pic18" PROVE Answered'
  BY SystemKept DEF Answered, Next
<1>1. Family = "pic18"
  BY KnownSystems, IrqAssumption, TopFacts DEF DataInv
<1>2. ClearBit
  BY <1>1, TopFacts DEF Clear, ClearRead, ClearWrite, At, FrameOK
<1> DEFINE r == Top.src
           f == [Top EXCEPT !.pc = IF InMain THEN "idle" ELSE "callback", !.read = {}]
<1>3. /\ Top.pc = "clear" /\ system' = system /\ ideal' = ideal \ {r} /\ Set(f)
      /\ credit' = IF InMain /\ r \in ideal THEN Took(r) ELSE credit
  BY <1>2 DEF ClearBit, Cleared, At
<1>4. f.pc = (IF InMain THEN "idle" ELSE "callback") /\ f.src = r
  BY TopFacts DEF Frames
<1>5. r \in Sources /\ (~InMain => r \in ideal)
  BY <1>3, TopFacts DEF FrameOK, NamesSource, Answered
<1>6. Top' = f
  BY <1>3, SetTop
<1> HIDE DEF f, r
<1>7. ASSUME NEW s \in Sources PROVE Covered(s)'
  <2>1. credit \in [Sources -> -1 .. MaxEvents] /\ Covered(s)
    BY TopFacts DEF Answered, DataInv
  <2>2. ~Calling(s)
    BY <1>3 DEF Calling
  <2>3. credit[s] \in Int /\ credit[s] >= IF s \in ideal THEN 1 ELSE 0
    BY <2>1, <2>2, IrqAssumption DEF Covered, IrqAssumption
  <2>4. CASE InMain
    <3>1. ~(Calling(s)')
      BY <1>4, <1>6, <2>4 DEF Calling
    <3>2. credit'[s] = IF s = r /\ s \in ideal THEN credit[s] - 1 ELSE credit[s]
      BY <1>3, <1>5, <2>1, <2>3, <2>4 DEF Took
    <3>3. QED
      BY <1>3, <2>3, <3>1, <3>2 DEF Covered
  <2>5. CASE ~InMain
    <3>1. Calling(s)' <=> s = r
      BY <1>4, <1>6, <2>5 DEF Calling
    <3>2. credit'[s] = credit[s]
      BY <1>3, <2>5
    <3>3. QED
      BY <1>3, <1>5, <2>3, <2>5, <3>1, <3>2 DEF Covered
  <2>6. QED
    BY <2>4, <2>5
<1>8. QED
  BY <1>4, <1>6, <1>7 DEF Answered

\* The callback takes the event its handler cleared.
LEMMA CallbackAnswered == ASSUME IInv, Answered, Callback PROVE Answered'
<1> SUFFICES ASSUME system = "pic18" PROVE Answered'
  BY SystemKept DEF Answered, Next, Dispatch
<1> DEFINE r == Top.src
<1>1. /\ Top.pc = "callback" /\ UNCHANGED <<system, ideal>> /\ credit' = Took(r)
      /\ \E pc \in {"lock", "scan"} : Set([Top EXCEPT !.pc = pc])
  BY DEF Callback, At, registers, Goto
<1>2. PICK pc \in {"lock", "scan"} : Set([Top EXCEPT !.pc = pc])
  BY <1>1
<1>3. Top'.pc = pc
  <2>1. Top' = [Top EXCEPT !.pc = pc]
    BY <1>2, SetTop
  <2>2. QED
    BY <2>1, TopFacts DEF Frames
<1>4. r \in Sources
  BY <1>1, TopFacts DEF FrameOK, NamesSource
<1>5. Calling(r) /\ \A s \in Sources : s # r => ~Calling(s)
  BY <1>1 DEF Calling
<1> HIDE DEF r
<1>6. ASSUME NEW s \in Sources PROVE Covered(s)'
  <2>1. credit \in [Sources -> -1 .. MaxEvents] /\ Covered(s) /\ ~(Calling(s)')
    BY <1>3, TopFacts DEF Answered, DataInv, Calling
  <2>2. credit[s] \in Int
    BY <2>1, IrqAssumption DEF IrqAssumption
  <2>3. s = r => credit[s] >= (IF s \in ideal THEN 1 ELSE 0) + 1
    BY <1>5, <2>1 DEF Covered
  <2>4. s # r => credit[s] >= (IF s \in ideal THEN 1 ELSE 0)
    BY <1>5, <2>1, <2>2 DEF Covered
  <2>5. credit'[s] = IF s = r THEN credit[s] - 1 ELSE credit[s]
    BY <1>1, <2>1, <2>2, <2>3 DEF Took
  <2>6. QED
    BY <1>1, <2>1, <2>2, <2>3, <2>4, <2>5 DEF Covered
<1>7. QED
  BY <1>3, <1>6 DEF Answered

LEMMA DispatchAnswered ==
  ASSUME IInv, Answered, Pic18FlagsExact, Dispatch PROVE Answered'
<1>1. CASE NextRow
  <2> DEFINE row == Top.row + 1
             snap == IF FirstOfRegister(row) THEN flags \cap Register(Scan[row]) ELSE Top.snap
             f == [Top EXCEPT !.row = row, !.snap = snap, !.src = Scan[row],
                              !.pc = IF Scan[row] \in snap THEN "handler" ELSE "scan"]
  <2>1. Set(f) /\ UNCHANGED <<system, ideal, credit>>
    BY <1>1 DEF NextRow, registers, ledger
  <2> HIDE DEF row, snap
  <2>2. f.pc \in {"handler", "scan"}
    BY TopFacts DEF Frames
  <2> HIDE DEF f
  <2>3. QED
    BY <2>1, <2>2, SetTop, QuietStep
<1>2. CASE HandlerTest
  <2>1. PICK pc \in {"clear", "scan"} :
          Set([Top EXCEPT !.pc = pc]) /\ (pc = "clear" => Top.src \in flags)
    BY <1>2 DEF HandlerTest, Goto
  <2>2. UNCHANGED <<system, ideal, credit>>
    BY <1>2 DEF HandlerTest, registers, ledger
  <2>3. Top' = [Top EXCEPT !.pc = pc]
    BY <2>1, SetTop
  <2>4. Top'.pc = pc /\ Top'.src = Top.src
    BY <2>3, TopFacts DEF Frames
  <2>5. system = "pic18" => flags = ideal
    BY KnownSystems, IrqAssumption, TopFacts DEF Pic18FlagsExact, DataInv
  <2>6. QED
    BY <2>1, <2>2, <2>4, <2>5, QuietStep
<1>3. CASE Callback
  BY <1>3, CallbackAnswered
<1>4. CASE Return
  <2>1. UNCHANGED <<system, ideal, credit>>
    BY <1>4 DEF Return, ledger
  <2>2. /\ Len(stack') = Len(stack) - 1 /\ Len(stack) > 1
        /\ \A i \in 1 .. Len(stack) - 1 : stack'[i] = stack[i]
    BY <1>4, PopTop, TopFacts DEF DataInv
  <2> DEFINE n == Len(stack)
  <2>3. n \in Nat \ {0} /\ DOMAIN stack = 1 .. n /\ Top = stack[n]
    BY StackTop, TopFacts
  <2>4. Top' = stack[n - 1]
    BY <2>2, <2>3 DEF Top
  <2>5. n - 1 \in DOMAIN stack /\ n \in DOMAIN stack /\ n - 1 < n
    BY <2>2, <2>3
  <2> HIDE DEF n
  <2>6. system = "pic18" => stack[n - 1].kind = "main"
    BY <2>5, TopFacts DEF StackInv, StackOrdered, OneVector, OneVectorSystems, MayNest, MayRunAbove
  <2>7. FrameOK(stack[n - 1])
    BY <2>5, TopFacts DEF StackInv
  <2>8. system = "pic18" => Top'.pc # "callback" /\ Top'.kind = "main"
    BY <2>4, <2>6, <2>7 DEF FrameOK, MainFrame
  <2>9. QED
    BY <2>1, <2>8, QuietStep
<1>5. QED
  BY <1>1, <1>2, <1>3, <1>4 DEF Dispatch

LEMMA InterruptAnswered ==
  ASSUME IInv, Answered, Interrupt \/ InterruptLow PROVE Answered'
<1>1. UNCHANGED <<system, ideal, credit>>
  BY DEF Interrupt, InterruptLow, ledger
<1>2. PICK kind \in {"high", "low"} : stack' = Append(stack, Frame(kind, "scan"))
  BY DEF Interrupt, InterruptLow, Push
<1> DEFINE f == Frame(kind, "scan")
           S == Frames \cup {f}
<1>3. f.pc = "scan"
  BY DEF Frame
<1>4. stack \in Seq(S) /\ f \in S
  BY TopFacts DEF StackInv
<1> HIDE DEF f, S
<1>5. stack' = Append(stack, f)
  BY <1>2 DEF f
<1>6. Top' = f
  BY <1>4, <1>5, AppendProperties DEF Top
<1>7. QED
  BY <1>1, <1>3, <1>6, QuietStep

\* PIC18 with one priority and no dispatch from main: every call of a callback
\* answers an event of its source that no other call, and no clear by main, has
\* taken.
THEOREM CallbacksAnswerEvents == Spec => []OneCallbackPerEvent
<1> DEFINE J == IInv /\ Pic18FlagsExact /\ Answered
<1>1. Init => Answered
  <2> SUFFICES ASSUME Init PROVE Answered
    OBVIOUS
  <2>1. Top = Frame("main", "idle")
    BY DEF Init, Top
  <2>2. Top.pc = "idle"
    BY <2>1 DEF Frame
  <2>3. QED
    BY <2>2 DEF Init, Answered, Covered, Calling
<1>2. J /\ [Next]_vars => Answered'
  <2> SUFFICES ASSUME J, [Next]_vars PROVE Answered'
    OBVIOUS
  <2>1. CASE UNCHANGED vars
    BY <2>1, StackQuiet DEF vars
  <2>2. CASE Next
    BY <2>2, RaiseAnswered, MainAnswered, CriticalAnswered, ClearAnswered, DispatchAnswered,
       InterruptAnswered DEF Next
  <2>3. QED
    BY <2>1, <2>2
<1>3. J => OneCallbackPerEvent
  <2>1. ASSUME J, system = "pic18", NEW s \in Sources PROVE credit[s] >= 0
    <3>1. Covered(s) /\ credit[s] \in Int
      BY <2>1, TopFacts, IrqAssumption DEF Answered, DataInv, IrqAssumption
    <3>2. QED
      BY <3>1 DEF Covered
  <2>2. QED
    BY <2>1 DEF OneCallbackPerEvent, CallbacksAnswer
<1>4. QED
  BY <1>1, <1>2, <1>3, Invariance, FlagsExact, PTL DEF Spec
=============================================================================
