---------------------------------- MODULE Irq ----------------------------------
(***************************************************************************)
(* The interrupt controllers of the three HALs (src/core/*_irq.c), the     *)
(* dispatcher and the vectors, one register access per step.               *)
(*                                                                         *)
(* On PIC16F87XA and PIC16F193X an EPIC_IRQ_* call reads a register into a *)
(* C variable and writes the variable back later.  On PIC18 the macros     *)
(* SFR_SET_BIT and SFR_CLR_BIT (pic18_irq.c:18) are a read and a write     *)
(* too, of one register with a constant mask of one bit; that the compiler *)
(* makes them one BSF or BCF is an assumption of this module, which the    *)
(* repository does not settle (its output is not there).  The peripherals  *)
(* raise flags between any two steps.                                      *)
(***************************************************************************)
EXTENDS Integers, Sequences

CONSTANTS Systems,        \* the systems checked
          MaxEvents       \* bound: events the peripherals raise

\* Three of the dispatcher's rows, in its order: one of INTCON, two of PIR1.
Scan == <<"TMR0", "TMR2", "SSP">>
Sources == {"TMR0", "TMR2", "SSP"}
Register(s) == IF s = "TMR0" THEN {"TMR0"} ELSE {"TMR2", "SSP"}
Intcon == Register("TMR0")

\* What a system is: its family; whether its callbacks use Disable/Restore as
\* epic-serial's do (pic18_locks is the PIC18 with epic-serial); the sources
\* given EPIC_IRQ_PRIORITY_LOW; whether main calls epic_dispatch_all_irqs; the
\* sources main polls with their interrupt off.
Known == [
  pic16      |-> [family |-> "pic16", locks |-> TRUE,  low |-> {}, dispatches |-> FALSE, waits |-> {}],
  pic18      |-> [family |-> "pic18", locks |-> FALSE, low |-> {}, dispatches |-> FALSE, waits |-> {}],
  pic18_locks |-> [family |-> "pic18", locks |-> TRUE, low |-> {}, dispatches |-> FALSE, waits |-> {}],
  pic18_low  |-> [family |-> "pic18", locks |-> FALSE, low |-> {"SSP"}, dispatches |-> FALSE, waits |-> {}],
  pic18_poll |-> [family |-> "pic18", locks |-> FALSE, low |-> {"SSP"}, dispatches |-> TRUE, waits |-> {"TMR2"}]]

ASSUME IrqAssumption == Systems \subseteq DOMAIN Known /\ MaxEvents \in Nat

VARIABLES system,  \* the system at hand
          flags,   \* interrupt flags set in INTCON and PIRx
          ideal,   \* the flags a controller that clears one flag at a time holds
          enabled, \* sources whose enable bit is set
          gie,     \* GIE, or GIEH
          giel,    \* GIEL (PIC18)
          stack,   \* activations, main first
          credit,  \* per source: events not yet handed to a callback or to main
          busy,    \* the operation main waits for, until its flag is raised
          events   \* events raised so far

vars == <<system, flags, ideal, enabled, gie, giel, stack, credit, busy, events>>
ledger == <<system, credit, busy, events>>
registers == <<flags, ideal, enabled, gie, giel>>

Family == Known[system].family
LowPriority == Known[system].low
MainWaits == Known[system].waits

\* A callback that takes EPIC_IRQ_Disable and Restore on PIC18: in a handler of
\* the high vector GIEH is clear and GIEL still set, so Disable returns 1 and
\* Restore sets GIEH.
RestoresInHandler == Family = "pic18" /\ Known[system].locks

\* One event less; -1, "a call without an event", is kept as it is (bound).
Took(s) == [credit EXCEPT ![s] = IF @ < 0 THEN @ ELSE @ - 1]

Frame(kind, pc) ==
  [kind |-> kind, pc |-> pc, row |-> 0, snap |-> {}, src |-> "none", read |-> {}, prevs |-> <<>>]
Top == stack[Len(stack)]
At(pc) == Top.pc = pc
Set(frame) == stack' = [stack EXCEPT ![Len(stack)] = frame]
Goto(pc) == Set([Top EXCEPT !.pc = pc])
Push(frame) == stack' = Append(stack, frame)
InMain == Top.kind = "main"

\* The state main leaves behind after init: sources on except those it polls.
Init ==
  /\ system \in Systems
  /\ flags = {} /\ ideal = {}
  /\ enabled = Sources \ MainWaits
  /\ gie = TRUE /\ giel = (Family = "pic18")
  /\ stack = <<Frame("main", "idle")>>
  /\ credit = [s \in Sources |-> 0] /\ busy = "none" /\ events = 0

\* A peripheral raises its flag; the polled ones when their operation completes.
Raise(s) ==
  /\ events < MaxEvents
  /\ IF s \in MainWaits THEN busy = s ELSE busy = "none" \/ events + 1 < MaxEvents
  /\ busy' = IF s = busy THEN "none" ELSE busy
  /\ events' = events + 1
  /\ flags' = flags \cup {s} /\ ideal' = ideal \cup {s}
  /\ credit' = [credit EXCEPT ![s] = IF s \in ideal THEN @ ELSE @ + 1]
  /\ UNCHANGED <<system, enabled, gie, giel, stack>>
-----------------------------------------------------------------------------
\* Faulty variants, named in PROJECT.json, stand before what they replace.

\* EPIC_IRQ_Disable, part 1: read INTCON.
DisableRead ==
  /\ (InMain /\ At("idle") /\ Len(Top.prevs) < 2) \/ At("lock")
  /\ Set([Top EXCEPT !.pc = "disable", !.read = flags \cap Intcon,
                     !.prevs = Append(@, IF gie \/ giel THEN 1 ELSE 0)])
  /\ UNCHANGED <<registers, ledger>>

\* Part 2: write it back with the master bits clear.
DisableWrite ==
  /\ At("disable")
  /\ gie' = FALSE /\ giel' = FALSE
  /\ flags' = IF Family = "pic16" THEN (flags \ Intcon) \cup Top.read ELSE flags
  /\ Set([Top EXCEPT !.pc = IF InMain THEN "idle" ELSE "locked", !.read = {}])
  /\ UNCHANGED <<ideal, enabled, ledger>>

RestoreTo(high, low) ==
  /\ (InMain /\ At("idle") /\ Top.prevs # <<>>) \/ At("locked")
  /\ gie' = high /\ giel' = low
  /\ Set([Top EXCEPT !.pc = IF InMain THEN "idle" ELSE "scan",
                     !.prevs = SubSeq(@, 1, Len(@) - 1)])
  /\ UNCHANGED <<flags, ideal, enabled, ledger>>

\* Faulty: always enables.
RestoreEnables == RestoreTo(TRUE, Family = "pic18")

\* Faulty: sets the low master alone.
RestoreLowOnly == RestoreTo(FALSE, Family = "pic18")

\* EPIC_IRQ_Restore(prev): both master bits on PIC18.
Restore ==
  LET prev == Top.prevs[Len(Top.prevs)] # 0
  IN RestoreTo(prev, prev /\ Family = "pic18")

EnableSrc(s) ==
  /\ InMain /\ At("idle") /\ s \notin MainWaits \cup enabled
  /\ enabled' = enabled \cup {s}
  /\ UNCHANGED <<flags, ideal, gie, giel, stack, ledger>>

DisableSrc(s) ==
  /\ InMain /\ At("idle") /\ s \in enabled
  /\ enabled' = enabled \ {s}
  /\ UNCHANGED <<flags, ideal, gie, giel, stack, ledger>>

\* A clear by main takes the event; one by a handler owes a callback.
Cleared(s) ==
  /\ ideal' = ideal \ {s}
  /\ credit' = IF InMain /\ s \in ideal THEN Took(s) ELSE credit
  /\ Set([Top EXCEPT !.pc = IF InMain THEN "idle" ELSE "callback", !.read = {}])

\* EPIC_IRQ_ClearFlag, part 1: read the PIR register into v.
ClearRead ==
  /\ At("clear") /\ Family = "pic16" /\ Top.src \notin Intcon
  /\ Set([Top EXCEPT !.pc = "clear_write", !.read = flags \cap Register(Top.src)])
  /\ UNCHANGED <<registers, ledger>>

\* Part 2: write v back with the bit clear.
ClearWrite ==
  /\ At("clear_write")
  /\ flags' = (flags \ Register(Top.src)) \cup (Top.read \ {Top.src})
  /\ Cleared(Top.src)
  /\ UNCHANGED <<system, enabled, gie, giel, busy, events>>

\* Faulty: clears the whole register.
ClearRegister ==
  /\ At("clear") /\ (Family = "pic18" \/ Top.src \in Intcon)
  /\ flags' = flags \ Register(Top.src)
  /\ Cleared(Top.src)
  /\ UNCHANGED <<system, enabled, gie, giel, busy, events>>

\* An INTCON flag, and every flag on PIC18, is cleared by one instruction.
ClearBit ==
  /\ At("clear") /\ (Family = "pic18" \/ Top.src \in Intcon)
  /\ flags' = flags \ {Top.src}
  /\ Cleared(Top.src)
  /\ UNCHANGED <<system, enabled, gie, giel, busy, events>>

\* Main clears a flag, as the drivers' Init functions do.
MainClears(s) ==
  /\ InMain /\ At("idle") /\ s \notin MainWaits
  /\ Set([Top EXCEPT !.pc = "clear", !.src = s])
  /\ UNCHANGED <<registers, ledger>>

\* Main starts an operation and polls for its flag, as epic-bus does.
BeginWait(s) ==
  /\ InMain /\ At("idle") /\ s \in MainWaits /\ Top.prevs = <<>>
  /\ events < MaxEvents
  /\ busy' = s
  /\ Set([Top EXCEPT !.pc = "poll", !.src = s])
  /\ UNCHANGED <<registers, system, credit, events>>

Poll ==
  /\ At("poll") /\ Top.src \in flags
  /\ Goto("clear")
  /\ UNCHANGED <<registers, ledger>>
-----------------------------------------------------------------------------
\* The vectors.  Taking one clears its master bit.
Pending(sources) == flags \cap enabled \cap sources # {}
Interrupt ==
  /\ gie /\ Pending(Sources \ LowPriority)
  /\ gie' = FALSE
  /\ Push(Frame("high", "scan"))
  /\ UNCHANGED <<flags, ideal, enabled, giel, ledger>>

InterruptLow ==
  /\ gie /\ giel /\ Pending(LowPriority) /\ ~Pending(Sources \ LowPriority)
  /\ giel' = FALSE
  /\ Push(Frame("low", "scan"))
  /\ UNCHANGED <<flags, ideal, enabled, gie, ledger>>

CallDispatch ==
  /\ InMain /\ At("idle") /\ Known[system].dispatches /\ Top.prevs = <<>>
  /\ Push(Frame("call", "scan"))
  /\ UNCHANGED <<registers, ledger>>

\* epic_dispatch_all_irqs: the register is read at its first row.  Enable bits
\* play no part.
FirstOfRegister(row) == row = 1 \/ Register(Scan[row]) # Register(Scan[row - 1])
NextRow ==
  /\ At("scan") /\ Top.row < Len(Scan)
  /\ LET row == Top.row + 1
         snap == IF FirstOfRegister(row) THEN flags \cap Register(Scan[row]) ELSE Top.snap
     IN Set([Top EXCEPT !.row = row, !.snap = snap, !.src = Scan[row],
                        !.pc = IF Scan[row] \in snap THEN "handler" ELSE "scan"])
  /\ UNCHANGED <<registers, ledger>>

\* Faulty: the handler leaves its flag set.
HandlerNeverClears ==
  /\ At("handler")
  /\ Goto(IF Top.src \in flags THEN "callback" ELSE "scan")
  /\ UNCHANGED <<registers, ledger>>

\* The handler tests its flag again, clears it and calls the callback.
HandlerTest ==
  /\ At("handler")
  /\ Goto(IF Top.src \in flags THEN "clear" ELSE "scan")
  /\ UNCHANGED <<registers, ledger>>

Callback ==
  /\ At("callback")
  /\ credit' = Took(Top.src)
  /\ Goto(IF Known[system].locks THEN "lock" ELSE "scan")
  /\ UNCHANGED <<registers, system, busy, events>>

Return ==
  /\ At("scan") /\ Top.row = Len(Scan)
  /\ stack' = SubSeq(stack, 1, Len(stack) - 1)
  /\ gie' = (gie \/ Top.kind = "high")
  /\ giel' = (giel \/ Top.kind = "low")
  /\ UNCHANGED <<flags, ideal, enabled, ledger>>

MainStep ==
  \/ \E s \in Sources : EnableSrc(s) \/ DisableSrc(s) \/ MainClears(s) \/ BeginWait(s)
  \/ Poll \/ CallDispatch
Critical == DisableRead \/ DisableWrite \/ Restore
Clear == ClearRead \/ ClearWrite \/ ClearBit
Dispatch == NextRow \/ HandlerTest \/ Callback \/ Return

Next ==
  \/ \E s \in Sources : Raise(s)
  \/ MainStep \/ Critical \/ Clear \/ Dispatch
  \/ Interrupt \/ InterruptLow

Spec == Init /\ [][Next]_vars

\* A pending interrupt is taken whenever it can be (the processor samples at
\* every instruction); code runs on; operations complete; sections are left.
FairSpec ==
  /\ Spec
  /\ SF_vars(Interrupt) /\ SF_vars(InterruptLow)
  /\ WF_vars(Clear \/ Dispatch \/ DisableWrite \/ (DisableRead /\ ~InMain))
  /\ \A depth \in 1 .. 2 : SF_vars(Restore /\ Len(Top.prevs) = depth)
  /\ WF_vars(Poll)
  /\ \A s \in Sources : WF_vars(s \in MainWaits /\ Raise(s))
-----------------------------------------------------------------------------
Pcs == {"idle", "poll", "disable", "lock", "locked", "clear", "clear_write", "scan",
        "handler", "callback"}
Frames ==
  [kind : {"main", "call", "high", "low"}, pc : Pcs, row : 0 .. Len(Scan),
   snap : SUBSET Sources, src : Sources \cup {"none"},
   read : SUBSET Sources, prevs : Seq(0 .. 1)]
TypeOK ==
  /\ flags \subseteq Sources /\ ideal \subseteq Sources /\ enabled \subseteq Sources
  /\ gie \in BOOLEAN /\ giel \in BOOLEAN
  /\ stack \in Seq(Frames)
  /\ system \in Systems
  /\ credit \in [Sources -> -1 .. MaxEvents] /\ events \in 0 .. MaxEvents
  /\ busy \in MainWaits \cup {"none"}

\* EPIC_IRQ_ClearFlag clears one flag: no flag another event set is wiped.
NoFlagLost == ideal \subseteq flags

\* Every call of a callback answers an event of its source that no other call,
\* and no clear by main, has taken.
CallbacksAnswer == \A s \in Sources : credit[s] >= 0

\* So it is on PIC18 with one priority, no dispatch from main and no Restore in a
\* handler.  pic18_isr_vector.c:7 claims it of two vectors as well
\* (InterruptClaims).
OneCallbackPerEvent == system = "pic18" => CallbacksAnswer

\* While an activation, main or a handler's callback, is between EPIC_IRQ_Disable
\* and the outermost EPIC_IRQ_Restore, nothing runs above it.
InSection(f) == f.prevs # <<>> /\ (f.pc = "disable" => Len(f.prevs) > 1)
SectionExcludes == \A i \in DOMAIN stack : InSection(stack[i]) => i = Len(stack)

\* The stack of vectors stays as deep as the hardware's priorities: high above
\* low above main, each at most once.  pic18_irq.h:59 says of EPIC_IRQ_Restore
\* that it restores the master enables to what EPIC_IRQ_Disable found; in a
\* callback it sets GIEH, which the vector had cleared (InterruptClaims).
VectorsNotReentered ==
  \A i, j \in DOMAIN stack : i < j /\ stack[j].kind # "call"
     => stack[i].kind # stack[j].kind /\ (stack[i].kind # "high")

\* Nothing runs where something else has locked it out: in no section, and, but
\* for PIC18 callbacks that take EPIC_IRQ_Disable and Restore, in no vector that
\* is running.
LockedOut == SectionExcludes /\ (RestoresInHandler \/ VectorsNotReentered)

\* No flag stays up for ever with its source enabled: it is served, wiped by a
\* write of its register, or its source is disabled.
EnabledIsServed ==
  \A s \in Sources : s \in flags \cap enabled ~> s \notin flags \cap enabled
=============================================================================
