--------------------------- MODULE InterruptClaims ---------------------------
(***************************************************************************)
(* What headers and documents say of interrupts and of the code they       *)
(* interrupt, where the code does otherwise.  A behaviour takes the        *)
(* systems one after the other, those of Irq, a save of Settings and two   *)
(* timers of Drivers, and notes what shows each claim broken.  They share  *)
(* no state: two states that agree on the claims broken and on the system  *)
(* at work go on alike.                                                    *)
(***************************************************************************)
EXTENDS MCDrivers

CONSTANT MaxRaised   \* bound: interrupt flags raised in a system of Irq

VARIABLES system, flags, ideal, enabled, gie, giel, stack, credit, busy, events,
          cells, wr, eeif, wrerr, cpu, returned, allowed, disturbed, saves, resets,
          broken   \* the claims broken so far, in the order of Claims, with what shows it

Ctrl == INSTANCE Irq WITH Systems <- {"pic16", "pic18_locks", "pic18_low"}, MaxEvents <- MaxRaised
\* One byte is saved, with interrupts on.
Store == INSTANCE Settings WITH Bytes <- {0, 1}, Size <- 1, Default <- 0, TornBytes <- {255},
           Disturbances <- {"dispatch"}, MaxSaves <- 1, MaxResets <- 0

irqVars == <<system, flags, ideal, enabled, gie, giel, stack, credit, busy, events>>
storeVars == <<cells, wr, eeif, wrerr, cpu, returned, allowed, disturbed, saves, resets>>
driverVars == <<bench, reg, slot, main, isr, asked, past>>

\* A Timer1 whose callback reloads the counter, the high byte as it was before the overflow,
\* and a Timer0 that is initialised and shut, and that another source interrupts.
ClaimBenches == LET both == [TornRead |-> [T1.T1_87 EXCEPT !.reply = F87!TIMER1_WriteCounter(62), !.fewer = 6],
                             KeptHandle |-> [T0.T0_87 EXCEPT !.shared = TRUE, !.calls = [c \in {"ia", "d"} |-> @[c]]]]
                IN  both

\* In the order in which a behaviour comes to them.
Claims == <<
  "NoFlagLost",           \* pic16_irq.h:66, "Globally mask all interrupts by clearing the GIE bit"
  "VectorsNotReentered",  \* pic18_irq.h:59, "Restore the master interrupt enable(s)"
  "CallbacksAnswer",      \* pic18_isr_vector.c:7, "calling the full dispatch from both is correct"
  "WaitCanEnd",           \* epic_settings.h:29, a save returns true or false
  "TimerReadWhole",       \* pic16f87xa_timer1.h:84, "Atomically read the 16-bit counter value"
  "ShutCallsNothing">>    \* pic16f87xa_timer0.h:104, to clear T0CS, as DeInit does, leaves "TMR0 halted"
Left == Len(Claims) - Len(broken)
Claim == IF Left = 0 THEN "none" ELSE Claims[Len(broken) + 1]
SystemOf == [NoFlagLost |-> "pic16", VectorsNotReentered |-> "pic18_locks", CallbacksAnswer |-> "pic18_low"]

ClaimsInit ==
  /\ Ctrl!Init /\ system = "pic16" /\ Store!Init /\ Init /\ bench = "TornRead"
  /\ broken = <<>>

\* A step of the system a claim is about, and whether the claim survives it.
Try(claim, step, kept, sight) ==
  /\ Claim = claim /\ step
  /\ broken' = IF kept THEN broken ELSE Append(broken, [claim |-> claim, seen |-> sight])

Kinds == [i \in DOMAIN stack |-> <<stack[i].kind, stack[i].pc>>]
IrqStep ==
  /\ \/ Try("NoFlagLost", Ctrl!Next, Ctrl!NoFlagLost', [raised |-> ideal', flags |-> flags'])
     \/ Try("VectorsNotReentered", system = "pic18_locks" /\ Ctrl!Next, Ctrl!VectorsNotReentered', Kinds')
     \/ Try("CallbacksAnswer", system = "pic18_low" /\ Ctrl!Next, Ctrl!CallbacksAnswer', [credit |-> credit', stack |-> Kinds'])
  /\ UNCHANGED <<storeVars, driverVars>>

\* Another processor, after init.
NextSystem ==
  /\ Claim \in DOMAIN SystemOf /\ system # SystemOf[Claim]
  /\ system' = SystemOf[Claim]
  /\ flags' = {} /\ ideal' = {} /\ enabled' = Ctrl!Sources /\ gie' = TRUE /\ giel' = TRUE
  /\ stack' = <<Ctrl!Frame("main", "idle")>>
  /\ credit' = [s \in Ctrl!Sources |-> 0] /\ busy' = "none" /\ events' = 0
  /\ UNCHANGED <<storeVars, driverVars, broken>>

SaveStep ==
  /\ Try("WaitCanEnd", Store!Next, Store!WaitCanEnd', [save |-> cpu'.pc, eeif |-> eeif', cycle |-> wr'])
  /\ UNCHANGED <<irqVars, driverVars>>

TimerStep ==
  /\ \/ Try("TimerReadWhole", Next, ReadsAreTrue', past'.out)
     \/ Try("ShutCallsNothing", bench = "KeptHandle" /\ Next, ToldIfOpen, [told |-> past'.told.call, open |-> past.open])
  /\ UNCHANGED <<irqVars, storeVars>>

\* Timer0 instead of Timer1, after a reset.
NextTimer ==
  /\ Claim = "ShutCallsNothing" /\ bench = "TornRead"
  /\ LET new == Benches["KeptHandle"] IN
       /\ bench' = "KeptHandle" /\ reg' = new.start /\ slot' = [s \in new.slots |-> Null]
       /\ asked' = [r \in DOMAIN new.counted |-> [known |-> new.counted[r], ones |-> new.start[r] \cap new.counted[r]]]
  /\ main' = Idle /\ isr' = Rest
  /\ past' = [calls |-> 0, events |-> 0, others |-> 0, due |-> 0, told |-> NoAnswer, open |-> {}, seen |-> {}, out |-> NoAnswer]
  /\ UNCHANGED <<irqVars, storeVars, broken>>

ClaimsNext == IrqStep \/ NextSystem \/ SaveStep \/ TimerStep \/ NextTimer
ClaimsSpec == ClaimsInit /\ [][ClaimsNext]_<<irqVars, storeVars, driverVars, broken>>
-----------------------------------------------------------------------------
\* What of a state the rest of a behaviour depends on: the system whose claim is next.
View == <<Claim, IF Claim \in DOMAIN SystemOf THEN irqVars
                 ELSE IF Claim = "WaitCanEnd" THEN storeVars ELSE driverVars>>

\* No flag is lost, no vector entered within itself, no callback called without an event, no
\* save left waiting for what does not come, no counter read that never was, no callback of a
\* shut driver called.  One of the six holds: a behaviour that breaks this has broken each.
SomeInterruptClaimHolds == Left > 0
=============================================================================
