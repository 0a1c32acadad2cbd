------------------------------- MODULE Serial --------------------------------
(***************************************************************************)
(* epic-serial/src/epic_serial.c on top of the USART handlers and the      *)
(* interrupt dispatcher of the HALs.                                       *)
(*                                                                         *)
(* The processor is a stack of activations: main at the bottom, above it a *)
(* call of epic_dispatch_all_irqs made by main, above these the interrupt  *)
(* activations.  Only the top one runs, one C statement at a time; a       *)
(* critical section is one step.  Bytes are numbered in the order in which *)
(* they are written (TX) or arrive (RX), so order and loss are visible.    *)
(***************************************************************************)
EXTENDS Integers, Sequences, SequencesExt

CONSTANTS SZ,          \* EPIC_SERIAL_RING_SZ
          CountMod,    \* 2^8 in the code: width of the ring counters
          Family,      \* "pic16" or "pic18"
          Uses,        \* the uses checked
          Prompt,      \* a pending interrupt is taken within one C statement
          TxBytes,     \* bound: bytes the client writes
          RxBytes,     \* bound: bytes that arrive
          MaxDepth     \* bound: activations on the stack

ASSUME SerialAssumption ==
  /\ SZ \in Nat \ {0} /\ CountMod \in Nat /\ CountMod > SZ
  /\ Family \in {"pic16", "pic18"}
  /\ Uses \subseteq {"isr", "polled", "both"} /\ Prompt \in BOOLEAN
  /\ TxBytes \in Nat /\ RxBytes \in Nat /\ MaxDepth \in Nat \ {0}

VARIABLES use,     \* the use at hand
          tx,      \* TX ring: [buf, head, tail, count]
          rx,      \* RX ring: [buf, head, tail, count]
          txie,    \* TX interrupt enable
          gie,     \* global interrupt enable
          stack,   \* activations: [kind, pc, seenTx, seenRx, b]
          txreg,   \* USART: holding register, 0 = empty (TXIF set)
          tsr,     \* USART: shift register, 0 = empty (TRMT set)
          rcreg,   \* USART: receive FIFO, two deep (RCIF = not empty)
          lastRx,  \* USART: what RCREG reads when its FIFO is empty
          overrun, \* USART: OERR, latched; reception stops
          wire,    \* bytes that left the shift register
          next,    \* next byte the client writes
          arrived, \* bytes that reached the receiver
          missed,  \* bytes dropped: receiver overrun or RX ring full
          got,     \* bytes epic_serial_read returned
          fresh    \* the last step was the USART's: main has not seen it yet

vars == <<use, tx, rx, txie, gie, stack, txreg, tsr, rcreg, lastRx, overrun, wire,
          next, arrived, missed, got, fresh>>
rxSide == <<rx, rcreg, lastRx, overrun, arrived, missed, got>>
txSide == <<use, tx, txie, txreg, tsr, wire, next>>

\* "isr": interrupts are on, the client never writes into a full ring and never
\* calls flush; "polled": interrupts are off (host build, or before GIE), the
\* client may; "both": interrupts are on and it may.
Preempt == use # "polled"
MayBlock == use # "isr"

Bytes == 0 .. TxBytes + RxBytes
EmptyRing == [buf |-> [i \in 0 .. SZ - 1 |-> 0], head |-> 0, tail |-> 0, count |-> 0]

\* Faulty variants, named in PROJECT.json, stand before what they replace.
RingPut(r, b) == [r EXCEPT !.buf[r.head] = b, !.head = (@ + 1) % SZ,
                           !.count = (@ + 1) % CountMod]
RingTakeKeepsTail(r) == [r EXCEPT !.count = (@ - 1) % CountMod]
RingTake(r) == [r EXCEPT !.tail = (@ + 1) % SZ, !.count = (@ - 1) % CountMod]

\* The bytes of a ring from its tail; count may exceed SZ after an underflow.
Content(r) == [i \in 1 .. r.count |-> r.buf[(r.tail + i - 1) % SZ]]

Activation(kind, pc) == [kind |-> kind, pc |-> pc, seenTx |-> FALSE, seenRx |-> FALSE, b |-> 0]

Top == stack[Len(stack)]
At(p) == Top.pc = p
Goto(p) == stack' = [stack EXCEPT ![Len(stack)].pc = p]
GotoWith(p, byte) == stack' = [stack EXCEPT ![Len(stack)].pc = p, ![Len(stack)].b = byte]

TXIF == txreg = 0
RCIF == rcreg # <<>>
-----------------------------------------------------------------------------
\* epic_serial_init: rings empty, RX on, TXIE off.
Init ==
  /\ use \in Uses
  /\ tx = EmptyRing /\ rx = EmptyRing
  /\ txie = FALSE /\ gie = Preempt
  /\ stack = <<Activation("main", "idle")>>
  /\ txreg = 0 /\ tsr = 0 /\ rcreg = <<>> /\ lastRx = 0 /\ overrun = FALSE
  /\ wire = <<>> /\ next = 1 /\ arrived = 0 /\ missed = {} /\ got = <<>>
  /\ fresh = FALSE

\* The USART: one byte leaves the shift register, the next is loaded.
ShiftOut ==
  /\ tsr # 0
  /\ wire' = Append(wire, tsr)
  /\ tsr' = txreg /\ txreg' = 0
  /\ UNCHANGED <<use, tx, txie, gie, stack, next, rxSide>>

\* The USART: a byte arrives; a third unread one latches OERR.
Arrive ==
  /\ arrived < RxBytes
  /\ arrived' = arrived + 1
  /\ IF overrun \/ Len(rcreg) = 2
     THEN overrun' = TRUE /\ missed' = missed \cup {arrived + 1} /\ rcreg' = rcreg
     ELSE overrun' = overrun /\ missed' = missed /\ rcreg' = Append(rcreg, arrived + 1)
  /\ UNCHANGED <<rx, lastRx, got, gie, stack, txSide>>
-----------------------------------------------------------------------------
\* The client.  A client that may not block looks at epic_serial_tx_pending.
BeginWrite ==
  /\ At("idle") /\ next <= TxBytes
  /\ MayBlock \/ tx.count < SZ
  /\ Goto("push")
  /\ UNCHANGED <<txSide, rxSide, gie>>

\* Faulty: <= for < at the full ring.
PushByteOffByOne ==
  /\ At("push") /\ tx.count <= SZ
  /\ tx' = RingPut(tx, next) /\ next' = next + 1
  /\ Goto("kick")
  /\ UNCHANGED <<use, txie, gie, txreg, tsr, wire, rxSide>>

\* One byte of epic_serial_write: the critical section, space or no space.
PushByte ==
  /\ At("push") /\ tx.count < SZ
  /\ tx' = RingPut(tx, next) /\ next' = next + 1
  /\ Goto("kick")
  /\ UNCHANGED <<use, txie, gie, txreg, tsr, wire, rxSide>>

PushBlocked ==
  /\ At("push") /\ tx.count >= SZ
  /\ stack' = Append(stack, Activation("call", "entry"))
  /\ UNCHANGED <<txSide, rxSide, gie>>

\* Faulty: enables the source only while the USART can take a byte.
KickWhenFree ==
  /\ At("kick")
  /\ txie' = (txie \/ TXIF)
  /\ Goto("idle")
  /\ UNCHANGED <<use, tx, gie, txreg, tsr, wire, next, rxSide>>

\* EPIC_IRQ_Enable(TX), after the critical section.
Kick ==
  /\ At("kick")
  /\ txie' = TRUE
  /\ Goto("idle")
  /\ UNCHANGED <<use, tx, gie, txreg, tsr, wire, next, rxSide>>

BeginFlush ==
  /\ At("idle") /\ MayBlock
  /\ Goto("flush_ring")
  /\ UNCHANGED <<txSide, rxSide, gie>>

FlushRing ==
  /\ At("flush_ring")
  /\ IF tx.count > 0 THEN stack' = Append(stack, Activation("call", "entry"))
                     ELSE Goto("flush_tsr")
  /\ UNCHANGED <<txSide, rxSide, gie>>

\* Faulty: the ring is enough.
FlushTsrSkipped == At("flush_tsr") /\ Goto("idle") /\ UNCHANGED <<txSide, rxSide, gie>>

FlushTsr ==
  /\ At("flush_tsr")
  /\ IF tsr # 0 THEN stack' = Append(stack, Activation("call", "entry"))
                ELSE Goto("idle")
  /\ UNCHANGED <<txSide, rxSide, gie>>

\* epic_serial_read: up to max bytes in one critical section.
Read(max) ==
  /\ At("idle")
  /\ LET n == IF rx.count < max THEN rx.count ELSE max
     IN /\ n > 0
        /\ got' = got \o SubSeq(Content(rx), 1, n)
        /\ rx' = [rx EXCEPT !.tail = (@ + n) % SZ, !.count = @ - n]
  /\ UNCHANGED <<rcreg, lastRx, overrun, arrived, missed, txSide, gie, stack>>
-----------------------------------------------------------------------------
\* Any enabled source takes the vector; another peripheral's interrupt may do
\* so at any time, and the dispatcher then looks at the USART's flags too.
Interrupt ==
  /\ gie /\ Len(stack) < MaxDepth
  /\ gie' = FALSE
  /\ stack' = Append(stack, Activation("isr", "entry"))
  /\ UNCHANGED <<txSide, rxSide>>

\* epic_dispatch_all_irqs reads PIR1 once; it does not look at PIE1.
FirstHandler == IF Family = "pic16" THEN "rx_flag" ELSE "tx_flag"
AfterRx == IF Family = "pic16" THEN "tx_flag" ELSE "exit"
AfterTx == IF Family = "pic16" THEN "exit" ELSE "rx_flag"

DispatchEntry ==
  /\ At("entry")
  /\ stack' = [stack EXCEPT ![Len(stack)].pc = FirstHandler,
                            ![Len(stack)].seenTx = TXIF, ![Len(stack)].seenRx = RCIF]
  /\ UNCHANGED <<txSide, rxSide, gie>>

\* Return to the caller, or RETFIE, which sets GIE.
DispatchExit ==
  /\ At("exit")
  /\ gie' = IF Top.kind = "isr" THEN TRUE ELSE gie
  /\ stack' = SubSeq(stack, 1, Len(stack) - 1)
  /\ UNCHANGED <<txSide, rxSide>>

\* USART_TX_IRQHandler tests its flag again.
TxFlag ==
  /\ At("tx_flag")
  /\ Goto(IF Top.seenTx /\ TXIF THEN "tx_check" ELSE AfterTx)
  /\ UNCHANGED <<txSide, rxSide, gie>>

\* epic_serial_on_tx: the test of g_tx_count is outside the critical section.
TxCheck ==
  /\ At("tx_check")
  /\ Goto(IF tx.count > 0 THEN "tx_pop" ELSE AfterTx)
  /\ txie' = IF tx.count > 0 THEN txie ELSE FALSE
  /\ UNCHANGED <<use, tx, gie, txreg, tsr, wire, next, rxSide>>

\* EPIC_IRQ_Restore puts back what EPIC_IRQ_Disable saw.  On PIC18 Disable sees
\* GIEH or GIEL, one of which is set in either handler, and Restore sets both.
GieAfterSection == IF Family = "pic18" THEN Preempt ELSE gie

\* Faulty: reads the byte after moving the tail.
TxPopNext ==
  /\ At("tx_pop")
  /\ GotoWith("tx_load", tx.buf[RingTake(tx).tail])
  /\ tx' = RingTake(tx)
  /\ gie' = GieAfterSection
  /\ UNCHANGED <<use, txie, txreg, tsr, wire, next, rxSide>>

TxPop ==
  /\ At("tx_pop")
  /\ GotoWith("tx_load", tx.buf[tx.tail])
  /\ tx' = RingTake(tx)
  /\ gie' = GieAfterSection
  /\ UNCHANGED <<use, txie, txreg, tsr, wire, next, rxSide>>

\* TXREG is written after the critical section; a full TXREG is overwritten.
TxLoad ==
  /\ At("tx_load")
  /\ IF tsr = 0 THEN tsr' = Top.b /\ txreg' = txreg ELSE tsr' = tsr /\ txreg' = Top.b
  /\ Goto(AfterTx)
  /\ UNCHANGED <<use, tx, txie, gie, wire, next, rxSide>>

\* USART_RX_IRQHandler tests its flag again, then reads RCREG.
RxFlag ==
  /\ At("rx_flag")
  /\ Goto(IF Top.seenRx /\ RCIF THEN "rx_read" ELSE AfterRx)
  /\ UNCHANGED <<txSide, rxSide, gie>>

RxRead ==
  /\ At("rx_read")
  /\ IF RCIF THEN /\ GotoWith("rx_check", Head(rcreg))
                  /\ rcreg' = Tail(rcreg) /\ lastRx' = Head(rcreg)
             ELSE GotoWith("rx_check", lastRx) /\ UNCHANGED <<rcreg, lastRx>>
  /\ UNCHANGED <<rx, overrun, arrived, missed, got, txSide, gie>>

\* Faulty: <= for < at the full ring.
RxCheckOffByOne ==
  /\ At("rx_check")
  /\ Goto(IF rx.count <= SZ THEN "rx_store" ELSE AfterRx)
  /\ missed' = IF rx.count <= SZ THEN missed ELSE missed \cup {Top.b}
  /\ UNCHANGED <<rx, rcreg, lastRx, overrun, arrived, got, txSide, gie>>

\* epic_serial_on_rx, statement by statement: it has no critical section.
RxCheck ==
  /\ At("rx_check")
  /\ Goto(IF rx.count < SZ THEN "rx_store" ELSE AfterRx)
  /\ missed' = IF rx.count < SZ THEN missed ELSE missed \cup {Top.b}
  /\ UNCHANGED <<rx, rcreg, lastRx, overrun, arrived, got, txSide, gie>>

RxStore ==
  /\ At("rx_store")
  /\ rx' = [rx EXCEPT !.buf[rx.head] = Top.b]
  /\ Goto("rx_head")
  /\ UNCHANGED <<rcreg, lastRx, overrun, arrived, missed, got, txSide, gie>>

RxHead ==
  /\ At("rx_head")
  /\ rx' = [rx EXCEPT !.head = (@ + 1) % SZ]
  /\ Goto("rx_count")
  /\ UNCHANGED <<rcreg, lastRx, overrun, arrived, missed, got, txSide, gie>>

RxCount ==
  /\ At("rx_count")
  /\ rx' = [rx EXCEPT !.count = (@ + 1) % CountMod]
  /\ Goto(AfterRx)
  /\ UNCHANGED <<rcreg, lastRx, overrun, arrived, missed, got, txSide, gie>>

Client == BeginWrite \/ BeginFlush \/ \E max \in 1 .. SZ : Read(max)
WriteSteps == PushByte \/ PushBlocked \/ Kick
FlushSteps == FlushRing \/ FlushTsr
TxHandler == TxFlag \/ TxCheck \/ TxPop \/ TxLoad
RxHandler == RxFlag \/ RxRead \/ RxCheck \/ RxStore \/ RxHead \/ RxCount
Running == WriteSteps \/ FlushSteps \/ DispatchEntry \/ DispatchExit \/ TxHandler \/ RxHandler

\* Interrupt code runs on; main gets at most one statement in before a pending
\* interrupt preempts it (with Prompt FALSE, any number).
Pending == (txie /\ TXIF) \/ RCIF
MayRun == Top.kind = "isr" \/ ~gie \/ ~Prompt \/ ~Pending \/ fresh
Processor == MayRun /\ Running

Next ==
  \/ (ShiftOut \/ Arrive) /\ fresh' = TRUE
  \/ (Client \/ Interrupt \/ Processor) /\ fresh' = FALSE

Spec == Init /\ [][Next]_vars

\* A pending enabled TX interrupt is taken, code goes on, the USART shifts.
UsartInterrupt == Interrupt /\ Pending /\ fresh' = FALSE
FairSpec ==
  /\ Spec
  /\ WF_vars(UsartInterrupt)
  /\ WF_vars(Processor /\ fresh' = FALSE)
  /\ WF_vars(ShiftOut /\ fresh' = TRUE)
-----------------------------------------------------------------------------
Ring == [buf : [0 .. SZ - 1 -> Bytes], head : 0 .. SZ - 1, tail : 0 .. SZ - 1,
         count : 0 .. CountMod - 1]
MainPoints == {"idle", "push", "kick", "flush_ring", "flush_tsr"}
HandlerPoints == {"entry", "rx_flag", "rx_read", "rx_check", "rx_store", "rx_head", "rx_count",
                  "tx_flag", "tx_check", "tx_pop", "tx_load", "exit"}
Activations ==
  [kind : {"main", "call", "isr"}, pc : MainPoints \cup HandlerPoints, seenTx : BOOLEAN,
   seenRx : BOOLEAN, b : Bytes]
TypeOK ==
  /\ tx \in Ring /\ rx \in Ring
  /\ txie \in BOOLEAN /\ gie \in BOOLEAN /\ overrun \in BOOLEAN
  /\ stack \in Seq(Activations)
  /\ txreg \in Bytes /\ tsr \in Bytes /\ lastRx \in Bytes
  /\ rcreg \in Seq(Bytes) /\ wire \in Seq(Bytes) /\ got \in Seq(Bytes)
  /\ use \in Uses /\ next \in 1 .. TxBytes + 1 /\ arrived \in 0 .. RxBytes

Held(byte) == IF byte = 0 THEN <<>> ELSE <<byte>>
\* The bytes of the activations at one of these points, main's first.
HeldAt(points) ==
  LET holders == {i \in DOMAIN stack : stack[i].pc \in points}
      nth(k) == CHOOSE i \in holders : Cardinality({j \in holders : j <= i}) = k
  IN [k \in 1 .. Cardinality(holders) |-> stack[nth(k)].b]
Popped == HeldAt({"tx_load"})

\* Every byte written so far, in the order of writing, is on the wire, in the
\* USART, popped by a handler or in the ring: none is lost, repeated or swapped.
TxConserved ==
  wire \o Held(tsr) \o Held(txreg) \o Popped \o Content(tx) = [i \in 1 .. next - 1 |-> i]

InRxHandler == HeldAt({"rx_check", "rx_store"})
RxSettled == \A i \in DOMAIN stack : stack[i].pc \notin {"rx_head", "rx_count"}

\* What was read, what waits in the ring, in a handler and in RCREG is what
\* arrived, in order and once each, less the bytes dropped on overflow.
Increasing(s) == \A i, j \in 1 .. Len(s) : i < j => s[i] < s[j]
RxConserved ==
  RxSettled =>
    LET held == got \o Content(rx) \o InRxHandler \o rcreg
    IN Increasing(held) /\ ToSet(held) = (1 .. arrived) \ missed

\* epic_serial_flush: on return no byte is in the ring or mid-transmission.
FlushDrains ==
  [][At("flush_tsr") /\ Len(stack) = 1 /\ stack'[1].pc = "idle"
       => tx.count = 0 /\ tsr = 0 /\ txreg = 0 /\ wire = [i \in 1 .. next - 1 |-> i]]_vars

\* With interrupts on everything written is eventually on the wire, whatever the
\* client does next.  With interrupts off a blocked writer goes on, although nothing
\* but its own calls of the dispatcher empties the ring.
EverythingIsSent ==
  /\ \A n \in 1 .. TxBytes : use = "isr" /\ next > n ~> Len(wire) >= n
  /\ use = "polled" /\ At("push") ~> At("idle")
-----------------------------------------------------------------------------
\* Seen from outside, the transmitter is a FIFO of bytes.
Link == INSTANCE ByteLink WITH
  written   <- next - 1,
  delivered <- wire,
  limit     <- TxBytes
TransmitterIsFifo == Link!LinkSpec
=============================================================================
