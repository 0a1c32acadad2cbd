-------------------------------- MODULE Swuart --------------------------------
(***************************************************************************)
(* epic-swuart/src/epic_swuart.c over Timer1 and two CCP modules, tick of  *)
(* the timer by tick, against a peer that samples and drives the line as a *)
(* UART does.  The CCP handlers may run some ticks after their event, and  *)
(* ticks and handlers fall between the statements of the main program.     *)
(***************************************************************************)
EXTENDS Integers, Sequences, SequencesExt, FiniteSets

CONSTANTS Uses,        \* the uses checked
          CycleMod,    \* 2^16 in the code: width of Timer1 and of the deadlines
          Bit,         \* g_cycles_per_bit, in ticks
          Lead,        \* SWUART_LEAD_CYCLES, in ticks
          Latency,     \* ticks a handler may run after its event
          MainTicks,   \* ticks EPIC_SWUART_Write may take to the reading of Timer1,
                       \* and from there to arming the compare
          SZ,          \* EPIC_SWUART_RING_SZ
          CountMod,    \* 2^8 in the code: width of the ring counters
          Values,      \* byte values
          MaxBytes     \* bound: bytes written, or frames the peer sends

ASSUME SwuartAssumption ==
  /\ Uses \subseteq {"tx", "tx_any", "rx"}
  /\ Bit \in Nat \ {0, 1} /\ Lead \in Nat /\ CycleMod \in Nat /\ CycleMod > 11 * Bit
  /\ Latency \in Nat /\ MainTicks \in Nat
  /\ SZ \in Nat \ {0} /\ CountMod \in Nat /\ CountMod > SZ
  /\ Values \subseteq 0 .. 255 /\ MaxBytes \in Nat

VARIABLES use,      \* the use at hand
          timer,    \* Timer1
          tx,       \* h->tx_*: [state, shift, bits, deadline, ring]
          rx,       \* h->rx_*: [state, shift, bits, deadline, ring, errors]
          ccp,      \* CCP modules "tx" and "rx": [mode, value, due, late]
          main,     \* EPIC_SWUART_Write: [pc, left, wrote, since]
          pin,      \* level of the TX pin, and of the RX pin
          peer,     \* the far end: the sampling of its receiver, the frame it sends
          written,  \* bytes EPIC_SWUART_Write accepted
          heard,    \* what the peer's receiver made of the line: bytes, or Bad
          sent,     \* frames the peer sent: bytes, or Bad for a missing stop bit
          got       \* bytes EPIC_SWUART_Read returned

vars == <<use, timer, tx, rx, ccp, main, pin, peer, written, heard, sent, got>>

Bad == -1
EmptyRing == [buf |-> [i \in 0 .. SZ - 1 |-> 0], head |-> 0, tail |-> 0, count |-> 0]
Put(r, byte) == [r EXCEPT !.buf[r.head] = byte, !.head = (@ + 1) % SZ, !.count = (@ + 1) % CountMod]
Drop(r) == [r EXCEPT !.tail = (@ + 1) % SZ, !.count = (@ - 1) % CountMod]
Content(r) == [i \in 1 .. r.count |-> r.buf[(r.tail + i - 1) % SZ]]
Returned == [pc |-> "idle", left |-> 0, wrote |-> FALSE, since |-> 0]
After(deadline, ticks) == (deadline + ticks) % CycleMod
-----------------------------------------------------------------------------
\* EPIC_SWUART_Init: the line at mark, TX module off, RX module capturing.
Init ==
  /\ use \in Uses
  /\ timer = 0
  /\ tx = [state |-> "TX_IDLE", shift |-> 0, bits |-> 0, deadline |-> 0, ring |-> EmptyRing]
  /\ rx = [state |-> "RX_IDLE", shift |-> 0, bits |-> 0, deadline |-> 0, ring |-> EmptyRing,
           errors |-> 0]
  /\ ccp = [tx |-> [mode |-> "OFF", value |-> 0, due |-> FALSE, late |-> 0],
            rx |-> [mode |-> "CAPTURE", value |-> 0, due |-> FALSE, late |-> 0]]
  /\ main = Returned
  /\ pin = [tx |-> 1, rx |-> 1]
  /\ peer = [age |-> -1, bits |-> <<>>, frame |-> <<>>, quiet |-> Bit]
  /\ written = <<>> /\ heard = <<>> /\ sent = <<>> /\ got = <<>>

\* Faulty variants, named in PROJECT.json, stand before what they replace.
Arm(module, mode, value) ==
  ccp' = [ccp EXCEPT ![module].mode = mode, ![module].value = value]
-----------------------------------------------------------------------------
\* EPIC_SWUART_Write, the statements that another step may fall between.

\* The line has been at mark for a bit time, nothing queued, module off.
LineIdle == ccp.tx.mode = "OFF" /\ peer.age = -1 /\ peer.quiet >= Bit

\* A client of use "tx" starts writing while a frame is under way or the line
\* has been idle for a bit; one of use "tx_any" at any time.
BeginWrite(n) ==
  /\ use \in {"tx", "tx_any"} /\ main.pc = "idle"
  /\ Len(written) + n <= MaxBytes
  /\ use = "tx" => LineIdle \/ (tx.state = "TX_DATA" /\ tx.bits < 7)
  /\ main' = [Returned EXCEPT !.pc = "push", !.left = n]
  /\ UNCHANGED <<use, timer, tx, rx, ccp, pin, peer, written, heard, sent, got>>

\* One turn of the loop: the critical section around the ring.
Push(byte) ==
  /\ main.pc = "push" /\ main.left > 0 /\ tx.ring.count < SZ
  /\ tx' = [tx EXCEPT !.ring = Put(@, byte)]
  /\ written' = Append(written, byte)
  /\ main' = [main EXCEPT !.left = @ - 1, !.wrote = TRUE]
  /\ UNCHANGED <<use, timer, rx, ccp, pin, peer, heard, sent, got>>

\* written > 0 and TX_IDLE: main starts the transmitter.
TestIdle ==
  /\ main.pc = "push" /\ (main.left = 0 \/ tx.ring.count >= SZ)
  /\ main' = IF main.wrote /\ tx.state = "TX_IDLE"
             THEN [main EXCEPT !.pc = "pop"] ELSE Returned
  /\ UNCHANGED <<use, timer, tx, rx, ccp, pin, peer, written, heard, sent, got>>

Loaded(t) ==
  [t EXCEPT !.shift = t.ring.buf[t.ring.tail], !.ring = Drop(@), !.bits = 0,
            !.state = "TX_DATA"]

Pop ==
  /\ main.pc = "pop"
  /\ tx' = Loaded(tx)
  /\ main' = [main EXCEPT !.pc = "deadline"]
  /\ UNCHANGED <<use, timer, rx, ccp, pin, peer, written, heard, sent, got>>

ReadTimer ==
  /\ main.pc = "deadline"
  /\ tx' = [tx EXCEPT !.deadline = After(timer, Lead)]
  /\ main' = [main EXCEPT !.pc = "arm", !.since = 0]
  /\ UNCHANGED <<use, timer, rx, ccp, pin, peer, written, heard, sent, got>>

ArmStart ==
  /\ main.pc = "arm"
  /\ Arm("tx", "CLEAR", tx.deadline)
  /\ main' = Returned
  /\ UNCHANGED <<use, timer, tx, rx, pin, peer, written, heard, sent, got>>
-----------------------------------------------------------------------------
\* tx_compare_event: arms the module for the next match.
Handles(module) == ccp[module].due
Served(module, c) == [c EXCEPT ![module].due = FALSE, ![module].late = 0]
TxRearm(t, mode) ==
  /\ tx' = [t EXCEPT !.deadline = After(tx.deadline, Bit)]
  /\ ccp' = [Served("tx", ccp) EXCEPT !.tx.mode = mode, !.tx.value = After(tx.deadline, Bit)]
  /\ pin' = pin

\* Faulty: switches off at the end of every frame.
TxOffAlways ==
  /\ Handles("tx") /\ tx.state = "TX_IDLE"
  /\ tx' = tx
  /\ ccp' = [Served("tx", ccp) EXCEPT !.tx.mode = "OFF"]
  /\ pin' = [pin EXCEPT !.tx = 1]
  /\ UNCHANGED <<use, timer, rx, main, peer, written, heard, sent, got>>

\* Nothing queued: the module is switched off and the port latch, at mark,
\* drives the pin.
TxOff ==
  /\ Handles("tx") /\ tx.state = "TX_IDLE" /\ tx.ring.count = 0
  /\ tx' = tx
  /\ ccp' = [Served("tx", ccp) EXCEPT !.tx.mode = "OFF"]
  /\ pin' = [pin EXCEPT !.tx = 1]
  /\ UNCHANGED <<use, timer, rx, main, peer, written, heard, sent, got>>

TxNext ==
  /\ Handles("tx") /\ tx.state = "TX_IDLE" /\ tx.ring.count # 0
  /\ TxRearm(Loaded(tx), "CLEAR")
  /\ UNCHANGED <<use, timer, rx, main, peer, written, heard, sent, got>>

Level(b) == IF b = 1 THEN "SET" ELSE "CLEAR"

\* Faulty: the bit is taken after the shift.
TxBitShiftFirst ==
  /\ Handles("tx") /\ tx.state = "TX_DATA"
  /\ TxRearm([tx EXCEPT !.shift = @ \div 2, !.bits = @ + 1,
                        !.state = IF tx.bits + 1 >= 8 THEN "TX_STOP" ELSE "TX_DATA"],
             Level((tx.shift \div 2) % 2))
  /\ UNCHANGED <<use, timer, rx, main, peer, written, heard, sent, got>>

TxBit ==
  /\ Handles("tx") /\ tx.state = "TX_DATA"
  /\ TxRearm([tx EXCEPT !.shift = @ \div 2, !.bits = @ + 1,
                        !.state = IF tx.bits + 1 >= 8 THEN "TX_STOP" ELSE "TX_DATA"],
             Level(tx.shift % 2))
  /\ UNCHANGED <<use, timer, rx, main, peer, written, heard, sent, got>>

TxStop ==
  /\ Handles("tx") /\ tx.state = "TX_STOP"
  /\ TxRearm([tx EXCEPT !.state = "TX_IDLE"], "SET")
  /\ UNCHANGED <<use, timer, rx, main, peer, written, heard, sent, got>>
-----------------------------------------------------------------------------
\* rx_capture_event.
RxRearm(r) ==
  /\ rx' = [r EXCEPT !.deadline = After(rx.deadline, Bit)]
  /\ ccp' = [Served("rx", ccp) EXCEPT !.rx.value = After(rx.deadline, Bit)]

RxCaptureAgain(r) ==
  /\ rx' = [r EXCEPT !.state = "RX_IDLE"]
  /\ ccp' = [Served("rx", ccp) EXCEPT !.rx.mode = "CAPTURE"]

\* The start edge, time-stamped by the hardware.
RxEdge ==
  /\ Handles("rx") /\ rx.state = "RX_IDLE"
  /\ LET point == After(ccp.rx.value, Bit \div 2)
     IN /\ rx' = [rx EXCEPT !.deadline = point, !.state = "RX_CONFIRM_START"]
        /\ ccp' = [Served("rx", ccp) EXCEPT !.rx.mode = "COMPARE", !.rx.value = point]
  /\ UNCHANGED <<use, timer, tx, main, pin, peer, written, heard, sent, got>>

\* Faulty: every edge is a start bit.
RxConfirmAlways ==
  /\ Handles("rx") /\ rx.state = "RX_CONFIRM_START"
  /\ RxRearm([rx EXCEPT !.shift = 0, !.bits = 0, !.state = "RX_DATA"])
  /\ UNCHANGED <<use, timer, tx, main, pin, peer, written, heard, sent, got>>

RxConfirm ==
  /\ Handles("rx") /\ rx.state = "RX_CONFIRM_START"
  /\ IF pin.rx # 0 THEN RxCaptureAgain(rx)
     ELSE RxRearm([rx EXCEPT !.shift = 0, !.bits = 0, !.state = "RX_DATA"])
  /\ UNCHANGED <<use, timer, tx, main, pin, peer, written, heard, sent, got>>

RxBit ==
  /\ Handles("rx") /\ rx.state = "RX_DATA"
  /\ RxRearm([rx EXCEPT !.shift = (@ \div 2) + 128 * pin.rx, !.bits = @ + 1,
                        !.state = IF rx.bits + 1 < 8 THEN "RX_DATA" ELSE "RX_STOP"])
  /\ UNCHANGED <<use, timer, tx, main, pin, peer, written, heard, sent, got>>

RxPush(r) ==
  IF r.ring.count >= SZ THEN [r EXCEPT !.errors = @ + 1] ELSE [r EXCEPT !.ring = Put(@, r.shift)]

RxStop ==
  /\ Handles("rx") /\ rx.state = "RX_STOP"
  /\ RxCaptureAgain(IF pin.rx # 0 THEN RxPush(rx) ELSE [rx EXCEPT !.errors = @ + 1])
  /\ UNCHANGED <<use, timer, tx, main, pin, peer, written, heard, sent, got>>

\* EPIC_SWUART_Read: one byte per critical section.
Read ==
  /\ rx.ring.count > 0
  /\ got' = Append(got, rx.ring.buf[rx.ring.tail])
  /\ rx' = [rx EXCEPT !.ring = Drop(@)]
  /\ UNCHANGED <<use, timer, tx, ccp, main, pin, peer, written, heard, sent>>
-----------------------------------------------------------------------------
\* The peer.  Its receiver waits for mark to space and samples every bit in its
\* middle; its transmitter sends levels, one per tick.
Slots(byte, stop) ==
  <<0, byte % 2, (byte \div 2) % 2, (byte \div 4) % 2, (byte \div 8) % 2, (byte \div 16) % 2,
    (byte \div 32) % 2, (byte \div 64) % 2, (byte \div 128) % 2, stop>>
Frame(byte, stop) == [i \in 1 .. 10 * Bit |-> Slots(byte, stop)[1 + (i - 1) \div Bit]]
BadStop(byte) == [i \in 1 .. 11 * Bit |-> IF i <= 10 * Bit THEN Frame(byte, 0)[i] ELSE 1]
Noise == [i \in 1 .. Bit |-> IF i = 1 THEN 0 ELSE 1]     \* a spike, then mark

PeerSends(levels, what) ==
  /\ use = "rx" /\ peer.frame = <<>> /\ Len(sent) < MaxBytes
  /\ peer' = [peer EXCEPT !.frame = levels, !.quiet = 0]
  /\ sent' = sent \o what
  /\ UNCHANGED <<use, timer, tx, rx, ccp, main, pin, written, heard, got>>

PeerSendsByte(byte) == PeerSends(Frame(byte, 1), <<byte>>)
PeerSendsBadStop == \E byte \in Values : PeerSends(BadStop(byte), <<Bad>>)
PeerSpike == peer.quiet >= Bit /\ PeerSends(Noise, <<>>)

\* What the receiver of the peer has made of the ten samples of a frame.
Decode(bits) ==
  IF bits[1] = 0 /\ bits[10] = 1
  THEN bits[2] + 2 * bits[3] + 4 * bits[4] + 8 * bits[5] + 16 * bits[6] + 32 * bits[7]
       + 64 * bits[8] + 128 * bits[9]
  ELSE Bad

Quieter == IF peer.quiet < Bit THEN peer.quiet + 1 ELSE Bit

\* The peer's receiver, one tick: waits for a space, or counts ticks in a frame.
Receives(level) ==
  LET age == peer.age + 1
      sample == Len(peer.bits) * Bit + Bit \div 2     \* the middle of the next slot
      bits == IF age = sample THEN Append(peer.bits, level) ELSE peer.bits
  IN IF peer.age = -1
     THEN /\ peer' = IF level = 0 THEN [peer EXCEPT !.age = 0, !.quiet = 0]
                                  ELSE [peer EXCEPT !.quiet = Quieter]
          /\ UNCHANGED heard
     ELSE IF Len(bits) < 10
     THEN peer' = [peer EXCEPT !.age = age, !.bits = bits] /\ UNCHANGED heard
     ELSE /\ peer' = [peer EXCEPT !.age = -1, !.bits = <<>>]
          /\ heard' = Append(heard, Decode(bits))

\* The peer's transmitter, one tick.
Transmits ==
  /\ peer' = IF peer.frame = <<>> THEN [peer EXCEPT !.quiet = Quieter]
                                  ELSE [peer EXCEPT !.frame = Tail(@)]
  /\ UNCHANGED heard

Event(c, now) == c.mode \in {"SET", "CLEAR", "COMPARE"} /\ c.value = now

\* Once the lines have been quiet for a bit and nothing is under way, more ticks
\* only turn Timer1: they are left out (bound).
Asleep == peer.quiet >= Bit /\ peer.age = -1 /\ peer.frame = <<>> /\ main.pc = "idle"
            /\ ccp.tx.mode = "OFF" /\ ccp.rx.mode = "CAPTURE" /\ ~ccp.tx.due /\ ~ccp.rx.due

\* The levels the tick brings to the two lines, and an edge on RX it captures.
Now == After(timer, 1)
TxLevel == IF Event(ccp.tx, Now) THEN (IF ccp.tx.mode = "SET" THEN 1 ELSE 0) ELSE pin.tx
RxLevel == IF peer.frame = <<>> THEN 1 ELSE Head(peer.frame)
Captured == ccp.rx.mode = "CAPTURE" /\ pin.rx = 1 /\ RxLevel = 0
Later(c, event) == [c EXCEPT !.due = @ \/ event, !.late = IF c.due THEN @ + 1 ELSE 0]

\* One tick of Timer1, if the handlers and main are not already late.
Tick ==
  /\ ~Asleep
  /\ \A m \in {"tx", "rx"} : ccp[m].due => ccp[m].late < Latency
  /\ main.pc # "idle" => main.since < MainTicks
  /\ timer' = Now
  /\ pin' = [tx |-> TxLevel, rx |-> RxLevel]
  /\ ccp' = [tx |-> Later(ccp.tx, Event(ccp.tx, Now)),
             rx |-> [Later(ccp.rx, Event(ccp.rx, Now) \/ Captured) EXCEPT
                       !.value = IF Captured THEN Now ELSE @]]
  /\ main' = IF main.pc = "idle" THEN main ELSE [main EXCEPT !.since = @ + 1]
  /\ IF use = "rx" THEN Transmits ELSE Receives(TxLevel)
  /\ UNCHANGED <<use, tx, rx, written, sent, got>>
-----------------------------------------------------------------------------
Write ==
  \/ \E n \in 1 .. SZ + 1 : BeginWrite(n)
  \/ \E byte \in Values : Push(byte)
Main == TestIdle \/ Pop \/ ReadTimer \/ ArmStart
TxHandler == TxOff \/ TxNext \/ TxBit \/ TxStop
RxHandler == RxEdge \/ RxConfirm \/ RxBit \/ RxStop
Peer == PeerSendsBadStop \/ PeerSpike \/ \E byte \in Values : PeerSendsByte(byte)

Next == Write \/ Main \/ TxHandler \/ RxHandler \/ Read \/ Peer \/ Tick
Spec == Init /\ [][Next]_vars

\* Time passes, main and the handlers run on.
FairSpec ==
  /\ Spec
  /\ WF_vars(Tick) /\ WF_vars(TxHandler) /\ WF_vars(RxHandler)
  /\ WF_vars(Main \/ \E byte \in Values : Push(byte))
-----------------------------------------------------------------------------
Ring == [buf : [0 .. SZ - 1 -> 0 .. 255], head : 0 .. SZ - 1, tail : 0 .. SZ - 1, count : 0 .. SZ]
Channel(states) == [state : states, shift : 0 .. 255, bits : 0 .. 8,
                    deadline : 0 .. CycleMod - 1, ring : Ring]
Module(modes) == [mode : modes, value : 0 .. CycleMod - 1, due : BOOLEAN, late : 0 .. Latency]
TypeOK ==
  /\ timer \in 0 .. CycleMod - 1
  /\ tx \in Channel({"TX_IDLE", "TX_DATA", "TX_STOP"})
  /\ [state |-> rx.state, shift |-> rx.shift, bits |-> rx.bits, deadline |-> rx.deadline,
      ring |-> rx.ring] \in Channel({"RX_IDLE", "RX_CONFIRM_START", "RX_DATA", "RX_STOP"})
  /\ rx.errors \in 0 .. MaxBytes
  /\ ccp.tx \in Module({"OFF", "SET", "CLEAR"}) /\ ccp.rx \in Module({"CAPTURE", "COMPARE"})
  /\ main \in [pc : {"idle", "push", "pop", "deadline", "arm"}, left : 0 .. SZ + 1,
               wrote : BOOLEAN, since : 0 .. MainTicks]

\* What a receiver makes of the line is what EPIC_SWUART_Write accepted, in
\* order, without a framing error, however late the handlers run.
HeardIsWritten == IsPrefix(heard, written)

\* All of it goes out: no compare is armed for a moment that has passed and no
\* byte is left in the ring with the module off.
AllIsHeard == \A n \in 1 .. MaxBytes : use = "tx" /\ Len(written) >= n ~> Len(heard) >= n

\* What EPIC_SWUART_Read returned and the ring holds are good frames the peer
\* sent, once each and in order: spikes and bad stop bits make no byte.  Between
\* frames, every frame was delivered or counted as an error.
Delivered == got \o Content(rx.ring)
RxIsSent ==
  \E at \in [DOMAIN Delivered -> DOMAIN sent] :
    /\ \A i \in DOMAIN Delivered : Delivered[i] = sent[at[i]] /\ sent[at[i]] # Bad
    /\ \A i, j \in DOMAIN Delivered : i < j => at[i] < at[j]

RxSettled == peer.frame = <<>> /\ peer.quiet >= Bit
RxAccountedFor == RxSettled => Len(Delivered) + rx.errors = Len(sent)
RxFaithful == RxIsSent /\ RxAccountedFor
=============================================================================
