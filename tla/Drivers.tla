-------------------------------- MODULE Drivers --------------------------------
(***************************************************************************)
(* One peripheral of one HAL at work: the main program calls the driver's  *)
(* functions, which run statement by statement; the peripheral does what   *)
(* the register simulator does; interrupts run the driver's handler, and   *)
(* the handler the application's callback, between any two statements.     *)
(***************************************************************************)
EXTENDS Registers, FiniteSets

CONSTANTS Benches,   \* by name: the registers at the start, the calls, the sources
          MaxCalls,  \* bound: calls of the main program
          MaxEvents, \* bound: steps of the peripheral of its own accord, less what the bench takes off
          MaxOthers  \* bound: interrupts of other sources, between two steps of main, that find a flag of the peripheral up

VARIABLES bench,  \* the peripheral
          reg,    \* its registers
          slot,   \* what the driver keeps: handles and callbacks
          main,   \* [call, at, t]: the call in progress, its next statement, its locals
          isr,    \* [todo, at, back, t, seen]: the handlers that run, the next statement (of the callback, if back > 0)
          asked,  \* per register: the bits a caller may count on, and their values
          past    \* what has been called, raised, told
vars == <<bench, reg, slot, main, isr, asked, past>>

F87 == INSTANCE Pic16f87xa
F18 == INSTANCE Pic18fxx5x
F193 == INSTANCE Pic16f193x
B == Benches[bench]
NoLocals == [x \in {} |-> 0]
Idle == [call |-> "", at |-> 0, t |-> NoLocals]
Rest == [todo |-> <<>>, at |-> 0, back |-> 0, t |-> NoLocals, seen |-> {}]
NoAnswer == [call |-> <<>>, value |-> {}, seen |-> {}]
Numbers == {"TMR0", "TMR0L", "TMR0H", "TMR1L", "TMR1H", "TMR2", "PR2", "TMR3L", "TMR3H", "TMR4", "PR4", "SPBRG", "SPBRGL", "SPBRGH",
            "SSPADD", "CCPR1L", "CCPR1H", "CCPR2L", "CCPR2H", "CCPR3L", "CCPR3H"}
AsBits(r) == CASE r \in Numbers -> Bits(reg[r])
               [] r = "cells" -> {<<a, reg[r][a]>> : a \in DOMAIN reg[r]}  \* a cell is known by its value
               [] OTHER -> reg[r]

Init ==
  /\ bench \in DOMAIN Benches
  /\ reg = B.start
  /\ slot = [s \in B.slots |-> Null]
  /\ main = Idle /\ isr = Rest
  /\ asked = [r \in DOMAIN B.counted |-> [known |-> B.counted[r], ones |-> B.start[r] \cap B.counted[r]]]
  /\ past = [calls |-> 0, events |-> 0, others |-> 0, due |-> 0, told |-> NoAnswer, open |-> {}, seen |-> {}, out |-> NoAnswer]
-----------------------------------------------------------------------------
\* What the hardware does on a write besides keeping the value, and on a read.
OnWrite(R, r, v) ==
  LET S == [R EXCEPT ![r] = v] IN
  CASE r = "EECON2" -> [S EXCEPT !["unlock"] = IF v = 85 THEN 1 ELSE IF v = 170 /\ @ = 1 THEN 2 ELSE 0]
    [] r = "EECON1" /\ 1 \in R[r] \ v -> [S EXCEPT ![r] = v \cup {1}]  \* WR falls when the write is done, not before
    [] r = "EECON1" /\ 1 \in v \ R[r] -> IF R["unlock"] = 2 /\ 2 \in v THEN [S EXCEPT !["unlock"] = 0] ELSE [S EXCEPT ![r] = v \ {1}]
    [] r = "EECON1" /\ 0 \in v /\ "EEADR" \in DOMAIN R -> [S EXCEPT !["EEDATA"] = R["cells"][R["EEADR"]], ![r] = v \ {0}]
    [] r = "EECON1" /\ 0 \in v -> F193!SimStepEeprom(S)
    [] r = "SSPBUF" -> IF R["shifting"] THEN [R EXCEPT ![IF "SSPCON" \in DOMAIN R THEN "SSPCON" ELSE "SSPCON1"] = @ \cup {7}]
                                        ELSE [R EXCEPT !["shifting"] = TRUE]
    [] r = "PIR1" -> [S EXCEPT ![r] = (v \ {4, 5}) \cup (R[r] \cap {4, 5})]  \* TXIF and RCIF are read only
    [] r = "TXREG" -> [S EXCEPT !["PIR1"] = @ \ {4}]
    [] r \in {"TMR0L", "TMR1L", "TMR3L"} /\ "high" \in DOMAIN R -> [S EXCEPT !["high"] = R[B.word[1]]]
    [] OTHER -> S
OnRead(R, r) ==
  CASE r \in {"TMR0L", "TMR1L", "TMR3L"} /\ "high" \in DOMAIN R -> [R EXCEPT ![B.word[1]] = R["high"]]
    [] r = "RCREG" -> [R EXCEPT !["PIR1"] = @ \ {5}]
    [] OTHER -> R

\* One statement: the registers after it, the locals, and where it goes on (0: return).
Effect(s, t, R) ==
  CASE s.op = "set" -> OnWrite(R, s.reg, s.to)
    [] s.op = "change" -> OnWrite(R, s.reg, (R[s.reg] \ s.clr) \cup s.bits)
    [] s.op = "toggle" -> OnWrite(R, s.reg, (R[s.reg] \ s.bits) \cup (s.bits \ R[s.reg]))
    [] s.op = "put" -> OnWrite(R, s.reg, (t[s.tmp] \ s.clr) \cup s.bits)
    [] s.op = "copy" -> OnWrite(R, s.reg, t[s.tmp])
    [] s.op = "restore" -> OnWrite(R, s.reg, (R[s.reg] \ s.bits) \cup (t[s.tmp] \cap s.bits))
    [] s.op = "get" -> OnRead(R, s.reg)
    [] OTHER -> R
Locals(s, t, R) == IF s.op = "get" THEN (s.tmp :> OnRead(R, s.reg)[s.reg]) @@ t ELSE t
Leaves(s, t, R, S) ==
  \/ s.op = "return"
  \/ s.op = "if" /\ R[s.reg] \cap s.bits # {}
  \/ s.op = "unless" /\ R[s.reg] \cap s.bits = {}
  \/ s.op = "has" /\ t[s.tmp] \cap s.bits # {}
  \/ s.op = "kept" /\ (S[s.slot] = Null \/ ~S[s.slot].cb)
Blocked(s, R) == s.op = "await" /\ R[s.reg] \cap s.bits # {}
After(code, i, t, R, S) ==
  LET s == code[i] IN
  CASE Leaves(s, t, R, S) -> 0
    [] s.op = "repeat" /\ t[s.a] # t[s.b] -> i - s.back
    [] i = Len(code) -> 0
    [] OTHER -> i + 1
Slots(s, S) == IF s.op = "keep" THEN [S EXCEPT ![s.slot] = s.to] ELSE S
Calls(s, S) == s.op = "call" /\ S[s.slot] # Null /\ S[s.slot][s.field]

\* What the peripheral has to show: its counter, or its latest sample or byte.
Now(R) == CASE B.word = <<>> -> {}
            [] B.word = <<"cells">> -> {R["cells"][0]}
            [] Len(B.word) = 1 -> {R[B.word[1]]}
            [] OTHER -> {Word(IF "high" \in DOMAIN R THEN R["high"] ELSE R[B.word[1]], R[B.word[2]])}
-----------------------------------------------------------------------------
Begin(c) ==
  /\ main = Idle /\ past.calls < MaxCalls /\ (past.calls = 0 => c \in B.first)
  /\ main' = [call |-> c, at |-> 1, t |-> NoLocals]
  /\ past' = [past EXCEPT !.calls = @ + 1, !.others = 0, !.open = @ \cup B.calls[c].opens, !.seen = Now(reg), !.out = NoAnswer]
  /\ UNCHANGED <<bench, reg, slot, isr, asked>>

\* What the caller may count on after call c: its own bits as it asked for them.
Asks(want) == [r \in DOMAIN asked |->
  IF r \in DOMAIN want THEN [known |-> asked[r].known \cup want[r].known, ones |-> (asked[r].ones \ want[r].known) \cup want[r].ones]
                       ELSE asked[r]]

MainStep ==
  /\ main # Idle /\ isr = Rest
  /\ LET c == B.calls[main.call]
         s == c.code[main.at]
         at == After(c.code, main.at, main.t, reg, slot)
         out == IF main.call \in B.words /\ Leaves(s, main.t, reg, slot) THEN ValueOf(s.value, main.t) ELSE {}
     IN  /\ ~Blocked(s, reg)
         /\ reg' = Effect(s, main.t, reg)
         /\ slot' = Slots(s, slot)
         /\ main' = IF at = 0 THEN Idle ELSE [main EXCEPT !.at = at, !.t = Locals(s, main.t, reg)]
         /\ asked' = IF at = 0 THEN Asks(c.want) ELSE asked
         /\ past' = IF at = 0 THEN [past EXCEPT !.others = 0, !.open = @ \ c.shuts, !.seen = {},
                                                !.out = [NoAnswer EXCEPT !.value = out, !.seen = past.seen]]
                              ELSE [past EXCEPT !.others = 0]
  /\ UNCHANGED <<bench, isr>>

\* The vector: the dispatcher calls the handlers of all flags it finds set.
Flagged(q, R) == R[q.flagReg] \cap q.flag # {}
Taken(q) == Flagged(q, reg) /\ \A g \in DOMAIN q.gates : q.gates[g] \subseteq reg[g]
Dispatch(others) ==
  /\ isr = Rest
  /\ isr' = [Rest EXCEPT !.todo = SelectSeq([i \in DOMAIN B.sources |-> i], LAMBDA i : Flagged(B.sources[i], reg)),
                         !.at = 1, !.seen = Now(reg)]
  /\ reg' = IF "unlock" \in DOMAIN reg THEN [reg EXCEPT !["unlock"] = 0] ELSE reg
  /\ past' = [past EXCEPT !.told = NoAnswer, !.others = others]
  /\ UNCHANGED <<bench, slot, main, asked>>
Interrupt == (\E i \in DOMAIN B.sources : Taken(B.sources[i])) /\ Dispatch(past.others)
\* An interrupt of a source that is on no bench has the dispatcher look at the flags too,
\* those of disabled sources among them.  (While one of the bench is taken, it does what
\* that one does.)
OtherInterrupt ==
  /\ B.shared /\ past.others < MaxOthers
  /\ \E i \in DOMAIN B.sources : Flagged(B.sources[i], reg) /\ 7 \in reg["INTCON"]
  /\ \A i \in DOMAIN B.sources : ~Taken(B.sources[i])
  /\ Dispatch(past.others + 1)

\* The call in progress sets up or shuts the driver of callback c.
Turning(c) == main # Idle /\ c \in B.calls[main.call].opens \cup B.calls[main.call].shuts

IsrStep ==
  /\ isr # Rest
  /\ LET handler == B.sources[Head(isr.todo)].code
         code == IF isr.back > 0 THEN B.reply ELSE handler
         s == code[isr.at]
         at == After(code, isr.at, isr.t, reg, slot)
         next == [isr EXCEPT !.t = Locals(s, isr.t, reg)]
     IN  /\ reg' = Effect(s, isr.t, reg)
         /\ slot' = Slots(s, slot)
         /\ isr' = CASE Calls(s, slot) /\ B.reply # <<>> -> [next EXCEPT !.at = 1, !.back = isr.at]
                     [] at > 0 -> [next EXCEPT !.at = at]
                     [] isr.back > 0 /\ isr.back < Len(handler) -> [next EXCEPT !.at = isr.back + 1, !.back = 0]
                     [] Len(isr.todo) > 1 -> [Rest EXCEPT !.todo = Tail(isr.todo), !.at = 1, !.seen = Now(reg)]
                     [] OTHER -> Rest
         /\ LET after == [past EXCEPT !.seen = IF isr' = Rest /\ main # Idle THEN @ \cup Now(reg') ELSE @]
            IN past' = IF ~Calls(s, slot) THEN after
                       ELSE [after EXCEPT !.due = IF s.field = "tx" THEN @ ELSE @ - 1,
                                          !.told = [call |-> <<s.slot, s.field>>,
                                                   value |-> IF Turning(<<s.slot, s.field>>) THEN {} ELSE ValueOf(s.value, isr.t), seen |-> isr.seen]]
  /\ UNCHANGED <<bench, main, asked>>

\* TXIF is a level and not an event: its callbacks are not counted.
Level(q) == \E i \in DOMAIN q.code : q.code[i].op = "call" /\ q.code[i].field = "tx"
-----------------------------------------------------------------------------
\* The peripheral: the register files it may turn R into.
Shown(R, v) == [R EXCEPT !["shown"] = v]
Byte1 == past.events + 1  \* the data of the next event
Buffered(R, S(_)) == LET N == S([R EXCEPT ![B.word[1]] = R["high"]]) IN [N EXCEPT !["high"] = N[B.word[1]], ![B.word[1]] = R[B.word[1]]]
CaptureOn(R, i, r, b) == LET w == 28 + 7 * Byte1  \* each with a high byte of its own
                             S == [R EXCEPT !["CCPR" \o ToString(i) \o "H"] = Hi(w), !["CCPR" \o ToString(i) \o "L"] = Lo(w), ![r] = @ \cup b]
  IN IF R["CCP" \o ToString(i) \o "CON"] \cap {2, 3} = {2} THEN {S} ELSE {}
Hardware(R) ==
  CASE B.hardware = "F87_TIMER0" -> {F87!SimStepTimer0(R)}
    [] B.hardware = "F87_TIMER1" -> {F87!SimStepTimer1(R)}
    [] B.hardware = "F87_TIMER2" -> {F87!SimStepTimer2(R)}
    [] B.hardware = "F87_PORTS"  -> {F87!Raise(F87!SimDriveInput(R, "B", 4, 4 \notin R["PORTB"]), "INTCON", F87!INTCON.RBIF)}
    [] B.hardware = "F87_CCP"    -> CaptureOn(R, 1, "PIR1", F87!PIR1.CCP1IF)
    [] B.hardware = "F87_ADC"    -> IF 2 \in R["ADCON0"] /\ isr = Rest THEN {F87!SimDriveAdcDone(Shown(R, 5 * Byte1), 5 * Byte1)} ELSE {}
    [] B.hardware = "F87_COMP"   -> {F87!Raise([R EXCEPT !["CMCON"] = (@ \ {6}) \cup ({6} \ @)], "PIR2", F87!PIR2.CMIF)}
    [] B.hardware = "F87_EEPROM" -> IF 1 \in R["EECON1"] THEN {[F87!SimDriveEepromDone(R, R["EEADR"], R["EEDATA"]) EXCEPT !["EECON1"] = @ \ {1}]} ELSE {}
    [] B.hardware = "F87_USART"  -> {F87!SimStepUsart(R)} \cup (IF 4 \in R["RCSTA"] THEN {F87!SimDriveUsartRx(Shown(R, Byte1), Byte1)} ELSE {})
    [] B.hardware = "F87_SSP"    -> IF R["shifting"] THEN {[F87!SimDriveSspRx(Shown(R, Byte1), Byte1) EXCEPT !["shifting"] = FALSE]} ELSE {}
    [] B.hardware = "F87_PSP"    -> {F87!Raise(F87!Raise(R, "TRISE", IF 1 \in R["TRISE"] THEN {3} ELSE {1}), "PIR1", F87!PIR1.PSPIF)}
    [] B.hardware = "F18_TIMER0" -> {IF "high" \in DOMAIN R THEN Buffered(R, F18!SimStepTimer0) ELSE F18!SimStepTimer0(R)}
    [] B.hardware = "F18_TIMER1" -> {Buffered(R, F18!SimStepTimer1)}
    [] B.hardware = "F18_TIMER2" -> {F18!SimStepTimer2(R)}
    [] B.hardware = "F18_TIMER3" -> {Buffered(R, F18!SimStepTimer3)}
    [] B.hardware = "F18_PORTS"  -> {F18!Raise(F18!SimDriveInput(R, "B", 4, 4 \notin R["PORTB"]), "INTCON", F18!INTCON.RBIF)}
    [] B.hardware = "F18_CCP"    -> CaptureOn(R, 1, "PIR1", F18!Per1.CCP1)
    [] B.hardware = "F18_PWM"    -> {F18!Raise(R, "ECCP1AS", F18!ECCP1AS.ECCPASE)}
    [] B.hardware = "F18_ADC"    -> IF 1 \in R["ADCON0"] /\ isr = Rest THEN {F18!SimDriveAdcDone(Shown(R, 5 * Byte1), 5 * Byte1)} ELSE {}
    [] B.hardware = "F18_COMP"   -> {F18!SimDriveComp(R, 6 \notin R["CMCON"], FALSE)}
    [] B.hardware = "F18_EEPROM" -> IF 1 \in R["EECON1"] THEN {[F18!SimDriveEepromDone(R, R["EEADR"], R["EEDATA"]) EXCEPT !["EECON1"] = @ \ {1}]} ELSE {}
    [] B.hardware = "F18_USART"  -> {F18!SimStepUsart(R)} \cup (IF 4 \in R["RCSTA"] THEN {F18!SimDriveUsartRx(Shown(R, Byte1), Byte1)} ELSE {})
    [] B.hardware = "F18_SSP"    -> IF R["shifting"] THEN {[F18!SimDriveSspRx(Shown(R, Byte1), Byte1) EXCEPT !["shifting"] = FALSE]} ELSE {}
    [] B.hardware = "F18_SPP"    -> {F18!SimDriveSpp(R, w, ~w) : w \in BOOLEAN}
    [] B.hardware = "F193_TIMER0" -> {F193!SimStepTimer0(R)}
    [] B.hardware = "F193_TIMER1" -> {F193!SimStepTimer1(R)}
    [] B.hardware = "F193_TIMER4" -> {F193!SimStepTimer246(R, 4)}
    [] B.hardware = "F193_PORTS"  -> {F193!SimStepIoc(F193!SimRefreshPort(F193!SimDriveInput(R, 1, 1 \notin R["in"]), "B"))}
    [] B.hardware = "F193_CCP"    -> CaptureOn(R, 3, "PIR3", F193!Per3.CCP3)
    [] B.hardware = "F193_ADC"    -> IF 1 \in R["ADCON0"] /\ isr = Rest THEN {[Shown(R, 5 * Byte1) EXCEPT !["ADCON0"] = @ \ {1}, !["ADRESH"] = Hi(5 * Byte1),
                                                                                          !["ADRESL"] = Lo(5 * Byte1)]} ELSE {}
    [] B.hardware = "F193_EEPROM" -> {F193!SimStepEeprom(R)}
    [] B.hardware = "F193_USART"  -> {F193!SimStepUsart(R)} \cup (IF 4 \in R["RCSTA"] THEN {F193!Raise([Shown(R, Byte1) EXCEPT !["RCREG"] = Byte1],
                                                                                                 "PIR1", F193!Per1.USART_RX)} ELSE {})
    [] B.hardware = "F193_SSP"    -> IF R["shifting"] THEN {F193!Raise([Shown(R, Byte1) EXCEPT !["SSPBUF"] = Byte1, !["shifting"] = FALSE],
                                                                                "SSPSTAT", F193!SSPSTAT.BF)} ELSE {}
    [] OTHER -> {}

HardwareStep ==
  /\ past.events + B.fewer < MaxEvents \/ B.answers
  /\ \E R \in Hardware(reg) :
       /\ R # reg
       /\ reg' = R
       /\ isr' = IF isr = Rest THEN isr ELSE [isr EXCEPT !.seen = @ \cup Now(R)]
       /\ past' = [past EXCEPT !.events = IF B.answers THEN (@ + 1) % MaxEvents ELSE @ + 1,
                               !.seen = IF main = Idle \/ isr # Rest THEN @ ELSE @ \cup Now(R),
                               !.due = @ + Cardinality({i \in DOMAIN B.sources : ~Level(B.sources[i]) /\ ~Flagged(B.sources[i], reg) /\ Flagged(B.sources[i], R)})]
  /\ UNCHANGED <<bench, slot, main, asked>>

Next == (\E c \in DOMAIN B.calls : Begin(c)) \/ MainStep \/ Interrupt \/ OtherInterrupt \/ IsrStep \/ HardwareStep
\* The processor runs, and takes an interrupt that stays up; a peripheral that was asked answers.
Fairness == WF_vars(MainStep) /\ WF_vars(Interrupt) /\ WF_vars(IsrStep) /\ WF_vars(B.answers /\ HardwareStep)
Spec == Init /\ [][Next]_vars /\ Fairness
-----------------------------------------------------------------------------
\* Between calls the registers hold what the calls so far have asked for, and the bits
\* that belong to others what they held.
ConfiguredAsAsked ==
  main = Idle => \A r \in DOMAIN asked : AsBits(r) \cap asked[r].known = asked[r].ones

\* What a read returns was there at some moment of the call, and what a callback is told at
\* some moment of the handler, unless main is just about to set up or to shut its driver.
ReadsAreTrue == past.out.value \subseteq past.out.seen /\ past.told.value \subseteq past.told.seen

\* A callback for each event at most, and none once its driver was shut, whoever's interrupt
\* has the dispatcher look at its flag.
CallbacksAreOwed == past.due >= 0
ToldIfOpen == past'.told \notin {past.told, NoAnswer} => past'.told.call \in past.open
ShutStaysShut == [][ToldIfOpen]_vars

\* Every call returns: no handler leaves its flag up, no wait is for something that does not come.
CallsReturn == main # Idle ~> main = Idle
=============================================================================
