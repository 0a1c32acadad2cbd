------------------------------- MODULE MCDrivers -------------------------------
(***************************************************************************)
(* The benches.  For each: the calls, what a caller of each may count on   *)
(* (bits of registers, read off the data sheet's layout), which callbacks  *)
(* it opens and shuts, the interrupts, and the bits that belong to others. *)
(***************************************************************************)
EXTENDS Drivers

None == [x \in {} |-> 0]
Does(code, want) == [code |-> code, want |-> want, opens |-> {}, shuts |-> {}]
Plain(code) == Does(code, None)
Opening(call, s) == [call EXCEPT !.opens = s]
Shutting(call, s) == [call EXCEPT !.shuts = s]
Holds(mask, bits) == [known |-> mask, ones |-> bits]
Bit(r, b, on) == r :> Holds({b}, When(on, {b}))

\* (f @@ None is f, as a table.)
\* A bench: the registers its code and its interrupts use, at reset unless "others" says so.
\* Other sources interrupt it where it is "shared".
\* "fewer" events than MaxEvents happen where the peripheral has several kinds of them.
Base == [counted |-> None, others |-> None, word |-> <<>>, words |-> {}, reply |-> <<>>, answers |-> FALSE, hardware |-> "", fewer |-> 0, shared |-> TRUE,
         irqs |-> None]
OfCode(f, code) == {code[i][f] : i \in {j \in DOMAIN code : f \in DOMAIN code[j]}}
Pseudo == {"unlock", "cells", "shown", "shifting", "post", "high", "in", "last"}  \* kept with the registers, but none
Bench(reset(_), table, order, names, given) ==
  LET b == given @@ Base
      codes == {b.calls[c].code : c \in DOMAIN b.calls} \cup {b.irqs[q] : q \in DOMAIN b.irqs} \cup {b.reply}
      irqs == SelectSeq(order, LAMBDA q : q \in DOMAIN b.irqs)
      sources == [i \in DOMAIN irqs |-> LET q == table[irqs[i]] IN
                   [flagReg |-> q.flagReg, flag |-> q.flag, code |-> b.irqs[irqs[i]],
                    gates |-> IF q.enReg = "INTCON" THEN ("INTCON" :> ({7} \cup q.en)) ELSE ("INTCON" :> {6, 7} @@ q.enReg :> q.en)]] @@ None
      regs == UNION {OfCode("reg", c) : c \in codes} \cup DOMAIN b.others
              \cup UNION {DOMAIN sources[i].gates \cup {sources[i].flagReg} : i \in DOMAIN sources}
      wanted == UNION {DOMAIN b.calls[c].want : c \in DOMAIN b.calls}
  IN  [start |-> [r \in regs |-> IF r \in DOMAIN b.others THEN b.others[r] ELSE reset(r)] @@ None,
       slots |-> UNION {OfCode("slot", c) : c \in codes},
       counted |-> [r \in wanted \cup DOMAIN b.counted |-> IF r \in DOMAIN b.counted THEN b.counted[r] ELSE {}] @@ None,
       word |-> b.word, words |-> b.words, reply |-> b.reply, hardware |-> b.hardware, fewer |-> b.fewer, shared |-> b.shared, answers |-> b.answers, sources |-> sources,
       calls |-> b.calls, first |-> b.first, foreign |-> (regs \cup wanted) \ (names \cup Pseudo)]
Bench87(b) == Bench(F87!SimReset, F87!IrqTable, F87!Order, F87!Names, b)
Bench18(b) == Bench(F18!SimReset, F18!IrqTable, F18!Order, F18!Names, b)
Bench193(b) == Bench(F193!SimReset, F193!IrqTable, F193!Order, F193!Names, b)
\* The handle of a driver with some fields set: only those the driver has.
With(default, set) == [f \in DOMAIN default |-> IF f \in DOMAIN set THEN set[f] ELSE default[f]]
On == "INTCON" :> {6, 7}                      \* interrupts are on
Cb(s) == {<<s, "cb">>}
Callbacks == [cb |-> TRUE]
-----------------------------------------------------------------------------
\* Timer0: two configurations, started, stopped, written, read; the pull-ups share OPTION.
T0a == [Mode |-> 0, ClockSource |-> 0, ClockEdge |-> 1, Prescaler |-> 5, PrescalerAssigned |-> TRUE, ReloadValue |-> 6, cb |-> TRUE]
T0b == [Mode |-> 1, ClockSource |-> 1, ClockEdge |-> 0, Prescaler |-> 2, PrescalerAssigned |-> FALSE, ReloadValue |-> 7, cb |-> FALSE]
T0Calls(d, init(_), deinit, start(_), stop, write(_), read, con, wants) ==
  [ia |-> Opening(Does(init(With(d, T0a)), con :> wants.ia @@ Bit("INTCON", 5, TRUE)), Cb("T0")),
   ib |-> Shutting(Does(init(With(d, T0b)), con :> wants.ib @@ Bit("INTCON", 5, FALSE)), Cb("T0")),
   sa |-> Does(start(With(d, T0a)), con :> wants.sa), sb |-> Does(start(With(d, T0b)), con :> wants.sb),
   d |-> Shutting(Does(deinit, con :> wants.stop @@ Bit("INTCON", 5, FALSE)), Cb("T0")),
   stop |-> Does(stop, con :> wants.stop), w |-> Plain(write(5)), r |-> Plain(read),
   none |-> Plain(init(Null))]
T0Option == [ia |-> Holds({5}, {}), ib |-> Holds({5}, {}), stop |-> Holds({5}, {}), sa |-> Holds(0..5, {0, 2, 4}), sb |-> Holds(0..5, {1, 3, 5})]
T0Con == [ia |-> Holds({6, 7}, {6}), ib |-> Holds({6, 7}, {}), stop |-> Holds({7}, {}), sa |-> Holds(0..7, {0, 2, 4, 6, 7}),
          sb |-> Holds(0..7, {1, 3, 5, 7})]
\* DeInit of Timer0 keeps the handle, and the timer counts on: another source interrupts it in
\* InterruptClaims.
T0Bench == [shared |-> FALSE, word |-> <<"TMR0">>, words |-> {"r"}, first |-> {"ia", "ib"}, others |-> On @@ "OPTION" :> {6},
            counted |-> "OPTION" :> {6, 7} @@ "INTCON" :> {7, 6, 4, 3}]
T0 == [T0_87 |-> Bench87(T0Bench @@ [hardware |-> "F87_TIMER0", irqs |-> [TMR0 |-> F87!TIMER0_IRQHandler], calls |->
          T0Calls(F87!TIMER0_Default, F87!TIMER0_Init, F87!TIMER0_DeInit, F87!TIMER0_Start, F87!TIMER0_Stop, F87!TIMER0_WriteCounter, F87!TIMER0_ReadCounter,
                  "OPTION", T0Option)
          @@ [pull |-> Does(F87!GPIO_SetPullups(TRUE), Bit("OPTION", 7, FALSE)), float |-> Does(F87!GPIO_SetPullups(FALSE), Bit("OPTION", 7, TRUE))]]),
       T0_193 |-> Bench193(T0Bench @@ [hardware |-> "F193_TIMER0", irqs |-> [TMR0 |-> F193!TIMER0_IRQHandler], calls |->
          T0Calls(F193!TIMER0_Default, F193!TIMER0_Init, F193!TIMER0_DeInit, F193!TIMER0_Start, F193!TIMER0_Stop, F193!TIMER0_WriteCounter, F193!TIMER0_ReadCounter,
                  "OPTION", T0Option)
          @@ [pull |-> Does(F193!GPIO_SetPullups("B", {1}, TRUE), Bit("OPTION", 7, FALSE) @@ Bit("WPUB", 1, TRUE)),
              float |-> Does(F193!GPIO_SetPullups("B", {1}, FALSE), Bit("OPTION", 7, TRUE) @@ Bit("WPUB", 1, FALSE))]]),
       T0_18 |-> Bench18([T0Bench EXCEPT !.word = <<"TMR0L">>, !.others = On, !.counted = "INTCON" :> {7, 6, 4, 3}]
          @@ [hardware |-> "F18_TIMER0", irqs |-> [TMR0 |-> F18!TIMER0_IRQHandler], calls |->
          T0Calls(F18!TIMER0_Default, F18!TIMER0_Init, F18!TIMER0_DeInit, F18!TIMER0_Start, F18!TIMER0_Stop, F18!TIMER0_WriteCounter, F18!TIMER0_ReadCounter,
                  "T0CON", T0Con)])]
-----------------------------------------------------------------------------
\* Timer1 and Timer3: the 16-bit counters.
T1a == [ClockSource |-> 0, ClockSync |-> 1, Oscillator |-> 0, Prescaler |-> 2, ReloadValue |-> 62, cb |-> TRUE]
T1b == [ClockSource |-> 1, ClockSync |-> 0, Oscillator |-> 1, Prescaler |-> 1, ReloadValue |-> 15, cb |-> FALSE]
T1Calls(d, init(_), deinit, start(_), stop, write(_), read, t, con, pie, en, b, ones) ==
  [ia |-> Opening(Does(init(With(d, T1a)), con :> Holds({0} \cup ones.i, ones.i) @@ Bit(pie, en, TRUE)), Cb(t)),
   ib |-> Shutting(Does(init(With(d, b)), con :> Holds({0} \cup ones.i, ones.i) @@ Bit(pie, en, FALSE)), Cb(t)),
   sa |-> Does(start(With(d, T1a)), con :> Holds(0..7, ones.a)), sb |-> Does(start(With(d, b)), con :> Holds(0..7, ones.b)),
   d |-> Shutting(Does(deinit, con :> Holds(0..7, {}) @@ Bit(pie, en, FALSE)), Cb(t)),
   stop |-> Does(stop, Bit(con, 0, FALSE)), w |-> Plain(write(7)), r |-> Plain(read)]
T1Bench == [words |-> {"r"}, first |-> {"ia", "ib"}, word |-> <<"TMR1H", "TMR1L">>, others |-> On @@ "PIE1" :> {1} @@ "PIR1" :> {4},
            counted |-> "PIE1" :> 1..7 @@ "PIR1" :> 1..7 @@ "INTCON" :> {7, 5, 4, 3}]
T1 == [T1_87 |-> Bench87(T1Bench @@ [reply |-> F87!TIMER1_WriteCounter(54), hardware |-> "F87_TIMER1", irqs |-> [TMR1 |-> F87!TIMER1_IRQHandler], calls |->
          T1Calls(F87!TIMER1_Default, F87!TIMER1_Init, F87!TIMER1_DeInit, F87!TIMER1_Start, F87!TIMER1_Stop, F87!TIMER1_WriteCounter, F87!TIMER1_ReadCounter,
                  "T1", "T1CON", "PIE1", 0, T1b, [i |-> {}, a |-> {0, 2, 5}, b |-> {0, 1, 3, 4}])]),
       T1_193 |-> Bench193(T1Bench @@ [reply |-> F193!TIMER1_WriteCounter(54), hardware |-> "F193_TIMER1", irqs |-> [TMR1 |-> F193!TIMER1_IRQHandler], calls |->
          T1Calls(F193!TIMER1_Default, F193!TIMER1_Init, F193!TIMER1_DeInit, F193!TIMER1_Start, F193!TIMER1_Stop, F193!TIMER1_WriteCounter, F193!TIMER1_ReadCounter,
                  "T1", "T1CON", "PIE1", 0, [T1b EXCEPT !.ClockSource = 0], [i |-> {}, a |-> {0, 5}, b |-> {0, 4}])
          @@ [ic |-> Plain(F193!TIMER1_Init(With(F193!TIMER1_Default, T1b))), sc |-> Plain(F193!TIMER1_Start(With(F193!TIMER1_Default, T1b)))]]),
       T1_18 |-> Bench18([T1Bench EXCEPT !.others = @ @@ "high" :> 0] @@ [hardware |-> "F18_TIMER1", irqs |-> [TMR1 |-> F18!TIMER1_IRQHandler], calls |->
          T1Calls(F18!TIMER1_Default, F18!TIMER1_Init, F18!TIMER1_DeInit, F18!TIMER1_Start, F18!TIMER1_Stop, F18!TIMER1_WriteCounter, F18!TIMER1_ReadCounter,
                  "T1", "T1CON", "PIE1", 0, T1b, [i |-> {7}, a |-> {0, 2, 5, 7}, b |-> {0, 1, 3, 4, 7}])]),
       T3_18 |-> Bench18([word |-> <<"TMR3H", "TMR3L">>, others |-> On @@ "PIE2" :> {4} @@ "high" :> 0, counted |-> "PIE2" :> {0} \cup 2..7 @@ "PIR2" :> {0} \cup 2..7]
          @@ T1Bench @@ [hardware |-> "F18_TIMER3", irqs |-> [TMR3 |-> F18!TIMER3_IRQHandler], calls |->
          T1Calls(F18!TIMER3_Default, F18!TIMER3_Init, F18!TIMER3_DeInit, F18!TIMER3_Start, F18!TIMER3_Stop, F18!TIMER3_WriteCounter, F18!TIMER3_ReadCounter,
                  "T3", "T3CON", "PIE2", 1, T1b, [i |-> {7}, a |-> {0, 2, 5, 7}, b |-> {0, 1, 4, 7}])])]
-----------------------------------------------------------------------------
\* Timer2, and Timer4 of PIC16F193X: the period register and the postscaler.
T2a == [Instance |-> 4, Prescaler |-> 1, Postscaler |-> 1, Period |-> 0, cb |-> TRUE]
T2b == [Instance |-> 4, Prescaler |-> 2, Postscaler |-> 0, Period |-> 2, cb |-> FALSE]
T2Calls(d, init(_), deinit, start(_), stop, write(_), period(_), read, t, con, pr, pie, en) ==
  [ia |-> Opening(Does(init(With(d, T2a)), con :> Holds({2}, {}) @@ Bit(pie, en, TRUE)), Cb(t)),
   ib |-> Shutting(Does(init(With(d, T2b)), con :> Holds({2}, {}) @@ Bit(pie, en, FALSE)), Cb(t)),
   sa |-> Does(start(With(d, T2a)), con :> Holds(0..6, {0, 2, 3}) @@ pr :> Holds(0..2, {})),
   sb |-> Does(start(With(d, T2b)), con :> Holds(0..6, {1, 2}) @@ pr :> Holds(0..2, {1})),
   d |-> Shutting(Does(deinit, con :> Holds(0..6, {}) @@ pr :> Holds(0..2, 0..2) @@ Bit(pie, en, FALSE)), Cb(t)),
   stop |-> Does(stop, Bit(con, 2, FALSE)), w |-> Plain(write(1)), p |-> Does(period(5), pr :> Holds(0..2, {0, 2})), r |-> Plain(read)]
T2Bench == [words |-> {"r"}, first |-> {"ia", "ib"}, word |-> <<"TMR2">>, others |-> On @@ "PIE1" :> {0} @@ "post" :> 0,
            counted |-> "PIE1" :> {0} \cup 2..7 @@ "INTCON" :> {7, 5, 4, 3}]
T2 == [T2_87 |-> Bench87(T2Bench @@ [hardware |-> "F87_TIMER2", irqs |-> [TMR2 |-> F87!TIMER2_IRQHandler], calls |->
          T2Calls(F87!TIMER2_Default, F87!TIMER2_Init, F87!TIMER2_DeInit, F87!TIMER2_Start, F87!TIMER2_Stop, F87!TIMER2_WriteCounter, F87!TIMER2_WritePeriod,
                  F87!TIMER2_ReadCounter, "T2", "T2CON", "PR2", "PIE1", 1)]),
       T2_18 |-> Bench18(T2Bench @@ [hardware |-> "F18_TIMER2", irqs |-> [TMR2 |-> F18!TIMER2_IRQHandler], calls |->
          T2Calls(F18!TIMER2_Default, F18!TIMER2_Init, F18!TIMER2_DeInit, F18!TIMER2_Start, F18!TIMER2_Stop, F18!TIMER2_WriteCounter, F18!TIMER2_WritePeriod,
                  F18!TIMER2_ReadCounter, "T2", "T2CON", "PR2", "PIE1", 1)]),
       T4_193 |-> Bench193([T2Bench EXCEPT !.word = <<"TMR4">>, !.others = On @@ "PIE3" :> {3} @@ "post" :> 0, !.counted = "PIE3" :> {3, 4, 5, 6}]
          @@ [hardware |-> "F193_TIMER4", irqs |-> [TMR4 |-> F193!TIMER246_IRQHandler(4)], calls |->
          T2Calls(F193!TIMER246_Default, F193!TIMER246_Init, F193!TIMER246_DeInit(4), F193!TIMER246_Start, F193!TIMER246_Stop(4), LAMBDA v : F193!TIMER246_WriteCounter(4, v),
                  LAMBDA v : F193!TIMER246_WritePeriod(4, v), F193!TIMER246_ReadCounter(4), "TMR4", "T4CON", "PR4", "PIE3", 1)])]
-----------------------------------------------------------------------------
\* CCP: capture with a callback, compare without; then PWM, with dead band and shutdown on PIC18.
CcpA(i) == [Instance |-> i, Mode |-> 5, CompareValue |-> 9, Duty |-> 0, P1M |-> 0, Delay |-> 0, AutoRestart |-> FALSE, Source |-> 0, PinsAC |-> 0,
            PinsBD |-> 0, cb |-> TRUE]
CcpB(i) == [CcpA(i) EXCEPT !.Mode = 10, !.CompareValue = 20, !.cb = FALSE]
CcpP(m) == [CcpA(1) EXCEPT !.Mode = 12, !.Duty = 13, !.P1M = m, !.Delay = 5, !.AutoRestart = TRUE, !.Source = 2, !.PinsAC = 1, !.PinsBD = 2, !.cb = FALSE]
CcpCalls(init(_), deinit(_), mode(_, _), compare(_, _), capture(_), i, con, pie, en) ==
  [ia |-> Opening(Does(init(CcpA(i)), con :> Holds(0..3, {0, 2}) @@ Bit(pie, en, TRUE)), Cb("CCP" \o ToString(i))),
   ib |-> Shutting(Does(init(CcpB(i)), con :> Holds(0..3, {1, 3}) @@ Bit(pie, en, FALSE)), Cb("CCP" \o ToString(i))),
   d |-> Shutting(Does(deinit(i), con :> Holds(0..7, {}) @@ Bit(pie, en, FALSE)), Cb("CCP" \o ToString(i))),
   m |-> Does(mode(i, 7), con :> Holds(0..3, {0, 1, 2})), c |-> Plain(compare(i, 30)), g |-> Plain(capture(i))]
PwmCalls(init(_), deinit(_), duty(_, _), p1m, out, more, none) ==
  [i |-> Does(init(CcpP(p1m)), "CCP1CON" :> Holds(0..7, {2, 3, 4} \cup out) @@ "CCPR1L" :> Holds(0..2, {0, 1}) @@ more),
   p |-> Does(duty(1, 22), "CCP1CON" :> Holds({4, 5}, {5}) @@ "CCPR1L" :> Holds(0..2, {0, 2})),
   d |-> Does(deinit(1), "CCP1CON" :> Holds(0..7, {}) @@ none)]
CCP == [CCP_87 |-> Bench87([first |-> {"ia", "ib"}, words |-> {"g"}, word |-> <<"CCPR1H", "CCPR1L">>, others |-> On @@ "PIE1" :> {0},
            counted |-> "PIE1" :> {0, 1} \cup 3..7, hardware |-> "F87_CCP", fewer |-> 1, irqs |-> [CCP1 |-> F87!CCP_IRQHandler(1)], calls |->
            CcpCalls(F87!CCP_Init, F87!CCP_DeInit, F87!CCP_SetMode, F87!CCP_SetCompare, F87!CCP_GetCapture, 1, "CCP1CON", "PIE1", 2)]),
        CCP_18 |-> Bench18([first |-> {"ia", "ib"}, words |-> {"g"}, word |-> <<"CCPR1H", "CCPR1L">>, others |-> On @@ "PIE1" :> {0},
            counted |-> "PIE1" :> {0, 1} \cup 3..7, hardware |-> "F18_CCP", fewer |-> 1, irqs |-> [CCP1 |-> F18!CCP_IRQHandler(1)], calls |->
            CcpCalls(F18!CCP_Init, F18!CCP_DeInit, F18!CCP_SetMode, F18!CCP_SetCompare, F18!CCP_GetCapture, 1, "CCP1CON", "PIE1", 2)]),
        CCP_193 |-> Bench193([first |-> {"ia", "ib"}, words |-> {"g"}, word |-> <<"CCPR3H", "CCPR3L">>, others |-> On @@ "PIE3" :> {1},
            counted |-> "PIE3" :> {1, 3, 5, 6}, hardware |-> "F193_CCP", fewer |-> 1, irqs |-> [CCP3 |-> F193!CCP_IRQHandler(3)], calls |->
            CcpCalls(F193!CCP_Init, F193!CCP_DeInit, F193!CCP_SetMode, F193!CCP_SetCompare, F193!CCP_GetCapture, 3, "CCP3CON", "PIE3", 4)
            @@ [ip |-> Plain(F193!CCP_Init(With(F193!CCP_Default, CcpP(0))))]]),
        PWM_87 |-> Bench87([first |-> {"i"}, calls |-> PwmCalls(F87!CCP_Init, F87!CCP_DeInit, F87!CCP_SetPWMDuty, 0, {}, None, None)]),
        PWM_18 |-> Bench18([first |-> {"i"}, hardware |-> "F18_PWM", calls |-> PwmCalls(F18!CCP_Init, F18!CCP_DeInit, F18!CCP_SetPWMDuty, 2, {7},
              "ECCP1DEL" :> Holds(0..7, {0, 2, 7}) @@ "ECCP1AS" :> Holds(0..6, {1, 2, 5}), "ECCP1DEL" :> Holds(0..7, {}) @@ "ECCP1AS" :> Holds(0..6, {}))
            @@ [dead |-> Does(F18!CCP_ConfigDeadBand(1, 3, FALSE), "ECCP1DEL" :> Holds(0..7, {0, 1})),
                auto |-> Does(F18!CCP_ConfigAutoShutdown(1, 4, 2, 1), "ECCP1AS" :> Holds(0..6, {0, 3, 6})), go |-> Plain(F18!CCP_Restart(1))]])]
-----------------------------------------------------------------------------
\* A/D converter: a caller polls GO before it reads; two channels and two clocks.
AdcA == [Channel |-> 1, ClockSource |-> 1, Acquisition |-> 2, ResultFormat |-> 1, Reference |-> 4, VReference |-> {4}, PinConfig |-> 3, cb |-> TRUE]
AdcB == [AdcA EXCEPT !.Channel = 2, !.ClockSource = 5, !.Reference = 0, !.VReference = {}, !.PinConfig = 9, !.cb = FALSE]
AdcCalls(d, init(_), deinit, start, read, go, wants) ==
  [ia |-> Opening(Does(init(With(d, AdcA)), wants.a @@ Bit("PIE1", 6, TRUE)), Cb("ADC")),
   ib |-> Shutting(Does(init(With(d, AdcB)), wants.b @@ Bit("PIE1", 6, FALSE)), Cb("ADC")),
   d |-> Shutting(Does(deinit, wants.d @@ Bit("PIE1", 6, FALSE)), Cb("ADC")), s |-> Plain(start), r |-> Plain(Await("ADCON0", {go}) \o read)]
AdcBench == [first |-> {"ia", "ib"}, words |-> {"r"}, word |-> <<"shown">>, answers |-> TRUE, others |-> On @@ "PIE1" :> {0} @@ "shown" :> 0,
             counted |-> "PIE1" :> 0..5]
Adc193(f) == [F193!ADC_Default EXCEPT !.ClockSource = 3 + f, !.PosRef = 3 * f]
ADC == [ADC_87 |-> Bench87(AdcBench @@ [hardware |-> "F87_ADC", irqs |-> [ADC |-> F87!ADC_IRQHandler], calls |->
            AdcCalls(F87!ADC_Default, F87!ADC_Init, F87!ADC_DeInit, F87!ADC_Start, F87!ADC_Read, 2,
              [a |-> "ADCON0" :> Holds({0, 3, 4, 5, 6, 7}, {0, 3, 6}) @@ "ADCON1" :> Holds({0, 1, 2, 3, 6, 7}, {2, 7}),
               b |-> "ADCON0" :> Holds({0, 3, 4, 5, 6, 7}, {0, 4, 6}) @@ "ADCON1" :> Holds({0, 1, 2, 3, 6, 7}, {6, 7}),
               d |-> "ADCON0" :> Holds({0, 3, 4, 5, 6, 7}, {}) @@ "ADCON1" :> Holds({0, 1, 2, 3, 6, 7}, {})])
            @@ [c |-> Does(F87!ADC_SelectChannel(3), "ADCON0" :> Holds({3, 4, 5}, {3, 4}))]]),
        ADC_18 |-> Bench18(AdcBench @@ [hardware |-> "F18_ADC", irqs |-> [ADC |-> F18!ADC_IRQHandler], calls |->
            AdcCalls(F18!ADC_Default, LAMBDA h : F18!ADC_Init([h EXCEPT !.ResultFormat = 0]), F18!ADC_DeInit, F18!ADC_Start, F18!ADC_Read, 1,
              [a |-> "ADCON0" :> Holds({0, 2, 3, 4, 5}, {0, 2}) @@ "ADCON1" :> Holds(0..5, {0, 1, 4}) @@ "ADCON2" :> Holds(0..7, {0, 4}),
               b |-> "ADCON0" :> Holds({0, 2, 3, 4, 5}, {0, 3}) @@ "ADCON1" :> Holds(0..5, {0, 3}) @@ "ADCON2" :> Holds(0..7, {0, 2, 4}),
               d |-> "ADCON0" :> Holds({0, 2, 3, 4, 5}, {}) @@ "ADCON1" :> Holds(0..5, {}) @@ "ADCON2" :> Holds(0..7, {})])
            @@ [c |-> Does(F18!ADC_SelectChannel(12), "ADCON0" :> Holds({2, 3, 4, 5}, {4, 5}))]]),
        ADC_193 |-> Bench193([AdcBench EXCEPT !.counted = None, !.first = {"i", "j"}, !.others = "shown" :> 0] @@ [hardware |-> "F193_ADC", calls |->
            [i |-> Does(F193!ADC_Init(Adc193(0)), "ADCON1" :> Holds(0..7, {4, 5, 7}) @@ "ADCON0" :> Holds({0} \cup 2..6, {0})),
             j |-> Does(F193!ADC_Init(Adc193(1)), "ADCON1" :> Holds(0..7, {0, 1, 6, 7}) @@ "ADCON0" :> Holds({0} \cup 2..6, {0})),
             d |-> Does(F193!ADC_DeInit, "ADCON0" :> Holds({0} \cup 2..6, {}) @@ "ADCON1" :> Holds(0..7, {})),
             c |-> Does(F193!ADC_SelectChannel(13), "ADCON0" :> Holds(2..6, {2, 4, 5})), cx |-> Plain(F193!ADC_SelectChannel(14)),
             s |-> Plain(F193!ADC_Start), r |-> Plain(Await("ADCON0", {1}) \o F193!ADC_Read)]])]
-----------------------------------------------------------------------------
\* Comparators (with the reference voltage), the analog blocks of PIC16F193X.
CompA == [Mode |-> 3, C1Inverted |-> TRUE, C2Inverted |-> FALSE, CIS |-> TRUE, cb |-> TRUE]
CompB == [CompA EXCEPT !.Mode = 6, !.C2Inverted = TRUE, !.cb = FALSE]
CompCalls(d, init(_), deinit) ==
  [ia |-> Opening(Does(init(With(d, CompA)), "CMCON" :> Holds(0..5, {0, 1, 3, 4}) @@ Bit("PIE2", 6, TRUE)), Cb("CMP")),
   ib |-> Shutting(Does(init(With(d, CompB)), "CMCON" :> Holds(0..5, {1, 2, 3, 4, 5}) @@ Bit("PIE2", 6, FALSE)), Cb("CMP")),
   d |-> Shutting(Does(deinit, "CMCON" :> Holds(0..5, 0..2) @@ Bit("PIE2", 6, FALSE)), Cb("CMP"))]
CompBench == [first |-> {"ia", "ib"}, others |-> On @@ "PIE2" :> {0}, counted |-> "PIE2" :> 0..5]
VrefA == [F87!VREF_Default EXCEPT !.Range = 1, !.Value = 5, !.OutputEnable = TRUE, !.Enabled = TRUE]
Comp193 == [F193!COMP_Default EXCEPT !.Instance = 2, !.PosChannel = 2, !.NegChannel = 1, !.HysteresisOn = TRUE, !.OutputToPin = TRUE,
                                     !.InterruptEdge = 3]
ANALOG == [COMP_87 |-> Bench87(CompBench @@ [hardware |-> "F87_COMP", irqs |-> [CMP |-> F87!COMP_IRQHandler], calls |->
             CompCalls(F87!COMP_Default, F87!COMP_Init, F87!COMP_DeInit)
             @@ [v |-> Does(F87!VREF_Init(VrefA),
                            "CVRCON" :> Holds({0, 1, 2, 3, 5, 6, 7}, {0, 2, 5, 6, 7})),
                 vd |-> Does(F87!VREF_DeInit, "CVRCON" :> Holds({0, 1, 2, 3, 5, 6, 7}, {}))]]),
           COMP_18 |-> Bench18(CompBench @@ [hardware |-> "F18_COMP", irqs |-> [CMP |-> F18!COMP_IRQHandler], calls |->
             CompCalls(F18!COMP_Default, F18!COMP_Init, F18!COMP_DeInit)]),
           ANALOG_193 |-> Bench193([first |-> {"c", "f"}, calls |->
             [c |-> Does(F193!COMP_Init(Comp193), "CM2CON0" :> Holds({1, 4, 5, 7}, {1, 5, 7}) @@ "CM2CON1" :> Holds(0..7, {0, 5, 6, 7})),
              cx |-> Plain(F193!COMP_Init([Comp193 EXCEPT !.NegChannel = 4])),
              cd |-> Does(F193!COMP_DeInit(2), "CM2CON0" :> Holds({1, 4, 5, 7}, {}) @@ "CM2CON1" :> Holds(0..7, {})),
              f |-> Does(F193!FVR_Init([F193!FVR_Default EXCEPT !.CompDacGain = 3]), "FVRCON" :> Holds({0, 1, 2, 3, 7}, {1, 2, 3, 7})),
              fd |-> Does(F193!FVR_DeInit, "FVRCON" :> Holds({0, 1, 2, 3, 7}, {})),
              a |-> Does(F193!DAC_Init([F193!DAC_Default EXCEPT !.OutputValue = 19]), Bit("DACCON0", 7, TRUE) @@ "DACCON1" :> Holds(0..4, {0, 1, 4})),
              ad |-> Does(F193!DAC_DeInit, Bit("DACCON0", 7, FALSE) @@ "DACCON1" :> Holds(0..4, {})),
              t |-> Does(F193!CPS_Init([F193!CPS_Default EXCEPT !.Range = 2, !.Channel = 9]), "CPSCON0" :> Holds({0, 2, 3, 7}, {0, 3, 7}) @@ "CPSCON1" :> Holds(0..3, {0, 3})),
              td |-> Does(F193!CPS_DeInit, "CPSCON0" :> Holds({0, 2, 3, 7}, {}) @@ "CPSCON1" :> Holds(0..3, {})),
              l |-> Does(F193!SRLATCH_Enable, Bit("SRCON0", 7, TRUE)), ld |-> Does(F193!SRLATCH_Disable, Bit("SRCON0", 7, FALSE))]])]
-----------------------------------------------------------------------------
\* Data EEPROM: the caller waits for the end of a write; what it wrote is then there, the other cell
\* untouched.  On PIC16F193X an interrupt of Timer0 may come at any moment.
Cell(a, v) == "cells" :> Holds({a} \X Below(Byte), {<<a, v>>})
Polled(code) == SubSeq(code, 1, Len(code) - 1) \o Await("EECON1", {1}) \o Ok
Heard(code) == SubSeq(code, 1, Len(code) - 1) \o Await("EECON1", {1}) \o Await("PIR2", {4}) \o Ok  \* till the handler has run
EeBench == [word |-> <<"cells">>, words |-> {"r"}, answers |-> TRUE, first |-> {"i"},
            others |-> On @@ "unlock" :> 0 @@ "cells" :> (0 :> 1 @@ 1 :> 6)]
EeCalls(ends(_), store(_, _), read, deinit) ==
  [w |-> Does(ends(store(0, 5)), Cell(0, 5)), x |-> Does(ends(store(0, 2)), Cell(0, 2)), y |-> Does(ends(store(1, 3)), Cell(1, 3)),
   r |-> Plain(read), d |-> Shutting(Plain(deinit), Cb("EE"))]
EeHeard(init(_), store(_, _), read, deinit) ==
  [EeCalls(Heard, store, read, deinit) EXCEPT !.d = Plain(read)] @@ [i |-> Opening(Does(init(Callbacks), Bit("PIE2", 4, TRUE)), Cb("EE"))]
EEPROM == [EE_87 |-> Bench87(EeBench @@ [hardware |-> "F87_EEPROM", calls |-> [i |-> Plain(F87!EEPROM_Init(Null))]
             @@ EeCalls(Polled, F87!EEPROM_WriteByte, F87!EEPROM_ReadByte(0), F87!EEPROM_DeInit)]),
           EE_18 |-> Bench18(EeBench @@ [hardware |-> "F18_EEPROM", calls |-> [i |-> Plain(F18!EEPROM_Init(Null))]
             @@ EeCalls(Polled, F18!EEPROM_WriteByte, F18!EEPROM_ReadByte(0), F18!EEPROM_DeInit)]),
           EEIRQ_87 |-> Bench87(EeBench @@ [hardware |-> "F87_EEPROM", irqs |-> [EEPROM |-> F87!EEPROM_IRQHandler],
             calls |-> EeHeard(F87!EEPROM_Init, F87!EEPROM_WriteByte, F87!EEPROM_ReadByte(0), F87!EEPROM_DeInit)]),
           EEIRQ_18 |-> Bench18(EeBench @@ [hardware |-> "F18_EEPROM", irqs |-> [EEPROM |-> F18!EEPROM_IRQHandler],
             calls |-> EeHeard(F18!EEPROM_Init, F18!EEPROM_WriteByte, F18!EEPROM_ReadByte(0), F18!EEPROM_DeInit)]),
           EE_193 |-> Bench193([EeBench EXCEPT !.first = {"r", "w", "x", "y"},
             !.others = [@ EXCEPT !["INTCON"] = {2, 5, 6, 7}]]
             @@ [hardware |-> "F193_EEPROM", irqs |-> [TMR0 |-> F193!TIMER0_IRQHandler],
                 calls |-> EeCalls(Polled, F193!EEPROM_WriteByte, F193!EEPROM_ReadByte(0), F193!EEPROM_DeInit)])]
-----------------------------------------------------------------------------
\* USART: the callback of the transmitter sends the next byte.
UsartA == [Mode |-> 0, ClockSource |-> 1, BaudHigh |-> 1, BaudGen |-> 1, DataWidth |-> 1, SPBRG |-> 5, SPBRGH |-> 1, AddressDetect |-> TRUE,
           AutoBaud |-> FALSE, tx |-> TRUE, rx |-> TRUE]
UsartB == [UsartA EXCEPT !.Mode = 1, !.BaudHigh = 0, !.DataWidth = 0, !.SPBRG = 2, !.rx = FALSE]
UsartCalls(d, init(_), deinit, transmit(_), receive, wants) ==
  [ia |-> Opening(Does(init(With(d, UsartA)), "TXSTA" :> Holds({0, 2, 4, 5, 6, 7}, {2, 5, 6}) @@ "RCSTA" :> Holds(3..7, wants.a)
            @@ "SPBRG" :> Holds(0..2, {0, 2}) @@ "PIE1" :> Holds({4, 5}, {4, 5}) @@ wants.i), {<<"USART", "tx">>, <<"USART", "rx">>}),
   ib |-> Shutting(Opening(Does(init(With(d, UsartB)), "TXSTA" :> Holds({0, 2, 4, 5, 6, 7}, {4, 5, 7}) @@ "RCSTA" :> Holds(3..7, wants.b)
            @@ "SPBRG" :> Holds(0..2, {1}) @@ "PIE1" :> Holds({4, 5}, {4}) @@ wants.i), {<<"USART", "tx">>}), {<<"USART", "rx">>}),
   d |-> Shutting(Does(deinit, "TXSTA" :> Holds({0, 2, 4, 5, 6, 7}, {}) @@ "RCSTA" :> Holds(3..7, {}) @@ "SPBRG" :> Holds(0..2, {})
            @@ "PIE1" :> Holds({4, 5}, {}) @@ wants.d), {<<"USART", "tx">>, <<"USART", "rx">>}),
   t |-> Plain(transmit(3)), g |-> Plain(receive)]
UsartBench == [first |-> {"ia"}, words |-> {"g"}, word |-> <<"shown">>, others |-> On @@ "PIE1" :> {0} @@ "shown" :> 0,
               counted |-> "PIE1" :> {0, 1, 2, 3, 6, 7}]
USART == [USART_87 |-> Bench87(UsartBench @@ [hardware |-> "F87_USART", fewer |-> 1, reply |-> F87!USART_Transmit(4),
            irqs |-> [RX |-> F87!USART_RX_IRQHandler, TX |-> F87!USART_TX_IRQHandler], calls |->
            UsartCalls(F87!USART_Default, F87!USART_Init, F87!USART_DeInit, F87!USART_Transmit, F87!USART_Receive, [a |-> {4, 6, 7}, b |-> {7}, i |-> None, d |-> None])]),
          USART_18 |-> Bench18(UsartBench @@ [hardware |-> "F18_USART", fewer |-> 1, reply |-> F18!USART_Transmit(4),
            irqs |-> [RX |-> F18!USART_RX_IRQHandler, TX |-> F18!USART_TX_IRQHandler], calls |->
            UsartCalls(F18!USART_Default, F18!USART_Init, F18!USART_DeInit, F18!USART_Transmit, F18!USART_Receive, [a |-> {3, 4, 6, 7}, b |-> {3, 7},
              i |-> "BAUDCON" :> Holds({0, 3, 7}, {3}), d |-> "BAUDCON" :> Holds({0, 3, 7}, {})])
            @@ [o |-> Does(F18!USART_ClearOverrun, Bit("RCSTA", 4, TRUE))]]),
          USART_193 |-> Bench193([first |-> {"i"}, words |-> {"g"}, word |-> <<"shown">>, others |-> "PIR1" :> {4} @@ "shown" :> 0,
            hardware |-> "F193_USART", calls |->
            [i |-> Does(F193!USART_Init([F193!USART_Default EXCEPT !.SPBRG = 6]), "TXSTA" :> Holds({2, 4, 5, 6, 7}, {2, 5})
                        @@ "RCSTA" :> Holds(3..7, {4, 7}) @@ "SPBRGL" :> Holds(0..2, {1, 2})),
             d |-> Does(F193!USART_DeInit, "TXSTA" :> Holds({2, 4, 5, 6, 7}, {}) @@ "RCSTA" :> Holds(3..7, {})),
             t |-> Plain(F193!USART_Transmit(3)), g |-> Plain(F193!USART_Receive)]])]
-----------------------------------------------------------------------------
\* Synchronous serial port: a byte comes in as one goes out.
SspA == [Mode |-> 1, ClockEdge |-> 1, ClockPolarity |-> 1, SamplePhase |-> 0, SSPADD |-> 5, cb |-> TRUE]
SspB == [SspA EXCEPT !.Mode = 2, !.ClockEdge = 0, !.ClockPolarity = 0, !.SamplePhase = 1, !.cb = FALSE]
SspCalls(d, init(_), deinit, write(_), read, clear, con, start) ==
  [ia |-> Opening(Does(init(With(d, SspA)), con :> Holds(0..5, {0, 4, 5}) @@ "SSPSTAT" :> Holds({6, 7}, {6}) @@ start), Cb("SSP")),
   ib |-> Shutting(Does(init(With(d, SspB)), con :> Holds(0..5, {1, 5}) @@ "SSPSTAT" :> Holds({6, 7}, {7}) @@ start), Cb("SSP")),
   d |-> Shutting(Does(deinit, con :> Holds(0..5, {}) @@ "SSPSTAT" :> Holds({6, 7}, {}) @@ start), Cb("SSP")),
   x |-> Plain(write(3)), g |-> Plain(read), c |-> Plain(clear)]
SspBench == [first |-> {"ia", "ib"}, words |-> {"g"}, word |-> <<"shown">>, answers |-> TRUE, counted |-> "PIE1" :> {0, 1, 2, 4, 5, 6, 7},
             others |-> On @@ "PIE1" :> {0} @@ "shifting" :> FALSE @@ "shown" :> 0]
Clear2 == "SSPCON2" :> Holds(0..4, {})
I2c(start, again, stop, receive, ack) ==
  [s |-> Does(start, Bit("SSPCON2", 0, TRUE)), a |-> Does(again, Bit("SSPCON2", 1, TRUE)), p |-> Does(stop, Bit("SSPCON2", 2, TRUE)),
   e |-> Does(receive, Bit("SSPCON2", 3, TRUE)), k |-> Does(ack, Bit("SSPCON2", 4, TRUE))]
SSP == [SSP_87 |-> Bench87(SspBench @@ [hardware |-> "F87_SSP", irqs |-> [SSP |-> F87!SSP_IRQHandler], calls |->
          SspCalls(F87!SSP_Default, F87!SSP_Init, F87!SSP_DeInit, F87!SSP_WriteByte, F87!SSP_ReadByte, F87!SSP_ClearWriteCollision, "SSPCON", Clear2)
          @@ I2c(F87!SSP_Start, F87!SSP_RepeatedStart, F87!SSP_Stop, F87!SSP_ReceiveEnable, F87!SSP_AcknowledgeEnable)]),
        SSP_18 |-> Bench18(SspBench @@ [hardware |-> "F18_SSP", irqs |-> [SSP |-> F18!SSP_IRQHandler], calls |->
          SspCalls(F18!SSP_Default, F18!SSP_Init, F18!SSP_DeInit, F18!SSP_WriteByte, F18!SSP_ReadByte, F18!SSP_ClearWriteCollision, "SSPCON1", Clear2)
          @@ I2c(F18!SSP_Start, F18!SSP_RepeatedStart, F18!SSP_Stop, F18!SSP_ReceiveEnable, F18!SSP_AcknowledgeEnable)]),
        SSP_193 |-> Bench193([SspBench EXCEPT !.counted = None, !.others = "shifting" :> FALSE @@ "shown" :> 0] @@ [hardware |-> "F193_SSP", calls |->
          SspCalls(F193!SSP_Default, F193!SSP_Init, F193!SSP_DeInit, F193!SSP_WriteByte, F193!SSP_ReadByte, F193!SSP_ClearWriteCollision, "SSPCON1", None)
          @@ [ix |-> Plain(F193!SSP_Init([F193!SSP_Default EXCEPT !.Mode = 4]))]])]
-----------------------------------------------------------------------------
\* Parallel ports: the slave port of PIC16F87XA, the streaming port of PIC18FXX5X.
SppA == [Ownership |-> 1, ClockConfig |-> 2, CSEnable |-> TRUE, CLK1Enable |-> FALSE, WaitStates |-> 6, Endpoint |-> 3, cb |-> TRUE]
SppB == [SppA EXCEPT !.Ownership = 0, !.CLK1Enable = TRUE, !.cb = FALSE]
PARALLEL ==
  [PSP_87 |-> Bench87([first |-> {"ia", "ib"}, others |-> On @@ "PIE1" :> {0}, counted |-> "PIE1" :> 0..6, hardware |-> "F87_PSP",
     irqs |-> [PSP |-> F87!PSP_IRQHandler], calls |->
     [ia |-> Opening(Does(F87!PSP_Init(Callbacks), Bit("PIE1", 7, TRUE)), Cb("PSP")),
      ib |-> Shutting(Does(F87!PSP_Init(Null), Bit("PIE1", 7, FALSE)), Cb("PSP")),
      d |-> Shutting(Does(F87!PSP_DeInit, Bit("PIE1", 7, FALSE) @@ Bit("TRISE", 4, FALSE)), Cb("PSP")),
      e |-> Does(F87!PSP_Enable, Bit("TRISE", 4, TRUE)), f |-> Does(F87!PSP_Disable, Bit("TRISE", 4, FALSE)),
      o |-> Plain(F87!PSP_ClearInputOverflow)]]),
   SPP_18 |-> Bench18([first |-> {"ia", "ib"}, others |-> On @@ "PIE1" :> {0}, counted |-> "PIE1" :> 0..6, hardware |-> "F18_SPP",
     irqs |-> [SPP |-> F18!SPP_IRQHandler], calls |->
     [ia |-> Opening(Does(F18!SPP_Init(SppA), "SPPCFG" :> Holds(0..7, {1, 2, 5, 7}) @@ "SPPCON" :> Holds({0, 1}, {0, 1})
               @@ "SPPEPS" :> Holds(0..3, {0, 1}) @@ Bit("PIE1", 7, TRUE)), Cb("SPP")),
      ib |-> Shutting(Does(F18!SPP_Init(SppB), "SPPCFG" :> Holds(0..7, {1, 2, 4, 5, 7}) @@ "SPPCON" :> Holds({0, 1}, {0})
               @@ "SPPEPS" :> Holds(0..3, {0, 1}) @@ Bit("PIE1", 7, FALSE)), Cb("SPP")),
      d |-> Shutting(Does(F18!SPP_DeInit, "SPPCFG" :> Holds(0..7, {}) @@ "SPPCON" :> Holds({0, 1}, {})
              @@ "SPPEPS" :> Holds(0..3, {}) @@ Bit("PIE1", 7, FALSE)), Cb("SPP")),
      w |-> Does(F18!SPP_WriteByte(5, 4), "SPPEPS" :> Holds(0..3, {0, 2})), r |-> Does(F18!SPP_ReadByte(6), "SPPEPS" :> Holds(0..3, {1, 2}))]])]
-----------------------------------------------------------------------------
\* Ports: pins 1 and 2 of port C are the caller's, the callback of port B toggles port D.
GpioCalls(init(_, _, _), deinit(_), pin(_, _, _), all(_, _), out, source, register(_), enable, disable, low, gone) ==
  [cb |-> Opening(Does(register(Callbacks) \o enable, Bit("INTCON", 3, TRUE)), Cb(source)),
   no |-> Shutting(Does(register(Null) \o disable \o Ok, Bit("INTCON", 3, FALSE)), Cb(source)),
   o |-> Does(init("C", {1, 2, 9}, "OUTPUT"), "TRISC" :> Holds({1, 2}, {}) @@ low), i |-> Does(init("C", {2}, "INPUT"), Bit("TRISC", 2, TRUE)),
   h |-> Does(pin("C", {1, 3}, TRUE), out :> Holds({1, 3}, {1, 3})), l |-> Does(pin("C", {1}, FALSE), Bit(out, 1, FALSE)),
   w |-> Does(all("C", {0, 2, 8}), out :> Holds(0..7, {0, 2})), d |-> Does(deinit("C"), "TRISC" :> Holds(0..7, 0..7) @@ gone)]
GpioBench == [first |-> {"cb"}, words |-> {"r"}, word |-> <<"PORTB">>, counted |-> "TRISC" :> {0, 3, 4, 5, 6, 7}]
GPIO == [GPIO_87 |-> Bench87(GpioBench @@ [hardware |-> "F87_PORTS", irqs |-> [RB |-> F87!RB_IRQHandler], reply |-> F87!GPIO_TogglePin("D", {3}),
           others |-> On, calls |-> GpioCalls(F87!GPIO_Init, F87!GPIO_DeInit, F87!GPIO_WritePin, F87!GPIO_WritePort, "PORTC", "RB",
             F87!GPIO_RegisterChangeCallback, F87!IRQ_Enable("RB"), F87!IRQ_DisableSrc("RB"), None, None) @@ [r |-> Plain(F87!GPIO_ReadPort("B"))]]),
         GPIO_18 |-> Bench18(GpioBench @@ [hardware |-> "F18_PORTS", fewer |-> 1, irqs |-> [RB |-> F18!RB_IRQHandler], reply |-> F18!GPIO_TogglePin("D", {3}),
           others |-> On, calls |-> GpioCalls(F18!GPIO_Init, F18!GPIO_DeInit, F18!GPIO_WritePin, F18!GPIO_WritePort, "LATC", "RB",
             F18!GPIO_RegisterChangeCallback, F18!IRQ_Enable("RB"), F18!IRQ_DisableSrc("RB"), None, "LATC" :> Holds(0..7, {})) @@ [r |-> Plain(F18!GPIO_ReadPort("B")),
             q |-> Does(F18!IRQ_SetPriority("RB", FALSE), Bit("INTCON2", 0, FALSE)), pull |-> Does(F18!GPIO_SetPullups(TRUE), Bit("INTCON2", 7, FALSE)),
             z |-> Does(F18!IRQ_Disable, "INTCON" :> Holds({6, 7}, {})), y |-> Does(F18!IRQ_Restore(TRUE), "INTCON" :> Holds({6, 7}, {6, 7}))]]),
         GPIO_193 |-> Bench193([GpioBench EXCEPT !.word = <<"IOCBF">>, !.words = {}] @@ [hardware |-> "F193_PORTS",
           irqs |-> [IOC |-> F193!IOC_IRQHandler], reply |-> F193!GPIO_TogglePin("D", {3}),
           others |-> On @@ "in" :> {} @@ "last" :> {} @@ "LATB" :> {} @@ "TRISB" :> 0..7,
           calls |-> GpioCalls(F193!GPIO_Init, F193!GPIO_DeInit, F193!GPIO_WritePin, F193!GPIO_WritePort, "LATC", "IOC",
             F193!GPIO_RegisterChangeCallback, F193!GPIO_EnableChangeDetect({1}, {1}) \o F193!IRQ_Enable("IOC"), F193!IRQ_DisableSrc("IOC"),
             "LATC" :> Holds({1, 2}, {}), "LATC" :> Holds(0..7, {}))])]
-----------------------------------------------------------------------------
\* LCD module: a segment keeps what it was set to until all are wiped.
LcdWiped == "LCDDATA7" :> Holds({1, 2}, {}) @@ "LCDDATA11" :> Holds({7}, {})
LCD == [LCD_193 |-> Bench193([first |-> {"i"}, calls |->
  [i |-> Does(F193!LCD_Init([F193!LCD_Default EXCEPT !.Contrast = 5]), LcdWiped @@ "LCDCON" :> Holds({0, 1, 7}, {0, 1, 7}) @@ "LCDCST" :> Holds(0..2, {0, 2})
                                                              @@ "LCDSE2" :> Holds(0..7, 0..7)),
   x |-> Plain(F193!LCD_Init([F193!LCD_Default EXCEPT !.Contrast = 8])), d |-> Does(F193!LCD_DeInit, LcdWiped @@ "LCDCON" :> Holds({0, 1, 7}, {})),
   s |-> Does(F193!LCD_SetSegment(9, 2, TRUE), Bit("LCDDATA7", 1, TRUE)), t |-> Does(F193!LCD_SetSegment(10, 2, TRUE), Bit("LCDDATA7", 2, TRUE)),
   u |-> Does(F193!LCD_SetSegment(9, 2, FALSE), Bit("LCDDATA7", 1, FALSE)), v |-> Does(F193!LCD_SetSegment(23, 3, TRUE), Bit("LCDDATA11", 7, TRUE)),
   y |-> Plain(F193!LCD_SetSegment(24, 0, TRUE)), c |-> Does(F193!LCD_Clear, LcdWiped)]])]
-----------------------------------------------------------------------------
\* The functions that only look, or clear one flag, on registers full of bits that belong to others.
Queries(s) == [q \in {"q" \o ToString(i) : i \in DOMAIN s} |-> Plain(s[CHOOSE i \in DOMAIN s : q = "q" \o ToString(i)])]
Clears(code, r, b) == Does(code, Bit(r, b, FALSE))
QueryBench == [first |-> {"q1"}, others |-> "PIR1" :> 0..7 @@ "PIR2" :> 0..7, counted |-> "PIR1" :> 0..7 @@ "PIR2" :> 0..7 @@ "TXSTA" :> 1..7]
Nine(set(_)) == [n |-> Does(set(TRUE), Bit("TXSTA", 0, TRUE)), z |-> Does(set(FALSE), Bit("TXSTA", 0, FALSE))]
Cells2 == "unlock" :> 0 @@ "cells" :> (0 :> 1 @@ 1 :> 6)
QUERY ==
  [QUERY_87 |-> Bench87([QueryBench EXCEPT !.others = @ @@ Cells2] @@ [calls |-> Nine(F87!USART_SetTX9D)
     @@ [a |-> Clears(F87!ADC_ClearITFlag, "PIR1", 6), c |-> Clears(F87!COMP_ClearChangeFlag, "PIR2", 6), e |-> Clears(F87!EEPROM_ClearITFlag, "PIR2", 4)]
     @@ Queries(<<F87!ADC_IsConversionDone, F87!ADC_IsConversionInProgress, F87!COMP_C1Out, F87!COMP_C2Out, F87!COMP_IsChangeFlag,
                  F87!EEPROM_IsWriteComplete, F87!GPIO_ReadPin("B", {2}), F87!PSP_IsInputBufferFull, F87!PSP_IsOutputBufferFull,
                  F87!PSP_HasInputOverflow, F87!SSP_AcknowledgeStatus, F87!SSP_HasWriteCollision, F87!SSP_IsBufferFull, F87!TIMER2_ReadPeriod,
                  F87!USART_GetRX9D, F87!USART_GetTX9D, F87!USART_IsTxShiftRegisterEmpty, F87!EEPROM_ReadBuffer(0),
                  F87!EEPROM_WriteBuffer(0, 2, 3)>>)]),
   QUERY_18 |-> Bench18([QueryBench EXCEPT !.others = @ @@ Cells2, !.counted = @ @@ "BAUDCON" :> 0..6] @@ [calls |-> Nine(F18!USART_SetTX9D)
     @@ [a |-> Clears(F18!ADC_ClearITFlag, "PIR1", 6), c |-> Clears(F18!COMP_ClearChangeFlag, "PIR2", 6), e |-> Clears(F18!EEPROM_ClearITFlag, "PIR2", 4),
         s |-> Clears(F18!SPP_ClearITFlag, "PIR1", 7), b |-> Clears(F18!USART_ClearAutoBaudOverflow, "BAUDCON", 7),
         g |-> Does(F18!USART_StartAutoBaud, Bit("BAUDCON", 0, TRUE))]
     @@ Queries(<<F18!ADC_IsConversionDone, F18!ADC_IsConversionInProgress, F18!COMP_C1Out, F18!COMP_C2Out, F18!COMP_IsChangeFlag,
                  F18!EEPROM_IsWriteComplete, F18!GPIO_ReadPin("B", {2}), F18!SSP_AcknowledgeStatus, F18!SSP_HasWriteCollision,
                  F18!SSP_IsBufferFull, F18!TIMER2_ReadPeriod, F18!USART_GetRX9D, F18!USART_GetTX9D, F18!USART_IsTxShiftRegisterEmpty,
                  F18!USART_HasOverrun, F18!USART_IsAutoBaudBusy, F18!USART_HasAutoBaudOverflow, F18!CCP_IsShutdown(1), F18!CCP_IsShutdown(2),
                  F18!IRQ_GetFlag("CCP2"), F18!SPP_IsBusy, F18!SPP_HasWriteOccurred, F18!SPP_HasReadOccurred, F18!SPP_IsInterruptFlag,
                  F18!EEPROM_ReadBuffer(0), F18!EEPROM_WriteBuffer(0, 2, 3)>>)]),
   QUERY_193 |-> Bench193([QueryBench EXCEPT !.counted = "PIR1" :> 0..7 @@ "PIR2" :> 0..7 @@ "INTCON" :> 0..6] @@ [calls |->
     [on |-> Does(F193!IRQ_Restore(TRUE), Bit("INTCON", 7, TRUE)), off |-> Does(F193!IRQ_Restore(FALSE), Bit("INTCON", 7, FALSE)),
      no |-> Does(F193!IRQ_Disable, Bit("INTCON", 7, FALSE)), c |-> Clears(F193!IRQ_ClearFlag("CMP1"), "PIR2", 5)]
     @@ Queries(<<F193!ADC_IsConversionDone, F193!COMP_ReadOutput(1), F193!EEPROM_HasWriteError, F193!EEPROM_IsWriteComplete, F193!FVR_IsReady,
                  F193!GPIO_ReadPin("B", {2}), F193!GPIO_ReadPort("A"), F193!IRQ_GetFlag("CMP2"), F193!LCD_IsActive, F193!SSP_HasWriteCollision,
                  F193!SSP_IsBufferFull, F193!TIMER246_ReadPeriod(6), F193!USART_HasOverrunError, F193!USART_IsTxShiftRegisterEmpty>>)])]
-----------------------------------------------------------------------------
AllBenches == T0 @@ T1 @@ T2 @@ CCP @@ ADC @@ ANALOG @@ EEPROM @@ USART @@ SSP @@ PARALLEL @@ GPIO @@ LCD @@ QUERY
\* (Under its own name TLC looks it up; written out, its statistics would unfold it wherever it is used.)
MCBenches == LET every == AllBenches IN every

\* Every register of a bench is one the header of its family names.
ASSUME RegistersAreNamed == \A b \in DOMAIN AllBenches : AllBenches[b].foreign = {}

\* The handles of the benches, and the defaults of the headers, are handles: each field has a value of its type.
Ccp87 == [Instance |-> 2, Mode |-> 0, CompareValue |-> 0, Duty |-> 0, cb |-> FALSE]  \* it has no default
Used == <<
  <<F87!TIMER0_Default, {T0a, T0b}, F87!TIMER0_Handles>>, <<F87!TIMER1_Default, {T1a, T1b}, F87!TIMER1_Handles>>,
  <<F87!TIMER2_Default, {T2a, T2b}, F87!TIMER2_Handles>>, <<Ccp87, {CcpA(1), CcpB(1), CcpP(0)}, F87!CCP_Handles>>,
  <<F87!ADC_Default, {AdcA, AdcB}, F87!ADC_Handles>>, <<F87!COMP_Default, {CompA, CompB}, F87!COMP_Handles>>,
  <<F87!VREF_Default, {VrefA}, F87!VREF_Handles>>, <<F87!USART_Default, {UsartA, UsartB}, F87!USART_Handles>>,
  <<F87!SSP_Default, {SspA, SspB}, F87!SSP_Handles>>,
  <<F18!TIMER0_Default, {T0a, T0b}, F18!TIMER0_Handles>>, <<F18!TIMER1_Default, {T1a, T1b}, F18!TIMER1_Handles>>,
  <<F18!TIMER2_Default, {T2a, T2b}, F18!TIMER2_Handles>>, <<F18!TIMER3_Default, {T1a, T1b}, F18!TIMER3_Handles>>,
  <<CcpA(2), {CcpA(1), CcpB(1), CcpP(2)}, F18!CCP_Handles>>, <<F18!ADC_Default, {AdcA, AdcB}, F18!ADC_Handles>>,
  <<F18!COMP_Default, {CompA, CompB}, F18!COMP_Handles>>, <<F18!SSP_Default, {SspA, SspB}, F18!SSP_Handles>>,
  <<F18!USART_Default, {UsartA, UsartB}, F18!USART_Handles>>, <<F18!SPP_Default, {SppA, SppB}, F18!SPP_Handles>>,
  <<F193!TIMER0_Default, {T0a, T0b}, F193!TIMER0_Handles>>, <<F193!TIMER1_Default, {T1a, T1b}, F193!TIMER1_Handles>>,
  <<F193!TIMER246_Default, {T2a, T2b}, F193!TIMER246_Handles>>, <<F193!CCP_Default, {CcpA(3), CcpB(3), CcpP(0)}, F193!CCP_Handles>>,
  <<F193!ADC_Default, {Adc193(0), Adc193(1)}, F193!ADC_Handles>>, <<F193!COMP_Default, {Comp193}, F193!COMP_Handles>>,
  <<F193!SSP_Default, {SspA, SspB}, F193!SSP_Handles>>, <<F193!USART_Default, {}, F193!USART_Handles>> >>
ASSUME HandlesFit == \A i \in DOMAIN Used : \A h \in {Used[i][1]} \cup Used[i][2] : With(Used[i][1], h) \in Used[i][3]

\* What a driver says of a prescaler is what the simulator counts, but for 1:256 of PIC16F87XA's Timer0.
Agree(ratio(_), table) == \A p \in Below(Len(table)) : ratio(p) = table[p + 1]
ASSUME RatiosAgree ==
  /\ \A p \in 0..6 : F87!TIMER0_Ratio(p) = F87!SimPrescale0[p + 1]
  /\ Agree(F87!TIMER1_Ratio, F87!SimPrescale1) /\ Agree(F87!TIMER2_PreRatio, F87!SimPrescale2)
  /\ Agree(F18!TIMER0_Ratio, F18!SimPrescale0) /\ Agree(F18!TIMER1_Ratio, F18!SimPrescale1) /\ Agree(F18!TIMER2_PreRatio, F18!SimPrescale2)
  /\ Agree(F18!TIMER3_Ratio, F18!SimPrescale3) /\ Agree(F193!TIMER0_Ratio, F193!SimPrescale0) /\ Agree(F193!TIMER1_Ratio, F193!SimPrescale1)
  /\ Agree(F193!TIMER246_PreRatio, F193!SimPrescale246)
  /\ \A p \in 0..15 : {F87!TIMER2_PostRatio(p), F18!TIMER2_PostRatio(p), F193!TIMER246_PostRatio(p)} = {p + 1}
=============================================================================
