------------------------------ MODULE Pic18fxx5x ------------------------------
(***************************************************************************)
(* pic18fxx5x-hal: where the interrupt bits are, the handles with their    *)
(* defaults, every driver function, and the register simulator of the      *)
(* hosted tests. An output is written through LATx; a register set through *)
(* epic_sfr_write8(epic_sfr_read8()) is a read and a write; the timers     *)
(* have a buffered high byte (RD16).                                       *)
(***************************************************************************)
EXTENDS Pic18fxx5xSfr
-----------------------------------------------------------------------------
\* Where the flag, the enable bit and the priority bit of a source are (pic18_irq.c).
Source(f, b, e, c, p, d) == [flagReg |-> f, flag |-> b, enReg |-> e, en |-> c, prioReg |-> p, prio |-> d]
IrqTable ==
  [INT0 |-> Source("INTCON", INTCON.INT0IF, "INTCON", INTCON.INT0IE, "", {}),
   INT1 |-> Source("INTCON3", INTCON3.INT1IF, "INTCON3", INTCON3.INT1IE, "INTCON3", INTCON3.INT1IP),
   INT2 |-> Source("INTCON3", INTCON3.INT2IF, "INTCON3", INTCON3.INT2IE, "INTCON3", INTCON3.INT2IP),
   RB   |-> Source("INTCON", INTCON.RBIF, "INTCON", INTCON.RBIE, "INTCON2", INTCON2.RBIP),
   TMR0 |-> Source("INTCON", INTCON.TMR0IF, "INTCON", INTCON.TMR0IE, "INTCON2", INTCON2.TMR0IP)]
  @@ [q \in DOMAIN Per1 |-> Source("PIR1", Per1[q], "PIE1", Per1[q], "IPR1", Per1[q])]
  @@ [q \in {"TMR3", "CCP2", "CMP", "EEPROM"} |-> Source("PIR2", Per2[q], "PIE2", Per2[q], "IPR2", Per2[q])]

\* Register and mask are constants here, so that each of these changes is one instruction.
IRQ_Disable == Get("s", "INTCON") \o Bcf("INTCON", INTCON.GIEH) \o Bcf("INTCON", INTCON.GIEL)
  \o Return(Has("s", INTCON.GIEH \cup INTCON.GIEL))
IRQ_Restore(on) == IF on THEN Bsf("RCON", RCON.IPEN) \o Bsf("INTCON", INTCON.GIEH) \o Bsf("INTCON", INTCON.GIEL)
                         ELSE Bcf("INTCON", INTCON.GIEH) \o Bcf("INTCON", INTCON.GIEL)
IRQ_Enable(irq) == Bsf(IrqTable[irq].enReg, IrqTable[irq].en)
IRQ_DisableSrc(irq) == Bcf(IrqTable[irq].enReg, IrqTable[irq].en)
IRQ_ClearFlag(irq) == Bcf(IrqTable[irq].flagReg, IrqTable[irq].flag)
IRQ_GetFlag(irq) == Get("v", IrqTable[irq].flagReg) \o Return(Has("v", IrqTable[irq].flag))
IRQ_SetPriority(irq, high) == IF irq = "INT0" THEN Return(K(""))
  ELSE Change(IrqTable[irq].prioReg, When(~high, IrqTable[irq].prio), When(high, IrqTable[irq].prio))
UnlessFlag(irq) == ReturnUnless(IrqTable[irq].flagReg, IrqTable[irq].flag, "")
EnableIf(c, irq) == IF c THEN IRQ_Enable(irq) ELSE IRQ_DisableSrc(irq)
\* The order in which the dispatcher looks at the flags.
Order == <<"TMR0", "RB", "TMR1", "TMR2", "CCP1", "SSP", "TX", "RX", "ADC", "SPP", "TMR3", "CCP2", "CMP", "EEPROM">>
Handler(irq, s) == UnlessFlag(irq) \o IRQ_ClearFlag(irq) \o Callback(s, K(""))
-----------------------------------------------------------------------------
\* GPIO.
Tris(p) == "TRIS" \o p
Lat(p) == "LAT" \o p
Port(p) == "PORT" \o p
Width(p) == CASE p = "E" -> 3 [] p = "A" -> 6 [] OTHER -> 8
Mask(p, pins) == pins \cap Below(Width(p))

GPIO_Init(p, pins, mode) ==
  Modify(Tris(p), When(mode = "OUTPUT", Mask(p, pins)), When(mode # "OUTPUT", Mask(p, pins)))
GPIO_DeInit(p) == Set(Tris(p), Below(Width(p))) \o Set(Lat(p), {})
GPIO_WritePin(p, pins, high) == Modify(Lat(p), When(~high, Mask(p, pins)), When(high, Mask(p, pins)))
GPIO_TogglePin(p, pins) == Toggle(Lat(p), Mask(p, pins))
GPIO_ReadPin(p, pins) == Get("v", Port(p)) \o Return(Has("v", Mask(p, pins)))
GPIO_WritePort(p, value) == Set(Lat(p), Mask(p, value))
GPIO_ReadPort(p) == Get("v", Port(p)) \o Return(T("v"))
GPIO_SetPullups(on) == Change("INTCON2", When(on, INTCON2.RBPU), When(~on, INTCON2.RBPU))
GPIO_RegisterChangeCallback(cb) == Keep("RB", cb)
\* Mutant: the flag of the change interrupt stays up.
RB_IRQHandlerKeeps == UnlessFlag("RB") \o Get("d", "PORTB") \o Callback("RB", T("d"))
RB_IRQHandler == UnlessFlag("RB") \o Get("d", "PORTB") \o IRQ_ClearFlag("RB") \o Callback("RB", T("d"))
-----------------------------------------------------------------------------
\* Timer0.  In 16-bit mode TMR0H is a buffer that is loaded into the counter with TMR0L.
TIMER0_Handles == [Mode : 0..1, ClockSource : 0..1, ClockEdge : 0..1, Prescaler : 0..7, PrescalerAssigned : BOOLEAN,
                   ReloadValue : Below(Byte), cb : BOOLEAN]
TIMER0_Default == [Mode |-> 0, ClockSource |-> 0, ClockEdge |-> 0, Prescaler |-> 7, PrescalerAssigned |-> TRUE,
                   ReloadValue |-> 0, cb |-> FALSE]
TIMER0_Ratio(p) == IF p > 7 THEN 1 ELSE 2^(p + 1)
TIMER0_Init(h) == Given(h, Bcf("T0CON", T0CON.TMR0ON) \o IRQ_ClearFlag("TMR0") \o EnableIf(h.cb, "TMR0")
  \o Change("T0CON", When(h.Mode = 1, T0CON.T08BIT), When(h.Mode = 0, T0CON.T08BIT)) \o Keep("T0", h) \o Ok)
TIMER0_DeInit == IRQ_DisableSrc("TMR0") \o IRQ_ClearFlag("TMR0") \o Bcf("T0CON", T0CON.TMR0ON) \o Set("TMR0L", 0) \o Set("TMR0H", 0) \o Ok
TIMER0_Start(h) == Given(h, Set("TMR0L", h.ReloadValue) \o (IF h.Mode = 1 THEN Set("TMR0H", 0) ELSE <<>>)
  \o Modify("T0CON", T0CON.T0PS \cup T0CON.PSA \cup T0CON.T0CS \cup T0CON.T0SE \cup T0CON.T08BIT,
            (Bits(h.Prescaler) \cap T0CON.T0PS) \cup When(~h.PrescalerAssigned, T0CON.PSA) \cup When(h.ClockSource = 1, T0CON.T0CS)
            \cup When(h.ClockEdge = 1, T0CON.T0SE) \cup When(h.Mode = 0, T0CON.T08BIT))
  \o Bsf("T0CON", T0CON.TMR0ON) \o Ok)
TIMER0_Stop == Bcf("T0CON", T0CON.TMR0ON) \o Ok
TIMER0_ReadCounter == Get("v", "TMR0L") \o Return(T("v"))
TIMER0_WriteCounter(v) == Set("TMR0L", v)
TIMER0_IRQHandler == Handler("TMR0", "T0")

\* Timer1: the handle is copied; the low byte is read first, and written last.
TIMER1_Handles == [ClockSource : 0..1, ClockSync : 0..1, Oscillator : 0..1, Prescaler : 0..3,
                   ReloadValue : Below(Byte * Byte), cb : BOOLEAN]
TIMER1_Default == [ClockSource |-> 0, ClockSync |-> 0, Oscillator |-> 0, Prescaler |-> 0, ReloadValue |-> 0, cb |-> FALSE]
TIMER1_Ratio(p) == IF p > 3 THEN 1 ELSE 2^p
TIMER1_ReadCounter == Get("l", "TMR1L") \o Get("h", "TMR1H") \o Return(W("h", "l"))
TIMER1_WriteCounter(v) == Set("TMR1H", Hi(v)) \o Set("TMR1L", Lo(v))
TIMER1_Init(h) == Given(h, Bcf("T1CON", T1CON.TMR1ON) \o IRQ_ClearFlag("TMR1") \o EnableIf(h.cb, "TMR1") \o Bsf("T1CON", T1CON.RD16)
  \o Keep("T1", h) \o Ok)
TIMER1_DeInit == IRQ_DisableSrc("TMR1") \o IRQ_ClearFlag("TMR1") \o Set("T1CON", {}) \o TIMER1_WriteCounter(0) \o Drop("T1") \o Ok
TIMER1_Start(h) == Given(h, TIMER1_WriteCounter(h.ReloadValue)
  \o Set("T1CON", T1CON.RD16 \cup Shl(h.Prescaler % 4, 4) \cup When(h.Oscillator = 1, T1CON.T1OSCEN)
                  \cup When(h.ClockSync = 1, T1CON.T1SYNC) \cup When(h.ClockSource = 1, T1CON.TMR1CS) \cup T1CON.TMR1ON) \o Ok)
TIMER1_Stop == Bcf("T1CON", T1CON.TMR1ON) \o Ok
TIMER1_IRQHandler == Handler("TMR1", "T1")

\* Timer2.
TIMER2_Handles == [Prescaler : 0..2, Postscaler : 0..15, Period : Below(Byte), cb : BOOLEAN]
TIMER2_Default == [Prescaler |-> 0, Postscaler |-> 0, Period |-> Byte - 1, cb |-> FALSE]
TIMER2_PreRatio(p) == CASE p = 0 -> 1 [] p = 1 -> 4 [] p \in {2, 3} -> 16 [] OTHER -> 1
TIMER2_PostRatio(p) == IF p > 15 THEN 1 ELSE p + 1
TIMER2_ReadCounter == Get("v", "TMR2") \o Return(T("v"))
TIMER2_WriteCounter(v) == Set("TMR2", v)
TIMER2_ReadPeriod == Get("v", "PR2") \o Return(T("v"))
TIMER2_WritePeriod(v) == Set("PR2", v)
TIMER2_Init(h) == Given(h, Bcf("T2CON", T2CON.TMR2ON) \o IRQ_ClearFlag("TMR2") \o EnableIf(h.cb, "TMR2") \o Keep("T2", h) \o Ok)
TIMER2_DeInit == IRQ_DisableSrc("TMR2") \o IRQ_ClearFlag("TMR2") \o Set("T2CON", {}) \o TIMER2_WritePeriod(Byte - 1) \o Drop("T2") \o Ok
TIMER2_Start(h) == Given(h, TIMER2_WritePeriod(h.Period)
  \o Set("T2CON", Shl(h.Postscaler % 16, 3) \cup T2CON.TMR2ON \cup Bits(h.Prescaler % 4)) \o Ok)
TIMER2_Stop == Bcf("T2CON", T2CON.TMR2ON) \o Ok
TIMER2_IRQHandler == Handler("TMR2", "T2")

\* Timer3: as Timer1, without an oscillator of its own.
TIMER3_Handles == [ClockSource : 0..1, ClockSync : 0..1, Prescaler : 0..3, ReloadValue : Below(Byte * Byte), cb : BOOLEAN]
TIMER3_Default == [ClockSource |-> 0, ClockSync |-> 0, Prescaler |-> 0, ReloadValue |-> 0, cb |-> FALSE]
TIMER3_Ratio(p) == IF p > 3 THEN 1 ELSE 2^p
TIMER3_ReadCounter == Get("l", "TMR3L") \o Get("h", "TMR3H") \o Return(W("h", "l"))
TIMER3_WriteCounter(v) == Set("TMR3H", Hi(v)) \o Set("TMR3L", Lo(v))
TIMER3_Init(h) == Given(h, Bcf("T3CON", T3CON.TMR3ON) \o IRQ_ClearFlag("TMR3") \o EnableIf(h.cb, "TMR3") \o Bsf("T3CON", T3CON.RD16)
  \o Keep("T3", h) \o Ok)
TIMER3_DeInit == IRQ_DisableSrc("TMR3") \o IRQ_ClearFlag("TMR3") \o Set("T3CON", {}) \o TIMER3_WriteCounter(0) \o Drop("T3") \o Ok
TIMER3_Start(h) == Given(h, TIMER3_WriteCounter(h.ReloadValue)
  \o Set("T3CON", T3CON.RD16 \cup Shl(h.Prescaler % 4, 4) \cup When(h.ClockSync = 1, T3CON.T3SYNC)
                  \cup When(h.ClockSource = 1, T3CON.TMR3CS) \cup T3CON.TMR3ON) \o Ok)
TIMER3_Stop == Bcf("T3CON", T3CON.TMR3ON) \o Ok
TIMER3_IRQHandler == Handler("TMR3", "T3")
-----------------------------------------------------------------------------
\* ECCP1 and CCP2: output mode, dead band and automatic shutdown are those of ECCP1.
CCP_Modes == {0, 2} \cup 4..12
CCP_Handles == [Instance : 1..2, Mode : CCP_Modes, CompareValue : Below(Byte * Byte), Duty : Below(4 * Byte), P1M : 0..3,
                Delay : Below(Byte), AutoRestart : BOOLEAN, Source : 0..7, PinsAC : 0..2, PinsBD : 0..2, cb : BOOLEAN]
Ccp(i) == IF i = 2 THEN [l |-> "CCPR2L", h |-> "CCPR2H", con |-> "CCP2CON", irq |-> "CCP2"]
                   ELSE [l |-> "CCPR1L", h |-> "CCPR1H", con |-> "CCP1CON", irq |-> "CCP1"]
DutyBits(duty) == Shl(duty % 4, 4)
DeadBand(delay, restart) == (Bits(delay) \cap ECCP1DEL.PDC) \cup When(restart, ECCP1DEL.PRSEN)
Shutdown(source, ac, bd) == Shl(source % 8, 4) \cup Shl(ac % 4, 2) \cup Bits(bd % 4)
CCP_Init(h) == Given(h, LET c == Ccp(h.Instance)
                            outputs == When(h.Instance = 1, Shl(h.P1M % 4, 6))
  IN Keep(c.irq, h) \o IRQ_ClearFlag(c.irq) \o EnableIf(h.cb, c.irq)
     \o (IF h.Mode = 12
         THEN Set(c.l, h.Duty \div 4) \o Set(c.h, 0) \o Set(c.con, Bits(h.Mode) \cup DutyBits(h.Duty) \cup outputs)
         ELSE Set(c.h, Hi(h.CompareValue)) \o Set(c.l, Lo(h.CompareValue)) \o Set(c.con, Bits(h.Mode) \cup outputs))
     \o (IF h.Instance = 1 THEN Set("ECCP1DEL", DeadBand(h.Delay, h.AutoRestart))
                                \o Set("ECCP1AS", Shutdown(h.Source, h.PinsAC, h.PinsBD)) ELSE <<>>) \o Ok)
CCP_DeInit(i) == LET c == Ccp(i) IN IRQ_DisableSrc(c.irq) \o IRQ_ClearFlag(c.irq) \o Set(c.con, {})
  \o (IF i = 1 THEN Set("ECCP1DEL", {}) \o Set("ECCP1AS", {}) ELSE <<>>) \o Drop(c.irq) \o Ok
CCP_SetCompare(i, v) == Set(Ccp(i).h, Hi(v)) \o Set(Ccp(i).l, Lo(v))
CCP_SetMode(i, mode) == Set(Ccp(i).con, Bits(mode))
CCP_GetCapture(i) ==
  Repeat(Get("h", Ccp(i).h) \o Get("l", Ccp(i).l) \o Get("g", Ccp(i).h), "h", "g") \o Return(W("g", "l"))
CCP_SetPWMDuty(i, duty) == Modify(Ccp(i).con, CCP1CON.DC1B, DutyBits(duty)) \o Set(Ccp(i).l, duty \div 4)
CCP_ConfigDeadBand(i, delay, restart) == IF i # 1 THEN Return(K("")) ELSE Set("ECCP1DEL", DeadBand(delay, restart))
CCP_ConfigAutoShutdown(i, source, ac, bd) == IF i # 1 THEN Return(K("")) ELSE
  Modify("ECCP1AS", ECCP1AS.SRC \cup ECCP1AS.PSSAC \cup ECCP1AS.PSSBD, Shutdown(source, ac, bd))
CCP_IsShutdown(i) == IF i # 1 THEN Return(K(FALSE)) ELSE Get("v", "ECCP1AS") \o Return(Has("v", ECCP1AS.ECCPASE))
CCP_Restart(i) == IF i # 1 THEN Return(K("")) ELSE Modify("ECCP1AS", ECCP1AS.ECCPASE, {})
CCP_IRQHandler(i) == Bcf(IrqTable[Ccp(i).irq].flagReg, IrqTable[Ccp(i).irq].flag) \o Callback(Ccp(i).irq, K(""))
-----------------------------------------------------------------------------
\* A/D converter.
ADC_Handles == [Channel : 0..12, ClockSource : 0..7, Acquisition : 0..7, ResultFormat : 0..1, VReference : SUBSET {4, 5},
                PinConfig : 0..15, cb : BOOLEAN]
ADC_Default == [Channel |-> 0, ClockSource |-> 1, Acquisition |-> 1, ResultFormat |-> 1, VReference |-> {}, PinConfig |-> 0,
                cb |-> FALSE]
ADC_Init(h) == Given(h, Keep("ADC", h)
  \o Set("ADCON0", ADCON0.ADON \cup Shl(h.Channel % 16, 2))
  \o Set("ADCON1", h.VReference \cup (Bits(h.PinConfig) \cap ADCON1.PCFG))
  \o Set("ADCON2", When(h.ResultFormat = 1, ADCON2.ADFM) \cup Shl(h.Acquisition % 8, 3) \cup (Bits(h.ClockSource) \cap ADCON2.ADCS))
  \o IRQ_ClearFlag("ADC") \o EnableIf(h.cb, "ADC") \o Ok)
ADC_DeInit == IRQ_DisableSrc("ADC") \o IRQ_ClearFlag("ADC") \o Set("ADCON0", {}) \o Set("ADCON1", {}) \o Set("ADCON2", {})
  \o Drop("ADC") \o Ok
ADC_SelectChannel(ch) == Modify("ADCON0", ADCON0.CHS, Shl(ch % 16, 2))
ADC_Start == Get("v", "ADCON0") \o ReturnHas("v", ADCON0.GO, "BUSY") \o Put("ADCON0", "v", {}, ADCON0.GO) \o Return(K(0))
ADC_IsConversionInProgress == Get("v", "ADCON0") \o Return(Has("v", ADCON0.GO))
ADC_IsConversionDone == Get("v", "PIR1") \o Return(Has("v", Per1.ADC))
ADC_ClearITFlag == IRQ_ClearFlag("ADC")
ADC_Fetch == Get("l", "ADRESL") \o Get("h", "ADRESH") \o Get("f", "ADCON2")
ADC_Result == Down("h", "l", "f", ADCON2.ADFM)
ADC_Read == ADC_Fetch \o Return(ADC_Result)
\* Mutant: the flag is not cleared.
ADC_IRQHandlerLate == UnlessFlag("ADC") \o UnlessKept("ADC") \o ADC_Fetch \o Callback("ADC", ADC_Result)
ADC_IRQHandler == UnlessFlag("ADC") \o IRQ_ClearFlag("ADC") \o UnlessKept("ADC") \o ADC_Fetch \o Callback("ADC", ADC_Result)

\* Comparators.
COMP_Handles == [Mode : 0..7, C1Inverted : BOOLEAN, C2Inverted : BOOLEAN, CIS : BOOLEAN, cb : BOOLEAN]
COMP_Default == [Mode |-> 2, C1Inverted |-> FALSE, C2Inverted |-> FALSE, CIS |-> FALSE, cb |-> FALSE]
COMP_Init(h) == Given(h, Keep("CMP", h)
  \o Set("CMCON", (Bits(h.Mode) \cap CMCON.CM) \cup When(h.CIS, CMCON.CIS) \cup When(h.C1Inverted, CMCON.C1INV)
                  \cup When(h.C2Inverted, CMCON.C2INV))
  \o IRQ_ClearFlag("CMP") \o EnableIf(h.cb, "CMP") \o Ok)
COMP_DeInit == IRQ_DisableSrc("CMP") \o IRQ_ClearFlag("CMP") \o Set("CMCON", CMCON.CM) \o Drop("CMP") \o Ok
COMP_C1Out == Get("v", "CMCON") \o Return(Has("v", CMCON.C1OUT))
COMP_C2Out == Get("v", "CMCON") \o Return(Has("v", CMCON.C2OUT))
COMP_IsChangeFlag == Get("v", "PIR2") \o Return(Has("v", Per2.CMP))
COMP_ClearChangeFlag == IRQ_ClearFlag("CMP")
COMP_IRQHandler == Handler("CMP", "CMP")
-----------------------------------------------------------------------------
\* Data EEPROM: nothing keeps an interrupt out of the unlock sequence.
EEPROM_Init(cb) == Keep("EE", cb) \o IRQ_ClearFlag("EEPROM") \o EnableIf(cb # Null, "EEPROM") \o Ok
EEPROM_DeInit == IRQ_DisableSrc("EEPROM") \o IRQ_ClearFlag("EEPROM") \o Set("EECON1", {}) \o Drop("EE") \o Ok
EEPROM_ReadByte(addr) == Set("EEADR", addr) \o Set("EECON1", {}) \o Set("EECON1", EECON1.RD) \o Get("v", "EEDATA")
  \o Copy("EEDATA", "v") \o Return(T("v"))
EEPROM_ReadBuffer(addr) == EEPROM_ReadByte(addr) \o EEPROM_ReadByte(addr + 1)
EEPROM_Store(addr, data) ==
  ReturnIf("EECON1", EECON1.WRERR, "ERROR") \o Set("EEDATA", data) \o Set("EEADR", addr) \o Set("EECON1", {})
  \o Set("EECON1", EECON1.WREN) \o Set("EECON2", 85) \o Set("EECON2", 170) \o Set("EECON1", EECON1.WREN \cup EECON1.WR)
EEPROM_WriteByte(addr, data) == EEPROM_Store(addr, data) \o Ok
EEPROM_WriteBuffer(addr, one, two) == EEPROM_Store(addr, one) \o EEPROM_Store(addr + 1, two) \o Ok
EEPROM_IsWriteComplete == Get("v", "PIR2") \o Return(Has("v", Per2.EEPROM))
EEPROM_ClearITFlag == IRQ_ClearFlag("EEPROM")
EEPROM_IRQHandler == Handler("EEPROM", "EE")
-----------------------------------------------------------------------------
\* Synchronous serial port.
SSP_Handles == [Mode : 0..11, ClockEdge : 0..1, ClockPolarity : 0..1, SamplePhase : 0..1, SSPADD : Below(Byte), cb : BOOLEAN]
SSP_Default == [Mode |-> 0, ClockEdge |-> 1, ClockPolarity |-> 0, SamplePhase |-> 0, SSPADD |-> 0, cb |-> FALSE]
SSP_Init(h) == Given(h, Keep("SSP", h) \o Set("SSPADD", h.SSPADD)
  \o Set("SSPSTAT", When(h.ClockEdge = 1, SSPSTAT.CKE) \cup When(h.SamplePhase = 1, SSPSTAT.SMP))
  \o Set("SSPCON1", Bits(h.Mode % 16) \cup When(h.ClockPolarity = 1, SSPCON1.CKP) \cup SSPCON1.SSPEN)
  \o Set("SSPCON2", {}) \o IRQ_ClearFlag("SSP") \o EnableIf(h.cb, "SSP") \o Ok)
SSP_DeInit == IRQ_DisableSrc("SSP") \o IRQ_ClearFlag("SSP") \o Set("SSPCON1", {}) \o Set("SSPCON2", {}) \o Set("SSPSTAT", {})
  \o Set("SSPADD", 0) \o Drop("SSP") \o Ok
SSP_WriteByte(data) == ReturnIf("SSPCON1", SSPCON1.WCOL, "COLLISION") \o Set("SSPBUF", data) \o Return(K(0))
SSP_ReadByte == Get("v", "SSPBUF") \o Get("s", "SSPSTAT") \o Put("SSPSTAT", "s", SSPSTAT.BF, {}) \o Return(T("v"))
SSP_IsBufferFull == Get("v", "SSPSTAT") \o Return(Has("v", SSPSTAT.BF))
SSP_HasWriteCollision == Get("v", "SSPCON1") \o Return(Has("v", SSPCON1.WCOL))
SSP_ClearWriteCollision == Modify("SSPCON1", SSPCON1.WCOL, {})
SSP_Start == Modify("SSPCON2", {}, SSPCON2.SEN)
SSP_RepeatedStart == Modify("SSPCON2", {}, SSPCON2.RSEN)
SSP_Stop == Modify("SSPCON2", {}, SSPCON2.PEN)
SSP_ReceiveEnable == Modify("SSPCON2", {}, SSPCON2.RCEN)
SSP_AcknowledgeEnable == Modify("SSPCON2", {}, SSPCON2.ACKEN)
SSP_AcknowledgeStatus == Get("v", "SSPCON2") \o Return(Has("v", SSPCON2.ACKSTAT))
SSP_IRQHandler == Handler("SSP", "SSP")
-----------------------------------------------------------------------------
\* EUSART: the transmitter is enabled with its callback, and only then.
USART_Handles == [Mode : 0..1, ClockSource : 0..1, BaudHigh : 0..1, BaudGen : 0..1, DataWidth : 0..1, SPBRG : Below(Byte),
                  SPBRGH : Below(Byte), AddressDetect : BOOLEAN, AutoBaud : BOOLEAN, tx : BOOLEAN, rx : BOOLEAN]
USART_Default == [Mode |-> 0, ClockSource |-> 1, BaudHigh |-> 1, BaudGen |-> 0, DataWidth |-> 0, SPBRG |-> 0, SPBRGH |-> 0,
                  AddressDetect |-> FALSE, AutoBaud |-> FALSE, tx |-> FALSE, rx |-> FALSE]
USART_Init(h) == Given(h, Keep("USART", h) \o Set("SPBRG", h.SPBRG) \o Set("SPBRGH", h.SPBRGH)
  \o Set("BAUDCON", When(h.BaudGen = 1, BAUDCON.BRG16) \cup When(h.AutoBaud, BAUDCON.ABDEN))
  \o Set("TXSTA", TXSTA.TRMT \cup When(h.Mode = 1, TXSTA.SYNC) \cup When(h.Mode = 1 /\ h.ClockSource = 1, TXSTA.CSRC)
                  \cup When(h.BaudHigh = 1, TXSTA.BRGH) \cup When(h.DataWidth = 1, TXSTA.TX9) \cup When(h.tx, TXSTA.TXEN))
  \o Set("RCSTA", RCSTA.SPEN \cup When(h.DataWidth = 1, RCSTA.RX9) \cup When(h.AddressDetect, RCSTA.ADDEN) \cup When(h.rx, RCSTA.CREN))
  \o IRQ_ClearFlag("RX") \o EnableIf(h.tx, "TX") \o EnableIf(h.rx, "RX") \o Ok)
USART_DeInit == IRQ_DisableSrc("TX") \o IRQ_DisableSrc("RX") \o IRQ_ClearFlag("TX") \o IRQ_ClearFlag("RX")
  \o Set("RCSTA", {}) \o Set("TXSTA", TXSTA.TRMT) \o Set("BAUDCON", {}) \o Set("SPBRG", 0) \o Set("SPBRGH", 0) \o Drop("USART") \o Ok
USART_Transmit(data) == Set("TXREG", data) \o IRQ_ClearFlag("TX")
USART_GetTX9D == Get("v", "TXSTA") \o Return(Has("v", TXSTA.TX9D))
USART_SetTX9D(bit) == Modify("TXSTA", When(~bit, TXSTA.TX9D), When(bit, TXSTA.TX9D))
USART_IsTxShiftRegisterEmpty == Get("v", "TXSTA") \o Return(Has("v", TXSTA.TRMT))
USART_Receive == Get("v", "RCREG") \o Get("p", "PIR1") \o Put("PIR1", "p", Per1.RX, {}) \o Return(T("v"))
USART_GetRX9D == Get("v", "RCSTA") \o Return(Has("v", RCSTA.RX9D))
USART_HasOverrun == Get("v", "RCSTA") \o Return(Has("v", RCSTA.OERR))
USART_ClearOverrun == Modify("RCSTA", RCSTA.CREN, {}) \o Put("RCSTA", "v", {}, RCSTA.CREN)
USART_StartAutoBaud == Modify("BAUDCON", {}, BAUDCON.ABDEN)
USART_IsAutoBaudBusy == Get("v", "BAUDCON") \o Return(Has("v", BAUDCON.ABDEN))
USART_HasAutoBaudOverflow == Get("v", "BAUDCON") \o Return(Has("v", BAUDCON.ABDOVF))
USART_ClearAutoBaudOverflow == Modify("BAUDCON", BAUDCON.ABDOVF, {})
USART_TX_IRQHandler == UnlessFlag("TX") \o CallbackOf("USART", "tx", K(""))
USART_RX_IRQHandler == UnlessFlag("RX") \o Get("d", "RCREG") \o IRQ_ClearFlag("RX") \o CallbackOf("USART", "rx", T("d"))

\* Streaming parallel port.
SPP_Handles == [Ownership : 0..1, ClockConfig : 0..2, CSEnable : BOOLEAN, CLK1Enable : BOOLEAN, WaitStates : 0..15,
                Endpoint : 0..15, cb : BOOLEAN]
SPP_Default == [Ownership |-> 0, ClockConfig |-> 0, CSEnable |-> FALSE, CLK1Enable |-> FALSE, WaitStates |-> 0, Endpoint |-> 0,
                cb |-> FALSE]
SPP_Init(h) == Given(h, Keep("SPP", h)
  \o Set("SPPCFG", Shl(h.ClockConfig % 4, 6) \cup When(h.CSEnable, SPPCFG.CSEN) \cup When(h.CLK1Enable, SPPCFG.CLK1EN)
                   \cup (Bits(h.WaitStates) \cap SPPCFG.WS))
  \o Set("SPPEPS", Bits(h.Endpoint) \cap SPPEPS.ADDR) \o Set("SPPCON", SPPCON.SPPEN \cup When(h.Ownership = 1, SPPCON.SPPOWN))
  \o IRQ_ClearFlag("SPP") \o EnableIf(h.cb, "SPP") \o Ok)
SPP_DeInit == IRQ_DisableSrc("SPP") \o IRQ_ClearFlag("SPP") \o Set("SPPCON", {}) \o Set("SPPCFG", {}) \o Set("SPPEPS", {}) \o Drop("SPP") \o Ok
SPP_WriteByte(ep, data) == Set("SPPEPS", Bits(ep) \cap SPPEPS.ADDR) \o Set("SPPDATA", data)
SPP_ReadByte(ep) == Set("SPPEPS", Bits(ep) \cap SPPEPS.ADDR) \o Get("v", "SPPDATA") \o Return(T("v"))
SPP_IsBusy == Get("v", "SPPEPS") \o Return(Has("v", SPPEPS.SPPBUSY))
SPP_HasWriteOccurred == Get("v", "SPPEPS") \o Return(Has("v", SPPEPS.WRSPP))
SPP_HasReadOccurred == Get("v", "SPPEPS") \o Return(Has("v", SPPEPS.RDSPP))
SPP_IsInterruptFlag == Get("v", "PIR1") \o Return(Has("v", Per1.SPP))
SPP_ClearITFlag == IRQ_ClearFlag("SPP")
SPP_IRQHandler == Handler("SPP", "SPP")
-----------------------------------------------------------------------------
\* The register simulator: the tick of a timer is the last one of its prescaler period.
SimReset(r) == CASE r = "PIR1" -> Per1.TX [] r = "TRISA" -> Below(6) [] r = "TRISE" -> Below(3)
  [] r \in {"TMR0L", "TMR0H", "TMR1L", "TMR1H", "TMR2", "TMR3L", "TMR3H", "CCPR1L", "CCPR1H", "CCPR2L", "CCPR2H", "SSPADD",
            "SSPBUF", "SPBRG", "SPBRGH", "TXREG", "RCREG", "ADRESL", "ADRESH", "EECON2", "EEDATA", "EEADR", "SPPDATA"} -> 0
  [] OTHER -> Por(r)
\* The periods of the prescalers.
SimPrescale0 == <<2, 4, 8, 16, 32, 64, 128, 256>>
SimPrescale1 == <<1, 2, 4, 8>>
SimPrescale2 == <<1, 4, 16, 16>>
SimPrescale3 == <<1, 2, 4, 8>>
Raise(R, r, b) == [R EXCEPT ![r] = @ \cup b]
Count(R, h, l) == (Word(R[h], R[l]) + 1) % (Byte * Byte)
SimStepTimer0(R) ==
  LET t == (R["TMR0L"] + 1) % Byte
      full == Count(R, "TMR0H", "TMR0L")
      S == IF T0CON.T08BIT \subseteq R["T0CON"] THEN [R EXCEPT !["TMR0L"] = t] ELSE [R EXCEPT !["TMR0L"] = Lo(full), !["TMR0H"] = Hi(full)]
      over == IF T0CON.T08BIT \subseteq R["T0CON"] THEN t = 0 ELSE full = 0
  IN  IF T0CON.TMR0ON \cap R["T0CON"] = {} THEN R ELSE IF over THEN Raise(S, "INTCON", INTCON.TMR0IF) ELSE S
SimStepTimer1(R) ==
  LET full == Count(R, "TMR1H", "TMR1L")
      S == [R EXCEPT !["TMR1L"] = Lo(full), !["TMR1H"] = Hi(full)]
  IN  IF T1CON.TMR1ON \cap R["T1CON"] = {} THEN R ELSE IF full = 0 THEN Raise(S, "PIR1", Per1.TMR1) ELSE S
\* The counter is a byte before it is compared: with the largest period it never exceeds it.
SimStepTimer2(R) ==
  LET t == (R["TMR2"] + 1) % Byte
      post == R["post"] + 1
      S == [R EXCEPT !["TMR2"] = IF t > R["PR2"] THEN 0 ELSE t]
  IN  IF T2CON.TMR2ON \cap R["T2CON"] = {} THEN R
      ELSE IF t <= R["PR2"] THEN S
      ELSE IF post >= Number(R["T2CON"] \cap T2CON.TOUTPS, 3) + 1 THEN Raise([S EXCEPT !["post"] = 0], "PIR1", Per1.TMR2)
      ELSE [S EXCEPT !["post"] = post]
SimStepTimer3(R) ==
  LET full == Count(R, "TMR3H", "TMR3L")
      S == [R EXCEPT !["TMR3L"] = Lo(full), !["TMR3H"] = Hi(full)]
  IN  IF T3CON.TMR3ON \cap R["T3CON"] = {} THEN R ELSE IF full = 0 THEN Raise(S, "PIR2", Per2.TMR3) ELSE S
SimStepUsart(R) == IF TXSTA.TXEN \cap R["TXSTA"] = {} THEN R ELSE Raise(R, "PIR1", Per1.TX)
SimDriveInput(R, p, pin, high) == [R EXCEPT ![Port(p)] = IF high THEN @ \cup {pin} ELSE @ \ {pin}]
SimDriveUsartRx(R, d) == Raise([R EXCEPT !["RCREG"] = d], "PIR1", Per1.RX)
SimDriveSspRx(R, d) == Raise(Raise([R EXCEPT !["SSPBUF"] = d], "SSPSTAT", SSPSTAT.BF), "PIR1", Per1.SSP)
SimDriveComp(R, c1, c2) ==
  Raise([R EXCEPT !["CMCON"] = (@ \ (CMCON.C1OUT \cup CMCON.C2OUT)) \cup When(c1, CMCON.C1OUT) \cup When(c2, CMCON.C2OUT)], "PIR2", Per2.CMP)
SimDriveEepromDone(R, addr, d) == Raise([R EXCEPT !["cells"][addr] = d], "PIR2", Per2.EEPROM)
SimDriveAdcDone(R, v) ==
  LET r == IF ADCON2.ADFM \subseteq R["ADCON2"] THEN v ELSE v * (Byte \div 4)
  IN  Raise([R EXCEPT !["ADCON0"] = @ \ ADCON0.GO, !["ADRESH"] = Hi(r), !["ADRESL"] = Lo(r)], "PIR1", Per1.ADC)
SimDriveSpp(R, w, r) ==
  Raise([R EXCEPT !["SPPEPS"] = (@ \ (SPPEPS.WRSPP \cup SPPEPS.RDSPP)) \cup When(w, SPPEPS.WRSPP) \cup When(r, SPPEPS.RDSPP)], "PIR1", Per1.SPP)
=============================================================================
