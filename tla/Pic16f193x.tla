------------------------------ MODULE Pic16f193x ------------------------------
(***************************************************************************)
(* pic16f193x-hal: the interrupt table, the handles with their defaults,   *)
(* every driver function, and the register simulator of the hosted tests.  *)
(* Drivers keep a pointer to the handle; the handlers of ADC, comparators, *)
(* EEPROM, LCD, SSP and USART are empty.                                   *)
(***************************************************************************)
EXTENDS Pic16f193xSfr
-----------------------------------------------------------------------------
\* irq_table (pic16f193x_irq.c): where the flag and the enable bit of a source are.
Source(f, b, e, c) == [flagReg |-> f, flag |-> b, enReg |-> e, en |-> c]
IrqTable ==
  [IOC |-> Source("INTCON", INTCON.IOCIF, "INTCON", INTCON.IOCIE), INT |-> Source("INTCON", INTCON.INTF, "INTCON", INTCON.INTE),
   TMR0 |-> Source("INTCON", INTCON.TMR0IF, "INTCON", INTCON.TMR0IE)]
  @@ [q \in DOMAIN Per1 |-> Source("PIR1", Per1[q], "PIE1", Per1[q])]
  @@ [q \in DOMAIN Per2 |-> Source("PIR2", Per2[q], "PIE2", Per2[q])]
  @@ [q \in DOMAIN Per3 |-> Source("PIR3", Per3[q], "PIE3", Per3[q])]
InIntcon(irq) == IrqTable[irq].flagReg = "INTCON"

\* INTCON goes through a local: a flag that rises in between is written back as it was.
IRQ_Disable == Get("s", "INTCON") \o Put("INTCON", "s", INTCON.GIE, {})
IRQ_Restore(on) == Change("INTCON", When(~on, INTCON.GIE), When(on, INTCON.GIE))
IRQ_Enable(irq) == Bsf(IrqTable[irq].enReg, IrqTable[irq].en) \o (IF InIntcon(irq) THEN <<>> ELSE Bsf("INTCON", INTCON.PEIE))
IRQ_DisableSrc(irq) == Bcf(IrqTable[irq].enReg, IrqTable[irq].en)
IRQ_ClearFlag(irq) == IF InIntcon(irq) THEN Bcf("INTCON", IrqTable[irq].flag)
                                       ELSE Modify(IrqTable[irq].flagReg, IrqTable[irq].flag, {})
IRQ_GetFlag(irq) == Get("v", IrqTable[irq].flagReg) \o Return(Has("v", IrqTable[irq].flag))
UnlessFlag(irq) == ReturnUnless(IrqTable[irq].flagReg, IrqTable[irq].flag, "")
EnableIf(c, irq) == IF c THEN IRQ_Enable(irq) ELSE IRQ_DisableSrc(irq)
\* The order in which the dispatcher looks at the flags.
Order == <<"TMR0", "IOC", "TMR1", "TMR2", "CCP1", "SSP", "USART_RX", "USART_TX", "ADC", "CCP2", "LCD", "EEPROM", "CMP1", "CMP2",
           "TMR4", "TMR6", "CCP3", "CCP4", "CCP5">>
Handler(irq, s) == UnlessFlag(irq) \o IRQ_ClearFlag(irq) \o Callback(s, K(""))
-----------------------------------------------------------------------------
\* GPIO.  Port C has no ANSEL; Init reads the registers before it writes any of them.
Tris(p) == "TRIS" \o p
Lat(p) == "LAT" \o p
Port(p) == "PORT" \o p
Ansel(p) == "ANSEL" \o p
Width(p) == IF p = "E" THEN 4 ELSE 8
Mask(p, pins) == pins \cap Below(Width(p))

GPIO_Init(p, pins, mode) ==
  LET m == Mask(p, pins) IN
  Get("t", Tris(p)) \o Get("l", Lat(p)) \o (IF p = "C" THEN <<>> ELSE Get("a", Ansel(p)))
  \o Put(Tris(p), "t", When(mode = "OUTPUT", m), When(mode # "OUTPUT", m))
  \o (IF p = "C" THEN <<>> ELSE Put(Ansel(p), "a", When(mode # "ANALOG", m), When(mode = "ANALOG", m)))
  \o Put(Lat(p), "l", When(mode = "OUTPUT", m), {})
GPIO_DeInit(p) == Set(Tris(p), Below(Width(p))) \o (IF p = "C" THEN <<>> ELSE Set(Ansel(p), Below(Width(p)))) \o Set(Lat(p), {})
GPIO_WritePin(p, pins, high) == Modify(Lat(p), When(~high, Mask(p, pins)), When(high, Mask(p, pins)))
GPIO_TogglePin(p, pins) == Toggle(Lat(p), Mask(p, pins))
GPIO_ReadPin(p, pins) == Get("v", Port(p)) \o Return(Has("v", Mask(p, pins)))
GPIO_WritePort(p, value) == Set(Lat(p), Mask(p, value))
GPIO_ReadPort(p) == Get("v", Port(p)) \o Return(T("v"))
\* WPUEN is low active, and released when no pin is pulled up any more.
GPIO_SetPullups(p, pins, on) ==
  IF p # "B" THEN Return(K(""))
  ELSE IF on THEN Bsf("WPUB", Mask(p, pins)) \o Bcf("OPTION", OPTION.WPUEN)
  ELSE Bcf("WPUB", Mask(p, pins)) \o ReturnIf("WPUB", 0..7, "") \o Bsf("OPTION", OPTION.WPUEN)
GPIO_RegisterChangeCallback(cb) == Keep("IOC", cb)
GPIO_EnableChangeDetect(pos, neg) == Set("IOCBP", pos) \o Set("IOCBN", neg)
\* The flags are read, the port is read, then all flags are cleared: one that came after the reading goes with them.
IOC_IRQHandler == UnlessFlag("IOC") \o Get("f", "IOCBF") \o Get("b", "PORTB") \o Set("IOCBF", {}) \o IRQ_ClearFlag("IOC")
  \o Callback("IOC", T("f"))
-----------------------------------------------------------------------------
\* Timer0: the one driver that copies the handle, and DeInit leaves the copy in place.
TIMER0_Handles == [ClockSource : 0..1, ClockEdge : 0..1, Prescaler : 0..7, PrescalerAssigned : BOOLEAN,
                   ReloadValue : Below(Byte), cb : BOOLEAN]
TIMER0_Default == [ClockSource |-> 0, ClockEdge |-> 0, Prescaler |-> 7, PrescalerAssigned |-> TRUE, ReloadValue |-> 0, cb |-> FALSE]
TIMER0_Ratio(p) == IF p > 7 THEN 1 ELSE 2^(p + 1)
TIMER0_Init(h) == Given(h, Bcf("OPTION", OPTION.T0CS) \o IRQ_ClearFlag("TMR0") \o EnableIf(h.cb, "TMR0") \o Keep("T0", h) \o Ok)
TIMER0_DeInit == IRQ_DisableSrc("TMR0") \o IRQ_ClearFlag("TMR0") \o Bcf("OPTION", OPTION.T0CS) \o Set("TMR0", 0) \o Ok
TIMER0_Start(h) == Given(h, Set("TMR0", h.ReloadValue)
  \o Modify("OPTION", OPTION.PS \cup OPTION.PSA \cup OPTION.T0CS \cup OPTION.T0SE,
            (Bits(h.Prescaler) \cap OPTION.PS) \cup When(~h.PrescalerAssigned, OPTION.PSA)
            \cup When(h.ClockSource = 1, OPTION.T0CS) \cup When(h.ClockEdge = 1, OPTION.T0SE)) \o Ok)
TIMER0_Stop == Bcf("OPTION", OPTION.T0CS) \o Ok
TIMER0_ReadCounter == Get("v", "TMR0") \o Return(T("v"))
TIMER0_WriteCounter(v) == Set("TMR0", v)
TIMER0_IRQHandler == Handler("TMR0", "T0")

\* Timer1: an external clock is refused.
TIMER1_Handles == [ClockSource : 0..1, Prescaler : 0..3, ReloadValue : Below(Byte * Byte), cb : BOOLEAN]
TIMER1_Default == [ClockSource |-> 0, Prescaler |-> 0, ReloadValue |-> 0, cb |-> FALSE]
TIMER1_Ratio(p) == IF p > 3 THEN 1 ELSE 2^p
TIMER1_ReadCounter ==
  Repeat(Get("h", "TMR1H") \o Get("l", "TMR1L") \o Get("g", "TMR1H"), "h", "g") \o Return(W("g", "l"))
TIMER1_WriteCounter(v) == Set("TMR1H", Hi(v)) \o Set("TMR1L", Lo(v))
TIMER1_Init(h) == Given(h, IF h.ClockSource # 0 THEN Return(K("INVALID"))
  ELSE Bcf("T1CON", T1CON.TMR1ON) \o IRQ_ClearFlag("TMR1") \o EnableIf(h.cb, "TMR1") \o Keep("T1", h) \o Ok)
TIMER1_DeInit == IRQ_DisableSrc("TMR1") \o IRQ_ClearFlag("TMR1") \o Set("T1CON", {}) \o TIMER1_WriteCounter(0) \o Drop("T1") \o Ok
TIMER1_Start(h) == Given(h, IF h.ClockSource # 0 THEN Return(K("INVALID"))
  ELSE TIMER1_WriteCounter(h.ReloadValue) \o Set("T1CON", Shl(h.Prescaler % 4, 4) \cup T1CON.TMR1ON) \o Ok)
TIMER1_Stop == Bcf("T1CON", T1CON.TMR1ON) \o Ok
TIMER1_IRQHandler == Handler("TMR1", "T1")

\* Timer2, 4 and 6.
TIMER246_Handles == [Instance : {2, 4, 6}, Prescaler : 0..2, Postscaler : 0..15, Period : Below(Byte), cb : BOOLEAN]
TIMER246_Default == [Instance |-> 2, Prescaler |-> 0, Postscaler |-> 0, Period |-> Byte - 1, cb |-> FALSE]
TIMER246_PreRatio(p) == CASE p = 0 -> 1 [] p = 1 -> 4 [] p \in {2, 3} -> 16 [] OTHER -> 1
TIMER246_PostRatio(p) == IF p > 15 THEN 1 ELSE p + 1
Tmr(i) == "TMR" \o ToString(i)
Pr(i) == "PR" \o ToString(i)
Con(i) == "T" \o ToString(i) \o "CON"
TIMER246_ReadCounter(i) == Get("v", Tmr(i)) \o Return(T("v"))
TIMER246_WriteCounter(i, v) == Set(Tmr(i), v)
TIMER246_ReadPeriod(i) == Get("v", Pr(i)) \o Return(T("v"))
TIMER246_WritePeriod(i, v) == Set(Pr(i), v)
TIMER246_Init(h) == Given(h, IF h.Instance \notin {2, 4, 6} THEN Return(K("INVALID"))
  ELSE Bcf(Con(h.Instance), TxCON.ON) \o IRQ_ClearFlag(Tmr(h.Instance)) \o EnableIf(h.cb, Tmr(h.Instance)) \o Keep(Tmr(h.Instance), h) \o Ok)
TIMER246_DeInit(i) == IRQ_DisableSrc(Tmr(i)) \o IRQ_ClearFlag(Tmr(i)) \o Set(Con(i), {}) \o Set(Tmr(i), 0) \o Set(Pr(i), Byte - 1)
  \o Drop(Tmr(i)) \o Ok
TIMER246_Start(h) == Given(h, IF h.Instance \notin {2, 4, 6} THEN Return(K("INVALID"))
  ELSE Set(Pr(h.Instance), h.Period) \o Set(Tmr(h.Instance), 0)
       \o Set(Con(h.Instance), Shl(h.Postscaler % 16, 3) \cup TxCON.ON \cup Bits(h.Prescaler % 4)) \o Ok)
TIMER246_Stop(i) == Bcf(Con(i), TxCON.ON) \o Ok
TIMER246_IRQHandler(i) == Handler(Tmr(i), Tmr(i))
-----------------------------------------------------------------------------
\* CCP1 to CCP5: PWM is refused; the handler does not look at the flag before it clears it.
CCP_Handles == [Instance : 1..5, Mode : {0} \cup 4..12, CompareValue : Below(Byte * Byte), cb : BOOLEAN]
CCP_Default == [Instance |-> 1, Mode |-> 0, CompareValue |-> 0, cb |-> FALSE]
CcpL(i) == "CCPR" \o ToString(i) \o "L"
CcpH(i) == "CCPR" \o ToString(i) \o "H"
CcpCon(i) == "CCP" \o ToString(i) \o "CON"
CcpIrq(i) == "CCP" \o ToString(i)
CCP_Init(h) == Given(h, IF h.Mode = 12 \/ h.Instance \notin 1..5 THEN Return(K("INVALID"))
  ELSE Set(CcpH(h.Instance), Hi(h.CompareValue)) \o Set(CcpL(h.Instance), Lo(h.CompareValue)) \o Set(CcpCon(h.Instance), Bits(h.Mode))
       \o IRQ_ClearFlag(CcpIrq(h.Instance)) \o EnableIf(h.cb, CcpIrq(h.Instance)) \o Keep(CcpIrq(h.Instance), h) \o Ok)
CCP_DeInit(i) == IF i \notin 1..5 THEN Return(K("INVALID"))
  ELSE IRQ_DisableSrc(CcpIrq(i)) \o IRQ_ClearFlag(CcpIrq(i)) \o Set(CcpCon(i), {}) \o Drop(CcpIrq(i)) \o Ok
CCP_SetCompare(i, v) == IF i \notin 1..5 THEN Return(K("INVALID")) ELSE Set(CcpH(i), Hi(v)) \o Set(CcpL(i), Lo(v)) \o Ok
CCP_SetMode(i, mode) == IF i \notin 1..5 THEN Return(K("")) ELSE Set(CcpCon(i), Bits(mode) \cap CCPCON.CCPM)
CCP_GetCapture(i) == IF i \notin 1..5 THEN Return(K(0))
  ELSE Repeat(Get("h", CcpH(i)) \o Get("l", CcpL(i)) \o Get("g", CcpH(i)), "h", "g") \o Return(W("h", "l"))
CCP_IRQHandler(i) == Bcf(IrqTable[CcpIrq(i)].flagReg, IrqTable[CcpIrq(i)].flag) \o Callback(CcpIrq(i), K(""))
-----------------------------------------------------------------------------
\* A/D converter: the result is handed on as the registers have it.
ADC_CH == 14  \* channels of the 40-pin parts
ADC_Handles == [ClockSource : 0..6, PosRef : {0, 3}, NegRef : {0}, Format : 0..1]
ADC_Default == [ClockSource |-> 3, PosRef |-> 0, NegRef |-> 0, Format |-> 1]
ADC_Init(h) == Given(h, Set("ADCON1", (Bits(h.PosRef) \cap ADCON1.ADPREF) \cup When(h.NegRef # 0, ADCON1.ADNREF) \cup Shl(h.ClockSource, 4)
                                      \cup When(h.Format = 1, ADCON1.ADFM)) \o Set("ADCON0", ADCON0.ADON) \o Ok)
ADC_DeInit == Set("ADCON0", {}) \o Set("ADCON1", {}) \o Ok
ADC_SelectChannel(ch) == IF ch >= ADC_CH THEN Return(K("INVALID")) ELSE Modify("ADCON0", ADCON0.CHS, Shl(ch, 2)) \o Ok
ADC_Start == Bsf("ADCON0", ADCON0.GO)
ADC_IsConversionDone == ReturnIf("ADCON0", ADCON0.GO, FALSE) \o Return(K(TRUE))
ADC_Read == Get("l", "ADRESL") \o Get("h", "ADRESH") \o Return(W("h", "l"))

\* Comparators.
COMP_Handles == [Instance : 1..2, PosChannel : 0..4, NegChannel : 0..4, HysteresisOn : BOOLEAN, InvertOutput : BOOLEAN,
                 OutputToPin : BOOLEAN, InterruptEdge : 0..3]
COMP_Default == [Instance |-> 1, PosChannel |-> 0, NegChannel |-> 0, HysteresisOn |-> FALSE, InvertOutput |-> FALSE,
                 OutputToPin |-> FALSE, InterruptEdge |-> 0]
CmCon(i, n) == "CM" \o ToString(i) \o "CON" \o ToString(n)
COMP_Init(h) == Given(h, IF h.PosChannel > 3 \/ h.NegChannel > 3 THEN Return(K("INVALID"))
  ELSE Set(CmCon(h.Instance, 1), Bits(h.NegChannel) \cup Shl(h.PosChannel, 4) \cup When(h.InterruptEdge % 2 = 1, CMCON1.INTP)
                                 \cup When(h.InterruptEdge >= 2, CMCON1.INTN))
       \o Set(CmCon(h.Instance, 0), CMCON0.ON \cup When(h.HysteresisOn, CMCON0.HYS) \cup When(h.InvertOutput, CMCON0.POL)
                                    \cup When(h.OutputToPin, CMCON0.OE)) \o Ok)
COMP_DeInit(i) == IF i \notin 1..2 THEN Return(K("INVALID")) ELSE Set(CmCon(i, 0), {}) \o Set(CmCon(i, 1), {}) \o Ok
COMP_ReadOutput(i) == Get("v", "CMOUT") \o Return(Has("v", IF i = 1 THEN CMOUT.MC1OUT ELSE CMOUT.MC2OUT))

\* Capacitive sensing, D/A converter, fixed voltage reference, SR latch.
CPS_Default == [Range |-> 0, Channel |-> 0]
CPS_Init(h) == Given(h, Set("CPSCON0", CPSCON0.CPSON \cup CPSCON0.T0XCS \cup (Shl(h.Range, 2) \cap CPSCON0.CPSRNG))
                        \o Set("CPSCON1", Bits(h.Channel) \cap CPSCON1.CPSCH) \o Ok)
CPS_DeInit == Set("CPSCON0", {}) \o Set("CPSCON1", {}) \o Ok
DAC_Default == [OutputValue |-> 15]
DAC_Init(h) == Given(h, Set("DACCON0", DACCON.EN) \o Set("DACCON1", Bits(h.OutputValue) \cap DACCON.DACR) \o Ok)
DAC_DeInit == Set("DACCON0", {}) \o Set("DACCON1", {}) \o Ok
FVR_Default == [AdcGain |-> 2, CompDacGain |-> 2]
FVR_Init(h) == Given(h, Set("FVRCON", FVRCON.FVREN \cup (Bits(h.AdcGain) \cap FVRCON.ADFVR) \cup (Shl(h.CompDacGain, 2) \cap FVRCON.CDAFVR)) \o Ok)
FVR_DeInit == Set("FVRCON", {}) \o Ok
FVR_IsReady == Get("v", "FVRCON") \o Return(Has("v", FVRCON.FVRRDY))
SRLATCH_Enable == Bsf("SRCON0", SRCON0.SRLEN) \o Ok
SRLATCH_Disable == Bcf("SRCON0", SRCON0.SRLEN) \o Ok
-----------------------------------------------------------------------------
\* Data EEPROM: interrupts are kept out of the unlock sequence, and the write is waited for.
EEPROM_DeInit == Bcf("EECON1", EECON1.WREN) \o Ok
EEPROM_ReadByte(addr) == Set("EEADRL", addr) \o Set("EEADRH", 0) \o Bsf("EECON1", EECON1.RD) \o Get("v", "EEDATL") \o Return(T("v"))
\* Mutant: interrupts stay on during the unlock sequence.
EEPROM_WriteByteOpen(addr, data) ==
  Set("EEADRL", addr) \o Set("EEADRH", 0) \o Set("EEDATL", data) \o Bsf("EECON1", EECON1.WREN)
  \o Set("EECON2", 85) \o Set("EECON2", 170) \o Bsf("EECON1", EECON1.WR)
  \o Await("EECON1", EECON1.WR) \o Bcf("EECON1", EECON1.WREN) \o ReturnIf("EECON1", EECON1.WRERR, "ERROR") \o Ok
EEPROM_WriteByte(addr, data) ==
  Set("EEADRL", addr) \o Set("EEADRH", 0) \o Set("EEDATL", data) \o Bsf("EECON1", EECON1.WREN)
  \o IRQ_Disable \o Set("EECON2", 85) \o Set("EECON2", 170) \o Bsf("EECON1", EECON1.WR) \o Restore("INTCON", "s", INTCON.GIE)
  \o Await("EECON1", EECON1.WR) \o Bcf("EECON1", EECON1.WREN) \o ReturnIf("EECON1", EECON1.WRERR, "ERROR") \o Ok
EEPROM_IsWriteComplete == ReturnIf("EECON1", EECON1.WR, FALSE) \o Return(K(TRUE))
EEPROM_HasWriteError == Get("v", "EECON1") \o Return(Has("v", EECON1.WRERR))
-----------------------------------------------------------------------------
\* LCD driver module: three data registers to a common.
LCD_SEGMENTS == 24  \* of the 40-pin parts
LCD_COMMONS == 4
LCD_Wipe == Set(LcdData(0), {}) \o Set(LcdData(1), {}) \o Set(LcdData(2), {}) \o Set(LcdData(3), {}) \o Set(LcdData(4), {})
  \o Set(LcdData(5), {}) \o Set(LcdData(6), {}) \o Set(LcdData(7), {}) \o Set(LcdData(8), {}) \o Set(LcdData(9), {})
  \o Set(LcdData(10), {}) \o Set(LcdData(11), {})
LCD_Default == [Contrast |-> 0, MuxMode |-> 3]
LCD_Init(h) == Given(h, IF h.Contrast > 7 THEN Return(K("INVALID"))
  ELSE Set("LCDCST", Bits(h.Contrast)) \o Set("LCDREF", {}) \o Set("LCDRL", {}) \o Set("LCDPS", {})
       \o Set("LCDCON", LCDCON.LCDEN \cup (Bits(h.MuxMode) \cap LCDCON.LMUX)) \o LCD_Wipe
       \o Set("LCDSE0", 0..7) \o Set("LCDSE1", When(LCD_SEGMENTS >= 16, 0..7)) \o Set("LCDSE2", When(LCD_SEGMENTS >= 24, 0..7)) \o Ok)
LCD_DeInit == Set("LCDCON", {}) \o LCD_Wipe \o Ok
LCD_SetSegment(seg, com, on) ==
  IF seg >= LCD_SEGMENTS \/ com >= LCD_COMMONS THEN Return(K("INVALID"))
  ELSE Change(LcdData(com * 3 + seg \div 8), When(~on, {seg % 8}), When(on, {seg % 8})) \o Ok
LCD_Clear == LCD_Wipe \o Ok
LCD_IsActive == Get("v", "LCDPS") \o Return(Has("v", LCDPS.LCDA))
-----------------------------------------------------------------------------
\* Synchronous serial port (SPI master only) and EUSART (asynchronous, 8 bits only).
SSP_Handles == [Mode : 0..4, ClockEdge : 0..1, ClockPolarity : 0..1, SamplePhase : 0..1]
SSP_Default == [Mode |-> 0, ClockEdge |-> 1, ClockPolarity |-> 0, SamplePhase |-> 0]
SSP_Init(h) == Given(h, IF h.Mode > 3 THEN Return(K("INVALID"))
  ELSE Set("SSPSTAT", When(h.ClockEdge = 1, SSPSTAT.CKE) \cup When(h.SamplePhase = 1, SSPSTAT.SMP))
       \o Set("SSPCON1", Bits(h.Mode) \cup When(h.ClockPolarity = 1, SSPCON1.CKP) \cup SSPCON1.SSPEN) \o Ok)
SSP_DeInit == Set("SSPCON1", {}) \o Set("SSPSTAT", {}) \o Ok
SSP_WriteByte(data) == ReturnIf("SSPCON1", SSPCON1.WCOL, "COLLISION") \o Set("SSPBUF", data)
  \o ReturnIf("SSPCON1", SSPCON1.WCOL, "COLLISION") \o Return(K(data))
SSP_ReadByte == Get("v", "SSPBUF") \o Return(T("v"))
SSP_IsBufferFull == Get("v", "SSPSTAT") \o Return(Has("v", SSPSTAT.BF))
SSP_HasWriteCollision == Get("v", "SSPCON1") \o Return(Has("v", SSPCON1.WCOL))
SSP_ClearWriteCollision == Bcf("SSPCON1", SSPCON1.WCOL)

USART_Handles == [BaudHigh : 0..1, SPBRG : Below(Byte)]
USART_Default == [BaudHigh |-> 1, SPBRG |-> 0]
USART_Init(h) == Given(h, Set("SPBRGL", h.SPBRG) \o Set("SPBRGH", 0) \o Set("TXSTA", TXSTA.TXEN \cup When(h.BaudHigh = 1, TXSTA.BRGH))
  \o Set("RCSTA", RCSTA.SPEN \cup RCSTA.CREN) \o Set("BAUDCON", {}) \o Ok)
USART_DeInit == Set("TXSTA", TXSTA.TRMT) \o Set("RCSTA", {}) \o Set("BAUDCON", BAUDCON.RCIDL) \o Ok
USART_Transmit(data) == Set("TXREG", data)
USART_IsTxShiftRegisterEmpty == Get("v", "TXSTA") \o Return(Has("v", TXSTA.TRMT))
USART_Receive == Get("v", "RCREG") \o Return(T("v"))
USART_HasOverrunError == Get("v", "RCSTA") \o Return(Has("v", RCSTA.OERR))
-----------------------------------------------------------------------------
\* The register simulator: the tick of a timer is the last one of its prescaler period.
SimReset(r) ==
  CASE r \in {"PR2", "PR4", "PR6"} -> Byte - 1 [] r = "TXSTA" -> TXSTA.TRMT [] r = "BAUDCON" -> BAUDCON.RCIDL
    [] r = "PIR1" -> Per1.USART_TX [] r \in {"TRISE", "ANSELE"} -> Below(4)
    [] r \in (TrisNames \cup AnselNames) \ {"TRISE", "ANSELE"} -> Below(8)
    [] r \in {"TMR0", "TMR1L", "TMR1H", "TMR2", "TMR4", "TMR6", "ADRESL", "ADRESH", "EEADRL", "EEADRH", "EEDATL", "EECON2", "RCREG",
              "TXREG", "SPBRGL", "SPBRGH", "SSPBUF"} \cup {CcpL(i) : i \in 1..5} \cup {CcpH(i) : i \in 1..5} -> 0
    [] OTHER -> Por(r)
\* The periods of the prescalers.
SimPrescale0 == <<2, 4, 8, 16, 32, 64, 128, 256>>
SimPrescale1 == <<1, 2, 4, 8>>
SimPrescale246 == <<1, 4, 16, 16>>
Raise(R, r, b) == [R EXCEPT ![r] = @ \cup b]
SimStepTimer0(R) ==
  LET t == (R["TMR0"] + 1) % Byte
      S == [R EXCEPT !["TMR0"] = t]
  IN  IF OPTION.T0CS \subseteq R["OPTION"] THEN R ELSE IF t = 0 THEN Raise(S, "INTCON", INTCON.TMR0IF) ELSE S
SimStepTimer1(R) ==
  LET full == (Word(R["TMR1H"], R["TMR1L"]) + 1) % (Byte * Byte)
      S == [R EXCEPT !["TMR1L"] = Lo(full), !["TMR1H"] = Hi(full)]
  IN  IF T1CON.TMR1ON \cap R["T1CON"] = {} \/ T1CON.TMR1CS \cap R["T1CON"] # {} THEN R
      ELSE IF full = 0 THEN Raise(S, "PIR1", Per1.TMR1) ELSE S
SimStepTimer246(R, i) ==
  LET post == R["post"] + 1
      S == [R EXCEPT ![Tmr(i)] = IF @ = R[Pr(i)] THEN 0 ELSE (@ + 1) % Byte]
  IN  IF TxCON.ON \cap R[Con(i)] = {} THEN R
      ELSE IF R[Tmr(i)] # R[Pr(i)] THEN S
      ELSE IF post > Number(R[Con(i)] \cap TxCON.TOUTPS, 3)
           THEN Raise([S EXCEPT !["post"] = 0], IrqTable[Tmr(i)].flagReg, IrqTable[Tmr(i)].flag)
      ELSE [S EXCEPT !["post"] = post]
SimStepUsart(R) == Raise(IF TXSTA.TXEN \cap R["TXSTA"] = {} THEN R ELSE Raise(R, "TXSTA", TXSTA.TRMT), "BAUDCON", BAUDCON.RCIDL)
SimStepEeprom(R) ==
  IF EECON1.RD \subseteq R["EECON1"] THEN [R EXCEPT !["EEDATL"] = R["cells"][R["EEADRL"]], !["EECON1"] = @ \ EECON1.RD]
  ELSE IF EECON1.WR \subseteq R["EECON1"] THEN [R EXCEPT !["cells"][R["EEADRL"]] = R["EEDATL"], !["EECON1"] = @ \ EECON1.WR]
  ELSE R
\* A pin of an output follows the latch, a pin of an input what drives it, if anything does ("in" holds the high ones).
SimRefreshPort(R, p) == [R EXCEPT ![Port(p)] = (R[Tris(p)] \cap R["in"]) \cup (Below(8) \cap (R[Lat(p)] \ R[Tris(p)]))]
SimStepIoc(R) ==
  LET f == R["IOCBF"] \cup ((R["PORTB"] \ R["last"]) \cap R["IOCBP"]) \cup ((R["last"] \ R["PORTB"]) \cap R["IOCBN"])
      S == [R EXCEPT !["last"] = R["PORTB"], !["IOCBF"] = f]
  IN  IF f # R["IOCBF"] THEN Raise(S, "INTCON", INTCON.IOCIF) ELSE S
SimDriveInput(R, pin, high) == [R EXCEPT !["in"] = IF high THEN @ \cup {pin} ELSE @ \ {pin}]
=============================================================================
