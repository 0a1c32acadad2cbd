------------------------------ MODULE Pic16f87xa ------------------------------
(***************************************************************************)
(* pic16f87xa-hal: the interrupt table, the handles, every driver          *)
(* function, and the register simulator the hosted tests run on. Selecting *)
(* a bank and going back is part of an access.                             *)
(***************************************************************************)
EXTENDS Pic16f87xaSfr
-----------------------------------------------------------------------------
\* irq_table (pic16_irq.c): where the flag and the enable bit of a source are.
Source(f, b, e, c) == [flagReg |-> f, flag |-> b, enReg |-> e, en |-> c]
IrqTable ==
  [RB   |-> Source("INTCON", INTCON.RBIF, "INTCON", INTCON.RBIE),
   TMR0 |-> Source("INTCON", INTCON.TMR0IF, "INTCON", INTCON.TMR0IE),
   TMR1 |-> Source("PIR1", PIR1.TMR1IF, "PIE1", PIE1.TMR1IE),  TMR2 |-> Source("PIR1", PIR1.TMR2IF, "PIE1", PIE1.TMR2IE),
   CCP1 |-> Source("PIR1", PIR1.CCP1IF, "PIE1", PIE1.CCP1IE),  CCP2 |-> Source("PIR2", PIR2.CCP2IF, "PIE2", PIE2.CCP2IE),
   SSP  |-> Source("PIR1", PIR1.SSPIF, "PIE1", PIE1.SSPIE),   TX   |-> Source("PIR1", PIR1.TXIF, "PIE1", PIE1.TXIE),
   RX   |-> Source("PIR1", PIR1.RCIF, "PIE1", PIE1.RCIE),    ADC  |-> Source("PIR1", PIR1.ADIF, "PIE1", PIE1.ADIE),
   EEPROM |-> Source("PIR2", PIR2.EEIF, "PIE2", PIE2.EEIE),  CMP  |-> Source("PIR2", PIR2.CMIF, "PIE2", PIE2.CMIE),
   PSP  |-> Source("PIR1", PIR1.PSPIF, "PIE1", PIE1.PSPIE)]

InIntcon(irq) == IrqTable[irq].flagReg = "INTCON"
IRQ_Enable(irq) == Bsf(IrqTable[irq].enReg, IrqTable[irq].en) \o (IF InIntcon(irq) THEN <<>> ELSE Bsf("INTCON", INTCON.PEIE))
IRQ_DisableSrc(irq) == Bcf(IrqTable[irq].enReg, IrqTable[irq].en)
IRQ_ClearFlag(irq) == IF InIntcon(irq) THEN Bcf("INTCON", IrqTable[irq].flag)
                                       ELSE Modify(IrqTable[irq].flagReg, IrqTable[irq].flag, {})
\* if (!EPIC_IRQ_GetFlag(irq)) return
UnlessFlag(irq) == ReturnUnless(IrqTable[irq].flagReg, IrqTable[irq].flag, "")
EnableIf(c, irq) == IF c THEN IRQ_Enable(irq) ELSE IRQ_DisableSrc(irq)

\* The order in which the dispatcher looks at the flags.
Order == <<"TMR0", "RB", "TMR1", "TMR2", "CCP1", "SSP", "RX", "TX", "ADC", "PSP", "CCP2", "EEPROM", "CMP">>
-----------------------------------------------------------------------------
\* GPIO.
Tris(p) == "TRIS" \o p
Port(p) == "PORT" \o p
Width(p) == CASE p = "E" -> 3 [] p = "A" -> 6 [] OTHER -> 8
Mask(p, pins) == pins \cap Below(Width(p))

GPIO_Init(p, pins, mode) ==
  Modify(Tris(p), When(mode = "OUTPUT", Mask(p, pins)), When(mode # "OUTPUT", Mask(p, pins)))
GPIO_DeInit(p) == Set(Tris(p), Below(Width(p)))
GPIO_WritePin(p, pins, high) == Modify(Port(p), When(~high, Mask(p, pins)), When(high, Mask(p, pins)))
GPIO_TogglePin(p, pins) == Toggle(Port(p), Mask(p, pins))
GPIO_ReadPin(p, pins) == Get("v", Port(p)) \o Return(Has("v", Mask(p, pins)))
GPIO_WritePort(p, value) == Set(Port(p), Mask(p, value))
GPIO_ReadPort(p) == Get("v", Port(p)) \o Return(T("v"))
GPIO_SetPullups(on) == Modify("OPTION", When(on, OPTION.RBPU), When(~on, OPTION.RBPU))
GPIO_RegisterChangeCallback(cb) == Keep("RB", cb)
RB_IRQHandler == UnlessFlag("RB") \o Get("d", "PORTB") \o IRQ_ClearFlag("RB") \o Callback("RB", T("d"))
-----------------------------------------------------------------------------
\* Timer0.  The handle is copied, and DeInit leaves the copy in place.
TIMER0_Handles == [ClockSource : 0..1, ClockEdge : 0..1, Prescaler : 0..7, PrescalerAssigned : BOOLEAN,
                   ReloadValue : Below(Byte), cb : BOOLEAN]
TIMER0_Default == [ClockSource |-> 0, ClockEdge |-> 0, Prescaler |-> 7, PrescalerAssigned |-> TRUE, ReloadValue |-> 0, cb |-> FALSE]
TIMER0_Ratio(p) == IF p > 7 THEN 1 ELSE 2^(p + 1)
TIMER0_Init(h) == Given(h, Bcf("OPTION", OPTION.T0CS) \o IRQ_ClearFlag("TMR0") \o EnableIf(h.cb, "TMR0") \o Keep("T0", h) \o Ok)
TIMER0_DeInit == IRQ_DisableSrc("TMR0") \o IRQ_ClearFlag("TMR0") \o Bcf("OPTION", OPTION.T0CS) \o Set("TMR0", 0) \o Ok
TIMER0_Start(h) == Given(h,
  Set("TMR0", h.ReloadValue)
  \o Modify("OPTION", OPTION.PS \cup OPTION.PSA \cup OPTION.T0CS \cup OPTION.T0SE,
            (Bits(h.Prescaler) \cap OPTION.PS) \cup When(~h.PrescalerAssigned, OPTION.PSA)
            \cup When(h.ClockSource = 1, OPTION.T0CS) \cup When(h.ClockEdge = 1, OPTION.T0SE)) \o Ok)
TIMER0_Stop == Bcf("OPTION", OPTION.T0CS) \o Ok
TIMER0_ReadCounter == Get("v", "TMR0") \o Return(T("v"))
TIMER0_WriteCounter(v) == Set("TMR0", v)
TIMER0_IRQHandler == UnlessFlag("TMR0") \o IRQ_ClearFlag("TMR0") \o Callback("T0", K(""))

\* Timer1.
TIMER1_Handles == [ClockSource : 0..1, ClockSync : 0..1, Oscillator : 0..1, Prescaler : 0..3,
                   ReloadValue : Below(Byte * Byte), cb : BOOLEAN]
TIMER1_Default == [ClockSource |-> 0, ClockSync |-> 0, Oscillator |-> 0, Prescaler |-> 0, ReloadValue |-> 0, cb |-> FALSE]
TIMER1_Ratio(p) == IF p > 3 THEN 1 ELSE 2^p
\* Mutant: the high byte is read once.
TIMER1_ReadCounterOnce == Get("h", "TMR1H") \o Get("l", "TMR1L") \o Return(W("h", "l"))
TIMER1_ReadCounter ==
  Repeat(Get("h", "TMR1H") \o Get("l", "TMR1L") \o Get("g", "TMR1H"), "h", "g") \o Return(W("g", "l"))
TIMER1_WriteCounter(v) == Set("TMR1H", Hi(v)) \o Set("TMR1L", Lo(v))
TIMER1_Init(h) == Given(h, Bcf("T1CON", T1CON.TMR1ON) \o IRQ_ClearFlag("TMR1") \o EnableIf(h.cb, "TMR1") \o Keep("T1", h) \o Ok)
\* Mutant: the handle is kept.
TIMER1_DeInitKeeps == IRQ_DisableSrc("TMR1") \o IRQ_ClearFlag("TMR1") \o Set("T1CON", {}) \o TIMER1_WriteCounter(0) \o Ok
TIMER1_DeInit == IRQ_DisableSrc("TMR1") \o IRQ_ClearFlag("TMR1") \o Set("T1CON", {}) \o TIMER1_WriteCounter(0) \o Drop("T1") \o Ok
TIMER1_Start(h) == Given(h, TIMER1_WriteCounter(h.ReloadValue)
  \o Set("T1CON", Shl(h.Prescaler % 4, 4) \cup When(h.Oscillator = 1, T1CON.T1OSCEN) \cup When(h.ClockSync = 1, T1CON.T1SYNC)
                  \cup When(h.ClockSource = 1, T1CON.TMR1CS) \cup T1CON.TMR1ON) \o Ok)
TIMER1_Stop == Bcf("T1CON", T1CON.TMR1ON) \o Ok
TIMER1_IRQHandler == UnlessFlag("TMR1") \o IRQ_ClearFlag("TMR1") \o Callback("T1", K(""))

\* Timer2.
TIMER2_Handles == [Prescaler : 0..2, Postscaler : 0..15, Period : Below(Byte), cb : BOOLEAN]
TIMER2_Default == [Prescaler |-> 0, Postscaler |-> 0, Period |-> Byte - 1, cb |-> FALSE]
TIMER2_PreRatio(p) == CASE p = 0 -> 1 [] p = 1 -> 4 [] p \in {2, 3} -> 16 [] OTHER -> 1
TIMER2_PostRatio(p) == IF p > 15 THEN 1 ELSE p + 1
TIMER2_ReadCounter == Get("v", "TMR2") \o Return(T("v"))
TIMER2_WriteCounter(v) == Set("TMR2", v)
TIMER2_ReadPeriod == Get("v", "PR2") \o Return(T("v"))
TIMER2_WritePeriod(v) == Set("PR2", v)
TIMER2_Init(h) == Given(h, Bcf("T2CON", T2CON.TMR2ON) \o IRQ_ClearFlag("TMR2") \o EnableIf(h.cb, "TMR2") \o Keep("T2", h) \o Ok)
TIMER2_DeInit == IRQ_DisableSrc("TMR2") \o IRQ_ClearFlag("TMR2") \o Set("T2CON", {}) \o TIMER2_WritePeriod(Byte - 1) \o Drop("T2") \o Ok
TIMER2_Start(h) == Given(h, TIMER2_WritePeriod(h.Period)
  \o Set("T2CON", Shl(h.Postscaler % 16, 3) \cup T2CON.TMR2ON \cup Bits(h.Prescaler % 4)) \o Ok)
TIMER2_Stop == Bcf("T2CON", T2CON.TMR2ON) \o Ok
TIMER2_IRQHandler == UnlessFlag("TMR2") \o IRQ_ClearFlag("TMR2") \o Callback("T2", K(""))
-----------------------------------------------------------------------------
\* CCP1 and CCP2.
CCP_Handles == [Instance : 1..2, Mode : {0} \cup 4..12, CompareValue : Below(Byte * Byte), Duty : Below(4 * Byte), cb : BOOLEAN]
Ccp(i) == IF i = 2 THEN [l |-> "CCPR2L", h |-> "CCPR2H", con |-> "CCP2CON", irq |-> "CCP2"]
                   ELSE [l |-> "CCPR1L", h |-> "CCPR1H", con |-> "CCP1CON", irq |-> "CCP1"]
\* Y is the upper of the two low bits of the duty in CCPxCON<5:4>.
DutyBits(duty) == Shl(duty % 4, 4)
CCP_Init(h) == Given(h, LET c == Ccp(h.Instance) IN
  Keep(c.irq, h) \o IRQ_ClearFlag(c.irq) \o EnableIf(h.cb, c.irq)
  \o (IF h.Mode = 12
      THEN Set(c.l, h.Duty \div 4) \o Set(c.h, 0) \o Set(c.con, Bits(h.Mode) \cup DutyBits(h.Duty))
      ELSE Set(c.l, Lo(h.CompareValue)) \o Set(c.h, Hi(h.CompareValue)) \o Set(c.con, Bits(h.Mode))) \o Ok)
CCP_DeInit(i) == LET c == Ccp(i) IN IRQ_DisableSrc(c.irq) \o IRQ_ClearFlag(c.irq) \o Set(c.con, {}) \o Drop(c.irq) \o Ok
CCP_SetCompare(i, v) == Set(Ccp(i).h, Hi(v)) \o Set(Ccp(i).l, Lo(v))
CCP_SetMode(i, mode) == Set(Ccp(i).con, Bits(mode))
CCP_GetCapture(i) ==
  Repeat(Get("h", Ccp(i).h) \o Get("l", Ccp(i).l) \o Get("g", Ccp(i).h), "h", "g") \o Return(W("g", "l"))
CCP_SetPWMDuty(i, duty) == Modify(Ccp(i).con, CCPCON.X \cup CCPCON.Y, DutyBits(duty)) \o Set(Ccp(i).l, duty \div 4)
CCP_IRQHandler(i) == Bcf(IrqTable[Ccp(i).irq].flagReg, IrqTable[Ccp(i).irq].flag) \o Callback(Ccp(i).irq, K(""))
-----------------------------------------------------------------------------
\* A/D converter.  A left-justified result is moved down by the bits it leaves free.
ADC_Handles == [Channel : 0..7, ClockSource : 0..6, ResultFormat : 0..1, Reference : 0..15, cb : BOOLEAN]
ADC_Default == [Channel |-> 0, ClockSource |-> 1, ResultFormat |-> 1, Reference |-> 0, cb |-> FALSE]
ADC_Init(h) == Given(h, Keep("ADC", h)
  \o Set("ADCON0", ADCON0.ADON \cup Shl(h.Channel % 8, 3) \cup Shl(h.ClockSource % 4, 6))
  \o Set("ADCON1", (Bits(h.Reference) \cap ADCON1.PCFG) \cup When(h.ClockSource >= 4, ADCON1.ADCS2)
                   \cup When(h.ResultFormat = 1, ADCON1.ADFM))
  \o IRQ_ClearFlag("ADC") \o EnableIf(h.cb, "ADC") \o Ok)
ADC_DeInit == IRQ_DisableSrc("ADC") \o IRQ_ClearFlag("ADC") \o Set("ADCON0", {}) \o Set("ADCON1", {}) \o Drop("ADC") \o Ok
ADC_SelectChannel(ch) == Modify("ADCON0", ADCON0.CHS, Shl(ch % 8, 3))
ADC_Start == Get("v", "ADCON0") \o ReturnHas("v", ADCON0.GO, "BUSY") \o Put("ADCON0", "v", {}, ADCON0.GO) \o Return(K(0))
ADC_IsConversionInProgress == Get("v", "ADCON0") \o Return(Has("v", ADCON0.GO))
ADC_IsConversionDone == Get("v", "PIR1") \o Return(Has("v", PIR1.ADIF))
ADC_ClearITFlag == IRQ_ClearFlag("ADC")
ADC_Fetch == Get("l", "ADRESL") \o Get("f", "ADCON1") \o Get("h", "ADRESH")
ADC_Result == Down("h", "l", "f", ADCON1.ADFM)
ADC_Read == ADC_Fetch \o Return(ADC_Result)
ADC_IRQHandler == UnlessFlag("ADC") \o IRQ_ClearFlag("ADC") \o UnlessKept("ADC") \o ADC_Fetch \o Callback("ADC", ADC_Result)

\* Comparators and the reference voltage.
COMP_Handles == [Mode : 0..7, C1Inverted : BOOLEAN, C2Inverted : BOOLEAN, CIS : BOOLEAN, cb : BOOLEAN]
COMP_Default == [Mode |-> 2, C1Inverted |-> FALSE, C2Inverted |-> FALSE, CIS |-> FALSE, cb |-> FALSE]
COMP_Init(h) == Given(h, Keep("CMP", h)
  \o Set("CMCON", (Bits(h.Mode) \cap CMCON.CM) \cup When(h.CIS, CMCON.CIS) \cup When(h.C1Inverted, CMCON.C1INV)
                  \cup When(h.C2Inverted, CMCON.C2INV))
  \o IRQ_ClearFlag("CMP") \o EnableIf(h.cb, "CMP") \o Ok)
COMP_DeInit == IRQ_DisableSrc("CMP") \o IRQ_ClearFlag("CMP") \o Set("CMCON", CMCON.CM) \o Drop("CMP") \o Ok
COMP_C1Out == Get("v", "CMCON") \o Return(Has("v", CMCON.C1OUT))
COMP_C2Out == Get("v", "CMCON") \o Return(Has("v", CMCON.C2OUT))
COMP_IsChangeFlag == Get("v", "PIR2") \o Return(Has("v", PIR2.CMIF))
COMP_ClearChangeFlag == IRQ_ClearFlag("CMP")
COMP_IRQHandler == UnlessFlag("CMP") \o IRQ_ClearFlag("CMP") \o Callback("CMP", K(""))

VREF_Handles == [Range : 0..1, Value : 0..15, OutputEnable : BOOLEAN, Enabled : BOOLEAN]
VREF_Default == [Range |-> 0, Value |-> 0, OutputEnable |-> FALSE, Enabled |-> FALSE]
VREF_Init(h) == Given(h, Set("CVRCON", (Bits(h.Value) \cap CVRCON.CVR) \cup When(h.Range = 1, CVRCON.CVRR)
  \cup When(h.OutputEnable, CVRCON.CVROE) \cup When(h.Enabled, CVRCON.CVREN)) \o Ok)
VREF_DeInit == Set("CVRCON", {}) \o Ok
-----------------------------------------------------------------------------
\* Data EEPROM: nothing keeps an interrupt out of the unlock sequence.
EEPROM_Init(cb) == Keep("EE", cb) \o IRQ_ClearFlag("EEPROM") \o EnableIf(cb # Null, "EEPROM") \o Ok
EEPROM_DeInit == IRQ_DisableSrc("EEPROM") \o IRQ_ClearFlag("EEPROM") \o Drop("EE") \o Ok
EEPROM_ReadByte(addr) == Set("EEADR", addr) \o Set("EECON1", {}) \o Set("EECON1", EECON1.RD) \o Get("v", "EEDATA") \o Return(T("v"))
EEPROM_ReadBuffer(addr) == EEPROM_ReadByte(addr) \o EEPROM_ReadByte(addr + 1)
EEPROM_Store(addr, data) ==
  ReturnIf("EECON1", EECON1.WRERR, "ERROR") \o Set("EEDATA", data) \o Set("EEADR", addr) \o Set("EECON1", {})
  \o Set("EECON1", EECON1.WREN) \o Set("EECON2", 85) \o Set("EECON2", 170) \o Set("EECON1", EECON1.WREN \cup EECON1.WR)
EEPROM_WriteByte(addr, data) == EEPROM_Store(addr, data) \o Ok
EEPROM_WriteBuffer(addr, one, two) == EEPROM_Store(addr, one) \o EEPROM_Store(addr + 1, two) \o Ok
EEPROM_IsWriteComplete == Get("v", "PIR2") \o Return(Has("v", PIR2.EEIF))
EEPROM_ClearITFlag == IRQ_ClearFlag("EEPROM")
EEPROM_IRQHandler == UnlessFlag("EEPROM") \o IRQ_ClearFlag("EEPROM") \o Callback("EE", K(""))
-----------------------------------------------------------------------------
\* USART: the transmitter is enabled with its callback, and only then.
USART_Handles == [Mode : 0..1, ClockSource : 0..1, BaudHigh : 0..1, DataWidth : 0..1, SPBRG : Below(Byte), tx : BOOLEAN, rx : BOOLEAN]
USART_Default == [Mode |-> 0, ClockSource |-> 1, BaudHigh |-> 1, DataWidth |-> 0, SPBRG |-> 0, tx |-> FALSE, rx |-> FALSE]
USART_Init(h) == Given(h, Keep("USART", h) \o Set("SPBRG", h.SPBRG)
  \o Set("TXSTA", TXSTA.TRMT \cup When(h.Mode = 1, TXSTA.SYNC) \cup When(h.Mode = 1 /\ h.ClockSource = 1, TXSTA.CSRC)
                  \cup When(h.BaudHigh = 1, TXSTA.BRGH) \cup When(h.DataWidth = 1, TXSTA.TX9) \cup When(h.tx, TXSTA.TXEN))
  \o Set("RCSTA", RCSTA.SPEN \cup When(h.DataWidth = 1, RCSTA.RX9) \cup When(h.rx, RCSTA.CREN))
  \o IRQ_ClearFlag("RX") \o EnableIf(h.tx, "TX") \o EnableIf(h.rx, "RX") \o Ok)
USART_DeInit == IRQ_DisableSrc("TX") \o IRQ_DisableSrc("RX") \o IRQ_ClearFlag("TX") \o IRQ_ClearFlag("RX")
  \o Set("RCSTA", {}) \o Set("TXSTA", TXSTA.TRMT) \o Set("SPBRG", 0) \o Drop("USART") \o Ok
USART_Transmit(data) == Set("TXREG", data) \o IRQ_ClearFlag("TX")
USART_GetTX9D == Get("v", "TXSTA") \o Return(Has("v", TXSTA.TX9D))
USART_SetTX9D(bit) == Change("TXSTA", When(~bit, TXSTA.TX9D), When(bit, TXSTA.TX9D))
USART_IsTxShiftRegisterEmpty == Get("v", "TXSTA") \o Return(Has("v", TXSTA.TRMT))
USART_Receive == Get("d", "RCREG") \o IRQ_ClearFlag("RX") \o Return(T("d"))
USART_GetRX9D == Get("v", "RCSTA") \o Return(Has("v", RCSTA.RX9D))
USART_TX_IRQHandler == UnlessFlag("TX") \o CallbackOf("USART", "tx", K(""))
USART_RX_IRQHandler == UnlessFlag("RX") \o Get("d", "RCREG") \o IRQ_ClearFlag("RX") \o CallbackOf("USART", "rx", T("d"))
-----------------------------------------------------------------------------
\* Synchronous serial port.
SSP_Handles == [Mode : 0..11, ClockEdge : 0..1, ClockPolarity : 0..1, SamplePhase : 0..1, SSPADD : Below(Byte), cb : BOOLEAN]
SSP_Default == [Mode |-> 0, ClockEdge |-> 1, ClockPolarity |-> 0, SamplePhase |-> 0, SSPADD |-> 0, cb |-> FALSE]
SSP_Init(h) == Given(h, Keep("SSP", h) \o Set("SSPADD", h.SSPADD)
  \o Set("SSPSTAT", When(h.ClockEdge = 1, SSPSTAT.CKE) \cup When(h.SamplePhase = 1, SSPSTAT.SMP))
  \o Set("SSPCON", Bits(h.Mode % 16) \cup When(h.ClockPolarity = 1, SSPCON.CKP) \cup SSPCON.SSPEN)
  \o Set("SSPCON2", {}) \o IRQ_ClearFlag("SSP") \o EnableIf(h.cb, "SSP") \o Ok)
SSP_DeInit == IRQ_DisableSrc("SSP") \o IRQ_ClearFlag("SSP") \o Set("SSPCON", {}) \o Set("SSPCON2", {}) \o Set("SSPSTAT", {})
  \o Set("SSPADD", 0) \o Drop("SSP") \o Ok
SSP_WriteByte(data) == ReturnIf("SSPCON", SSPCON.WCOL, "COLLISION") \o Set("SSPBUF", data) \o Return(K(0))
SSP_ReadByte == Get("v", "SSPBUF") \o Bcf("SSPSTAT", SSPSTAT.BF) \o Return(T("v"))
SSP_IsBufferFull == Get("v", "SSPSTAT") \o Return(Has("v", SSPSTAT.BF))
SSP_HasWriteCollision == Get("v", "SSPCON") \o Return(Has("v", SSPCON.WCOL))
SSP_ClearWriteCollision == Bcf("SSPCON", SSPCON.WCOL)
SSP_Start == Modify("SSPCON2", {}, SSPCON2.SEN)
SSP_RepeatedStart == Modify("SSPCON2", {}, SSPCON2.RSEN)
SSP_Stop == Modify("SSPCON2", {}, SSPCON2.PEN)
SSP_ReceiveEnable == Modify("SSPCON2", {}, SSPCON2.RCEN)
SSP_AcknowledgeEnable == Modify("SSPCON2", {}, SSPCON2.ACKEN)
SSP_AcknowledgeStatus == Get("v", "SSPCON2") \o Return(Has("v", SSPCON2.ACKSTAT))
SSP_IRQHandler == UnlessFlag("SSP") \o IRQ_ClearFlag("SSP") \o Callback("SSP", K(""))

\* Parallel slave port.
PSP_Init(cb) == Keep("PSP", cb) \o Modify("TRISE", TRISE.IBF \cup TRISE.OBF \cup TRISE.IBOV, {}) \o IRQ_ClearFlag("PSP")
  \o EnableIf(cb # Null, "PSP") \o Ok
PSP_DeInit == IRQ_DisableSrc("PSP") \o IRQ_ClearFlag("PSP") \o Set("TRISE", {0, 1, 2}) \o Drop("PSP") \o Ok
PSP_Enable == Modify("TRISE", {}, TRISE.PSPMODE)
PSP_Disable == Modify("TRISE", TRISE.PSPMODE, {})
PSP_IsInputBufferFull == Get("v", "TRISE") \o Return(Has("v", TRISE.IBF))
PSP_IsOutputBufferFull == Get("v", "TRISE") \o Return(Has("v", TRISE.OBF))
PSP_HasInputOverflow == Get("v", "TRISE") \o Return(Has("v", TRISE.IBOV))
PSP_ClearInputOverflow == Modify("TRISE", TRISE.IBOV, {})
PSP_IRQHandler == UnlessFlag("PSP") \o IRQ_ClearFlag("PSP") \o Callback("PSP", K(""))
-----------------------------------------------------------------------------
\* The register simulator: the tick of a timer is the last one of its prescaler period.
SimReset(r) ==
  CASE r = "PIR1" -> PIR1.TXIF
    [] r \in {"TRISB", "TRISC", "TRISD"} -> Below(8) [] r = "TRISA" -> Below(6) [] r = "TRISE" -> Below(3)
    [] r \in {"TMR0", "TMR1L", "TMR1H", "TMR2", "PR2", "SSPBUF", "SSPADD", "CCPR1L", "CCPR1H", "CCPR2L", "CCPR2H", "TXREG",
              "RCREG", "SPBRG", "ADRESL", "ADRESH", "EEDATA", "EEADR", "EECON2"} -> 0
    [] OTHER -> {}
\* The periods of the prescalers; the counter of Timer0's is a byte, and its last period one short.
SimPrescale0 == <<2, 4, 8, 16, 32, 64, 128, 255>>
SimPrescale1 == <<1, 2, 4, 8>>
SimPrescale2 == <<1, 4, 16, 16>>
Raise(R, r, b) == [R EXCEPT ![r] = @ \cup b]
SimStepTimer0(R) ==
  LET t == (R["TMR0"] + 1) % Byte
      S == [R EXCEPT !["TMR0"] = t]
  IN  IF t = 0 THEN Raise(S, "INTCON", INTCON.TMR0IF) ELSE S
SimStepTimer1(R) ==
  LET full == (Word(R["TMR1H"], R["TMR1L"]) + 1) % (Byte * Byte)
      S == [R EXCEPT !["TMR1L"] = Lo(full), !["TMR1H"] = Hi(full)]
  IN  IF T1CON.TMR1ON \cap R["T1CON"] = {} THEN R ELSE IF full = 0 THEN Raise(S, "PIR1", PIR1.TMR1IF) ELSE S
\* The counter is a byte before it is compared: with the largest period it never exceeds it.
SimStepTimer2(R) ==
  LET t == (R["TMR2"] + 1) % Byte
      post == R["post"] + 1
      S == [R EXCEPT !["TMR2"] = IF t > R["PR2"] THEN 0 ELSE t]
  IN  IF T2CON.TMR2ON \cap R["T2CON"] = {} THEN R
      ELSE IF t <= R["PR2"] THEN S
      ELSE IF post >= Number(R["T2CON"] \cap T2CON.TOUTPS, 3) + 1 THEN Raise([S EXCEPT !["post"] = 0], "PIR1", PIR1.TMR2IF)
      ELSE [S EXCEPT !["post"] = post]
SimStepUsart(R) == IF TXSTA.TXEN \cap R["TXSTA"] = {} THEN R ELSE Raise(R, "PIR1", PIR1.TXIF)
SimDriveInput(R, p, pin, high) == [R EXCEPT ![Port(p)] = IF high THEN @ \cup {pin} ELSE @ \ {pin}]
SimDriveUsartRx(R, d) == Raise([R EXCEPT !["RCREG"] = d], "PIR1", PIR1.RCIF)
SimDriveSspRx(R, d) == Raise(Raise([R EXCEPT !["SSPBUF"] = d], "SSPSTAT", SSPSTAT.BF), "PIR1", PIR1.SSPIF)
SimDriveAdcDone(R, v) ==
  Raise([R EXCEPT !["ADCON0"] = @ \ ADCON0.GO, !["ADRESH"] = Hi(v), !["ADRESL"] = Lo(v)], "PIR1", PIR1.ADIF)
SimDriveEepromDone(R, addr, d) == Raise([R EXCEPT !["cells"][addr] = d], "PIR2", PIR2.EEIF)
=============================================================================
