---------------------------- MODULE Pic16f193xSfr ----------------------------
(***************************************************************************)
(* pic16f193x_sfr.h: the registers of the PIC16F193X family by name, the   *)
(* bits of each, and the values at power-on.                               *)
(***************************************************************************)
EXTENDS Registers

\* Names of the registers (pic16f193x_sfr.h).
Ports == {"A", "B", "C", "D", "E"}
CoreNames == {"INDF0", "INDF1", "PCL", "STATUS", "FSR0L", "FSR0H", "FSR1L", "FSR1H", "BSR", "WREG", "PCLATH", "INTCON"}
PortNames == {"PORT" \o p : p \in Ports}
TrisNames == {"TRIS" \o p : p \in Ports}
LatNames == {"LAT" \o p : p \in Ports}
AnselNames == {"ANSEL" \o p : p \in Ports \ {"C"}}
FlagNames == {"PIR1", "PIR2", "PIR3"}
EnableNames == {"PIE1", "PIE2", "PIE3"}
TimerNames == {"TMR0", "TMR1L", "TMR1H", "T1CON", "T1GCON", "TMR2", "PR2", "T2CON"}
Timer46Names == {"TMR4", "PR4", "T4CON", "TMR6", "PR6", "T6CON"}
ClockNames == {"OPTION", "PCON", "WDTCON", "OSCTUNE", "OSCCON", "OSCSTAT"}
AdcNames == {"ADRESL", "ADRESH", "ADCON0", "ADCON1"}
AnalogNames == {"CM1CON0", "CM1CON1", "CM2CON0", "CM2CON1", "CMOUT", "BORCON", "FVRCON", "DACCON0", "DACCON1", "SRCON0", "SRCON1",
                "APFCON"}
EepromNames == {"EEADRL", "EEADRH", "EEDATL", "EEDATH", "EECON1", "EECON2"}
UsartNames == {"RCREG", "TXREG", "SPBRGL", "SPBRGH", "RCSTA", "TXSTA", "BAUDCON"}
SspNames == {"SSPBUF", "SSPADD", "SSPMSK", "SSPSTAT", "SSPCON1", "SSPCON2", "SSPCON3"}
CcpNames == {"CCPR1L", "CCPR1H", "CCP1CON", "PWM1CON", "CCP1AS", "PSTR1CON", "CCPR2L", "CCPR2H", "CCP2CON", "PWM2CON", "CCP2AS",
             "PSTR2CON", "CCPTMRS0", "CCPTMRS1"}
Ccp345Names == {"CCPR3L", "CCPR3H", "CCP3CON", "PWM3CON", "CCP3AS", "PSTR3CON", "CCPR4L", "CCPR4H", "CCP4CON", "CCPR5L", "CCPR5H",
                "CCP5CON"}
LcdData(i) == "LCDDATA" \o ToString(i)
LcdNames == {"LCDCON", "LCDPS", "LCDREF", "LCDCST", "LCDRL", "LCDSE0", "LCDSE1", "LCDSE2"} \cup {LcdData(i) : i \in 0..11}

Names == CoreNames \cup PortNames \cup TrisNames \cup LatNames \cup AnselNames \cup FlagNames \cup EnableNames \cup TimerNames \cup Timer46Names
         \cup ClockNames \cup AdcNames \cup AnalogNames \cup EepromNames \cup UsartNames \cup SspNames \cup CcpNames \cup Ccp345Names
         \cup LcdNames \cup {"WPUB", "WPUE", "IOCBP", "IOCBN", "IOCBF", "CPSCON0", "CPSCON1"}

INTCON == [IOCIF |-> {0}, INTF |-> {1}, TMR0IF |-> {2}, IOCIE |-> {3}, INTE |-> {4}, TMR0IE |-> {5}, PEIE |-> {6}, GIE |-> {7}]
OPTION == [PS |-> {0, 1, 2}, PSA |-> {3}, T0SE |-> {4}, T0CS |-> {5}, INTEDG |-> {6}, WPUEN |-> {7}]
\* PIRn and PIEn are laid out alike.
Per1 == [TMR1 |-> {0}, TMR2 |-> {1}, CCP1 |-> {2}, SSP |-> {3}, USART_TX |-> {4}, USART_RX |-> {5}, ADC |-> {6}, TMR1G |-> {7}]
Per2 == [CCP2 |-> {0}, LCD |-> {2}, BCL |-> {3}, EEPROM |-> {4}, CMP1 |-> {5}, CMP2 |-> {6}, OSF |-> {7}]
Per3 == [TMR4 |-> {1}, TMR6 |-> {3}, CCP3 |-> {4}, CCP4 |-> {5}, CCP5 |-> {6}]
T1CON == [TMR1ON |-> {0}, T1CKPS |-> {4, 5}, TMR1CS |-> {6, 7}]
TxCON == [CKPS |-> {0, 1}, ON |-> {2}, TOUTPS |-> {3, 4, 5, 6}]
CCPCON == [CCPM |-> {0, 1, 2, 3}, DCB |-> {4, 5}, PM |-> {6, 7}]
RCSTA == [RX9D |-> {0}, OERR |-> {1}, FERR |-> {2}, ADDEN |-> {3}, CREN |-> {4}, SREN |-> {5}, RX9 |-> {6}, SPEN |-> {7}]
TXSTA == [TX9D |-> {0}, TRMT |-> {1}, BRGH |-> {2}, SENDB |-> {3}, SYNC |-> {4}, TXEN |-> {5}, TX9 |-> {6}, CSRC |-> {7}]
BAUDCON == [ABDEN |-> {0}, WUE |-> {1}, BRG16 |-> {3}, SCKP |-> {4}, RCIDL |-> {6}, ABDOVF |-> {7}]
SSPSTAT == [BF |-> {0}, CKE |-> {6}, SMP |-> {7}]
SSPCON1 == [SSPM |-> {0, 1, 2, 3}, CKP |-> {4}, SSPEN |-> {5}, SSPOV |-> {6}, WCOL |-> {7}]
ADCON0 == [ADON |-> {0}, GO |-> {1}, CHS |-> {2, 3, 4, 5, 6}]
ADCON1 == [ADPREF |-> {0, 1}, ADNREF |-> {2}, ADCS |-> {4, 5, 6}, ADFM |-> {7}]
CMCON0 == [HYS |-> {1}, POL |-> {4}, OE |-> {5}, ON |-> {7}]
CMCON1 == [NCH |-> {0, 1}, PCH |-> {4, 5}, INTN |-> {6}, INTP |-> {7}]
CMOUT == [MC1OUT |-> {0}, MC2OUT |-> {1}]
EECON1 == [RD |-> {0}, WR |-> {1}, WREN |-> {2}, WRERR |-> {3}, FREE |-> {4}, LWLO |-> {5}, CFGS |-> {6}, EEPGD |-> {7}]
DACCON == [NSS |-> {0}, PSS |-> {2, 3}, OE |-> {5}, LPS |-> {6}, EN |-> {7}, DACR |-> {0, 1, 2, 3, 4}]
FVRCON == [ADFVR |-> {0, 1}, CDAFVR |-> {2, 3}, TSRNG |-> {4}, TSEN |-> {5}, FVRRDY |-> {6}, FVREN |-> {7}]
SRCON0 == [SRPR |-> {0}, SRPS |-> {1}, SRNQEN |-> {2}, SRQEN |-> {3}, SRCLK |-> {4, 5, 6}, SRLEN |-> {7}]
CPSCON0 == [T0XCS |-> {0}, CPSOUT |-> {1}, CPSRNG |-> {2, 3}, CPSON |-> {7}]
CPSCON1 == [CPSCH |-> {0, 1, 2, 3}]
LCDCON == [LMUX |-> {0, 1}, LCDEN |-> {7}]
LCDPS == [LP |-> {0, 1, 2, 3}, WA |-> {4}, LCDA |-> {5}]
\* Values at power-on, of the registers that are not zero.
Por(r) == CASE r = "STATUS" -> {3, 4} [] r = "PCON" -> {2, 3} [] r = "OPTION" -> 0..7 [] OTHER -> {}
==============================================================================
