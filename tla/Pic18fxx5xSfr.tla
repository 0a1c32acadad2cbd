---------------------------- MODULE Pic18fxx5xSfr ----------------------------
(***************************************************************************)
(* pic18fxx5x_sfr.h: the registers of the PIC18FXX5X family by name, the   *)
(* bits of each, and the values at power-on.                               *)
(***************************************************************************)
EXTENDS Registers

\* Names of the registers (pic18fxx5x_sfr.h).
Ports == {"A", "B", "C", "D", "E"}
PortNames == {"PORT" \o p : p \in Ports} \cup {"LAT" \o p : p \in Ports} \cup {"TRIS" \o p : p \in Ports}
CoreNames == {"STATUS", "BSR", "RCON", "INTCON", "INTCON2", "INTCON3", "PIR1", "PIE1", "IPR1", "PIR2", "PIE2", "IPR2"}
TimerNames == {"T0CON", "TMR0L", "TMR0H", "T1CON", "TMR1L", "TMR1H", "T2CON", "PR2", "TMR2", "T3CON", "TMR3L", "TMR3H"}
CcpNames == {"ECCP1AS", "ECCP1DEL", "CCP2CON", "CCPR2L", "CCPR2H", "CCP1CON", "CCPR1L", "CCPR1H"}
SerialNames == {"SSPCON2", "SSPCON1", "SSPSTAT", "SSPADD", "SSPBUF", "BAUDCON", "RCSTA", "TXSTA", "TXREG", "RCREG",
                "SPBRG", "SPBRGH"}
AnalogNames == {"CMCON", "ADCON2", "ADCON1", "ADCON0", "ADRESL", "ADRESH"}
MemoryNames == {"EECON1", "EECON2", "EEDATA", "EEADR", "SPPDATA", "SPPCFG", "SPPEPS", "SPPCON"}
Names == PortNames \cup CoreNames \cup TimerNames \cup CcpNames \cup SerialNames \cup AnalogNames \cup MemoryNames

RCON == [BOR |-> {0}, POR |-> {1}, PD |-> {2}, TO |-> {3}, RI |-> {4}, SBOREN |-> {6}, IPEN |-> {7}]
INTCON == [RBIF |-> {0}, INT0IF |-> {1}, TMR0IF |-> {2}, RBIE |-> {3}, INT0IE |-> {4}, TMR0IE |-> {5},
           GIEL |-> {6}, GIEH |-> {7}]
INTCON2 == [RBIP |-> {0}, TMR0IP |-> {2}, INTEDG2 |-> {4}, INTEDG1 |-> {5}, INTEDG0 |-> {6}, RBPU |-> {7}]
INTCON3 == [INT1IF |-> {0}, INT2IF |-> {1}, INT1IE |-> {3}, INT2IE |-> {4}, INT1IP |-> {6}, INT2IP |-> {7}]
\* PIR1, PIE1 and IPR1 are laid out alike, and so are PIR2, PIE2 and IPR2.
Per1 == [TMR1 |-> {0}, TMR2 |-> {1}, CCP1 |-> {2}, SSP |-> {3}, TX |-> {4}, RX |-> {5}, ADC |-> {6}, SPP |-> {7}]
Per2 == [CCP2 |-> {0}, TMR3 |-> {1}, HLVD |-> {2}, BCL |-> {3}, EEPROM |-> {4}, USB |-> {5}, CMP |-> {6}, OSCF |-> {7}]
T0CON == [T0PS |-> {0, 1, 2}, PSA |-> {3}, T0SE |-> {4}, T0CS |-> {5}, T08BIT |-> {6}, TMR0ON |-> {7}]
T1CON == [TMR1ON |-> {0}, TMR1CS |-> {1}, T1SYNC |-> {2}, T1OSCEN |-> {3}, T1CKPS |-> {4, 5}, T1RUN |-> {6}, RD16 |-> {7}]
T2CON == [T2CKPS |-> {0, 1}, TMR2ON |-> {2}, TOUTPS |-> {3, 4, 5, 6}]
T3CON == [TMR3ON |-> {0}, TMR3CS |-> {1}, T3SYNC |-> {2}, T3CCP1 |-> {3}, T3CKPS |-> {4, 5}, T3CCP2 |-> {6}, RD16 |-> {7}]
CCP1CON == [M |-> {0, 1, 2, 3}, DC1B |-> {4, 5}, P1M |-> {6, 7}]
ECCP1DEL == [PDC |-> {0, 1, 2, 3, 4, 5, 6}, PRSEN |-> {7}]
ECCP1AS == [PSSBD |-> {0, 1}, PSSAC |-> {2, 3}, SRC |-> {4, 5, 6}, ECCPASE |-> {7}]
SSPCON1 == [SSPM |-> {0, 1, 2, 3}, CKP |-> {4}, SSPEN |-> {5}, SSPOV |-> {6}, WCOL |-> {7}]
SSPCON2 == [SEN |-> {0}, RSEN |-> {1}, PEN |-> {2}, RCEN |-> {3}, ACKEN |-> {4}, ACKDT |-> {5}, ACKSTAT |-> {6},
            GCEN |-> {7}]
SSPSTAT == [BF |-> {0}, UA |-> {1}, RW |-> {2}, S |-> {3}, P |-> {4}, DA |-> {5}, CKE |-> {6}, SMP |-> {7}]
TXSTA == [TX9D |-> {0}, TRMT |-> {1}, BRGH |-> {2}, SYNC |-> {4}, TXEN |-> {5}, TX9 |-> {6}, CSRC |-> {7}]
RCSTA == [RX9D |-> {0}, OERR |-> {1}, FERR |-> {2}, ADDEN |-> {3}, CREN |-> {4}, SREN |-> {5}, RX9 |-> {6},
          SPEN |-> {7}]
BAUDCON == [ABDEN |-> {0}, WUE |-> {1}, BRG16 |-> {3}, TXCKP |-> {4}, RXDTP |-> {5}, RCIDL |-> {6}, ABDOVF |-> {7}]
CMCON == [CM |-> {0, 1, 2}, CIS |-> {3}, C1INV |-> {4}, C2INV |-> {5}, C1OUT |-> {6}, C2OUT |-> {7}]
EECON1 == [RD |-> {0}, WR |-> {1}, WREN |-> {2}, WRERR |-> {3}, FREE |-> {4}, CFGS |-> {6}, EEPGD |-> {7}]
ADCON0 == [ADON |-> {0}, GO |-> {1}, CHS |-> {2, 3, 4, 5}]
ADCON1 == [PCFG |-> {0, 1, 2, 3}, VCFG0 |-> {4}, VCFG1 |-> {5}]
ADCON2 == [ADCS |-> {0, 1, 2}, ACQT |-> {3, 4, 5}, ADFM |-> {7}]
SPPCON == [SPPEN |-> {0}, SPPOWN |-> {1}]
SPPCFG == [WS |-> {0, 1, 2, 3}, CLK1EN |-> {4}, CSEN |-> {5}, CLKCFG |-> {6, 7}]
SPPEPS == [ADDR |-> {0, 1, 2, 3}, SPPBUSY |-> {4}, WRSPP |-> {6}, RDSPP |-> {7}]

\* Values at power-on, of the registers that are not zero.
Por(r) == CASE r = "T0CON" -> 0..7 [] r \in {"IPR1", "IPR2"} -> 0..7 [] r = "INTCON2" -> 0..7 \ {2} [] r = "INTCON3" -> {6, 7}
            [] r = "TXSTA" -> {1} [] r = "CMCON" -> {0, 1, 2} [] r = "RCON" -> {0, 1, 2, 4, 6} [] r = "PR2" -> Byte - 1
            [] r \in {"TRISB", "TRISC", "TRISD"} -> 0..7 [] OTHER -> {}
==============================================================================
