---------------------------- MODULE Pic16f87xaSfr ----------------------------
(***************************************************************************)
(* pic16f87xa_sfr.h: the registers of the PIC16F87XA family by name, and   *)
(* the bits of each. A register that counts or carries data has no bits    *)
(* here.                                                                   *)
(***************************************************************************)
EXTENDS Registers

\* Names of the registers by bank (pic16f87xa_sfr.h).
CoreNames  == {"INDF", "OPTION", "PCL", "STATUS", "FSR", "PCLATH", "INTCON", "PIR1", "PIR2", "PCON", "PIE1", "PIE2"}
Ports == {"A", "B", "C", "D", "E"}
PortNames == {"PORT" \o p : p \in Ports} \cup {"TRIS" \o p : p \in Ports}
Bank0Names == {"TMR0", "TMR1L", "TMR1H", "T1CON", "TMR2", "T2CON", "SSPBUF", "SSPCON", "CCPR1L", "CCPR1H",
               "CCP1CON", "RCSTA", "TXREG", "RCREG", "CCPR2L", "CCPR2H", "CCP2CON", "ADRESH", "ADCON0"}
Bank1Names == {"SSPCON2", "PR2", "SSPADD", "SSPSTAT", "TXSTA", "SPBRG", "CMCON", "CVRCON", "ADRESL", "ADCON1"}
EepromNames == {"EEDATA", "EEADR", "EEDATH", "EEADRH", "EECON1", "EECON2"}
Names == CoreNames \cup PortNames \cup Bank0Names \cup Bank1Names \cup EepromNames

INTCON == [RBIF |-> {0}, INTF |-> {1}, TMR0IF |-> {2}, RBIE |-> {3}, INTE |-> {4}, TMR0IE |-> {5},
           PEIE |-> {6}, GIE |-> {7}]
PIR1 == [TMR1IF |-> {0}, TMR2IF |-> {1}, CCP1IF |-> {2}, SSPIF |-> {3}, TXIF |-> {4}, RCIF |-> {5},
         ADIF |-> {6}, PSPIF |-> {7}]
PIE1 == [TMR1IE |-> {0}, TMR2IE |-> {1}, CCP1IE |-> {2}, SSPIE |-> {3}, TXIE |-> {4}, RCIE |-> {5},
         ADIE |-> {6}, PSPIE |-> {7}]
PIR2 == [CCP2IF |-> {0}, BCLIF |-> {3}, EEIF |-> {4}, CMIF |-> {6}]
PIE2 == [CCP2IE |-> {0}, BCLIE |-> {3}, EEIE |-> {4}, CMIE |-> {6}]
OPTION == [PS |-> {0, 1, 2}, PSA |-> {3}, T0SE |-> {4}, T0CS |-> {5}, INTEDG |-> {6}, RBPU |-> {7}]
T1CON  == [TMR1ON |-> {0}, TMR1CS |-> {1}, T1SYNC |-> {2}, T1OSCEN |-> {3}, T1CKPS |-> {4, 5}]
T2CON  == [T2CKPS |-> {0, 1}, TMR2ON |-> {2}, TOUTPS |-> {3, 4, 5, 6}]
CCPCON == [M |-> {0, 1, 2, 3}, Y |-> {4}, X |-> {5}]
TXSTA  == [TX9D |-> {0}, TRMT |-> {1}, BRGH |-> {2}, SYNC |-> {4}, TXEN |-> {5}, TX9 |-> {6}, CSRC |-> {7}]
RCSTA  == [RX9D |-> {0}, OERR |-> {1}, FERR |-> {2}, ADDEN |-> {3}, CREN |-> {4}, SREN |-> {5}, RX9 |-> {6},
           SPEN |-> {7}]
SSPCON == [SSPM |-> {0, 1, 2, 3}, CKP |-> {4}, SSPEN |-> {5}, SSPOV |-> {6}, WCOL |-> {7}]
SSPCON2 == [SEN |-> {0}, RSEN |-> {1}, PEN |-> {2}, RCEN |-> {3}, ACKEN |-> {4}, ACKDT |-> {5}, ACKSTAT |-> {6},
            GCEN |-> {7}]
SSPSTAT == [BF |-> {0}, UA |-> {1}, RW |-> {2}, S |-> {3}, P |-> {4}, DA |-> {5}, CKE |-> {6}, SMP |-> {7}]
\* CHS: the mask is 0x1C, although the comment beside it and CHS_POS say bits 5 to 3.
ADCON0 == [ADON |-> {0}, GO |-> {2}, CHS |-> {2, 3, 4}, ADCS |-> {6, 7}]
ADCON1 == [PCFG |-> {0, 1, 2, 3}, ADCS2 |-> {6}, ADFM |-> {7}]
CMCON  == [CM |-> {0, 1, 2}, CIS |-> {3}, C1INV |-> {4}, C2INV |-> {5}, C1OUT |-> {6}, C2OUT |-> {7}]
CVRCON == [CVR |-> {0, 1, 2, 3}, CVRR |-> {5}, CVROE |-> {6}, CVREN |-> {7}]
EECON1 == [RD |-> {0}, WR |-> {1}, WREN |-> {2}, WRERR |-> {3}]
TRISE  == [PSPIE |-> {0}, IBF |-> {1}, OBF |-> {2}, IBOV |-> {3}, PSPMODE |-> {4}]
==============================================================================
