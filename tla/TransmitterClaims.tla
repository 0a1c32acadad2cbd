-------------------------- MODULE TransmitterClaims --------------------------
(***************************************************************************)
(* What the documents of epic-swuart and epic-serial say of everything     *)
(* written, where the code loses, repeats or spoils a byte.  A behaviour   *)
(* takes the transmitters one after the other: Swuart with a client that   *)
(* writes at any time, Serial on a PIC18, Serial on a PIC16 with a client  *)
(* that blocks on a full ring while interrupts are on.  It notes what      *)
(* shows each claim broken; two states that agree on the claims broken and *)
(* on the transmitter at work go on alike.                                 *)
(***************************************************************************)
EXTENDS Integers, Sequences

CONSTANTS SZ,          \* slots of a ring
          CountMod,    \* 2^8 in the code: width of the ring counters
          SoftValues,  \* bytes written to the software UART
          SoftBytes,   \* bound: how many
          TxBytes,     \* bound: bytes written to the hardware UART
          MaxDepth     \* bound: activations on the stack

VARIABLES softUse, timer, softTx, softRx, ccp, main, pin, peer, written, heard, sent, softGot,
          use, tx, rx, txie, gie, stack, txreg, tsr, rcreg, lastRx, overrun, wire,
          next, arrived, missed, got, fresh,
          broken   \* the claims broken so far, in the order of Claims, with what shows it

Soft == INSTANCE Swuart WITH use <- softUse, tx <- softTx, rx <- softRx, got <- softGot,
          Uses <- {"tx_any"}, CycleMod <- 50, Bit <- 4, Lead <- 2, Latency <- 1, MainTicks <- 1,
          Values <- SoftValues, MaxBytes <- SoftBytes
Pic18 == INSTANCE Serial WITH Family <- "pic18", Uses <- {"isr"}, Prompt <- TRUE, RxBytes <- 0
Pic16 == INSTANCE Serial WITH Family <- "pic16", Uses <- {"both"}, Prompt <- TRUE, RxBytes <- 0

softVars == <<softUse, timer, softTx, softRx, ccp, main, pin, peer, written, heard, sent, softGot>>
serialVars == <<use, tx, rx, txie, gie, stack, txreg, tsr, rcreg, lastRx, overrun, wire,
                next, arrived, missed, got, fresh>>

\* In the order in which a behaviour comes to them.
Claims == <<
  "HeardIsWritten",      \* ARCHITECTURE.md:103 of epic-swuart, a compare "is always the one for the
                         \* transition that is actually due there"
  "ConservedOnPic18",    \* epic_serial.c:48, "atomic pop + TXREG load"
  "ConservedWhenFull">>  \* epic_serial.h:34, a write blocks "until space frees"
Left == Len(Claims) - Len(broken)
Claim == IF Left = 0 THEN "none" ELSE Claims[Len(broken) + 1]

Init == Soft!Init /\ Pic18!Init /\ broken = <<>>

\* A step with the transmitter a claim is about, and whether the claim survives it.
Try(claim, step, kept, sight) ==
  /\ Claim = claim /\ step
  /\ broken' = IF kept THEN broken ELSE Append(broken, [claim |-> claim, seen |-> sight])

Write ==
  /\ Try("HeardIsWritten", Soft!Next, Soft!HeardIsWritten', [written |-> written, heard |-> heard'])
  /\ UNCHANGED serialVars

\* Where the bytes written are, from the wire back to the ring.
Whereabouts == [wire |-> wire, usart |-> <<tsr, txreg>>, popped |-> Pic18!Popped, ring |-> Pic18!Content(tx)]
Transmit ==
  /\ \/ Try("ConservedOnPic18", Pic18!Next, Pic18!TxConserved', [written |-> next - 1, went |-> Whereabouts'])
     \/ Try("ConservedWhenFull", use = "both" /\ Pic16!Next, Pic16!TxConserved', [written |-> next - 1, went |-> Whereabouts'])
  /\ UNCHANGED softVars

\* The PIC16, initialised.
Replace ==
  /\ Claim = "ConservedWhenFull" /\ use = "isr"
  /\ use' = "both" /\ tx' = Pic16!EmptyRing /\ rx' = Pic16!EmptyRing /\ txie' = FALSE /\ gie' = TRUE
  /\ stack' = <<Pic16!Activation("main", "idle")>>
  /\ txreg' = 0 /\ tsr' = 0 /\ rcreg' = <<>> /\ lastRx' = 0 /\ overrun' = FALSE
  /\ wire' = <<>> /\ next' = 1 /\ arrived' = 0 /\ missed' = {} /\ got' = <<>> /\ fresh' = FALSE
  /\ UNCHANGED <<softVars, broken>>

Next == Write \/ Transmit \/ Replace
Spec == Init /\ [][Next]_<<softVars, serialVars, broken>>
-----------------------------------------------------------------------------
\* What of a state the rest of a behaviour depends on: the transmitter whose claim is next.
View == <<Claim, IF Claim = "HeardIsWritten" THEN softVars ELSE serialVars>>

\* What is written to a transmitter goes out once and in order: whenever the software
\* UART's client writes, on PIC18 as on PIC16, and whether the writer finds the ring
\* full or not.  One of the three holds: a behaviour that breaks this has broken each.
SomeTransmitterClaimHolds == Left > 0
=============================================================================
