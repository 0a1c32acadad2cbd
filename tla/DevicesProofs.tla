------------------------------ MODULE DevicesProofs ------------------------------
(***************************************************************************)
(* For every wheel, transaction, table, window, controller, host and line  *)
(* typed: the encoder drifts by two at most for every error it counts, a   *)
(* transaction of the bus ends released and tells what went over it, the   *)
(* row that acts is the first that applies, an event has its window, the   *)
(* output is due, both streams of the USB device keep their bytes, an end  *)
(* of line makes one line, and the counter tells the time.                 *)
(***************************************************************************)
EXTENDS Devices, SequenceTheorems, FunctionTheorems, FiniteSetTheorems, TLAPS

\* A step moves one of the modules.
LEMMA Steps ==
  ASSUME [Next]_vars
  PROVE  /\ Enc!Next \/ UNCHANGED encVars
         /\ Bus!Next \/ UNCHANGED busVars
         /\ FsM!Next \/ UNCHANGED fsmVars
         /\ Deb!Next \/ UNCHANGED debVars
         /\ Con!Next \/ UNCHANGED conVars
         /\ Tck!Next \/ UNCHANGED tickVars
         /\ Ctl!Next \/ UNCHANGED pidVars
         /\ Cdc!Next \/ UNCHANGED usbVars
<1>1. CASE UNCHANGED vars
  BY <1>1 DEF vars, first, second, third
<1>2. CASE Next
  BY <1>2 DEF Next, Only, DebStep, TickStep, UsbStep, first, second, third
<1>3. QED
  BY <1>1, <1>2
-----------------------------------------------------------------------------
\* The encoder: its reference is the sample taken last.
Wheels == [turn : Int, base : Int, seen : Int, jumped : BOOLEAN]
EncoderInv ==
  /\ Enc!TypeOK /\ wheel \in Wheels
  /\ enc.last = Enc!Pins(wheel.seen)
  /\ Enc!DriftBounded

LEMMA Pin ==
  ASSUME NEW t \in Int
  PROVE  Enc!Pins(t) \in 0 .. 3
<1>1. t % 4 \in 0 .. 3
  OBVIOUS
<1>2. QED
  BY <1>1 DEF Enc!Pins

\* One quarter step counts as one, two as an error.
LEMMA Quadrature ==
  ASSUME NEW s \in Int, NEW t \in Int, Enc!Distance(s, t) <= 2, Enc!Pins(s) # Enc!Pins(t)
  PROVE  LET d == Enc!QuadTable[4 * Enc!Pins(s) + Enc!Pins(t) + 1]
         IN \/ d = 0
            \/ d \in {-1, 1} /\ t = s + d
<1> DEFINE a == s % 4  b == t % 4
<1>1. a \in 0 .. 3 /\ b \in 0 .. 3
  OBVIOUS
<1>2. /\ t - s \in -2 .. 2
  BY DEF Enc!Distance
<1>3. \/ t = s
      \/ t = s + 1 /\ b = (a + 1) % 4
      \/ t = s - 1 /\ b = (a + 3) % 4
      \/ (t = s + 2 \/ t = s - 2) /\ b = (a + 2) % 4
  BY <1>2
<1>4. t # s
  OBVIOUS
<1>5. Enc!Pins(s) = <<0, 2, 3, 1>>[a + 1] /\ Enc!Pins(t) = <<0, 2, 3, 1>>[b + 1]
  BY DEF Enc!Pins
<1> HIDE DEF a, b
<1>6. CASE t = s + 1 /\ b = (a + 1) % 4
  BY <1>1, <1>5, <1>6 DEF Enc!QuadTable
<1>7. CASE t = s - 1 /\ b = (a + 3) % 4
  BY <1>1, <1>5, <1>7 DEF Enc!QuadTable
<1>8. CASE (t = s + 2 \/ t = s - 2) /\ b = (a + 2) % 4
  BY <1>1, <1>5, <1>8 DEF Enc!QuadTable
<1>9. QED
  BY <1>3, <1>4, <1>6, <1>7, <1>8

LEMMA EncoderInit == Init => EncoderInv
<1> SUFFICES ASSUME Init PROVE EncoderInv
  OBVIOUS
<1>1. PICK g \in Gates :
        enc = [gate |-> g, position |-> 0, last |-> Enc!Pins(0), since |-> 0, errors |-> 0, glitches |-> 0]
  BY DEF Init, Enc!Init
<1>2. wheel = [turn |-> 0, base |-> 0, seen |-> 0, jumped |-> FALSE]
  BY DEF Init, Enc!Init
<1>3. g \in Nat /\ MaxFaults \in Nat
  BY EncoderAssumption
<1>4. Enc!Pins(0) \in 0 .. 3
  BY Pin
<1>5. Enc!TypeOK /\ wheel \in Wheels /\ enc.last = Enc!Pins(wheel.seen)
  BY <1>1, <1>2, <1>3, <1>4 DEF Enc!TypeOK, Wheels
<1>6. Enc!DriftBounded
  BY <1>1, <1>2 DEF Enc!DriftBounded, Enc!Distance
<1>7. QED
  BY <1>5, <1>6 DEF EncoderInv

LEMMA EncoderKeeps ==
  ASSUME EncoderInv, Enc!Next
  PROVE  EncoderInv'
<1> DEFINE Encs == [gate : Gates, position : Int, last : 0 .. 3, since : Nat,
                    errors : 0 .. MaxFaults, glitches : 0 .. MaxFaults]
<1>1. /\ enc \in Encs /\ wheel \in Wheels /\ enc.since <= enc.gate /\ enc.last = Enc!Pins(wheel.seen)
      /\ ~wheel.jumped => Enc!Distance(wheel.seen - wheel.base, enc.position) <= 2 * enc.errors
  BY DEF EncoderInv, Enc!TypeOK, Enc!DriftBounded
<1>2. Gates \subseteq Nat /\ MaxFaults \in Nat
  BY EncoderAssumption
<1>3. /\ enc.gate \in Nat /\ enc.since \in Nat /\ enc.position \in Int /\ enc.errors \in 0 .. MaxFaults
      /\ wheel.turn \in Int /\ wheel.base \in Int /\ wheel.seen \in Int /\ wheel.jumped \in BOOLEAN
  BY <1>1, <1>2 DEF Wheels
<1>4. Enc!Pins(wheel.turn) \in 0 .. 3
  BY <1>3, Pin
<1>5. ASSUME NEW d \in {-1, 1}, Enc!Turn(d) PROVE EncoderInv'
  <2>1. wheel' = [wheel EXCEPT !.turn = wheel.turn + d] /\ enc' = enc
    BY <1>5 DEF Enc!Turn
  <2>2. /\ wheel' \in Wheels /\ wheel'.seen = wheel.seen /\ wheel'.base = wheel.base
        /\ wheel'.jumped = wheel.jumped
    BY <1>1, <1>3, <2>1 DEF Wheels
  <2>3. QED
    BY <1>1, <2>1, <2>2 DEF EncoderInv, Enc!TypeOK, Enc!DriftBounded
<1>6. CASE Enc!Millisecond
  <2>1. enc.since < enc.gate /\ enc' = [enc EXCEPT !.since = enc.since + 1] /\ wheel' = wheel
    BY <1>6 DEF Enc!Millisecond
  <2>2. /\ enc' \in Encs /\ enc'.since <= enc'.gate /\ enc'.last = enc.last
        /\ enc'.position = enc.position /\ enc'.errors = enc.errors
    BY <1>1, <1>3, <2>1
  <2>3. QED
    BY <1>1, <2>1, <2>2 DEF EncoderInv, Enc!TypeOK, Enc!DriftBounded
<1>7. CASE Enc!EncoderReset
  <2>1. /\ enc' = [enc EXCEPT !.position = 0, !.errors = 0, !.glitches = 0, !.since = 0,
                              !.last = Enc!Pins(wheel.turn)]
        /\ wheel' = [wheel EXCEPT !.base = wheel.turn, !.seen = wheel.turn, !.jumped = FALSE]
    BY <1>7 DEF Enc!EncoderReset
  <2>2. enc' = [gate |-> enc.gate, position |-> 0, last |-> Enc!Pins(wheel.turn), since |-> 0,
                errors |-> 0, glitches |-> 0]
    BY <1>1, <2>1
  <2>3. wheel' = [turn |-> wheel.turn, base |-> wheel.turn, seen |-> wheel.turn, jumped |-> FALSE]
    BY <1>1, <2>1 DEF Wheels
  <2>4. enc' \in Encs /\ enc'.since <= enc'.gate
    BY <1>1, <1>2, <1>3, <1>4, <2>2
  <2>5. wheel' \in Wheels /\ enc'.last = Enc!Pins(wheel'.seen)
    BY <1>3, <2>2, <2>3 DEF Wheels
  <2>6. Enc!Distance(wheel'.seen - wheel'.base, enc'.position) <= 2 * enc'.errors
    BY <1>3, <2>2, <2>3 DEF Enc!Distance
  <2>7. QED
    BY <2>4, <2>5, <2>6 DEF EncoderInv, Enc!TypeOK, Enc!DriftBounded
<1>8. CASE Enc!UpdateGated
  <2>1. /\ enc.glitches < MaxFaults /\ enc' = [enc EXCEPT !.glitches = enc.glitches + 1]
        /\ wheel' = wheel
    BY <1>8 DEF Enc!UpdateGated
  <2>2. /\ enc' \in Encs /\ enc'.since = enc.since /\ enc'.gate = enc.gate /\ enc'.last = enc.last
        /\ enc'.position = enc.position /\ enc'.errors = enc.errors
    BY <1>1, <1>2, <2>1
  <2>3. QED
    BY <1>1, <2>1, <2>2 DEF EncoderInv, Enc!TypeOK, Enc!DriftBounded
<1>9. CASE Enc!UpdateAccepted
  <2> DEFINE d == Enc!QuadTable[4 * enc.last + Enc!Pins(wheel.turn) + 1]
             e == IF d = 0 THEN enc.errors + 1 ELSE enc.errors
             j == wheel.jumped \/ Enc!Distance(wheel.seen, wheel.turn) > 2
  <2>1. /\ Enc!Pins(wheel.turn) # enc.last /\ (d = 0 => enc.errors < MaxFaults)
        /\ enc' = [enc EXCEPT !.errors = e, !.position = enc.position + d,
                              !.last = Enc!Pins(wheel.turn), !.since = 0]
        /\ wheel' = [wheel EXCEPT !.seen = wheel.turn, !.jumped = j]
    BY <1>9 DEF Enc!UpdateAccepted, Enc!Now, Enc!Delta
  <2>2. d \in {-1, 0, 1}
    <3>1. enc.last \in 0 .. 3
      BY <1>1
    <3>2. \A x, y \in 0 .. 3 : Enc!QuadTable[4 * x + y + 1] \in {-1, 0, 1}
      BY DEF Enc!QuadTable
    <3>3. QED
      BY <1>4, <3>1, <3>2
  <2>3. ~j => d = 0 \/ wheel.turn = wheel.seen + d
    <3>1. ASSUME ~j PROVE Enc!Distance(wheel.seen, wheel.turn) <= 2
      <4>1. Enc!Distance(wheel.seen, wheel.turn) \in Int
        BY <1>3 DEF Enc!Distance
      <4>2. QED
        BY <3>1, <4>1
    <3>2. QED
      BY <1>1, <1>3, <2>1, <3>1, Quadrature
  <2>4. d = 0 /\ ~j => Enc!Distance(wheel.seen, wheel.turn) <= 2
    BY <1>3 DEF Enc!Distance
  <2>5. e \in 0 .. MaxFaults /\ j \in BOOLEAN
    BY <1>2, <1>3, <2>1
  <2> HIDE DEF d, e, j
  <2>6. enc' = [gate |-> enc.gate, position |-> enc.position + d, last |-> Enc!Pins(wheel.turn),
                since |-> 0, errors |-> e, glitches |-> enc.glitches]
    BY <1>1, <2>1
  <2>7. wheel' = [turn |-> wheel.turn, base |-> wheel.base, seen |-> wheel.turn, jumped |-> j]
    BY <1>1, <2>1 DEF Wheels
  <2>8. enc' \in Encs /\ enc'.since <= enc'.gate
    BY <1>1, <1>3, <1>4, <2>2, <2>5, <2>6
  <2>9. wheel' \in Wheels /\ enc'.last = Enc!Pins(wheel'.seen)
    BY <1>3, <2>5, <2>6, <2>7 DEF Wheels
  <2>10. ~j => Enc!Distance(wheel.turn - wheel.base, enc.position + d) <= 2 * e
    <3> DEFINE x == wheel.seen - wheel.base  q == enc.position  n == enc.errors
    <3>1. ASSUME ~j PROVE Enc!Distance(x, q) <= 2 * n
      BY <1>1, <3>1 DEF j
    <3>2. CASE d # 0
      <4>1. ~j => wheel.turn - wheel.base = x + d /\ e = n
        BY <1>3, <2>2, <2>3, <3>2 DEF e
      <4>2. x \in Int /\ q \in Int /\ n \in Int
        BY <1>3
      <4> HIDE DEF x, q, n
      <4>3. ~j => Enc!Distance(x + d, q + d) <= 2 * n
        BY <2>2, <3>1, <4>2 DEF Enc!Distance
      <4>4. QED
        BY <4>1, <4>3 DEF q
    <3>3. CASE d = 0
      <4>1. ~j => Enc!Distance(x, wheel.turn - wheel.base) <= 2
        BY <1>3, <2>4, <3>3 DEF Enc!Distance
      <4>2. x \in Int /\ q \in Int /\ n \in Int /\ wheel.turn - wheel.base \in Int /\ e = n + 1
        BY <1>3, <3>3 DEF e
      <4> HIDE DEF x, q, n
      <4>3. ~j => Enc!Distance(wheel.turn - wheel.base, q + d) <= 2 * e
        BY <3>1, <3>3, <4>1, <4>2 DEF Enc!Distance
      <4>4. QED
        BY <4>3 DEF q
    <3>4. QED
      BY <3>2, <3>3
  <2>11. QED
    BY <2>6, <2>7, <2>8, <2>9, <2>10 DEF EncoderInv, Enc!TypeOK, Enc!DriftBounded
<1>10. QED
  BY <1>5, <1>6, <1>7, <1>8, <1>9 DEF Enc!Next

\* However late or sparse the samples and whatever the gate drops: as long as no three
\* quarter steps go by between two accepted samples, the position is off by two at most
\* for every error counted.
THEOREM DriftStaysBounded == Spec => []EncoderDriftBounded
<1>1. EncoderInv /\ [Next]_vars => EncoderInv'
  <2> SUFFICES ASSUME EncoderInv, [Next]_vars PROVE EncoderInv'
    OBVIOUS
  <2>1. CASE UNCHANGED encVars
    BY <2>1 DEF encVars, EncoderInv, Enc!TypeOK, Enc!DriftBounded
  <2>2. QED
    BY <2>1, Steps, EncoderKeeps
<1>2. EncoderInv => EncoderDriftBounded
  BY DEF EncoderInv, EncoderDriftBounded
<1>3. QED
  BY <1>1, <1>2, EncoderInit, PTL DEF Spec
-----------------------------------------------------------------------------
\* The bus: what a transaction has behind it at each of its steps.
Refused(c) ==
  /\ c.result = -1 /\ (\E j \in DOMAIN wire : wire[j] = "NACK")
  /\ c.op = "read" => mem.sent # c.n
Served(c) == c.result = c.n /\ c.n = IF c.op = "write" THEN mem.stored ELSE mem.sent
Progress(c) ==
  \/ c.pc = "address" /\ c.i = 0 /\ mem.stored = 0 /\ mem.sent = 0
  \/ c.pc = "register" /\ c.i = 0 /\ mem.stored = 0 /\ mem.sent = 0
  \/ c.pc = "data" /\ c.op = "write" /\ c.result = c.n /\ c.i < c.n /\ mem.stored = c.i
  \/ c.pc \in {"restart", "readdress"} /\ c.op = "read" /\ c.result = c.n /\ c.i = 0 /\ mem.sent = 0
  \/ c.pc = "read" /\ c.op = "read" /\ c.result = c.n /\ c.i < c.n /\ mem.sent = c.i
  \/ c.pc = "stop" /\ ~slave.drives /\ (Refused(c) \/ Served(c))
Steppings ==
  {"address", "register", "data", "restart", "readdress", "read", "stop", "idle"}
Marks == {"START", "RESTART", "ACK", "NACK", "STOP"}
Expects == {"nothing", "address", "register", "data", "ack"}
Transactions == [op : {"read", "write"}, n : Nat, pc : Steppings, i : Nat, result : Int]
BusInv ==
  /\ slave \in [expects : Expects, drives : BOOLEAN] /\ wire \in Seq(Marks)
  /\ mem \in [stored : Nat, sent : Nat]
  /\ \/ call = Bus!NoCall /\ slave = Bus!Silent /\ wire = <<>>
     \/ /\ call \in Transactions /\ (call.op = "read" => call.n > 0)
        /\ \/ Progress(call)
           \/ /\ call.pc = "idle" /\ slave = Bus!Silent /\ wire # <<>> /\ wire[Len(wire)] = "STOP"
              /\ Refused(call) \/ Served(call)

LEMMA BusInit == Init => BusInv
<1> SUFFICES ASSUME Init PROVE BusInv
  OBVIOUS
<1> USE DEF Expects
<1>1. /\ call = Bus!NoCall /\ slave = Bus!Silent /\ wire = <<>> /\ mem = [stored |-> 0, sent |-> 0]
  BY DEF Init, Bus!Init
<1>2. <<>> \in Seq(Marks)
  OBVIOUS
<1>3. slave \in [expects : Expects, drives : BOOLEAN] /\ mem \in [stored : Nat, sent : Nat]
  BY <1>1 DEF Bus!Silent
<1>4. QED
  BY <1>1, <1>2, <1>3 DEF BusInv

\* One more thing on the wire.
LEMMA WireGrows ==
  ASSUME NEW w \in Seq(Marks), NEW what \in Marks
  PROVE  LET v == Append(w, what)
         IN /\ v \in Seq(Marks) /\ v # <<>> /\ v[Len(v)] = what
            /\ \E j \in DOMAIN v : v[j] = what
            /\ (\E j \in DOMAIN w : w[j] = "NACK") => \E j \in DOMAIN v : v[j] = "NACK"
<1> DEFINE v == Append(w, what)
<1>1. /\ v \in Seq(Marks) /\ v # <<>> /\ Len(v) = Len(w) + 1 /\ v[Len(w) + 1] = what
      /\ \A j \in 1 .. Len(w) : v[j] = w[j]
  BY AppendProperties
<1>2. Len(w) \in Nat /\ DOMAIN w = 1 .. Len(w)
  BY LenProperties
<1> HIDE DEF v
<1>3. DOMAIN v = 1 .. Len(w) + 1
  BY <1>1, LenProperties
<1>4. v[Len(v)] = what
  BY <1>1
<1>5. QED
  BY <1>1, <1>2, <1>3, <1>4 DEF v

LEMMA BusKeeps ==
  ASSUME BusInv, Bus!Next
  PROVE  BusInv'
<1> USE DEF Expects, Marks, Steppings
<1>1. /\ slave \in [expects : Expects, drives : BOOLEAN] /\ wire \in Seq(Marks)
      /\ mem \in [stored : Nat, sent : Nat]
  BY DEF BusInv
<1>2. ASSUME call.pc # "idle"
      PROVE  call \in Transactions /\ (call.op = "read" => call.n > 0) /\ Progress(call)
  BY <1>2 DEF BusInv, Bus!NoCall
\* A step within a transaction.
<1>3. ASSUME call' \in Transactions, call'.op = "read" => call'.n > 0,
             slave' \in [expects : Expects, drives : BOOLEAN], mem' \in [stored : Nat, sent : Nat],
             wire' \in Seq(Marks), Progress(call)'
      PROVE  BusInv'
  BY <1>3 DEF BusInv
<1>4. ASSUME NEW op \in {"read", "write"}, NEW n \in 0 .. MaxLen, op = "read" => n > 0, Bus!BeginMem(op, n)
      PROVE  BusInv'
  <2>1. /\ call' = [op |-> op, n |-> n, pc |-> "address", i |-> 0, result |-> 0]
        /\ slave' = [Bus!Silent EXCEPT !.expects = "address"] /\ wire' = <<"START">>
        /\ mem' = [stored |-> 0, sent |-> 0]
    BY <1>4 DEF Bus!BeginMem
  <2>2. call' \in Transactions /\ n \in Nat /\ (call'.op = "read" => call'.n > 0)
    <3>1. n \in Nat
      BY BusAssumption
    <3>2. QED
      BY <1>4, <2>1, <3>1 DEF Transactions
  <2>3. /\ slave' \in [expects : Expects, drives : BOOLEAN] /\ wire' \in Seq(Marks)
        /\ mem' \in [stored : Nat, sent : Nat]
    <3>1. slave' = [expects |-> "address", drives |-> FALSE] /\ mem' = [stored |-> 0, sent |-> 0]
      BY <2>1 DEF Bus!Silent
    <3>2. slave' \in [expects : Expects, drives : BOOLEAN]
      BY <3>1
    <3>3. "START" \in Marks /\ \A x \in Marks : <<x>> \in Seq(Marks)
      OBVIOUS
    <3>4. QED
      BY <2>1, <3>1, <3>2, <3>3
  <2>4. Progress(call)'
    BY <2>1 DEF Progress
  <2>5. QED
    BY <2>2, <2>3, <2>4 DEF BusInv
\* The byte that the device does not acknowledge is the last but for the STOP.
<1>5. ASSUME call \in Transactions, call.op = "read" => call.n > 0, call.op = "read" => mem'.sent = 0,
             mem' \in [stored : Nat, sent : Nat], Bus!Accepts(FALSE, Bus!Silent),
             call' = [call EXCEPT !.pc = "stop", !.result = -1]
      PROVE  BusInv'
  <2>1. wire' = Append(wire, "NACK") /\ slave' = Bus!Silent
    BY <1>5 DEF Bus!Accepts
  <2>2. call' = [op |-> call.op, n |-> call.n, pc |-> "stop", i |-> call.i, result |-> -1]
        /\ call.i \in Nat /\ call.n \in Nat
    BY <1>5 DEF Transactions
  <2>3. \E j \in DOMAIN wire' : wire'[j] = "NACK"
    BY <1>1, <2>1, WireGrows
  <2>4. slave' \in [expects : Expects, drives : BOOLEAN] /\ ~slave'.drives
    BY <2>1 DEF Bus!Silent
  <2>5. Progress(call)'
    BY <1>5, <2>2, <2>3, <2>4 DEF Progress, Refused
  <2>6. call' \in Transactions /\ (call'.op = "read" => call'.n > 0)
    BY <1>5, <2>1, <2>2, <2>4, <2>5 DEF Transactions
  <2>7. wire' \in Seq(Marks)
    BY <1>1, <1>5, <2>1, <2>2, <2>4, <2>5, WireGrows
  <2>8. QED
    BY <1>1, <1>3, <1>5, <2>1, <2>2, <2>4, <2>5, <2>6, <2>7
<1>6. ASSUME NEW ack \in BOOLEAN, Bus!WriteAddress(ack) PROVE BusInv'
  <2>1. call.pc = "address" /\ mem' = mem
    BY <1>6 DEF Bus!WriteAddress
  <2>2. call \in Transactions /\ (call.op = "read" => call.n > 0) /\ Progress(call)
    BY <1>2, <2>1
  <2>3. call.i = 0 /\ mem.stored = 0 /\ mem.sent = 0
    BY <2>1, <2>2 DEF Progress
  <2>4. CASE ack
    <3>1. /\ wire' = Append(wire, "ACK") /\ slave' = [expects |-> "register", drives |-> FALSE]
          /\ call' = [call EXCEPT !.pc = "register"]
      BY <1>6, <2>4 DEF Bus!WriteAddress, Bus!Accepts, Bus!Proceed, Bus!Taking
    <3>2. call' = [op |-> call.op, n |-> call.n, pc |-> "register", i |-> 0, result |-> call.result]
          /\ call.result \in Int
      BY <2>2, <2>3, <3>1 DEF Transactions
    <3>3. slave' \in [expects : Expects, drives : BOOLEAN]
      BY <3>1
    <3>4. Progress(call)'
      BY <2>1, <2>3, <3>2 DEF Progress
    <3>5. call' \in Transactions /\ (call'.op = "read" => call'.n > 0)
      BY <2>1, <2>2, <3>1, <3>2, <3>3, <3>4 DEF Transactions
    <3>6. wire' \in Seq(Marks)
      BY <1>1, <2>1, <2>2, <3>1, <3>2, <3>3, <3>4, WireGrows
    <3>7. QED
      BY <1>1, <1>3, <2>1, <2>2, <3>1, <3>2, <3>3, <3>4, <3>5, <3>6
  <2>5. CASE ~ack
    <3>1. Bus!Accepts(FALSE, Bus!Silent) /\ call' = [call EXCEPT !.pc = "stop", !.result = -1]
      BY <1>6, <2>5 DEF Bus!WriteAddress, Bus!Accepts, Bus!Proceed
    <3>2. QED
      BY <1>1, <1>5, <2>1, <2>2, <2>3, <3>1
  <2>6. QED
    BY <2>4, <2>5
<1>7. ASSUME NEW ack \in BOOLEAN, Bus!WriteRegister(ack) PROVE BusInv'
  <2>1. call.pc = "register" /\ mem' = mem
    BY <1>7 DEF Bus!WriteRegister
  <2>2. call \in Transactions /\ (call.op = "read" => call.n > 0) /\ Progress(call)
    BY <1>2, <2>1
  <2>3. call.i = 0 /\ mem.stored = 0 /\ mem.sent = 0 /\ call.n \in Nat /\ call.op \in {"read", "write"}
    BY <2>1, <2>2 DEF Progress, Transactions
  <2>4. CASE ack
    <3>1. /\ wire' = Append(wire, "ACK") /\ slave' = [expects |-> "data", drives |-> FALSE]
          /\ call' = [call EXCEPT !.pc = Bus!AfterRegister, !.result = call.n]
      BY <1>7, <2>4 DEF Bus!WriteRegister, Bus!Accepts, Bus!Taking
    <3>2. call' = [op |-> call.op, n |-> call.n, pc |-> Bus!AfterRegister, i |-> 0, result |-> call.n]
      BY <2>2, <2>3, <3>1 DEF Transactions
    <3>3. slave' \in [expects : Expects, drives : BOOLEAN] /\ ~slave'.drives
      BY <3>1
    <3>4. Progress(call)' /\ Bus!AfterRegister \in Steppings
      <4>1. CASE call.op = "read"
        BY <2>1, <2>3, <3>2, <4>1 DEF Progress, Bus!AfterRegister
      <4>2. CASE call.op = "write" /\ call.n = 0
        BY <2>1, <2>3, <3>2, <3>3, <4>2 DEF Progress, Served, Bus!AfterRegister
      <4>3. CASE call.op = "write" /\ call.n # 0
        BY <2>1, <2>3, <3>2, <4>3 DEF Progress, Bus!AfterRegister
      <4>4. QED
        BY <2>3, <4>1, <4>2, <4>3
    <3>5. call' \in Transactions /\ (call'.op = "read" => call'.n > 0)
      BY <2>1, <2>2, <2>3, <3>1, <3>2, <3>3, <3>4 DEF Transactions
    <3>6. wire' \in Seq(Marks)
      BY <1>1, <2>1, <2>2, <2>3, <3>1, <3>2, <3>3, <3>4, WireGrows
    <3>7. QED
      BY <1>1, <1>3, <2>1, <2>2, <2>3, <3>1, <3>2, <3>3, <3>4, <3>5, <3>6
  <2>5. CASE ~ack
    <3>1. Bus!Accepts(FALSE, Bus!Silent) /\ call' = [call EXCEPT !.pc = "stop", !.result = -1]
      BY <1>7, <2>5 DEF Bus!WriteRegister, Bus!Accepts
    <3>2. QED
      BY <1>1, <1>5, <2>1, <2>2, <2>3, <3>1
  <2>6. QED
    BY <2>4, <2>5
<1>8. ASSUME NEW ack \in BOOLEAN, Bus!WriteData(ack) PROVE BusInv'
  <2>1. call.pc = "data" /\ mem' = IF ack THEN [mem EXCEPT !.stored = mem.stored + 1] ELSE mem
    BY <1>8 DEF Bus!WriteData
  <2>2. call \in Transactions /\ Progress(call)
    BY <1>2, <2>1
  <2>3. /\ call.op = "write" /\ call.result = call.n /\ call.i < call.n /\ mem.stored = call.i
        /\ call.n \in Nat /\ call.i \in Nat
    BY <2>1, <2>2 DEF Progress, Transactions
  <2>4. mem' \in [stored : Nat, sent : Nat]
    BY <1>1, <2>1
  <2>5. CASE ack
    <3> DEFINE pc == IF call.i + 1 = call.n THEN "stop" ELSE "data"
    <3>1. /\ wire' = Append(wire, "ACK") /\ slave' = [expects |-> "data", drives |-> FALSE]
          /\ call' = [call EXCEPT !.i = call.i + 1, !.pc = pc]
      BY <1>8, <2>5 DEF Bus!WriteData, Bus!Accepts, Bus!Taking
    <3>2. call' = [op |-> call.op, n |-> call.n, pc |-> pc, i |-> call.i + 1, result |-> call.n]
      BY <2>2, <2>3, <3>1 DEF Transactions
    <3>3. slave' \in [expects : Expects, drives : BOOLEAN] /\ ~slave'.drives
      BY <3>1
    <3>4. mem'.stored = call.i + 1
      BY <1>1, <2>1, <2>3, <2>5
    <3>5. Progress(call)' /\ pc \in Steppings
      BY <2>3, <3>2, <3>3, <3>4 DEF Progress, Served
    <3> HIDE DEF pc
    <3>6. call' \in Transactions /\ (call'.op = "read" => call'.n > 0)
      BY <2>2, <2>3, <2>4, <3>1, <3>2, <3>3, <3>5 DEF Transactions
    <3>7. wire' \in Seq(Marks)
      BY <1>1, <2>2, <2>3, <2>4, <3>1, <3>2, <3>3, <3>5, WireGrows
    <3>8. QED
      BY <1>1, <1>3, <2>2, <2>3, <2>4, <3>1, <3>2, <3>3, <3>5, <3>6, <3>7
  <2>6. CASE ~ack
    <3>1. Bus!Accepts(FALSE, Bus!Silent) /\ call' = [call EXCEPT !.pc = "stop", !.result = -1]
      BY <1>8, <2>6 DEF Bus!WriteData, Bus!Accepts
    <3>2. QED
      BY <1>5, <2>2, <2>3, <2>4, <3>1
  <2>7. QED
    BY <2>5, <2>6
<1>9. CASE Bus!RepeatedStart
  <2>1. /\ call.pc = "restart" /\ mem' = mem /\ wire' = Append(wire, "RESTART")
        /\ call' = [call EXCEPT !.pc = "readdress"] /\ slave' = [expects |-> "address", drives |-> FALSE]
    BY <1>9 DEF Bus!RepeatedStart, Bus!Taking
  <2>2. call \in Transactions /\ (call.op = "read" => call.n > 0) /\ Progress(call)
    BY <1>2, <2>1
  <2>3. /\ call' = [op |-> call.op, n |-> call.n, pc |-> "readdress", i |-> call.i, result |-> call.result]
        /\ call.i \in Nat /\ call.result \in Int
    BY <2>1, <2>2 DEF Transactions
  <2>4. Progress(call)'
    BY <2>1, <2>2, <2>3 DEF Progress
  <2>5. slave' \in [expects : Expects, drives : BOOLEAN]
    BY <2>1
  <2>6. call' \in Transactions /\ (call'.op = "read" => call'.n > 0)
    BY <2>1, <2>2, <2>3, <2>4, <2>5 DEF Transactions
  <2>7. wire' \in Seq(Marks)
    BY <1>1, <2>1, <2>2, <2>3, <2>4, <2>5, WireGrows
  <2>8. QED
    BY <1>1, <1>3, <2>1, <2>2, <2>3, <2>4, <2>5, <2>6, <2>7
<1>10. ASSUME NEW ack \in BOOLEAN, Bus!WriteReadAddress(ack) PROVE BusInv'
  <2>1. call.pc = "readdress" /\ mem' = mem
    BY <1>10 DEF Bus!WriteReadAddress
  <2>2. call \in Transactions /\ (call.op = "read" => call.n > 0) /\ Progress(call)
    BY <1>2, <2>1
  <2>3. /\ call.op = "read" /\ call.n \in Nat /\ call.n > 0 /\ call.i = 0 /\ mem.sent = 0
        /\ call.result = call.n
    BY <2>1, <2>2 DEF Progress, Transactions
  <2>4. CASE ack
    <3>1. /\ wire' = Append(wire, "ACK") /\ slave' = [expects |-> "ack", drives |-> TRUE]
          /\ call' = [call EXCEPT !.pc = "read"]
      BY <1>10, <2>4 DEF Bus!WriteReadAddress, Bus!Accepts, Bus!Proceed, Bus!Sending
    <3>2. call' = [op |-> call.op, n |-> call.n, pc |-> "read", i |-> 0, result |-> call.n]
      BY <2>2, <2>3, <3>1 DEF Transactions
    <3>3. slave' \in [expects : Expects, drives : BOOLEAN]
      BY <3>1
    <3>4. Progress(call)'
      BY <2>1, <2>3, <3>2 DEF Progress
    <3>5. call' \in Transactions /\ (call'.op = "read" => call'.n > 0)
      BY <2>1, <2>2, <2>3, <3>1, <3>2, <3>3, <3>4 DEF Transactions
    <3>6. wire' \in Seq(Marks)
      BY <1>1, <2>1, <2>2, <2>3, <3>1, <3>2, <3>3, <3>4, WireGrows
    <3>7. QED
      BY <1>1, <1>3, <2>1, <2>2, <2>3, <3>1, <3>2, <3>3, <3>4, <3>5, <3>6
  <2>5. CASE ~ack
    <3>1. Bus!Accepts(FALSE, Bus!Silent) /\ call' = [call EXCEPT !.pc = "stop", !.result = -1]
      BY <1>10, <2>5 DEF Bus!WriteReadAddress, Bus!Accepts, Bus!Proceed
    <3>2. QED
      BY <1>1, <1>5, <2>1, <2>2, <2>3, <3>1
  <2>6. QED
    BY <2>4, <2>5
<1>11. CASE Bus!ReadByte
  <2> DEFINE pc == IF call.i + 1 = call.n THEN "stop" ELSE "read"
             what == IF call.i < call.n - 1 THEN "ACK" ELSE "NACK"
  <2>1. /\ call.pc = "read" /\ mem' = [mem EXCEPT !.sent = mem.sent + 1] /\ wire' = Append(wire, what)
        /\ slave' = (IF call.i < call.n - 1 THEN Bus!Sending ELSE Bus!Silent)
        /\ call' = [call EXCEPT !.i = call.i + 1, !.pc = pc]
    BY <1>11 DEF Bus!ReadByte
  <2>2. call \in Transactions /\ (call.op = "read" => call.n > 0) /\ Progress(call)
    BY <1>2, <2>1
  <2>3. /\ call.op = "read" /\ call.result = call.n /\ call.i < call.n /\ mem.sent = call.i
        /\ call.n \in Nat /\ call.i \in Nat
    BY <2>1, <2>2 DEF Progress, Transactions
  <2>4. mem' \in [stored : Nat, sent : Nat] /\ mem'.sent = call.i + 1
    BY <1>1, <2>1, <2>3
  <2>5. call' = [op |-> call.op, n |-> call.n, pc |-> pc, i |-> call.i + 1, result |-> call.n]
    BY <2>1, <2>2, <2>3 DEF Transactions
  <2>6. slave' \in [expects : Expects, drives : BOOLEAN] /\ (call.i + 1 = call.n => ~slave'.drives)
    BY <2>1, <2>3 DEF Bus!Sending, Bus!Silent
  <2>7. Progress(call)' /\ pc \in Steppings /\ what \in Marks
    BY <2>3, <2>4, <2>5, <2>6 DEF Progress, Served
  <2> HIDE DEF pc, what
  <2>8. call' \in Transactions /\ (call'.op = "read" => call'.n > 0)
    BY <2>1, <2>2, <2>3, <2>4, <2>5, <2>6, <2>7 DEF Transactions
  <2>9. wire' \in Seq(Marks)
    BY <1>1, <2>1, <2>2, <2>3, <2>4, <2>5, <2>6, <2>7, WireGrows
  <2>10. QED
    BY <1>1, <1>3, <2>1, <2>2, <2>3, <2>4, <2>5, <2>6, <2>7, <2>8, <2>9
<1>12. CASE Bus!StopBus
  <2>1. /\ call.pc = "stop" /\ mem' = mem /\ wire' = Append(wire, "STOP")
        /\ call' = [call EXCEPT !.pc = "idle"] /\ (~slave.drives => slave' = Bus!Silent)
    BY <1>12 DEF Bus!StopBus
  <2>2. call \in Transactions /\ (call.op = "read" => call.n > 0) /\ Progress(call)
    BY <1>2, <2>1
  <2>3. slave' = Bus!Silent /\ (Refused(call) \/ Served(call))
    BY <2>1, <2>2 DEF Progress
  <2>4. /\ call' \in Transactions /\ call'.op = call.op /\ call'.n = call.n
        /\ call'.pc = "idle" /\ call'.result = call.result
    BY <2>1, <2>2 DEF Transactions
  <2>5. /\ wire' \in Seq(Marks) /\ wire' # <<>> /\ wire'[Len(wire')] = "STOP"
        /\ (\E j \in DOMAIN wire : wire[j] = "NACK") => \E j \in DOMAIN wire' : wire'[j] = "NACK"
    BY <1>1, <2>1, WireGrows
  <2>6. (Refused(call) \/ Served(call))'
    BY <2>1, <2>3, <2>4, <2>5 DEF Refused, Served
  <2>7. slave' \in [expects : Expects, drives : BOOLEAN]
    BY <2>3 DEF Bus!Silent
  <2>8. QED
    BY <1>1, <2>1, <2>2, <2>3, <2>4, <2>5, <2>6, <2>7 DEF BusInv
<1>13. ASSUME NEW n \in 0 .. MaxLen, Bus!BeginMem("write", n) PROVE BusInv'
  BY <1>4, <1>13
<1>14. ASSUME NEW n \in 1 .. MaxLen, Bus!BeginMem("read", n) PROVE BusInv'
  <2>1. n \in 0 .. MaxLen /\ n > 0
    BY BusAssumption
  <2>2. QED
    BY <1>4, <1>14, <2>1
<1>15. QED
  BY <1>6, <1>7, <1>8, <1>9, <1>10, <1>11, <1>12, <1>13, <1>14 DEF Bus!Next, Bus!WriteByte

\* Whichever byte the device refuses, the bus is released after every transaction, and
\* the result is the length exactly if the device took every byte or sent as many.
THEOREM TransactionsTell == Spec => []BusTransactions
<1>1. BusInv /\ [Next]_vars => BusInv'
  <2> SUFFICES ASSUME BusInv, [Next]_vars PROVE BusInv'
    OBVIOUS
  <2>1. CASE UNCHANGED busVars
    BY <2>1 DEF busVars, BusInv, Progress, Refused, Served
  <2>2. QED
    BY <2>1, Steps, BusKeeps
<1>2. BusInv => BusTransactions
  <2> SUFFICES ASSUME BusInv, call.pc = "idle" PROVE BusTransactions
    BY DEF BusTransactions, Bus!BusReleased, Bus!ResultTells
  <2>1. CASE call = Bus!NoCall /\ slave = Bus!Silent /\ wire = <<>>
    BY <2>1 DEF BusTransactions, Bus!BusReleased, Bus!ResultTells, Bus!NoCall
  <2>2. CASE ~(call = Bus!NoCall /\ slave = Bus!Silent /\ wire = <<>>)
    <3>1. call \in Transactions /\ slave = Bus!Silent /\ wire[Len(wire)] = "STOP"
          /\ (Refused(call) \/ Served(call))
      BY <2>2 DEF BusInv, Progress
    <3>2. call.n \in Nat
      BY <3>1 DEF Transactions
    <3>3. QED
      BY <3>1, <3>2 DEF BusTransactions, Bus!BusReleased, Bus!ResultTells, Bus!Refused, Refused, Served
  <2>3. QED
    BY <2>1, <2>2
<1>3. QED
  BY <1>1, <1>2, BusInit, PTL DEF Spec
-----------------------------------------------------------------------------
\* The state machine: a frame has left behind it only rows that do not apply, or whose
\* guard rejected the event; below the top are those whose action dispatched another.
Guards == {"none", "set", "clear"}
Rowset == [state : STRING, event : STRING, guard : Guards, action : STRING, next : STRING]
Stack == [event : STRING, row : Nat \ {0}, from : STRING, rejected : SUBSET Nat, nested : BOOLEAN,
          acts : BOOLEAN]
Passed(f) ==
  \A r \in 1 .. f.row - 1 :
    Table[r].event = f.event /\ Table[r].state \in {f.from, FsM!ANY_STATE}
      => r \in f.rejected /\ Table[r].guard # "none"
Sound(f) == Passed(f) /\ (f.acts => f.row <= Len(Table)) /\ (f.nested => f.acts)
FsmInv ==
  /\ fsm \in STRING /\ fsm = moved /\ ctx \in BOOLEAN /\ frames \in Seq(Stack)
  /\ \A i \in 1 .. Len(frames) : Sound(frames[i]) /\ (i > 1 => frames[i].nested)
  /\ frames # <<>> => fsm = frames[1].from \/ frames[1].nested

LEMMA TableRows ==
  /\ Table \in Seq(Rowset) /\ Len(Table) \in Nat /\ DOMAIN Table = 1 .. Len(Table)
  /\ \A r \in 1 .. Len(Table) : Table[r] \in Rowset
<1>1. Table \in Seq(Rowset)
  BY FsmAssumption DEF Rowset, Guards
<1>2. QED
  BY <1>1, LenProperties, ElementOfSeq

LEMMA FsmInit == Init => FsmInv
<1> SUFFICES ASSUME Init PROVE FsmInv
  OBVIOUS
<1>1. fsm = Start /\ ctx \in BOOLEAN /\ frames = <<>> /\ moved = Start
  BY DEF Init, FsM!Init
<1>2. Start \in STRING
  BY FsmAssumption
<1>3. <<>> \in Seq(Stack) /\ Len(<<>>) = 0
  BY EmptySeq
<1>4. 1 .. Len(frames) = {}
  BY <1>1, <1>3
<1>5. QED
  BY <1>1, <1>2, <1>3, <1>4 DEF FsmInv

\* A frame in the place of the top, or of it and one under it.
LEMMA TopParts ==
  ASSUME FsmInv, frames # <<>>
  PROVE  /\ Head(frames) = frames[1] /\ frames[1] \in Stack /\ Sound(frames[1])
         /\ Len(frames) \in Nat \ {0}
         /\ Tail(frames) \in Seq(Stack) /\ Len(Tail(frames)) = Len(frames) - 1
         /\ \A i \in 1 .. Len(frames) - 1 :
              /\ Tail(frames)[i] = frames[i + 1] /\ Sound(Tail(frames)[i])
              /\ Tail(frames)[i].nested
<1>1. frames \in Seq(Stack) /\ Len(frames) \in Nat \ {0}
  BY EmptySeq DEF FsmInv
<1>2. 1 \in 1 .. Len(frames)
  BY <1>1
<1>3. frames[1] \in Stack /\ Sound(frames[1])
  BY <1>1, <1>2, ElementOfSeq DEF FsmInv
<1>4. /\ Head(frames) = frames[1] /\ Tail(frames) \in Seq(Stack)
      /\ Len(Tail(frames)) = Len(frames) - 1
      /\ \A i \in 1 .. Len(Tail(frames)) : Tail(frames)[i] = frames[i + 1]
  BY <1>1, HeadTailProperties
<1>5. \A i \in 1 .. Len(frames) - 1 : i + 1 \in 1 .. Len(frames) /\ i + 1 > 1
  BY <1>1
<1>6. \A i \in 1 .. Len(frames) : Sound(frames[i]) /\ (i > 1 => frames[i].nested)
  BY DEF FsmInv
<1>7. QED
  BY <1>1, <1>3, <1>4, <1>5, <1>6

\* A frame over others whose actions dispatched.
Piled(t) ==
  /\ t \in Seq(Stack) /\ Len(t) \in Nat \ {0}
  /\ \A i \in 1 .. Len(t) : Sound(t[i]) /\ (i > 1 => t[i].nested)
LEMMA Pile ==
  ASSUME NEW f \in Stack, Sound(f), NEW s \in Seq(Stack),
         \A i \in 1 .. Len(s) : Sound(s[i]) /\ s[i].nested
  PROVE  Piled(<<f>> \o s) /\ (<<f>> \o s)[1] = f
<1>1. <<f>> \in Seq(Stack) /\ Len(<<f>>) = 1 /\ <<f>>[1] = f
  OBVIOUS
<1>2. Len(s) \in Nat
  BY LenProperties
<1> DEFINE h == <<f>>
           t == h \o s
<1> HIDE DEF h
<1>3. /\ t \in Seq(Stack) /\ Len(t) = Len(h) + Len(s)
      /\ \A i \in 1 .. Len(h) + Len(s) : t[i] = IF i <= Len(h) THEN h[i] ELSE s[i - Len(h)]
  BY <1>1, ConcatProperties DEF h
<1>4. Len(h) = 1 /\ h[1] = f
  BY <1>1 DEF h
<1> HIDE DEF t
<1>5. t[1] = f /\ Len(t) \in Nat \ {0}
  BY <1>2, <1>3, <1>4
<1>6. ASSUME NEW i \in 1 .. Len(t) PROVE Sound(t[i]) /\ (i > 1 => t[i].nested)
  <2>1. CASE i = 1
    BY <1>5, <2>1
  <2>2. CASE i # 1
    <3>1. i - 1 \in 1 .. Len(s) /\ t[i] = s[i - 1]
      BY <1>2, <1>3, <1>4, <2>2
    <3>2. QED
      BY <3>1
  <2>3. QED
    BY <2>1, <2>2
<1>7. QED
  BY <1>3, <1>5, <1>6 DEF Piled, t, h

LEMMA Push ==
  ASSUME FsmInv, Piled(frames'), fsm' = fsm, moved' = moved, ctx' \in BOOLEAN,
         fsm = frames'[1].from \/ frames'[1].nested
  PROVE  FsmInv'
  BY DEF FsmInv, Piled, Sound, Passed

\* The top returns.
LEMMA Pop ==
  ASSUME FsmInv, frames # <<>>, frames' = Tail(frames), fsm' \in STRING, moved' = fsm', ctx' = ctx
  PROVE  FsmInv'
<1> DEFINE t == Tail(frames)
           n == Len(frames) - 1
<1>1. /\ t \in Seq(Stack) /\ Len(t) = n /\ n \in Nat
      /\ \A i \in 1 .. n : Sound(t[i]) /\ t[i].nested
  BY TopParts
<1>2. t # <<>> => n > 0
  BY <1>1, EmptySeq
<1> HIDE DEF t, n
<1>3. frames' = t
  BY DEF t
<1>4. t # <<>> => t[1].nested
  BY <1>1, <1>2
<1>5. QED
  BY <1>1, <1>3, <1>4 DEF FsmInv, Sound, Passed

LEMMA Replaced ==
  ASSUME NEW f \in Stack, NEW x, NEW y
  PROVE  /\ [f EXCEPT !.row = x, !.rejected = y] =
              [event |-> f.event, row |-> x, from |-> f.from, rejected |-> y, nested |-> f.nested,
               acts |-> f.acts]
         /\ [f EXCEPT !.acts = x, !.nested = y] =
              [event |-> f.event, row |-> f.row, from |-> f.from, rejected |-> f.rejected, nested |-> y,
               acts |-> x]
<1>1. f = [event |-> f.event, row |-> f.row, from |-> f.from, rejected |-> f.rejected,
           nested |-> f.nested, acts |-> f.acts]
  BY DEF Stack
<1> DEFINE a == f.event
           b == f.row
           c == f.from
           d == f.rejected
           e == f.nested
           g == f.acts
           h == [event |-> a, row |-> b, from |-> c, rejected |-> d, nested |-> e, acts |-> g]
<1>2. f = h
  BY <1>1
<1> HIDE DEF a, b, c, d, e, g
<1>3. [h EXCEPT !.row = x, !.rejected = y] =
        [event |-> a, row |-> x, from |-> c, rejected |-> y, nested |-> e, acts |-> g]
  <2>1. [h EXCEPT !.row = x] =
          [event |-> a, row |-> x, from |-> c, rejected |-> d, nested |-> e, acts |-> g]
    OBVIOUS
  <2>2. [[event |-> a, row |-> x, from |-> c, rejected |-> d, nested |-> e, acts |-> g]
           EXCEPT !.rejected = y] =
          [event |-> a, row |-> x, from |-> c, rejected |-> y, nested |-> e, acts |-> g]
    OBVIOUS
  <2> HIDE DEF h
  <2>3. [h EXCEPT !.row = x, !.rejected = y] = [[h EXCEPT !.row = x] EXCEPT !.rejected = y]
    OBVIOUS
  <2>4. QED
    BY <2>1, <2>2, <2>3
<1>4. [h EXCEPT !.acts = x, !.nested = y] =
        [event |-> a, row |-> b, from |-> c, rejected |-> d, nested |-> y, acts |-> x]
  <2>1. [h EXCEPT !.acts = x] =
          [event |-> a, row |-> b, from |-> c, rejected |-> d, nested |-> e, acts |-> x]
    OBVIOUS
  <2>2. [[event |-> a, row |-> b, from |-> c, rejected |-> d, nested |-> e, acts |-> x]
           EXCEPT !.nested = y] =
          [event |-> a, row |-> b, from |-> c, rejected |-> d, nested |-> y, acts |-> x]
    OBVIOUS
  <2> HIDE DEF h
  <2>3. [h EXCEPT !.acts = x, !.nested = y] = [[h EXCEPT !.acts = x] EXCEPT !.nested = y]
    OBVIOUS
  <2>4. QED
    BY <2>1, <2>2, <2>3
<1> HIDE DEF h
<1>5. QED
  BY <1>2, <1>3, <1>4 DEF a, b, c, d, e, g

\* A new dispatch.
LEMMA NewFrame ==
  ASSUME FsmInv, NEW event \in FsM!EventsOf
  PROVE  LET f == FsM!Frame(event) IN f \in Stack /\ Sound(f) /\ f.from = fsm
<1>1. event \in STRING
  BY TableRows DEF FsM!EventsOf, Rowset
<1> DEFINE f == FsM!Frame(event)
<1>2. f = [event |-> event, row |-> 1, from |-> fsm, rejected |-> {}, nested |-> FALSE, acts |-> FALSE]
  BY DEF FsM!Frame
<1>3. fsm \in STRING /\ {} \in SUBSET Nat
  BY DEF FsmInv
<1> HIDE DEF f
<1>4. f \in Stack
  BY <1>1, <1>2, <1>3 DEF Stack
<1>5. Sound(f) /\ f.from = fsm
  <2>1. 1 .. f.row - 1 = {}
    BY <1>2
  <2>2. QED
    BY <1>2, <2>1 DEF Sound, Passed
<1>6. QED
  BY <1>4, <1>5 DEF f

LEMMA FsmKeeps ==
  ASSUME FsmInv, FsM!Next
  PROVE  FsmInv'
<1> DEFINE top == frames[1]
<1>1. fsm \in STRING /\ fsm = moved /\ ctx \in BOOLEAN /\ frames \in Seq(Stack)
  BY DEF FsmInv
<1>2. ASSUME frames # <<>>
      PROVE  /\ FsM!Top = top /\ top \in Stack /\ Sound(top) /\ (fsm = top.from \/ top.nested)
             /\ Tail(frames) \in Seq(Stack) /\ Len(frames) \in Nat
             /\ \A i \in 1 .. Len(Tail(frames)) : Sound(Tail(frames)[i]) /\ Tail(frames)[i].nested
  BY <1>2, TopParts DEF FsM!Top, FsmInv
<1> HIDE DEF top
\* The top scans: what it looks for is what it was dispatched in.
<1>3. ASSUME FsM!Scans
      PROVE  /\ frames # <<>> /\ ~top.acts /\ ~top.nested /\ fsm = top.from
             /\ top.row \in 1 .. Len(Table) /\ FsM!Row = Table[top.row]
             /\ FsM!Row \in Rowset
  <2>1. frames # <<>> /\ ~FsM!Top.acts /\ FsM!Top.row <= Len(Table)
    BY <1>3 DEF FsM!Scans, FsM!Running
  <2>2. ~top.acts /\ ~top.nested /\ fsm = top.from /\ top.row \in Nat \ {0}
    BY <1>2, <2>1 DEF Sound, Stack
  <2>3. top.row \in 1 .. Len(Table) /\ FsM!Row = Table[top.row]
    BY <1>2, <2>1, <2>2, TableRows DEF FsM!Row
  <2>4. QED
    BY <2>1, <2>2, <2>3, TableRows
<1>4. CASE FsM!Dispatch
  <2>1. frames = <<>> /\ UNCHANGED <<fsm, ctx, moved>>
    BY <1>4 DEF FsM!Dispatch, FsM!Running
  <2>2. PICK event \in FsM!EventsOf : frames' = <<FsM!Frame(event)>>
    BY <1>4 DEF FsM!Dispatch
  <2> DEFINE f == FsM!Frame(event)
  <2>3. f \in Stack /\ Sound(f) /\ f.from = fsm
    BY NewFrame
  <2> HIDE DEF f
  <2>4. <<>> \in Seq(Stack) /\ 1 .. Len(<<>>) = {} /\ <<f>> \o <<>> = <<f>>
    <3>1. <<f>> \in Seq(Stack)
      BY <2>3
    <3>2. QED
      BY <3>1, EmptySeq, ConcatEmptySeq
  <2>5. Piled(<<f>> \o <<>>) /\ (<<f>> \o <<>>)[1] = f
    BY <2>3, <2>4, Pile
  <2>6. Piled(frames') /\ frames'[1] = f
    BY <2>2, <2>4, <2>5 DEF f
  <2>7. QED
    BY <1>1, <2>1, <2>3, <2>6, Push
<1>5. CASE FsM!Skip
  <2> DEFINE rejected == IF FsM!IsFor THEN top.rejected \cup {top.row} ELSE top.rejected
             f == [event |-> top.event, row |-> top.row + 1, from |-> top.from, rejected |-> rejected,
                   nested |-> top.nested, acts |-> top.acts]
  <2>1. FsM!Scans /\ ~(FsM!IsFor /\ FsM!Passes) /\ UNCHANGED <<fsm, ctx, moved>>
    BY <1>5 DEF FsM!Skip
  <2>2. /\ frames # <<>> /\ ~top.acts /\ ~top.nested /\ fsm = top.from
        /\ top.row \in 1 .. Len(Table) /\ FsM!Row = Table[top.row]
    BY <1>3, <2>1
  <2>3. /\ FsM!Top = top /\ top \in Stack /\ Sound(top) /\ Tail(frames) \in Seq(Stack)
        /\ \A i \in 1 .. Len(Tail(frames)) : Sound(Tail(frames)[i]) /\ Tail(frames)[i].nested
    BY <1>2, <2>2
  <2>4. frames' = <<f>> \o Tail(frames)
    <3>1. frames' = <<[top EXCEPT !.row = top.row + 1, !.rejected = rejected]>> \o Tail(frames)
      BY <1>5, <2>3 DEF FsM!Skip, FsM!WithTop
    <3> DEFINE x == top.row + 1
    <3> HIDE DEF x, rejected
    <3>2. [top EXCEPT !.row = x, !.rejected = rejected] =
            [event |-> top.event, row |-> x, from |-> top.from, rejected |-> rejected,
             nested |-> top.nested, acts |-> top.acts]
      BY <2>3, Replaced, ZenonT(30)
    <3>3. QED
      BY <3>1, <3>2 DEF x
  <2>5. rejected \in SUBSET Nat /\ top.row + 1 \in Nat \ {0}
    BY <2>2, <2>3, TableRows DEF Stack
  <2>6. /\ f.event = top.event /\ f.row = top.row + 1 /\ f.from = top.from /\ f.rejected = rejected
        /\ ~f.nested /\ ~f.acts
    BY <2>2
  <2>7. f \in Stack
    <3> HIDE DEF rejected
    <3>1. QED
      BY <2>3, <2>5 DEF Stack
  <2>8. Passed(f)
    <3> SUFFICES ASSUME NEW r \in 1 .. top.row, Table[r].event = top.event,
                        Table[r].state \in {top.from, FsM!ANY_STATE}
                 PROVE  r \in rejected /\ Table[r].guard # "none"
      <4>1. f.row - 1 = top.row
        BY <2>2, <2>6, TableRows
      <4>2. QED
        BY <2>6, <4>1 DEF Passed
    <3>1. CASE r = top.row
      <4>1. FsM!IsFor
        BY <2>2, <2>3, <3>1 DEF FsM!IsFor
      <4>2. ~FsM!Passes
        BY <2>1, <4>1
      <4>3. QED
        BY <2>2, <3>1, <4>1, <4>2 DEF FsM!Passes
    <3>2. CASE r # top.row
      <4>1. r \in 1 .. top.row - 1
        BY <2>2, <3>2, TableRows
      <4>2. QED
        BY <2>3, <4>1 DEF Sound, Passed
    <3>3. QED
      BY <3>1, <3>2
  <2>9. Sound(f)
    BY <2>6, <2>8 DEF Sound
  <2> HIDE DEF f
  <2>10. Piled(frames') /\ frames'[1] = f
    BY <2>3, <2>4, <2>7, <2>9, Pile
  <2>11. QED
    BY <1>1, <2>1, <2>2, <2>6, <2>10, Push
<1>6. CASE FsM!Act
  <2> DEFINE nested == FsM!Row.action \in FsM!EventsOf
             f == [event |-> top.event, row |-> top.row, from |-> top.from, rejected |-> top.rejected,
                   nested |-> nested, acts |-> TRUE]
  <2>1. FsM!Scans /\ UNCHANGED <<fsm, moved>>
        /\ ctx' = IF FsM!Row.action = "flip" THEN ~ctx ELSE ctx
    BY <1>6 DEF FsM!Act
  <2>2. /\ frames # <<>> /\ ~top.acts /\ ~top.nested /\ fsm = top.from
        /\ top.row \in 1 .. Len(Table) /\ ctx' \in BOOLEAN
    BY <1>1, <1>3, <2>1
  <2>3. /\ FsM!Top = top /\ top \in Stack /\ Sound(top) /\ Tail(frames) \in Seq(Stack)
        /\ \A i \in 1 .. Len(Tail(frames)) : Sound(Tail(frames)[i]) /\ Tail(frames)[i].nested
    BY <1>2, <2>2
  <2> DEFINE s == <<f>> \o Tail(frames)
  <2>4. \/ frames' = s
        \/ nested /\ frames' = <<FsM!Frame(FsM!Row.action)>> \o s
    <3>1. [top EXCEPT !.acts = TRUE, !.nested = nested] = f
      BY <2>3, Replaced
    <3>2. QED
      BY <1>6, <2>3, <3>1 DEF FsM!Act, FsM!WithTop
  <2>5. /\ f.event = top.event /\ f.row = top.row /\ f.from = top.from /\ f.rejected = top.rejected
        /\ f.nested = nested /\ f.acts
    BY <2>2
  <2>6. f \in Stack
    <3>1. nested \in BOOLEAN
      OBVIOUS
    <3> HIDE DEF nested
    <3>2. QED
      BY <2>3, <3>1 DEF Stack
  <2>7. Sound(f)
    BY <2>2, <2>3, <2>5, TableRows DEF Sound, Passed
  <2> HIDE DEF f, nested
  <2>8. Piled(s) /\ s[1] = f
    BY <2>3, <2>6, <2>7, Pile
  <2> HIDE DEF s
  <2>9. CASE frames' = s
    BY <1>1, <2>1, <2>2, <2>5, <2>8, <2>9, Push
  <2>10. CASE nested /\ frames' = <<FsM!Frame(FsM!Row.action)>> \o s
    <3> DEFINE g == FsM!Frame(FsM!Row.action)
    <3>1. g \in Stack /\ Sound(g) /\ g.from = fsm
      BY <2>10, NewFrame DEF nested
    <3>2. s \in Seq(Stack) /\ \A i \in 1 .. Len(s) : Sound(s[i]) /\ s[i].nested
      <4>1. s \in Seq(Stack) /\ \A i \in 1 .. Len(s) : Sound(s[i]) /\ (i > 1 => s[i].nested)
        BY <2>8 DEF Piled
      <4>2. s[1].nested
        BY <2>5, <2>8, <2>10
      <4>3. Len(s) \in Nat
        BY <2>8 DEF Piled
      <4>4. \A i \in 1 .. Len(s) : i = 1 \/ i > 1
        BY <4>3
      <4>5. QED
        BY <4>1, <4>2, <4>4
    <3>3. frames' = <<g>> \o s
      BY <2>10
    <3> HIDE DEF g
    <3>4. Piled(frames') /\ frames'[1] = g
      BY <3>1, <3>2, <3>3, Pile
    <3>5. QED
      BY <1>1, <2>1, <2>2, <3>1, <3>4, Push
  <2>11. QED
    BY <2>4, <2>9, <2>10
<1>7. CASE FsM!Move
  <2>1. /\ frames # <<>> /\ FsM!Top.acts /\ fsm' = FsM!Row.next /\ moved' = fsm'
        /\ frames' = Tail(frames) /\ ctx' = ctx
    BY <1>7 DEF FsM!Move, FsM!Running
  <2>2. top.row \in 1 .. Len(Table) /\ FsM!Row = Table[top.row]
    BY <1>2, <2>1, TableRows DEF FsM!Row, Sound, Stack
  <2>3. fsm' \in STRING
    BY <2>1, <2>2, TableRows DEF Rowset
  <2>4. QED
    BY <2>1, <2>3, Pop
<1>8. CASE FsM!NoRow
  <2>1. frames # <<>> /\ frames' = Tail(frames) /\ UNCHANGED <<fsm, ctx, moved>>
    BY <1>8 DEF FsM!NoRow, FsM!Running
  <2>2. QED
    BY <1>1, <2>1, Pop
<1>9. CASE FsM!Change
  <2>1. ctx' = ~ctx /\ UNCHANGED <<fsm, frames, moved>>
    BY <1>9 DEF FsM!Change
  <2>2. QED
    BY <2>1 DEF FsmInv, Sound, Passed
<1>10. QED
  BY <1>4, <1>5, <1>6, <1>7, <1>8, <1>9 DEF FsM!Next

\* For every table, however guards change during the scan and actions dispatch events
\* themselves: a row acts only after every earlier row for its state and event had its
\* guard reject it, and the machine is where the transition that ended last led.
THEOREM FirstRowTaken == Spec => []FsmMoves
<1>1. FsmInv /\ [Next]_vars => FsmInv'
  <2> SUFFICES ASSUME FsmInv, [Next]_vars PROVE FsmInv'
    OBVIOUS
  <2>1. CASE UNCHANGED fsmVars
    BY <2>1 DEF fsmVars, FsmInv, Sound, Passed
  <2>2. QED
    BY <2>1, Steps, FsmKeeps
<1>2. FsmInv => FsmMoves
  <2> SUFFICES ASSUME FsmInv PROVE FsmMoves
    OBVIOUS
  <2>1. FsM!LastEndsWins
    BY DEF FsmInv, FsM!LastEndsWins
  <2>2. ASSUME frames # <<>>
        PROVE  FsM!Top = frames[1] /\ (fsm = frames[1].from \/ frames[1].nested) /\ Passed(frames[1])
    BY <2>2, TopParts DEF FsM!Top, FsmInv, Sound
  <2>3. FsM!FirstRowActs
    BY <2>2 DEF FsM!FirstRowActs, FsM!Running, Passed
  <2>4. QED
    BY <2>1, <2>3 DEF FsmMoves
<1>3. QED
  BY <1>1, <1>2, FsmInit, PTL DEF Spec
-----------------------------------------------------------------------------
\* The debouncer: the clock it compares with runs no faster than the time for which
\* all polls have found the candidate.
DebounceInv ==
  /\ Deb!TypeOK
  /\ seen \in [level : BOOLEAN, held : Nat, idle : Nat]
  /\ seen.level = db.candidate
  /\ Deb!Elapsed <= seen.held \/ seen.held >= db.window

LEMMA DebounceInit == Init => DebounceInv
<1> SUFFICES ASSUME Init PROVE DebounceInv
  OBVIOUS
<1>1. PICK w \in Windows :
        db = [window |-> w, since |-> 0, candidate |-> pin, stable |-> pin]
  BY DEF Init, Deb!Init
<1>2. pin \in BOOLEAN /\ now = 0 /\ seen = [level |-> pin, held |-> 0, idle |-> 0]
  BY DEF Init, Deb!Init
<1>3. ClockMod \in Nat \ {0}
  BY DebounceAssumption
<1>4. (0 - 0) % ClockMod = 0 /\ 0 \in 0 .. ClockMod - 1
  <2>1. \A m \in Nat \ {0} : 0 % m = 0
    OBVIOUS
  <2>2. QED
    BY <1>3, <2>1
<1>5. Deb!Elapsed = 0
  BY <1>1, <1>2, <1>4 DEF Deb!Elapsed
<1>6. Deb!TypeOK
  BY <1>1, <1>2, <1>4 DEF Deb!TypeOK
<1>7. QED
  BY <1>1, <1>2, <1>5, <1>6 DEF DebounceInv

\* Another millisecond: the count of the clock grows by one, or wraps to nothing.
LEMMA ClockTurns ==
  ASSUME NEW n \in Int, NEW s \in Int, NEW m \in Nat \ {0}
  PROVE  /\ (n - s) % m \in 0 .. m - 1
         /\ (((n + 1) % m) - s) % m \in {0, ((n - s) % m) + 1}
         /\ (n + 1) % m \in 0 .. m - 1
<1> DEFINE e == (n - s) % m
           k == (n - s) \div m
           v == (n + 1) % m
           q == (n + 1) \div m
           f == (v - s) % m
           j == (v - s) \div m
<1>1. /\ e \in 0 .. m - 1 /\ v \in 0 .. m - 1 /\ f \in 0 .. m - 1
      /\ k \in Int /\ q \in Int /\ j \in Int
  OBVIOUS
<1>2. n - s = m * k + e /\ n + 1 = m * q + v
  OBVIOUS
<1>3. v - s = m * j + f
  <2> HIDE DEF v
  <2>1. v - s \in Int
    BY <1>1
  <2>2. QED
    BY <2>1
<1> HIDE DEF e, k, v, q, f, j
<1> DEFINE t == (k - q) - j
<1>4. (e + 1) - f = m * (j + q - k)
  <2>1. /\ m * k \in Int /\ m * q \in Int /\ m * j \in Int
        /\ m * (j + q - k) = m * j + m * q - m * k
    BY <1>1
  <2>2. v = (n + 1) - m * q
    BY <1>1, <1>2, <2>1
  <2>3. QED
    BY <1>1, <1>2, <1>3, <2>1, <2>2
<1> DEFINE u == j + q - k
<1>5. u \in Int /\ (e + 1) - f = m * u
  BY <1>1, <1>4
<1> HIDE DEF u
<1>6. u \in {0, 1}
  <2>1. (e + 1) - f <= m /\ (e + 1) - f > -m
    BY <1>1
  <2>2. u >= 2 => m * u >= m * 2
    BY <1>5
  <2>3. u <= -1 => m * u <= m * (-1)
    BY <1>5
  <2>4. m * 2 = m + m /\ m * (-1) = -m
    OBVIOUS
  <2>5. ~(u >= 2) /\ ~(u <= -1)
    BY <1>5, <2>1, <2>2, <2>3, <2>4
  <2>6. QED
    BY <1>5, <2>5
<1>7. f \in {0, e + 1}
  <2>1. CASE u = 0
    <3>1. m * 0 = 0
      OBVIOUS
    <3>2. QED
      BY <1>1, <1>5, <2>1, <3>1
  <2>2. CASE u = 1
    <3>1. m * 1 = m
      OBVIOUS
    <3>2. QED
      BY <1>1, <1>5, <2>2, <3>1
  <2>3. QED
    BY <1>6, <2>1, <2>2
<1>8. QED
  BY <1>1, <1>7 DEF e, v, f

LEMMA DebounceParts ==
  ASSUME DebounceInv
  PROVE  /\ db.window \in Nat /\ db.since \in 0 .. ClockMod - 1 /\ db.candidate \in BOOLEAN
         /\ db.stable \in BOOLEAN /\ db.window \in Windows
         /\ db = [window |-> db.window, since |-> db.since, candidate |-> db.candidate,
                  stable |-> db.stable]
         /\ seen = [level |-> seen.level, held |-> seen.held, idle |-> seen.idle]
         /\ seen.held \in Nat /\ seen.idle \in Nat /\ now \in 0 .. ClockMod - 1 /\ pin \in BOOLEAN
         /\ ClockMod \in Nat \ {0} /\ Deb!Elapsed \in Nat
<1>1. Windows \subseteq Nat /\ ClockMod \in Nat \ {0}
  BY DebounceAssumption
<1>2. /\ db \in [window : Windows, since : 0 .. ClockMod - 1, candidate : BOOLEAN, stable : BOOLEAN]
      /\ pin \in BOOLEAN /\ now \in 0 .. ClockMod - 1
  BY DEF DebounceInv, Deb!TypeOK
<1>3. db.since \in Int /\ now \in Int
  BY <1>1, <1>2
<1>4. Deb!Elapsed \in 0 .. ClockMod - 1
  BY <1>1, <1>3, ClockTurns DEF Deb!Elapsed
<1>5. Deb!Elapsed \in Nat
  BY <1>1, <1>4
<1>6. QED
  BY <1>1, <1>2, <1>5 DEF DebounceInv

LEMMA DebounceKeeps ==
  ASSUME DebounceInv, Deb!Next
  PROVE  /\ DebounceInv'
         /\ db'.stable # db.stable => db'.stable = seen.level /\ seen.held >= db.window
<1> DEFINE h == IF seen.level = pin THEN seen.held ELSE 0
<1>1. Deb!Looked => seen' = [level |-> pin, held |-> h, idle |-> 0] /\ h \in Nat
  BY DebounceParts DEF Deb!Looked
<1>2. CASE Deb!Flip
  BY <1>2, DebounceParts DEF Deb!Flip, DebounceInv, Deb!TypeOK, Deb!Elapsed
<1>3. CASE Deb!Millisecond
  <2> DEFINE g == IF seen.held < db.window THEN seen.held + 1 ELSE seen.held
  <2>1. /\ now' = (now + 1) % ClockMod /\ db' = db /\ pin' = pin
        /\ seen' = [level |-> seen.level, held |-> g, idle |-> seen.idle + 1]
    BY <1>3, DebounceParts DEF Deb!Millisecond
  <2>2. g \in Nat /\ g >= seen.held /\ (g >= db.window \/ g = seen.held + 1)
    BY DebounceParts
  <2>3. now' \in 0 .. ClockMod - 1 /\ Deb!Elapsed' \in {0, Deb!Elapsed + 1}
    <3>1. now \in Int /\ db.since \in Int /\ ClockMod \in Nat \ {0}
      BY DebounceParts
    <3>2. /\ (((now + 1) % ClockMod) - db.since) % ClockMod
               \in {0, ((now - db.since) % ClockMod) + 1}
          /\ (now + 1) % ClockMod \in 0 .. ClockMod - 1
      BY <3>1, ClockTurns
    <3>3. QED
      BY <2>1, <3>2 DEF Deb!Elapsed
  <2> HIDE DEF g
  <2>4. Deb!Elapsed' <= g \/ g >= db.window
    BY <2>2, <2>3, DebounceParts DEF DebounceInv
  <2>5. Deb!TypeOK'
    BY <2>1, <2>3 DEF DebounceInv, Deb!TypeOK
  <2>6. seen' \in [level : BOOLEAN, held : Nat, idle : Nat] /\ seen'.level = db'.candidate
    BY <2>1, <2>2, DebounceParts DEF DebounceInv
  <2>7. seen'.held = g /\ db'.window = db.window
    BY <2>1
  <2>8. QED
    BY <2>1, <2>4, <2>5, <2>6, <2>7 DEF DebounceInv
<1>4. CASE Deb!PollChanged
  <2>1. /\ db' = [window |-> db.window, since |-> now, candidate |-> pin, stable |-> db.stable]
        /\ seen' = [level |-> pin, held |-> h, idle |-> 0] /\ h \in Nat /\ pin' = pin /\ now' = now
    BY <1>1, <1>4, DebounceParts DEF Deb!PollChanged
  <2>2. Deb!Elapsed' = 0
    <3>1. \A n \in Int, m \in Nat \ {0} : (n - n) % m = 0
      OBVIOUS
    <3>2. now \in Int /\ ClockMod \in Nat \ {0}
      BY DebounceParts
    <3>3. Deb!Elapsed' = (now - now) % ClockMod
      BY <2>1 DEF Deb!Elapsed
    <3>4. QED
      BY <3>1, <3>2, <3>3
  <2> HIDE DEF h
  <2>3. QED
    BY <2>1, <2>2, DebounceParts DEF DebounceInv, Deb!TypeOK
<1>5. CASE Deb!PollCommits \/ Deb!PollNothing
  <2>1. /\ pin = db.candidate
        /\ db' = db \/ (db' = [window |-> db.window, since |-> db.since, candidate |-> db.candidate,
                               stable |-> pin] /\ Deb!Elapsed >= db.window)
        /\ pin' = pin /\ now' = now /\ Deb!Looked
    BY <1>5, DebounceParts DEF Deb!PollCommits, Deb!PollNothing
  <2>2. seen.level = pin
    BY <2>1 DEF DebounceInv
  <2>3. seen' = [level |-> pin, held |-> seen.held, idle |-> 0]
    BY <1>1, <2>1, <2>2
  <2>4. /\ db'.window = db.window /\ db'.since = db.since /\ db'.candidate = db.candidate
        /\ db' \in [window : Windows, since : 0 .. ClockMod - 1, candidate : BOOLEAN,
                    stable : BOOLEAN]
    BY <2>1, DebounceParts
  <2>5. Deb!Elapsed' = Deb!Elapsed
    BY <2>1, <2>4 DEF Deb!Elapsed
  <2>6. DebounceInv'
    BY <2>1, <2>2, <2>3, <2>4, <2>5, DebounceParts DEF DebounceInv, Deb!TypeOK
  <2>7. db'.stable # db.stable => db'.stable = pin /\ Deb!Elapsed >= db.window
    BY <2>1
  <2>8. Deb!Elapsed >= db.window => seen.held >= db.window
    BY DebounceParts DEF DebounceInv
  <2>9. QED
    BY <2>2, <2>6, <2>7, <2>8
<1>6. QED
  BY <1>2, <1>3, <1>4, <1>5 DEF Deb!Next, Deb!Poll

\* For every window, every wrap of the clock and however rare the polls: an event is
\* reported only when every poll of the last debounce_ms found the level it reports.
THEOREM EventsHaveWindows == Spec => []Deb!TypeOK /\ Deb!EventAfterWindow
<1>1. DebounceInv /\ [Next]_vars =>
        DebounceInv' /\ [db'.stable # db.stable => db'.stable = seen.level /\ seen.held >= db.window]_debVars
  <2> SUFFICES ASSUME DebounceInv, [Next]_vars
               PROVE  /\ DebounceInv'
                      /\ [db'.stable # db.stable
                            => db'.stable = seen.level /\ seen.held >= db.window]_debVars
    OBVIOUS
  <2>1. CASE UNCHANGED debVars
    BY <2>1 DEF debVars, DebounceInv, Deb!TypeOK, Deb!Elapsed
  <2>2. QED
    BY <2>1, Steps, DebounceKeeps
<1>2. DebounceInv => Deb!TypeOK
  BY DEF DebounceInv
<1>3. QED
  BY <1>1, <1>2, DebounceInit, PTL DEF Spec, Deb!EventAfterWindow, debVars, Deb!debVars
-----------------------------------------------------------------------------
\* The controller: the twin differs in nothing that a call can see, and a manual call
\* leaves an integrator that gives its output back.
Modes == {"auto", "manual"}
Pids == [family : Families, gains : Gains, rails : Rails, integrator : Int, prev : Int, have_prev : BOOLEAN,
         skip : BOOLEAN, mode : Modes, manual : Int]
Alike(p, q) ==
  /\ q.family = p.family /\ q.gains = p.gains /\ q.rails = p.rails /\ q.integrator = p.integrator
  /\ q.have_prev = p.have_prev /\ q.skip = p.skip /\ q.mode = p.mode /\ q.manual = p.manual
  /\ p.have_prev => q.prev = p.prev
AfterManual ==
  /\ pid.skip /\ pid.have_prev /\ pid.prev = last.meas
  /\ pid.rails.min <= last.out /\ last.out <= pid.rails.max
  /\ last.kept /\ last.steady => pid.integrator = last.out * Ctl!One - Ctl!P(pid, last.sp, last.meas)
Within(i, rails) == rails.min * Ctl!One <= i /\ i <= rails.max * Ctl!One
Noteds == [sp : Int, meas : Int, mode : {"none", "auto", "manual"}, out : Int, twin : Int, due : Int,
           fits : BOOLEAN, steady : BOOLEAN, kept : BOOLEAN]
PidInv ==
  /\ pid \in Pids /\ twin \in Pids /\ last \in Noteds /\ Alike(pid, twin)
  /\ last.out = last.twin
  /\ last.mode # "none" => /\ pid.rails.min <= last.out /\ last.out <= pid.rails.max
                           /\ Within(pid.integrator, pid.rails)
  /\ last.mode = "manual" => AfterManual

\* The widths, and what a cast does to a number that fits.
LEMMA Widths ==
  /\ 2 ^ (Bits - 1) \in Nat \ {0} /\ 2 ^ (2 * Bits - 1) \in Nat \ {0} /\ Ctl!One \in Nat \ {0}
  /\ 2 ^ Bits = 2 * 2 ^ (Bits - 1) /\ 2 ^ (2 * Bits) = 2 * 2 ^ (2 * Bits - 1)
  /\ 2 ^ (Bits - 1) * Ctl!One <= 2 ^ (2 * Bits - 1)
  BY WidthAssumption DEF Ctl!One

LEMMA CastFits ==
  ASSUME NEW h \in Nat \ {0}, NEW x \in Int
  PROVE  /\ ((x + h) % (2 * h)) - h \in -h .. h - 1
         /\ x \in -h .. h - 1 => ((x + h) % (2 * h)) - h = x
<1> DEFINE y == x + h
           m == 2 * h
<1>1. y \in Int /\ m \in Nat \ {0} /\ m = h + h
  OBVIOUS
<1>2. x \in -h .. h - 1 => y \in 0 .. m - 1
  OBVIOUS
<1>3. \A a \in Int, b \in Nat \ {0} : a % b \in 0 .. b - 1 /\ (a \in 0 .. b - 1 => a % b = a)
  OBVIOUS
<1>4. y % m \in 0 .. m - 1 /\ (y \in 0 .. m - 1 => y % m = y)
  BY <1>1, <1>3
<1> DEFINE z == y % m
<1>5. z \in 0 .. m - 1 /\ (x \in -h .. h - 1 => z = y)
  BY <1>2, <1>4
<1> HIDE DEF z, m
<1>6. QED
  BY <1>1, <1>5 DEF z, m

LEMMA Casts ==
  ASSUME NEW x \in Int
  PROVE  /\ Ctl!Short(x) \in Int /\ Ctl!Long(x) \in Int
         /\ x \in -(2 ^ (Bits - 1)) .. 2 ^ (Bits - 1) - 1 => Ctl!Short(x) = x
         /\ x \in -(2 ^ (2 * Bits - 1)) .. 2 ^ (2 * Bits - 1) - 1 => Ctl!Long(x) = x
<1> DEFINE h == 2 ^ (Bits - 1)
           l == 2 ^ (2 * Bits - 1)
<1>1. h \in Nat \ {0} /\ l \in Nat \ {0}
  BY Widths
<1>2. Ctl!Short(x) = ((x + h) % (2 * h)) - h
  BY Widths DEF Ctl!Short, Ctl!Wrap
<1>3. Ctl!Long(x) = ((x + l) % (2 * l)) - l
  BY Widths DEF Ctl!Long, Ctl!Wrap
<1> HIDE DEF h, l
<1>4. Ctl!Short(x) \in -h .. h - 1 /\ (x \in -h .. h - 1 => Ctl!Short(x) = x)
  BY <1>1, <1>2, CastFits
<1>5. Ctl!Long(x) \in -l .. l - 1 /\ (x \in -l .. l - 1 => Ctl!Long(x) = x)
  BY <1>1, <1>3, CastFits
<1>6. Ctl!Short(x) \in Int /\ Ctl!Long(x) \in Int
  BY <1>1, <1>4, <1>5
<1>7. QED
  BY <1>4, <1>5, <1>6 DEF h, l

\* Rails are words, and so many ones fit a long word.
LEMMA RailsFit ==
  ASSUME NEW r \in Rails
  PROVE  /\ r.min \in Int /\ r.max \in Int /\ r.min <= r.max
         /\ r.min * Ctl!One \in Int /\ r.max * Ctl!One \in Int
         /\ r.min * Ctl!One <= r.max * Ctl!One
         /\ \A x \in Int : r.min <= x /\ x <= r.max =>
              /\ x * Ctl!One \in Int /\ r.min * Ctl!One <= x * Ctl!One /\ x * Ctl!One <= r.max * Ctl!One
              /\ (x * Ctl!One) \div Ctl!One = x
         /\ \A x \in Int : r.min <= x /\ x <= r.max => Ctl!Short(x) = x
         /\ \A x \in Int : Within(x, r) => Ctl!Long(x) = x
<1> DEFINE h == 2 ^ (Bits - 1)
           l == 2 ^ (2 * Bits - 1)
           one == Ctl!One
           a == r.min
           b == r.max
<1>1. h \in Nat \ {0} /\ l \in Nat \ {0} /\ one \in Nat \ {0} /\ h * one <= l
  BY Widths
<1>2. a \in -h .. h - 1 /\ b \in -h .. h - 1 /\ a <= b
  BY PidAssumption
<1>3. \A x \in Int : /\ x \in -h .. h - 1 => Ctl!Short(x) = x
                     /\ x \in -l .. l - 1 => Ctl!Long(x) = x
  BY Casts
<1> HIDE DEF h, l, one, a, b
<1>4. a \in Int /\ b \in Int
  BY <1>1, <1>2
<1>5. \A x, y \in Int : x * one \in Int /\ (x <= y => x * one <= y * one)
  BY <1>1
<1>6. \A x \in Int : (x * one) \div one = x
  BY <1>1
<1>7. a * one >= -l /\ b * one <= l - 1
  <2>1. (-h) * one = -(h * one) /\ (h - 1) * one = h * one - one /\ h * one \in Int
    BY <1>1
  <2>2. (-h) * one <= a * one /\ b * one <= (h - 1) * one
    <3>1. -h \in Int /\ h - 1 \in Int /\ -h <= a /\ b <= h - 1
      BY <1>1, <1>2
    <3>2. QED
      BY <1>4, <1>5, <3>1
  <2>3. a * one \in Int /\ b * one \in Int
    BY <1>4, <1>5
  <2>4. QED
    BY <1>1, <2>1, <2>2, <2>3
<1>8. \A x \in Int : a * one <= x /\ x <= b * one => Ctl!Long(x) = x
  <2>1. a * one \in Int /\ b * one \in Int
    BY <1>4, <1>5
  <2>2. QED
    BY <1>1, <1>3, <1>7, <2>1
<1>9. \A x \in Int : a <= x /\ x <= b => Ctl!Short(x) = x
  BY <1>1, <1>2, <1>3
<1>10. QED
  BY <1>2, <1>4, <1>5, <1>6, <1>8, <1>9 DEF one, a, b, Within

LEMMA Clamps ==
  ASSUME NEW r \in Rails, NEW x \in Int
  PROVE  /\ Ctl!Clamped(x, r) \in Int /\ r.min <= Ctl!Clamped(x, r) /\ Ctl!Clamped(x, r) <= r.max
         /\ r.min <= x /\ x <= r.max => Ctl!Clamped(x, r) = x
         /\ Ctl!ClampedQ(x, r) \in Int /\ Within(Ctl!ClampedQ(x, r), r)
         /\ Within(x, r) => Ctl!ClampedQ(x, r) = x
<1>1. /\ r.min \in Int /\ r.max \in Int /\ r.min <= r.max
      /\ r.min * Ctl!One \in Int /\ r.max * Ctl!One \in Int
      /\ r.min * Ctl!One <= r.max * Ctl!One
  BY RailsFit
<1> DEFINE a == r.min * Ctl!One
           b == r.max * Ctl!One
           c == Ctl!ClampedQ(x, r)
<1>2. c = IF x < a THEN a ELSE IF x > b THEN b ELSE x
  BY DEF Ctl!ClampedQ, Ctl!Clamped
<1>3. Ctl!Clamped(x, r) = IF x < r.min THEN r.min ELSE IF x > r.max THEN r.max ELSE x
  BY DEF Ctl!Clamped
<1>4. Within(c, r) <=> a <= c /\ c <= b
  BY DEF Within
<1>5. Within(x, r) <=> a <= x /\ x <= b
  BY DEF Within
<1>6. a \in Int /\ b \in Int /\ a <= b
  BY <1>1
<1> HIDE DEF a, b, c
<1>7. c \in Int /\ a <= c /\ c <= b /\ (a <= x /\ x <= b => c = x)
  BY <1>2, <1>6
<1>8. QED
  BY <1>1, <1>3, <1>4, <1>5, <1>7 DEF c

LEMMA PidParts ==
  ASSUME NEW p \in Pids
  PROVE  /\ p.family \in Families /\ p.gains \in Gains /\ p.rails \in Rails /\ p.integrator \in Int /\ p.prev \in Int
         /\ p.have_prev \in BOOLEAN /\ p.skip \in BOOLEAN /\ p.mode \in Modes /\ p.manual \in Int
         /\ p.gains.kp \in Int /\ p.gains.ki \in Int /\ p.gains.kd \in Int
         /\ Ctl!One \in Int
<1>1. p.gains \in Gains
  BY DEF Pids
<1>2. p.gains \in [kp : Int, ki : Int, kd : Int]
  BY <1>1, PidAssumption
<1>3. QED
  BY <1>1, <1>2, Widths DEF Pids

\* A product of words is a number, whatever routine computes it, and one by nothing
\* is nothing.
LEMMA ProductIs ==
  ASSUME NEW p \in Pids, NEW x \in Int, NEW y \in Int
  PROVE  Ctl!Product(p, x, y) \in Int /\ (y = 0 => Ctl!Product(p, x, y) = 0)
<1> DEFINE n == 2 ^ Bits
           a == x % n
           b == y % n
           v == Products[p.family][a][b]
<1>1. n \in Nat \ {0} /\ Words = 0 .. n - 1 /\ p.family \in Families
  BY Widths, PidParts DEF Words
<1>2. Ctl!Product(p, x, y) = Ctl!Long(v)
  BY DEF Ctl!Product
<1>3. 0 \in -(2 ^ (2 * Bits - 1)) .. 2 ^ (2 * Bits - 1) - 1
  BY Widths
<1> HIDE DEF n
<1>4. a \in Words /\ b \in Words /\ (y = 0 => b = 0)
  BY <1>1
<1> HIDE DEF a, b
<1>5. v \in Nat /\ (y = 0 => v = 0)
  BY <1>1, <1>4, ProductsAssumption
<1> HIDE DEF v
<1>6. Ctl!Long(v) \in Int /\ Ctl!Long(0) = 0
  BY <1>3, <1>5, Casts
<1>7. QED
  BY <1>2, <1>5, <1>6

\* The terms of a call, as numbers.
LEMMA Terms ==
  ASSUME NEW p \in Pids, NEW sp \in Int, NEW meas \in Int
  PROVE  /\ Ctl!Error(sp, meas) \in Int /\ Ctl!Dmeas(p, meas) \in Int
         /\ Ctl!P(p, sp, meas) \in Int /\ Ctl!I(p, sp, meas) \in Int /\ Ctl!D(p, meas) \in Int
         /\ Ctl!Dmeas(p, meas) = 0 => Ctl!D(p, meas) = 0
<1>1. sp - meas \in Int /\ meas - p.prev \in Int
  BY PidParts
<1>2. Ctl!Error(sp, meas) \in Int
  BY <1>1, Casts DEF Ctl!Error
<1>3. Ctl!Dmeas(p, meas) \in Int
  BY <1>1, Casts DEF Ctl!Dmeas
<1>4. \A x, y \in Int : Ctl!Product(p, x, y) \in Int /\ (y = 0 => Ctl!Product(p, x, y) = 0)
  BY ProductIs
<1>5. Ctl!P(p, sp, meas) \in Int /\ Ctl!I(p, sp, meas) \in Int
  BY <1>2, <1>4, PidParts DEF Ctl!P, Ctl!I
<1> DEFINE d == Ctl!Product(p, p.gains.kd, Ctl!Dmeas(p, meas))
<1>6. d \in Int /\ (Ctl!Dmeas(p, meas) = 0 => d = 0)
  BY <1>3, <1>4, PidParts
<1>7. Ctl!D(p, meas) = -d
  BY DEF Ctl!D
<1> HIDE DEF d
<1>8. QED
  BY <1>2, <1>3, <1>5, <1>6, <1>7

\* What a call leaves and returns.
LeftBy(p, i, meas, skip) ==
  [family |-> p.family, gains |-> p.gains, rails |-> p.rails, integrator |-> i, prev |-> meas, have_prev |-> TRUE,
   skip |-> skip, mode |-> p.mode, manual |-> p.manual]

LEMMA LeftIs ==
  ASSUME NEW p \in Pids, NEW i \in Int, NEW meas \in Int, NEW skip \in BOOLEAN
  PROVE  [Ctl!Seen(p, meas) EXCEPT !.integrator = i, !.skip = skip] = LeftBy(p, i, meas, skip)
<1>1. p = [family |-> p.family, gains |-> p.gains, rails |-> p.rails, integrator |-> p.integrator, prev |-> p.prev,
           have_prev |-> p.have_prev, skip |-> p.skip, mode |-> p.mode, manual |-> p.manual]
  BY DEF Pids
<1> DEFINE s == Ctl!Seen(p, meas)
           t == [s EXCEPT !.integrator = i, !.skip = skip]
<1>2. s = [p EXCEPT !.prev = meas, !.have_prev = TRUE]
  BY DEF Ctl!Seen
<1>3. t = [s EXCEPT !.integrator = i, !.skip = skip]
  OBVIOUS
<1> HIDE DEF s, t
<1>4. s = [family |-> p.family, gains |-> p.gains, rails |-> p.rails, integrator |-> p.integrator, prev |-> meas,
           have_prev |-> TRUE, skip |-> p.skip, mode |-> p.mode, manual |-> p.manual]
  BY <1>1, <1>2
<1>5. t = LeftBy(p, i, meas, skip)
  BY <1>3, <1>4 DEF LeftBy
<1>6. QED
  BY <1>5 DEF s, t

ManualOut(p) == Ctl!Clamped(p.manual, p.rails)
ManualLeft(p, sp, meas) ==
  Ctl!ClampedQ(Ctl!Long(ManualOut(p) * Ctl!One - Ctl!P(p, sp, meas) - Ctl!D(p, meas)), p.rails)
AutoLeft(p, sp, meas) ==
  Ctl!ClampedQ(p.integrator + (IF p.skip THEN 0 ELSE Ctl!I(p, sp, meas)), p.rails)
AutoOut(p, sp, meas) ==
  Ctl!Clamped(Ctl!Short(Ctl!Long(Ctl!P(p, sp, meas) + AutoLeft(p, sp, meas) + Ctl!D(p, meas))
                          \div Ctl!One), p.rails)

LEMMA Lefts ==
  ASSUME NEW p \in Pids, NEW sp \in Int, NEW meas \in Int
  PROVE  /\ ManualOut(p) \in Int /\ p.rails.min <= ManualOut(p) /\ ManualOut(p) <= p.rails.max
         /\ AutoOut(p, sp, meas) \in Int
         /\ p.rails.min <= AutoOut(p, sp, meas) /\ AutoOut(p, sp, meas) <= p.rails.max
         /\ AutoLeft(p, sp, meas) \in Int /\ Within(AutoLeft(p, sp, meas), p.rails)
         /\ ManualLeft(p, sp, meas) \in Int /\ Within(ManualLeft(p, sp, meas), p.rails)
<1>1. p.rails \in Rails /\ p.manual \in Int /\ p.integrator \in Int
  BY PidParts
<1>2. ManualOut(p) \in Int /\ p.rails.min <= ManualOut(p) /\ ManualOut(p) <= p.rails.max
  BY <1>1, Clamps DEF ManualOut
<1>3. AutoLeft(p, sp, meas) \in Int /\ Within(AutoLeft(p, sp, meas), p.rails)
  <2> DEFINE x == p.integrator + (IF p.skip THEN 0 ELSE Ctl!I(p, sp, meas))
  <2>1. x \in Int
    BY <1>1, Terms
  <2> HIDE DEF x
  <2>2. Ctl!ClampedQ(x, p.rails) \in Int /\ Within(Ctl!ClampedQ(x, p.rails), p.rails)
    BY <1>1, <2>1, Clamps
  <2>3. QED
    BY <2>2 DEF x, AutoLeft
<1>4. ManualLeft(p, sp, meas) \in Int /\ Within(ManualLeft(p, sp, meas), p.rails)
  <2> DEFINE x == ManualOut(p) * Ctl!One - Ctl!P(p, sp, meas) - Ctl!D(p, meas)
             y == Ctl!Long(x)
  <2>1. ManualOut(p) * Ctl!One \in Int
    BY <1>2, PidParts
  <2>2. x \in Int
    BY <2>1, Terms
  <2> HIDE DEF x
  <2>3. y \in Int
    BY <2>2, Casts
  <2> HIDE DEF y
  <2>4. Ctl!ClampedQ(y, p.rails) \in Int /\ Within(Ctl!ClampedQ(y, p.rails), p.rails)
    BY <1>1, <2>3, Clamps
  <2>5. QED
    BY <2>4 DEF x, y, ManualLeft
<1>5. /\ AutoOut(p, sp, meas) \in Int
      /\ p.rails.min <= AutoOut(p, sp, meas) /\ AutoOut(p, sp, meas) <= p.rails.max
  <2> DEFINE x == Ctl!P(p, sp, meas) + AutoLeft(p, sp, meas) + Ctl!D(p, meas)
             y == Ctl!Long(x)
             z == y \div Ctl!One
             w == Ctl!Short(z)
  <2>1. x \in Int
    BY <1>3, Terms
  <2> HIDE DEF x
  <2>2. y \in Int
    BY <2>1, Casts
  <2> HIDE DEF y
  <2>3. z \in Int
    BY <2>2, Widths
  <2> HIDE DEF z
  <2>4. w \in Int
    BY <2>3, Casts
  <2> HIDE DEF w
  <2>5. /\ Ctl!Clamped(w, p.rails) \in Int
        /\ p.rails.min <= Ctl!Clamped(w, p.rails) /\ Ctl!Clamped(w, p.rails) <= p.rails.max
    BY <1>1, <2>4, Clamps
  <2>6. QED
    BY <2>5 DEF x, y, z, w, AutoOut
<1>6. QED
  BY <1>2, <1>3, <1>4, <1>5

LEMMA CallIs ==
  ASSUME NEW p \in Pids, NEW sp \in Int, NEW meas \in Int
  PROVE  /\ p.mode = "manual" =>
              /\ Ctl!Updated(p, sp, meas).out = ManualOut(p)
              /\ Ctl!Updated(p, sp, meas).pid = LeftBy(p, ManualLeft(p, sp, meas), meas, TRUE)
         /\ p.mode # "manual" =>
              /\ Ctl!Updated(p, sp, meas).out = AutoOut(p, sp, meas)
              /\ Ctl!Updated(p, sp, meas).pid = LeftBy(p, AutoLeft(p, sp, meas), meas, FALSE)
<1> DEFINE u == Ctl!Updated(p, sp, meas)
           i == ManualLeft(p, sp, meas)
           j == AutoLeft(p, sp, meas)
           x == [Ctl!Seen(p, meas) EXCEPT !.integrator = i, !.skip = TRUE]
           y == [Ctl!Seen(p, meas) EXCEPT !.integrator = j, !.skip = FALSE]
<1>1. p.mode = "manual" => u = [out |-> ManualOut(p), pid |-> x]
  BY DEF Ctl!Updated, Ctl!UpdateManual, ManualOut, ManualLeft
<1>2. p.mode # "manual" => u = [out |-> AutoOut(p, sp, meas), pid |-> y]
  BY DEF Ctl!Updated, Ctl!UpdateAuto, AutoOut, AutoLeft
<1>3. i \in Int /\ j \in Int
  BY Lefts
<1> HIDE DEF u, i, j
<1>4. x = LeftBy(p, i, meas, TRUE)
  BY <1>3, LeftIs
<1>5. y = LeftBy(p, j, meas, FALSE)
  BY <1>3, LeftIs
<1> HIDE DEF x, y
<1>6. p.mode = "manual" => u.out = ManualOut(p) /\ u.pid = x
  BY <1>1
<1>7. p.mode # "manual" => u.out = AutoOut(p, sp, meas) /\ u.pid = y
  BY <1>2
<1>8. QED
  BY <1>4, <1>5, <1>6, <1>7 DEF u, i, j

\* What the controller computes, of what both can see.
LEMMA AlikeCalls ==
  ASSUME NEW p \in Pids, NEW q \in Pids, Alike(p, q), NEW sp \in Int, NEW meas \in Int
  PROVE  /\ ManualOut(q) = ManualOut(p) /\ AutoOut(q, sp, meas) = AutoOut(p, sp, meas)
         /\ AutoLeft(q, sp, meas) = AutoLeft(p, sp, meas)
         /\ ManualLeft(q, sp, meas) = ManualLeft(p, sp, meas)
<1>1. Ctl!Dmeas(q, meas) = Ctl!Dmeas(p, meas)
  BY DEF Alike, Ctl!Dmeas
<1>2. /\ Ctl!P(q, sp, meas) = Ctl!P(p, sp, meas) /\ Ctl!I(q, sp, meas) = Ctl!I(p, sp, meas)
      /\ Ctl!D(q, meas) = Ctl!D(p, meas)
  BY <1>1 DEF Alike, Ctl!P, Ctl!I, Ctl!D, Ctl!Product
<1>3. ManualOut(q) = ManualOut(p) /\ AutoLeft(q, sp, meas) = AutoLeft(p, sp, meas)
  BY <1>2 DEF Alike, ManualOut, AutoLeft
<1>4. ManualLeft(q, sp, meas) = ManualLeft(p, sp, meas) /\ AutoOut(q, sp, meas) = AutoOut(p, sp, meas)
  BY <1>2, <1>3 DEF Alike, ManualLeft, AutoOut
<1>5. QED
  BY <1>3, <1>4

\* The integrator that a manual call left unclamped gives its output back, whatever
\* the products are.
LEMMA AutoGivesBack ==
  ASSUME NEW p \in Pids, NEW sp \in Int, NEW meas \in Int,
         p.skip, p.have_prev, p.prev = meas, NEW o \in Int, p.rails.min <= o, o <= p.rails.max,
         Within(p.integrator, p.rails),
         p.integrator = o * Ctl!One - Ctl!P(p, sp, meas)
  PROVE  AutoOut(p, sp, meas) = o
<1> DEFINE i == AutoLeft(p, sp, meas)
           a == Ctl!P(p, sp, meas)
           v == o * Ctl!One
<1>1. p.rails \in Rails /\ p.integrator \in Int /\ p.gains.kd \in Int
  BY PidParts
<1>2. i = p.integrator
  <2>1. p.integrator + 0 = p.integrator
    BY <1>1
  <2>2. i = Ctl!ClampedQ(p.integrator, p.rails)
    BY <2>1 DEF AutoLeft
  <2>3. QED
    BY <1>1, <2>2, Clamps
<1>3. Ctl!Dmeas(p, meas) = 0
  <2>1. meas - p.prev = 0 /\ 0 \in Int /\ 0 \in -(2 ^ (Bits - 1)) .. 2 ^ (Bits - 1) - 1
    BY Widths
  <2>2. Ctl!Short(0) = 0
    BY <2>1, Casts
  <2>3. QED
    BY <2>1, <2>2 DEF Ctl!Dmeas
<1>4. Ctl!D(p, meas) = 0 /\ a \in Int
  BY <1>3, Terms
<1>5. /\ v \in Int /\ p.rails.min * Ctl!One <= v /\ v <= p.rails.max * Ctl!One
      /\ v \div Ctl!One = o /\ Ctl!Short(o) = o
  BY <1>1, RailsFit
<1>6. Ctl!Long(v) = v
  <2>1. Within(v, p.rails)
    BY <1>5 DEF Within
  <2> HIDE DEF v
  <2>2. QED
    BY <1>1, <1>5, <2>1, RailsFit
<1>7. Ctl!Clamped(o, p.rails) = o
  BY <1>1, Clamps
<1>8. AutoOut(p, sp, meas) =
        Ctl!Clamped(Ctl!Short(Ctl!Long(a + i + Ctl!D(p, meas)) \div Ctl!One), p.rails)
  BY DEF AutoOut
<1>9. p.integrator = v - a
  OBVIOUS
<1> HIDE DEF i, a, v
<1>10. a + i + Ctl!D(p, meas) = v
  BY <1>1, <1>2, <1>4, <1>5, <1>9
<1>11. QED
  BY <1>5, <1>6, <1>7, <1>8, <1>10

LEMMA PidInits == Init => PidInv
<1> SUFFICES ASSUME Init PROVE PidInv
  OBVIOUS
<1>1. PICK f \in Families, g \in Gains, r \in Rails :
        pid = [family |-> f, gains |-> g, rails |-> r, integrator |-> 0, prev |-> 0, have_prev |-> FALSE,
               skip |-> FALSE, mode |-> "auto", manual |-> 0]
  BY DEF Init, Ctl!Init, Ctl!PidInit
<1>2. twin = pid /\ last = Ctl!NoCall
  BY DEF Init, Ctl!Init
<1>3. pid \in Pids
  BY <1>1 DEF Pids, Modes
<1>4. last \in Noteds /\ last.mode = "none" /\ last.out = last.twin
  BY <1>2 DEF Ctl!NoCall, Noteds
<1>5. QED
  BY <1>2, <1>3, <1>4 DEF PidInv, Alike

\* A call of pid_update.
LEMMA UpdateKeeps ==
  ASSUME PidInv, NEW sp \in Readings, NEW meas \in Readings, Ctl!Update(sp, meas)
  PROVE  /\ PidInv'
         /\ last.mode = "manual" /\ last.kept /\ last.steady /\ last'.mode = "auto"
              /\ last'.sp = last.sp /\ last'.meas = last.meas => last'.out = last.out
<1> DEFINE manual == pid.mode = "manual"
           out == IF manual THEN ManualOut(pid) ELSE AutoOut(pid, sp, meas)
           i == IF manual THEN ManualLeft(pid, sp, meas) ELSE AutoLeft(pid, sp, meas)
<1>1. sp \in Int /\ meas \in Int
  BY Widths, PidAssumption
<1>2. pid \in Pids /\ twin \in Pids /\ Alike(pid, twin) /\ last \in Noteds
  BY DEF PidInv
<1>3. /\ Ctl!Updated(pid, sp, meas).out = out
      /\ Ctl!Updated(pid, sp, meas).pid = LeftBy(pid, i, meas, manual)
  BY <1>1, <1>2, CallIs
<1>4. /\ Ctl!Updated(twin, sp, meas).out = out
      /\ Ctl!Updated(twin, sp, meas).pid = LeftBy(twin, i, meas, manual)
  <2>1. twin.mode = pid.mode
    BY <1>2 DEF Alike
  <2>2. /\ ManualOut(twin) = ManualOut(pid) /\ AutoOut(twin, sp, meas) = AutoOut(pid, sp, meas)
        /\ AutoLeft(twin, sp, meas) = AutoLeft(pid, sp, meas)
        /\ ManualLeft(twin, sp, meas) = ManualLeft(pid, sp, meas)
    BY <1>1, <1>2, AlikeCalls
  <2>3. /\ manual => /\ Ctl!Updated(twin, sp, meas).out = ManualOut(twin)
                     /\ Ctl!Updated(twin, sp, meas).pid
                          = LeftBy(twin, ManualLeft(twin, sp, meas), meas, TRUE)
        /\ ~manual => /\ Ctl!Updated(twin, sp, meas).out = AutoOut(twin, sp, meas)
                      /\ Ctl!Updated(twin, sp, meas).pid
                           = LeftBy(twin, AutoLeft(twin, sp, meas), meas, FALSE)
    BY <1>1, <1>2, <2>1, CallIs
  <2>4. QED
    BY <2>2, <2>3
<1>5. /\ out \in Int /\ pid.rails.min <= out /\ out <= pid.rails.max
      /\ i \in Int /\ Within(i, pid.rails)
  BY <1>1, <1>2, Lefts
<1> DEFINE p == Ctl!P(pid, sp, meas)
           d == Ctl!D(pid, meas)
           paper == Ctl!Sum(pid, i, sp, meas)
           due == IF manual THEN ManualOut(pid) ELSE Ctl!Clamped(paper \div Ctl!One, pid.rails)
           fits == manual \/ Ctl!FitsWords(p, i, d, paper)
           steady == d = 0
           kept == manual /\ i = out * Ctl!One - p - d
<1>6. p \in Int /\ d \in Int /\ out * Ctl!One \in Int
  BY <1>1, <1>2, <1>5, Terms, PidParts
<1>7. kept /\ steady => i = out * Ctl!One - p
  <2> HIDE DEF p, d, out, i
  <2>1. QED
    BY <1>5, <1>6
<1>8. due \in Int /\ fits \in BOOLEAN /\ steady \in BOOLEAN /\ kept \in BOOLEAN
  <2>1. fits \in BOOLEAN
    BY DEF Ctl!FitsWords
  <2>2. Ctl!Clamped(paper \div Ctl!One, pid.rails) \in Int
    <3>1. pid.rails \in Rails /\ pid.gains.kp \in Int /\ pid.gains.kd \in Int /\ pid.prev \in Int
          /\ Ctl!One \in Nat \ {0}
      BY <1>2, PidParts, Widths
    <3>2. paper = pid.gains.kp * (sp - meas) + i
              - pid.gains.kd * (IF pid.have_prev THEN meas - pid.prev ELSE 0)
      BY DEF Ctl!Sum
    <3>3. paper \in Int
      BY <1>1, <1>5, <3>1, <3>2
    <3> HIDE DEF paper
    <3>4. paper \div Ctl!One \in Int
      BY <3>1, <3>3
    <3>5. QED
      BY <3>1, <3>4, Clamps
  <2>3. ManualOut(pid) \in Int
    BY <1>1, <1>2, Lefts
  <2> HIDE DEF paper
  <2>4. due \in Int
    BY <2>2, <2>3
  <2>5. QED
    BY <2>1, <2>4
<1>9. last' = [sp |-> sp, meas |-> meas, mode |-> pid.mode, out |-> out, twin |-> out, due |-> due,
               fits |-> fits, steady |-> steady,
               kept |-> kept]
  <2> DEFINE u == Ctl!Updated(pid, sp, meas)
             v == Ctl!Updated(twin, sp, meas)
  <2>1. last' = Ctl!Noted(sp, meas, u, v)
    BY DEF Ctl!Update
  <2>2. u.out = out /\ v.out = out /\ u.pid.integrator = i
    BY <1>3, <1>4 DEF LeftBy
  <2> HIDE DEF u, v, out, i
  <2>3. Ctl!Noted(sp, meas, u, v) =
          [sp |-> sp, meas |-> meas, mode |-> pid.mode, out |-> out, twin |-> out, due |-> due,
           fits |-> fits, steady |-> steady, kept |-> kept]
    BY <2>2 DEF Ctl!Noted, ManualOut
  <2>4. QED
    BY <2>1, <2>3
<1>10. pid' = LeftBy(pid, i, meas, manual) /\ twin' = LeftBy(twin, i, meas, manual)
  BY <1>3, <1>4 DEF Ctl!Update
<1>20. manual => Ctl!P(pid', sp, meas) = p
  BY <1>10 DEF LeftBy, Ctl!P, Ctl!Product
<1> HIDE DEF out, i, fits, due, steady, kept, p, d, paper
<1>11. pid' \in Pids /\ twin' \in Pids /\ Alike(pid', twin')
  <2>1. /\ pid.gains \in Gains /\ pid.rails \in Rails /\ pid.mode \in Modes /\ pid.manual \in Int
        /\ pid.family \in Families /\ twin.family \in Families
        /\ twin.gains \in Gains /\ twin.rails \in Rails /\ twin.mode \in Modes /\ twin.manual \in Int
    BY <1>2, PidParts
  <2>2. pid' \in Pids
    BY <1>1, <1>5, <1>10, <2>1 DEF LeftBy, Pids
  <2>3. twin' \in Pids
    BY <1>1, <1>5, <1>10, <2>1 DEF LeftBy, Pids
  <2>4. Alike(pid', twin')
    BY <1>2, <1>10 DEF LeftBy, Alike
  <2>5. QED
    BY <2>2, <2>3, <2>4
<1>12. last' \in Noteds /\ last'.out = last'.twin
  <2>1. pid.mode \in {"none", "auto", "manual"}
    BY <1>2, PidParts DEF Modes
  <2>2. QED
    BY <1>1, <1>5, <1>8, <1>9, <2>1 DEF Noteds
<1>13. /\ pid'.rails.min <= last'.out /\ last'.out <= pid'.rails.max
       /\ Within(pid'.integrator, pid'.rails)
  BY <1>5, <1>9, <1>10 DEF LeftBy
<1>14. last'.mode = "manual" => AfterManual'
  <2> SUFFICES ASSUME last'.mode = "manual" PROVE AfterManual'
    OBVIOUS
  <2>1. manual
    BY <1>9
  <2>2. /\ pid'.skip /\ pid'.have_prev /\ pid'.prev = last'.meas
        /\ pid'.integrator = i /\ Ctl!P(pid', last'.sp, last'.meas) = p
    BY <1>9, <1>10, <1>20, <2>1 DEF LeftBy
  <2>3. last'.kept /\ last'.steady =>
          pid'.integrator = last'.out * Ctl!One - Ctl!P(pid', last'.sp, last'.meas)
    BY <1>7, <1>9, <2>2
  <2>4. QED
    BY <1>13, <2>2, <2>3 DEF AfterManual
<1>15. PidInv'
  BY <1>11, <1>12, <1>13, <1>14 DEF PidInv, Within
<1>16. ASSUME last.mode = "manual", last.kept, last.steady, last'.mode = "auto", last'.sp = last.sp,
              last'.meas = last.meas
       PROVE  last'.out = last.out
  <2>1. AfterManual /\ Within(pid.integrator, pid.rails)
    BY <1>16 DEF PidInv
  <2>2. sp = last.sp /\ meas = last.meas /\ ~manual
    BY <1>9, <1>16
  <2>3. last.out \in Int
    BY <1>2 DEF Noteds
  <2>4. /\ pid.skip /\ pid.have_prev /\ pid.prev = meas
        /\ pid.rails.min <= last.out /\ last.out <= pid.rails.max
        /\ pid.integrator = last.out * Ctl!One - Ctl!P(pid, sp, meas)
    BY <1>16, <2>1, <2>2 DEF AfterManual
  <2>5. AutoOut(pid, sp, meas) = last.out
    BY <1>1, <1>2, <2>1, <2>3, <2>4, AutoGivesBack
  <2>6. QED
    BY <1>9, <2>2, <2>5 DEF out
<1>17. QED
  BY <1>15, <1>16

\* The calls that set something, and the reset.
LEMMA SettingKeeps ==
  ASSUME PidInv,
         \/ Ctl!Reset
         \/ \E g \in Gains : Ctl!SetGains(g)
         \/ \E m \in Modes : Ctl!SetMode(m)
         \/ \E v \in Readings : Ctl!SetManualOutput(v)
  PROVE  PidInv' /\ last'.mode \in {"none", last.mode}
<1>1. pid \in Pids /\ twin \in Pids /\ Alike(pid, twin) /\ last \in Noteds
  BY DEF PidInv
<1>2. /\ \A p \in Pids : p = [family |-> p.family, gains |-> p.gains, rails |-> p.rails, integrator |-> p.integrator,
            prev |-> p.prev, have_prev |-> p.have_prev, skip |-> p.skip, mode |-> p.mode,
            manual |-> p.manual]
      /\ Readings \subseteq Int
  <2>1. 2 ^ (Bits - 1) \in Nat \ {0}
    BY Widths
  <2>2. Readings \subseteq Int
    BY <2>1, PidAssumption
  <2>3. QED
    BY <2>2 DEF Pids
<1>3. Ctl!NoCall \in Noteds /\ Ctl!NoCall.mode = "none" /\ Ctl!NoCall.out = Ctl!NoCall.twin
  BY DEF Ctl!NoCall, Noteds
<1>4. CASE Ctl!Reset
  <2>1. pid' = [family |-> pid.family, gains |-> pid.gains, rails |-> pid.rails, integrator |-> 0, prev |-> pid.prev,
                have_prev |-> FALSE, skip |-> FALSE, mode |-> pid.mode, manual |-> pid.manual]
    <3>1. pid' = [pid EXCEPT !.integrator = 0, !.have_prev = FALSE, !.skip = FALSE]
      BY <1>4 DEF Ctl!Reset
    <3>2. pid = [family |-> pid.family, gains |-> pid.gains, rails |-> pid.rails, integrator |-> pid.integrator,
                 prev |-> pid.prev, have_prev |-> pid.have_prev, skip |-> pid.skip,
                 mode |-> pid.mode, manual |-> pid.manual]
      BY <1>1, <1>2
    <3>3. QED
      BY <3>1, <3>2
  <2>2. twin' = [family |-> pid.family, gains |-> pid.gains, rails |-> pid.rails, integrator |-> 0, prev |-> 0,
                 have_prev |-> FALSE, skip |-> FALSE, mode |-> pid.mode, manual |-> pid.manual]
    BY <1>4 DEF Ctl!Reset, Ctl!PidInit
  <2>3. last' = Ctl!NoCall
    BY <1>4 DEF Ctl!Reset
  <2>4. pid' \in Pids /\ twin' \in Pids
    BY <1>1, <2>1, <2>2, PidParts DEF Pids
  <2>5. Alike(pid', twin')
    BY <2>1, <2>2 DEF Alike
  <2>6. QED
    BY <1>3, <2>3, <2>4, <2>5 DEF PidInv
<1>5. ASSUME NEW g \in Gains, Ctl!SetGains(g) PROVE PidInv' /\ last'.mode \in {"none", last.mode}
  <2>1. pid' = [family |-> pid.family, gains |-> g, rails |-> pid.rails, integrator |-> pid.integrator, prev |-> pid.prev,
                have_prev |-> pid.have_prev, skip |-> pid.skip, mode |-> pid.mode,
                manual |-> pid.manual]
    BY <1>1, <1>2, <1>5 DEF Ctl!SetGains
  <2>2. twin' = [family |-> twin.family, gains |-> g, rails |-> twin.rails, integrator |-> twin.integrator,
                 prev |-> twin.prev, have_prev |-> twin.have_prev, skip |-> twin.skip,
                 mode |-> twin.mode, manual |-> twin.manual]
    BY <1>1, <1>2, <1>5 DEF Ctl!SetGains
  <2>3. last' = Ctl!NoCall
    BY <1>5 DEF Ctl!SetGains
  <2>4. pid' \in Pids /\ twin' \in Pids
    BY <1>1, <2>1, <2>2, PidParts DEF Pids
  <2>5. Alike(pid', twin')
    BY <1>1, <2>1, <2>2 DEF Alike
  <2>6. QED
    BY <1>3, <2>3, <2>4, <2>5 DEF PidInv
<1>6. ASSUME NEW m \in Modes, NEW v \in Int,
             pid' = [family |-> pid.family, gains |-> pid.gains, rails |-> pid.rails, integrator |-> pid.integrator,
                     prev |-> pid.prev, have_prev |-> pid.have_prev, skip |-> pid.skip,
                     mode |-> pid'.mode, manual |-> pid'.manual],
             twin' = [family |-> twin.family, gains |-> twin.gains, rails |-> twin.rails, integrator |-> twin.integrator,
                      prev |-> twin.prev, have_prev |-> twin.have_prev, skip |-> twin.skip,
                      mode |-> pid'.mode, manual |-> pid'.manual],
             pid'.mode \in Modes, pid'.manual \in Int, last' = last
      PROVE  PidInv' /\ last'.mode \in {"none", last.mode}
  <2>1. pid' \in Pids /\ twin' \in Pids
    BY <1>1, <1>6, PidParts DEF Pids
  <2>2. Alike(pid', twin')
    BY <1>1, <1>6 DEF Alike
  <2>3. /\ pid'.gains = pid.gains /\ pid'.rails = pid.rails /\ pid'.integrator = pid.integrator
        /\ pid'.prev = pid.prev /\ pid'.have_prev = pid.have_prev /\ pid'.skip = pid.skip
    BY <1>6
  <2>4. Ctl!P(pid', last.sp, last.meas) = Ctl!P(pid, last.sp, last.meas)
    BY <1>6 DEF Ctl!P, Ctl!Product
  <2>5. QED
    BY <1>6, <2>1, <2>2, <2>3, <2>4 DEF PidInv, AfterManual, Within
<1>7. ASSUME NEW m \in Modes, Ctl!SetMode(m) PROVE PidInv' /\ last'.mode \in {"none", last.mode}
  <2>1. pid' = [pid EXCEPT !.mode = m] /\ twin' = [twin EXCEPT !.mode = m] /\ last' = last
    BY <1>7 DEF Ctl!SetMode
  <2>2. pid.manual \in Int /\ twin.manual = pid.manual
    BY <1>1, PidParts DEF Alike
  <2>3. /\ pid' = [family |-> pid.family, gains |-> pid.gains, rails |-> pid.rails, integrator |-> pid.integrator,
                   prev |-> pid.prev, have_prev |-> pid.have_prev, skip |-> pid.skip,
                   mode |-> m, manual |-> pid.manual]
        /\ twin' = [family |-> twin.family, gains |-> twin.gains, rails |-> twin.rails, integrator |-> twin.integrator,
                    prev |-> twin.prev, have_prev |-> twin.have_prev, skip |-> twin.skip,
                    mode |-> m, manual |-> twin.manual]
    BY <1>1, <1>2, <2>1
  <2>4. pid'.mode = m /\ pid'.manual = pid.manual
    BY <2>3
  <2>5. QED
    BY <1>6, <2>1, <2>2, <2>3, <2>4
<1>8. ASSUME NEW v \in Readings, Ctl!SetManualOutput(v)
      PROVE  PidInv' /\ last'.mode \in {"none", last.mode}
  <2>1. pid' = [pid EXCEPT !.manual = v] /\ twin' = [twin EXCEPT !.manual = v] /\ last' = last
    BY <1>8 DEF Ctl!SetManualOutput
  <2>2. pid.mode \in Modes /\ twin.mode = pid.mode /\ v \in Int
    BY <1>1, <1>2, PidParts DEF Alike
  <2>3. /\ pid' = [family |-> pid.family, gains |-> pid.gains, rails |-> pid.rails, integrator |-> pid.integrator,
                   prev |-> pid.prev, have_prev |-> pid.have_prev, skip |-> pid.skip,
                   mode |-> pid.mode, manual |-> v]
        /\ twin' = [family |-> twin.family, gains |-> twin.gains, rails |-> twin.rails, integrator |-> twin.integrator,
                    prev |-> twin.prev, have_prev |-> twin.have_prev, skip |-> twin.skip,
                    mode |-> twin.mode, manual |-> v]
    BY <1>1, <1>2, <2>1
  <2>4. pid'.mode = pid.mode /\ pid'.manual = v
    BY <2>3
  <2>5. QED
    BY <1>6, <2>1, <2>2, <2>3, <2>4
<1>9. QED
  BY <1>4, <1>5, <1>7, <1>8

\* A step leaves the invariant, and the output if it is an automatic call after a
\* manual one whose integrator was kept.
PidSame ==
  last.mode = "manual" /\ last.kept /\ last.steady /\ last'.mode = "auto"
    /\ <<last'.sp, last'.meas>> = <<last.sp, last.meas>> => last'.out = last.out

LEMMA PidKeeps == PidInv /\ [Next]_vars => PidInv' /\ [PidSame]_pidVars
<1> SUFFICES ASSUME PidInv, [Next]_vars PROVE PidInv' /\ [PidSame]_pidVars
  OBVIOUS
<1>1. CASE UNCHANGED pidVars
  BY <1>1 DEF pidVars, PidInv, AfterManual, Ctl!P
<1>2. CASE Ctl!Next
  <2>1. ASSUME NEW sp \in Readings, NEW meas \in Readings, Ctl!Update(sp, meas)
        PROVE  PidInv' /\ PidSame
    BY <2>1, UpdateKeeps DEF PidSame
  <2>2. ASSUME \/ Ctl!Reset
               \/ \E g \in Gains : Ctl!SetGains(g)
               \/ \E m \in Modes : Ctl!SetMode(m)
               \/ \E v \in Readings : Ctl!SetManualOutput(v)
        PROVE  PidInv' /\ PidSame
    BY <2>2, SettingKeeps DEF PidSame
  <2>3. QED
    BY <1>2, <2>1, <2>2 DEF Ctl!Next, Modes
<1>3. QED
  BY <1>1, <1>2, Steps

\* pid_update: for every width, gains, rails and readings, and whatever the routine
\* returns that multiplies: the output and the integrator are within the rails after
\* every call, and a reset forgets all a call could see.
THEOREM PidStaysWithinRails == Spec => []PidKeepsRails
<1>1. PidInv => PidKeepsRails
  <2> SUFFICES ASSUME PidInv PROVE PidKeepsRails
    OBVIOUS
  <2>1. pid.rails \in Rails /\ pid.integrator \in Int /\ last.out \in Int
    BY PidParts DEF PidInv, Noteds
  <2>2. last.mode # "none" => /\ Ctl!Clamped(last.out, pid.rails) = last.out
                              /\ Ctl!ClampedQ(pid.integrator, pid.rails) = pid.integrator
    BY <2>1, Clamps DEF PidInv
  <2>3. QED
    BY <2>2 DEF PidInv, PidKeepsRails, Ctl!WithinRails, Ctl!ResetForgets
<1>2. QED
  BY <1>1, PidInits, PidKeeps, PTL DEF Spec

\* The integrator is worked back (pid.c:90) so that the change to automatic keeps the
\* output: it does, whatever the routine returns that multiplies, if only it gives
\* nothing for a product by nothing, whenever neither the rails nor a word cut the
\* integrator and no derivative was worked into it.
THEOREM PidHandsOver == Spec => Ctl!BumplessIfSteady
<1>1. PidSame => (last.kept /\ last.steady /\ Ctl!Handover => last'.out = last.out)
  BY DEF PidSame, Ctl!Handover
<1>2. QED
  BY <1>1, PidInits, PidKeeps, PTL DEF Spec, Ctl!BumplessIfSteady, pidVars, Ctl!pidVars
-----------------------------------------------------------------------------
\* USB: a stream is in three parts, in order and without a byte twice: what the other
\* side has, what the endpoint holds and what the ring holds.
Rising(s) == \A i, j \in 1 .. Len(s) : i < j => s[i] < s[j]
In(s) == {s[i] : i \in 1 .. Len(s)}
Before(s, t) == \A m \in In(s), n \in In(t) : m < n
Numbered == Seq(Nat)

LEMMA Elements ==
  ASSUME NEW s \in Numbered
  PROVE  /\ DOMAIN s = 1 .. Len(s) /\ Len(s) \in Nat /\ In(s) \subseteq Nat /\ Cdc!Range(s) = In(s)
         /\ \A i \in 1 .. Len(s) : s[i] \in Nat /\ s[i] \in In(s)
         /\ \A n \in In(s) : \E i \in 1 .. Len(s) : n = s[i]
<1>1. DOMAIN s = 1 .. Len(s) /\ Len(s) \in Nat
  BY LenProperties DEF Numbered
<1>2. \A i \in 1 .. Len(s) : s[i] \in Nat
  BY ElementOfSeq DEF Numbered
<1>3. QED
  BY <1>1, <1>2 DEF In, Cdc!Range

LEMMA Joined ==
  ASSUME NEW s \in Numbered, NEW t \in Numbered, Rising(s), Rising(t), Before(s, t)
  PROVE  /\ s \o t \in Numbered /\ Rising(s \o t) /\ In(s \o t) = In(s) \cup In(t)
         /\ Len(s \o t) = Len(s) + Len(t)
<1> DEFINE st == s \o t
<1>1. /\ st \in Numbered /\ Len(st) = Len(s) + Len(t)
      /\ \A i \in 1 .. Len(s) + Len(t) : st[i] = IF i <= Len(s) THEN s[i] ELSE t[i - Len(s)]
  BY ConcatProperties DEF Numbered
<1> HIDE DEF st
<1>2. /\ Len(s) \in Nat /\ Len(t) \in Nat
      /\ \A i \in 1 .. Len(s) : s[i] \in Nat /\ s[i] \in In(s)
      /\ \A i \in 1 .. Len(t) : t[i] \in Nat /\ t[i] \in In(t)
  BY Elements
<1>3. Rising(st)
  <2> SUFFICES ASSUME NEW i \in 1 .. Len(st), NEW j \in 1 .. Len(st), i < j PROVE st[i] < st[j]
    BY DEF Rising
  <2>1. CASE j <= Len(s)
    BY <1>1, <1>2, <2>1 DEF Rising
  <2>2. CASE i <= Len(s) /\ j > Len(s)
    <3>1. j - Len(s) \in 1 .. Len(t) /\ i \in 1 .. Len(s)
      BY <1>1, <1>2, <2>2
    <3>2. st[i] = s[i] /\ st[j] = t[j - Len(s)]
      BY <1>1, <1>2, <2>2
    <3>3. s[i] \in In(s) /\ t[j - Len(s)] \in In(t)
      BY <1>2, <3>1
    <3>4. QED
      BY <3>2, <3>3 DEF Before
  <2>3. CASE i > Len(s)
    <3>1. i - Len(s) \in 1 .. Len(t) /\ j - Len(s) \in 1 .. Len(t) /\ i - Len(s) < j - Len(s)
      BY <1>1, <1>2, <2>3
    <3>2. st[i] = t[i - Len(s)] /\ st[j] = t[j - Len(s)]
      BY <1>1, <1>2, <2>3
    <3>3. QED
      BY <3>1, <3>2 DEF Rising
  <2>4. QED
    BY <1>2, <2>1, <2>2, <2>3
<1>4. In(st) = In(s) \cup In(t)
  <2>1. ASSUME NEW i \in 1 .. Len(st) PROVE st[i] \in In(s) \cup In(t)
    <3>1. CASE i <= Len(s)
      BY <1>1, <1>2, <3>1
    <3>2. CASE i > Len(s)
      <4>1. i - Len(s) \in 1 .. Len(t) /\ st[i] = t[i - Len(s)]
        BY <1>1, <1>2, <3>2
      <4>2. QED
        BY <1>2, <4>1
    <3>3. QED
      BY <1>2, <3>1, <3>2
  <2>2. ASSUME NEW i \in 1 .. Len(s) PROVE s[i] \in In(st)
    <3>1. i \in 1 .. Len(st) /\ st[i] = s[i]
      BY <1>1, <1>2
    <3>2. QED
      BY <3>1 DEF In
  <2>3. ASSUME NEW i \in 1 .. Len(t) PROVE t[i] \in In(st)
    <3>1. i + Len(s) \in 1 .. Len(st) /\ st[i + Len(s)] = t[(i + Len(s)) - Len(s)] /\ (i + Len(s)) - Len(s) = i
      BY <1>1, <1>2
    <3>2. QED
      BY <3>1 DEF In
  <2>4. In(st) \subseteq In(s) \cup In(t)
    BY <2>1 DEF In
  <2>5. In(s) \subseteq In(st) /\ In(t) \subseteq In(st)
    BY <2>2, <2>3 DEF In
  <2>6. QED
    BY <2>4, <2>5
<1>5. QED
  BY <1>1, <1>3, <1>4 DEF st

LEMMA Parted ==
  ASSUME NEW s \in Numbered, Rising(s), NEW n \in 0 .. Len(s)
  PROVE  /\ SubSeq(s, 1, n) \in Numbered /\ Rising(SubSeq(s, 1, n))
         /\ Cdc!After(s, n) \in Numbered /\ Rising(Cdc!After(s, n))
         /\ Before(SubSeq(s, 1, n), Cdc!After(s, n))
         /\ In(s) = In(SubSeq(s, 1, n)) \cup In(Cdc!After(s, n))
         /\ Len(SubSeq(s, 1, n)) = n /\ Len(Cdc!After(s, n)) = Len(s) - n
<1> DEFINE p == SubSeq(s, 1, n)
           q == Cdc!After(s, n)
<1>1. /\ Len(s) \in Nat /\ n \in Nat /\ n <= Len(s)
      /\ \A i \in 1 .. Len(s) : s[i] \in Nat
  BY Elements
<1>2. /\ p \in Numbered /\ Len(p) = n /\ \A i \in 1 .. n : p[i] = s[i]
  <2>1. \A i \in 1 .. n : s[i] \in Nat
    BY <1>1
  <2>2. /\ SubSeq(s, 1, n) \in Seq(Nat)
        /\ Len(SubSeq(s, 1, n)) = IF 1 <= n THEN n - 1 + 1 ELSE 0
        /\ \A i \in 1 .. n - 1 + 1 : SubSeq(s, 1, n)[i] = s[1 + i - 1]
    BY <1>1, <2>1, SubSeqProperties
  <2>3. QED
    BY <1>1, <2>2 DEF Numbered
<1>3. /\ q \in Numbered /\ Len(q) = Len(s) - n /\ \A i \in 1 .. Len(s) - n : q[i] = s[n + i]
  <2> DEFINE l == Len(s)
  <2>1. l \in Int /\ n + 1 \in Int /\ \A i \in n + 1 .. l : s[i] \in Nat
    BY <1>1
  <2> HIDE DEF l
  <2>2. /\ SubSeq(s, n + 1, l) \in Seq(Nat)
        /\ Len(SubSeq(s, n + 1, l)) = IF n + 1 <= l THEN l - (n + 1) + 1 ELSE 0
        /\ \A i \in 1 .. l - (n + 1) + 1 : SubSeq(s, n + 1, l)[i] = s[(n + 1) + i - 1]
    BY <2>1, SubSeqProperties
  <2>3. q = SubSeq(s, n + 1, l)
    BY DEF Cdc!After, l
  <2>4. l \in Nat /\ n <= l
    BY <1>1 DEF l
  <2>5. /\ Len(q) = l - n
        /\ \A i \in 1 .. l - n : q[i] = s[n + i]
    <3>1. Len(q) = l - n
      BY <1>1, <2>2, <2>3, <2>4
    <3>2. \A i \in 1 .. l - n : i \in 1 .. l - (n + 1) + 1 /\ (n + 1) + i - 1 = n + i
      BY <1>1, <2>4
    <3>3. QED
      BY <2>2, <2>3, <3>1, <3>2
  <2>6. QED
    BY <2>2, <2>3, <2>5 DEF l, Numbered
<1> HIDE DEF p, q
<1>4. Rising(p)
  BY <1>1, <1>2 DEF Rising
<1>5. Rising(q)
  <2> SUFFICES ASSUME NEW i \in 1 .. Len(q), NEW j \in 1 .. Len(q), i < j PROVE q[i] < q[j]
    BY DEF Rising
  <2>1. n + i \in 1 .. Len(s) /\ n + j \in 1 .. Len(s) /\ n + i < n + j
    BY <1>1, <1>3
  <2>2. QED
    BY <1>3, <2>1 DEF Rising
<1>6. Before(p, q)
  <2>1. ASSUME NEW i \in 1 .. Len(p), NEW j \in 1 .. Len(q) PROVE p[i] < q[j]
    <3>1. i \in 1 .. Len(s) /\ n + j \in 1 .. Len(s) /\ i < n + j
      BY <1>1, <1>2, <1>3
    <3>2. p[i] = s[i] /\ q[j] = s[n + j]
      BY <1>2, <1>3
    <3>3. QED
      BY <3>1, <3>2 DEF Rising
  <2>2. QED
    BY <2>1 DEF Before, In
<1>7. In(s) = In(p) \cup In(q)
  <2>1. ASSUME NEW i \in 1 .. Len(s) PROVE s[i] \in In(p) \cup In(q)
    <3>1. CASE i <= n
      BY <1>1, <1>2, <3>1 DEF In
    <3>2. CASE i > n
      <4>1. i - n \in 1 .. Len(q) /\ q[i - n] = s[n + (i - n)] /\ n + (i - n) = i
        BY <1>1, <1>3, <3>2
      <4>2. q[i - n] \in In(q)
        BY <4>1 DEF In
      <4>3. QED
        BY <4>1, <4>2
    <3>3. QED
      BY <1>1, <3>1, <3>2
  <2>2. ASSUME NEW i \in 1 .. Len(p) PROVE p[i] \in In(s)
    BY <1>1, <1>2 DEF In
  <2>3. ASSUME NEW i \in 1 .. Len(q) PROVE q[i] \in In(s)
    <3>1. n + i \in 1 .. Len(s) /\ q[i] = s[n + i]
      BY <1>1, <1>3
    <3>2. QED
      BY <3>1 DEF In
  <2>4. In(s) \subseteq In(p) \cup In(q)
    BY <2>1 DEF In
  <2>5. In(p) \subseteq In(s) /\ In(q) \subseteq In(s)
    BY <2>2, <2>3 DEF In
  <2>6. QED
    BY <2>4, <2>5
<1>8. QED
  BY <1>2, <1>3, <1>4, <1>5, <1>6, <1>7 DEF p, q

LEMMA Nothing == <<>> \in Numbered /\ Rising(<<>>) /\ In(<<>>) = {}
BY DEF Numbered, Rising, In

\* As many bytes as numbers.
LEMMA AsMany ==
  ASSUME NEW s \in Numbered, Rising(s)
  PROVE  IsFiniteSet(In(s)) /\ Cardinality(In(s)) = Len(s)
<1>1. Len(s) \in Nat /\ s \in [1 .. Len(s) -> In(s)] /\ \A i \in 1 .. Len(s) : s[i] \in Nat
  <2>1. DOMAIN s = 1 .. Len(s) /\ Len(s) \in Nat /\ \A i \in 1 .. Len(s) : s[i] \in Nat /\ s[i] \in In(s)
    BY Elements
  <2>2. s \in [1 .. Len(s) -> Nat]
    BY LenProperties DEF Numbered
  <2>3. QED
    BY <2>1, <2>2
<1>2. \A i, j \in 1 .. Len(s) : s[i] = s[j] => i = j
  <2> SUFFICES ASSUME NEW i \in 1 .. Len(s), NEW j \in 1 .. Len(s), s[i] = s[j] PROVE i = j
    OBVIOUS
  <2>1. ~(i < j) /\ ~(j < i)
    BY <1>1 DEF Rising
  <2>2. QED
    BY <1>1, <2>1
<1>3. \A n \in In(s) : \E i \in 1 .. Len(s) : s[i] = n
  BY DEF In
<1>4. s \in Bijection(1 .. Len(s), In(s))
  BY <1>1, <1>2, <1>3, Fun_IsBij
<1>5. ExistsBijection(1 .. Len(s), In(s))
  BY <1>4 DEF ExistsBijection
<1>6. QED
  BY <1>1, <1>5, FS_CountingElements, FS_NatBijection

Stream(s, t, u, n, gone) ==
  /\ n \in Nat /\ {s, t, u} \subseteq Numbered
  /\ Rising(s) /\ Rising(t) /\ Rising(u)
  /\ Before(s, t) /\ Before(s, u) /\ Before(t, u)
  /\ gone \subseteq 1 .. n /\ In(s) \cup In(t) \cup In(u) = (1 .. n) \ gone

\* What happens to a stream: a part is lost, or goes on to the next, whole or in part,
\* and bytes come behind the last.
LEMMA Apart ==
  ASSUME NEW s \in Numbered, NEW t \in Numbered, Before(s, t)
  PROVE  In(s) \cap In(t) = {}
<1>1. In(s) \subseteq Nat
  BY Elements
<1>2. \A m \in Nat : ~(m < m)
  OBVIOUS
<1>3. QED
  BY <1>1, <1>2 DEF Before

LEMMA StreamLoses ==
  ASSUME NEW s, NEW t, NEW u, NEW n, NEW gone, Stream(s, t, u, n, gone)
  PROVE  /\ Stream(s, <<>>, u, n, gone \cup In(t))
         /\ Stream(s, t, <<>>, n, gone \cup In(u))
<1>1. s \in Numbered /\ t \in Numbered /\ u \in Numbered
  BY DEF Stream
<1>2. In(s) \cap In(t) = {} /\ In(s) \cap In(u) = {} /\ In(t) \cap In(u) = {}
  BY <1>1, Apart DEF Stream
<1>3. \A v : Before(v, <<>>) /\ Before(<<>>, v)
  BY Nothing DEF Before
<1>4. Stream(s, <<>>, u, n, gone \cup In(t))
  BY <1>1, <1>2, <1>3, Nothing DEF Stream
<1>5. Stream(s, t, <<>>, n, gone \cup In(u))
  BY <1>1, <1>2, <1>3, Nothing DEF Stream
<1>6. QED
  BY <1>4, <1>5

LEMMA StreamMoves ==
  ASSUME NEW s, NEW t, NEW u, NEW n, NEW gone, Stream(s, t, u, n, gone)
  PROVE  Stream(s \o t, <<>>, u, n, gone)
<1>1. s \in Numbered /\ t \in Numbered /\ u \in Numbered
  BY DEF Stream
<1>2. s \o t \in Numbered /\ Rising(s \o t) /\ In(s \o t) = In(s) \cup In(t)
  BY <1>1, Joined DEF Stream
<1> DEFINE v == s \o t
<1>3. v \in Numbered /\ Rising(v) /\ In(v) = In(s) \cup In(t)
  BY <1>2
<1> HIDE DEF v
<1>4. Before(v, <<>>) /\ Before(<<>>, u) /\ Before(v, u)
  BY <1>3, Nothing DEF Before, Stream
<1>5. In(v) \cup In(<<>>) \cup In(u) = In(s) \cup In(t) \cup In(u)
  BY <1>3, Nothing
<1>6. Stream(v, <<>>, u, n, gone)
  BY <1>1, <1>3, <1>4, <1>5, Nothing DEF Stream
<1>7. QED
  BY <1>6 DEF v

LEMMA StreamLoads ==
  ASSUME NEW s, NEW u, NEW n, NEW gone, Stream(s, <<>>, u, n, gone), NEW k \in 0 .. Len(u)
  PROVE  Stream(s, SubSeq(u, 1, k), Cdc!After(u, k), n, gone)
<1> DEFINE p == SubSeq(u, 1, k)
           q == Cdc!After(u, k)
<1>1. s \in Numbered /\ u \in Numbered /\ Rising(u)
  BY DEF Stream
<1>2. /\ p \in Numbered /\ Rising(p) /\ q \in Numbered /\ Rising(q) /\ Before(p, q)
      /\ In(u) = In(p) \cup In(q)
  BY <1>1, Parted
<1> HIDE DEF p, q
<1>3. Before(s, p) /\ Before(s, q)
  BY <1>2 DEF Before, Stream
<1>4. In(s) \cup In(p) \cup In(q) = In(s) \cup In(<<>>) \cup In(u)
  BY <1>2, Nothing
<1>5. Stream(s, p, q, n, gone)
  BY <1>1, <1>2, <1>3, <1>4 DEF Stream
<1>6. QED
  BY <1>5 DEF p, q

\* The last part goes on to the middle one as far as there is room, and the rest is lost.
LEMMA StreamDrains ==
  ASSUME NEW s, NEW t, NEW u, NEW n, NEW gone, Stream(s, t, u, n, gone), NEW k \in 0 .. Len(u)
  PROVE  /\ Stream(s, t \o SubSeq(u, 1, k), <<>>, n, gone \cup In(Cdc!After(u, k)))
         /\ Len(t \o SubSeq(u, 1, k)) = Len(t) + k
<1> DEFINE p == SubSeq(u, 1, k)
           q == Cdc!After(u, k)
           v == t \o p
<1>1. s \in Numbered /\ t \in Numbered /\ u \in Numbered /\ Rising(u) /\ Rising(t)
  BY DEF Stream
<1>2. /\ p \in Numbered /\ Rising(p) /\ q \in Numbered /\ Rising(q) /\ Before(p, q)
      /\ In(u) = In(p) \cup In(q) /\ Len(p) = k
  BY <1>1, Parted
<1> HIDE DEF p, q
<1>3. Before(t, p) /\ Before(s, p) /\ Before(s, q) /\ Before(t, q)
  BY <1>2 DEF Before, Stream
<1>4. v \in Numbered /\ Rising(v) /\ In(v) = In(t) \cup In(p) /\ Len(v) = Len(t) + k
  BY <1>1, <1>2, <1>3, Joined
<1> HIDE DEF v
<1>5. Before(s, v) /\ Before(v, q)
  BY <1>2, <1>3, <1>4 DEF Before, Stream
<1>6. In(s) \cup In(v) \cup In(q) = In(s) \cup In(t) \cup In(u)
  BY <1>2, <1>4
<1>7. Stream(s, v, q, n, gone)
  BY <1>1, <1>2, <1>3, <1>4, <1>5, <1>6 DEF Stream
<1>8. Stream(s, v, <<>>, n, gone \cup In(q))
  BY <1>7, StreamLoses
<1>9. QED
  BY <1>4, <1>8 DEF v, p, q

LEMMA StreamReads ==
  ASSUME NEW s, NEW t, NEW u, NEW n, NEW gone, Stream(s, t, u, n, gone), NEW k \in 0 .. Len(t)
  PROVE  /\ Stream(s \o SubSeq(t, 1, k), Cdc!After(t, k), u, n, gone)
         /\ Len(Cdc!After(t, k)) = Len(t) - k
<1> DEFINE p == SubSeq(t, 1, k)
           q == Cdc!After(t, k)
           v == s \o p
<1>1. s \in Numbered /\ t \in Numbered /\ u \in Numbered /\ Rising(s) /\ Rising(t)
  BY DEF Stream
<1>2. /\ p \in Numbered /\ Rising(p) /\ q \in Numbered /\ Rising(q) /\ Before(p, q)
      /\ In(t) = In(p) \cup In(q) /\ Len(q) = Len(t) - k
  BY <1>1, Parted
<1> HIDE DEF p, q
<1>3. Before(s, p) /\ Before(s, q) /\ Before(p, u) /\ Before(q, u)
  BY <1>2 DEF Before, Stream
<1>4. v \in Numbered /\ Rising(v) /\ In(v) = In(s) \cup In(p)
  BY <1>1, <1>2, <1>3, Joined
<1> HIDE DEF v
<1>5. Before(v, q) /\ Before(v, u)
  BY <1>2, <1>3, <1>4 DEF Before, Stream
<1>6. In(v) \cup In(q) \cup In(u) = In(s) \cup In(t) \cup In(u)
  BY <1>2, <1>4
<1>7. Stream(v, q, u, n, gone)
  BY <1>1, <1>2, <1>3, <1>4, <1>5, <1>6 DEF Stream
<1>8. QED
  BY <1>2, <1>7 DEF v, p, q

\* Bytes with the numbers that come next.
LEMMA StreamGrows ==
  ASSUME NEW s, NEW t, NEW u, NEW n, NEW gone, Stream(s, t, u, n, gone), NEW m \in Nat
  PROVE  Stream(s, t, u \o [i \in 1 .. m |-> n + i], n + m, gone)
<1> DEFINE w == [i \in 1 .. m |-> n + i]
           v == u \o w
<1>1. n \in Nat /\ s \in Numbered /\ t \in Numbered /\ u \in Numbered /\ Rising(u)
  BY DEF Stream
<1>2. w \in Numbered /\ Len(w) = m /\ \A i \in 1 .. m : w[i] = n + i
  BY <1>1 DEF Numbered
<1> HIDE DEF w
<1>3. Rising(w) /\ In(w) = n + 1 .. n + m
  <2>1. Rising(w)
    BY <1>1, <1>2 DEF Rising
  <2>2. In(w) \subseteq n + 1 .. n + m
    BY <1>1, <1>2 DEF In
  <2>3. ASSUME NEW x \in n + 1 .. n + m PROVE x \in In(w)
    <3>1. x - n \in 1 .. Len(w) /\ w[x - n] = n + (x - n) /\ n + (x - n) = x
      BY <1>1, <1>2
    <3>2. QED
      BY <3>1 DEF In
  <2>4. QED
    BY <2>1, <2>2, <2>3
<1>4. In(s) \subseteq 1 .. n /\ In(t) \subseteq 1 .. n /\ In(u) \subseteq 1 .. n
  BY DEF Stream
<1>5. Before(s, w) /\ Before(t, w) /\ Before(u, w)
  BY <1>1, <1>3, <1>4 DEF Before
<1>6. v \in Numbered /\ Rising(v) /\ In(v) = In(u) \cup In(w)
  BY <1>1, <1>2, <1>3, <1>5, Joined
<1> HIDE DEF v
<1>7. Before(s, v) /\ Before(t, v)
  BY <1>5, <1>6 DEF Before, Stream
<1>8. In(s) \cup In(t) \cup In(v) = (1 .. n + m) \ gone /\ gone \subseteq 1 .. n + m /\ n + m \in Nat
  <2>1. 1 .. n + m = (1 .. n) \cup (n + 1 .. n + m) /\ n + m \in Nat
    BY <1>1
  <2>2. gone \subseteq 1 .. n /\ (1 .. n) \cap (n + 1 .. n + m) = {}
    BY <1>1 DEF Stream
  <2>3. In(s) \cup In(t) \cup In(u) = (1 .. n) \ gone
    BY DEF Stream
  <2>4. QED
    BY <1>3, <1>6, <2>1, <2>2, <2>3
<1>9. Stream(s, t, v, n + m, gone)
  BY <1>1, <1>6, <1>7, <1>8 DEF Stream
<1>10. QED
  BY <1>9 DEF v, w

\* The device: what the endpoint holds it owns, what waits in it was not taken, and a
\* terminal is one of this configuration.
Rings == [pc : {"idle", "put", "kick", "flush"}, left : Int, tx : Numbered, rx : Numbered, dtr : BOOLEAN]
Endpoints == [configured : BOOLEAN, halted : BOOLEAN, busy : BOOLEAN, in : Numbered,
              stalled : BOOLEAN, full : BOOLEAN, out : Numbered]
Lines == [next : Int, host : Numbered, lost : SUBSET Nat, arrived : Int, got : Numbered,
          missed : SUBSET Nat, bus : Int]
Devs == [usb : Rings, ep : Endpoints, line : Lines]
Fits(s) ==
  /\ s \in Devs
  /\ Stream(s.line.host, s.ep.in, s.usb.tx, s.line.next - 1, s.line.lost)
  /\ Stream(s.line.got, s.usb.rx, s.ep.out, s.line.arrived, s.line.missed)
  /\ Len(s.usb.tx) <= RingSz /\ Len(s.usb.rx) <= RingSz
  /\ s.ep.in # <<>> => s.ep.busy
  /\ s.ep.halted => s.ep.in = <<>>
  /\ s.ep.out # <<>> => s.ep.full
  /\ s.usb.dtr => s.ep.configured
UsbInv == Fits(Cdc!State)

\* One part of a device replaced.
LEMMA DevTurns ==
  ASSUME NEW s \in Devs
  PROVE  /\ \A u \in Rings : LET d == [s EXCEPT !.usb = u]
                             IN  d \in Devs /\ d.usb = u /\ d.ep = s.ep /\ d.line = s.line
         /\ \A e \in Endpoints : LET d == [s EXCEPT !.ep = e]
                                 IN  d \in Devs /\ d.usb = s.usb /\ d.ep = e /\ d.line = s.line
         /\ \A l \in Lines : LET d == [s EXCEPT !.line = l]
                             IN  d \in Devs /\ d.usb = s.usb /\ d.ep = s.ep /\ d.line = l
         /\ s.usb \in Rings /\ s.ep \in Endpoints /\ s.line \in Lines
BY DEF Devs

\* What is lost on the way to the host, and on the way from it.
LEMMA DroppedFits ==
  ASSUME NEW s, Fits(s)
  PROVE  /\ Fits(Cdc!Dropped(s)) /\ Cdc!Dropped(s).ep.in = <<>>
         /\ Cdc!Dropped(s).ep.configured = s.ep.configured
<1> DEFINE d == Cdc!Dropped(s)
           lost == s.line.lost \cup In(s.ep.in)
           l == [s.line EXCEPT !.lost = lost]
           e == [s.ep EXCEPT !.in = <<>>]
           x == [s EXCEPT !.line = l]
<1>1. s \in Devs /\ s.usb \in Rings /\ s.ep \in Endpoints /\ s.line \in Lines
  BY DevTurns DEF Fits
<1>2. Cdc!Range(s.ep.in) = In(s.ep.in) /\ In(s.ep.in) \subseteq Nat
  BY <1>1, Elements DEF Endpoints
<1>3. d = [[s EXCEPT !.line = l] EXCEPT !.ep = [x.ep EXCEPT !.in = <<>>]]
  BY <1>2 DEF Cdc!Dropped
<1>4. lost \in SUBSET Nat
  BY <1>1, <1>2 DEF Lines
<1> HIDE DEF lost
<1>5. /\ l \in Lines /\ l.next = s.line.next /\ l.host = s.line.host /\ l.lost = lost
      /\ l.arrived = s.line.arrived /\ l.got = s.line.got /\ l.missed = s.line.missed
  BY <1>1, <1>4 DEF Lines
<1>6. /\ e \in Endpoints /\ e.in = <<>> /\ e.configured = s.ep.configured /\ e.halted = s.ep.halted
      /\ e.busy = s.ep.busy /\ e.full = s.ep.full /\ e.out = s.ep.out
  BY <1>1, Nothing DEF Endpoints
<1> HIDE DEF l
<1>7. x \in Devs /\ x.usb = s.usb /\ x.ep = s.ep /\ x.line = l
  BY <1>1, <1>5, DevTurns
<1>8. d = [x EXCEPT !.ep = e]
  BY <1>3, <1>7
<1> HIDE DEF d, e, x
<1>9. d \in Devs /\ d.usb = s.usb /\ d.ep = e /\ d.line = l
  BY <1>6, <1>7, <1>8, DevTurns
<1>10. Stream(s.line.host, <<>>, s.usb.tx, s.line.next - 1, lost)
  <2>1. Stream(s.line.host, s.ep.in, s.usb.tx, s.line.next - 1, s.line.lost)
    BY DEF Fits
  <2>2. QED
    BY <2>1, StreamLoses DEF lost
<1>11. Fits(d)
  BY <1>5, <1>6, <1>9, <1>10 DEF Fits
<1>12. QED
  BY <1>6, <1>9, <1>11 DEF d

LEMMA SpilledFits ==
  ASSUME NEW s, Fits(s)
  PROVE  Fits(Cdc!Spilled(s)) /\ Cdc!Spilled(s).ep.in = s.ep.in
<1> DEFINE d == Cdc!Spilled(s)
           missed == s.line.missed \cup In(s.ep.out)
           l == [s.line EXCEPT !.missed = missed]
           e == [s.ep EXCEPT !.out = <<>>, !.full = FALSE]
           x == [s EXCEPT !.line = l]
<1>1. s \in Devs /\ s.usb \in Rings /\ s.ep \in Endpoints /\ s.line \in Lines
  BY DevTurns DEF Fits
<1>2. Cdc!Range(s.ep.out) = In(s.ep.out) /\ In(s.ep.out) \subseteq Nat
  BY <1>1, Elements DEF Endpoints
<1>3. d = [[s EXCEPT !.line = l] EXCEPT !.ep = [x.ep EXCEPT !.out = <<>>, !.full = FALSE]]
  BY <1>2 DEF Cdc!Spilled
<1>4. missed \in SUBSET Nat
  BY <1>1, <1>2 DEF Lines
<1> HIDE DEF missed
<1>5. /\ l \in Lines /\ l.next = s.line.next /\ l.host = s.line.host /\ l.lost = s.line.lost
      /\ l.arrived = s.line.arrived /\ l.got = s.line.got /\ l.missed = missed
  BY <1>1, <1>4 DEF Lines
<1>6. /\ e \in Endpoints /\ e.in = s.ep.in /\ e.configured = s.ep.configured /\ e.halted = s.ep.halted
      /\ e.busy = s.ep.busy /\ e.out = <<>>
  BY <1>1, Nothing DEF Endpoints
<1> HIDE DEF l
<1>7. x \in Devs /\ x.usb = s.usb /\ x.ep = s.ep /\ x.line = l
  BY <1>1, <1>5, DevTurns
<1>8. d = [x EXCEPT !.ep = e]
  BY <1>3, <1>7
<1> HIDE DEF d, e, x
<1>9. d \in Devs /\ d.usb = s.usb /\ d.ep = e /\ d.line = l
  BY <1>6, <1>7, <1>8, DevTurns
<1>10. Stream(s.line.got, s.usb.rx, <<>>, s.line.arrived, missed)
  <2>1. Stream(s.line.got, s.usb.rx, s.ep.out, s.line.arrived, s.line.missed)
    BY DEF Fits
  <2>2. QED
    BY <2>1, StreamLoses DEF missed
<1>11. Fits(d)
  BY <1>5, <1>6, <1>9, <1>10 DEF Fits
<1>12. QED
  BY <1>6, <1>9, <1>11 DEF d

\* The flags of the endpoint and the terminal are what may change.
LEMMA FlagsFit ==
  ASSUME NEW s, Fits(s), NEW d \in Devs, d.line = s.line, d.usb.tx = s.usb.tx, d.usb.rx = s.usb.rx,
         d.ep.in = s.ep.in, d.ep.full = s.ep.full, d.ep.out = s.ep.out,
         d.ep.in # <<>> => d.ep.busy, d.ep.halted => d.ep.in = <<>>, d.usb.dtr => d.ep.configured
  PROVE  Fits(d)
BY DEF Fits

LEMMA TerminalFits ==
  ASSUME NEW s, Fits(s), NEW y \in BOOLEAN, y => s.ep.configured
  PROVE  Fits(Cdc!SetControlLineStateCb(s, y))
<1> DEFINE d == Cdc!SetControlLineStateCb(s, y)
           u == [s.usb EXCEPT !.dtr = y]
<1>1. s \in Devs /\ s.usb \in Rings
  BY DevTurns DEF Fits
<1>2. d = [s EXCEPT !.usb = u]
  BY DEF Cdc!SetControlLineStateCb
<1>3. u \in Rings /\ u.tx = s.usb.tx /\ u.rx = s.usb.rx /\ u.dtr = y
  BY <1>1 DEF Rings
<1> HIDE DEF d, u
<1>4. d \in Devs /\ d.usb = u /\ d.ep = s.ep /\ d.line = s.line
  BY <1>1, <1>2, <1>3, DevTurns
<1>5. Fits(d)
  BY <1>3, <1>4 DEF Fits
<1>6. QED
  BY <1>5 DEF d

LEMMA StackFits ==
  ASSUME NEW s, Fits(s), NEW event \in {"none", "reset", "configure", "halt", "resume", "stall", "unstall",
                                        "open", "close"}
  PROVE  Fits(Cdc!Stack(s, event))
<1>1. s \in Devs /\ s.usb \in Rings /\ s.ep \in Endpoints
  BY DevTurns DEF Fits
<1>2. CASE event = "reset"
  <2> DEFINE r == Cdc!Spilled(Cdc!Dropped(s))
             e == [r.ep EXCEPT !.configured = FALSE, !.halted = FALSE, !.busy = FALSE, !.stalled = FALSE]
             x == [r EXCEPT !.ep = e]
             d == Cdc!Stack(s, event)
  <2>1. Fits(r) /\ r.ep.in = <<>>
    <3> DEFINE q == Cdc!Dropped(s)
    <3>1. Fits(q) /\ q.ep.in = <<>>
      BY DroppedFits
    <3> HIDE DEF q
    <3>2. Fits(Cdc!Spilled(q)) /\ Cdc!Spilled(q).ep.in = q.ep.in
      BY <3>1, SpilledFits
    <3>3. QED
      BY <3>1, <3>2 DEF q
  <2>2. d = [x EXCEPT !.usb = [x.usb EXCEPT !.dtr = FALSE]]
    <3>1. d = Cdc!ResetCb([r EXCEPT !.ep.configured = FALSE, !.ep.halted = FALSE, !.ep.busy = FALSE,
                                    !.ep.stalled = FALSE])
      BY <1>2 DEF Cdc!Stack
    <3> HIDE DEF r, d
    <3>2. [r EXCEPT !.ep.configured = FALSE, !.ep.halted = FALSE, !.ep.busy = FALSE, !.ep.stalled = FALSE] = x
      OBVIOUS
    <3> HIDE DEF x
    <3>3. d = Cdc!ResetCb(x)
      BY <3>1, <3>2
    <3>4. QED
      BY <3>3 DEF Cdc!ResetCb
  <2> HIDE DEF r, d
  <2>3. r \in Devs /\ r.ep \in Endpoints /\ r.usb \in Rings
    BY <2>1, DevTurns DEF Fits
  <2>4. /\ e \in Endpoints /\ e.in = <<>> /\ e.full = r.ep.full /\ e.out = r.ep.out
        /\ e.halted = FALSE
    BY <2>1, <2>3 DEF Endpoints
  <2> HIDE DEF e
  <2>5. x \in Devs /\ x.usb = r.usb /\ x.ep = e /\ x.line = r.line
    BY <2>3, <2>4, DevTurns
  <2> DEFINE u == [x.usb EXCEPT !.dtr = FALSE]
  <2>6. u \in Rings /\ u.tx = r.usb.tx /\ u.rx = r.usb.rx /\ u.dtr = FALSE
    BY <2>3, <2>5 DEF Rings
  <2> HIDE DEF u, x
  <2>7. d = [x EXCEPT !.usb = u]
    BY <2>2 DEF u
  <2>8. d \in Devs /\ d.usb = u /\ d.ep = e /\ d.line = r.line
    BY <2>5, <2>6, <2>7, DevTurns
  <2>9. Fits(d)
    BY <2>1, <2>4, <2>6, <2>8, FlagsFit
  <2>10. QED
    BY <2>9 DEF d
<1>3. ASSUME NEW r, Fits(r), NEW e \in Endpoints, e.in = r.ep.in, e.full = r.ep.full, e.out = r.ep.out,
             e.in # <<>> => e.busy, e.halted => e.in = <<>>, r.ep.configured => e.configured
      PROVE  Fits([r EXCEPT !.ep = e])
  <2> DEFINE d == [r EXCEPT !.ep = e]
  <2>1. d \in Devs /\ d.usb = r.usb /\ d.ep = e /\ d.line = r.line
    BY <1>3, DevTurns DEF Fits
  <2> HIDE DEF d
  <2>2. d.usb.dtr => d.ep.configured
    BY <1>3, <2>1 DEF Fits
  <2>3. Fits(d)
    BY <1>3, <2>1, <2>2, FlagsFit
  <2>4. QED
    BY <2>3 DEF d
<1>4. CASE event = "configure"
  <2> DEFINE e == [s.ep EXCEPT !.configured = TRUE]
  <2>1. Cdc!Stack(s, event) = [s EXCEPT !.ep = e]
    BY <1>4 DEF Cdc!Stack
  <2>2. /\ e \in Endpoints /\ e.in = s.ep.in /\ e.full = s.ep.full /\ e.out = s.ep.out /\ e.configured
        /\ e.busy = s.ep.busy /\ e.halted = s.ep.halted
    BY <1>1 DEF Endpoints
  <2> HIDE DEF e
  <2>3. QED
    BY <1>3, <2>1, <2>2 DEF Fits
<1>5. CASE event = "halt"
  <2> DEFINE r == Cdc!Dropped(s)
             e == [r.ep EXCEPT !.halted = TRUE, !.busy = TRUE]
  <2>1. Fits(r) /\ r.ep.in = <<>>
    BY DroppedFits
  <2>2. Cdc!Stack(s, event) = IF s.ep.configured THEN [r EXCEPT !.ep = e] ELSE s
    BY <1>5 DEF Cdc!Stack
  <2> HIDE DEF r
  <2>3. r.ep \in Endpoints
    BY <2>1, DevTurns DEF Fits
  <2>4. /\ e \in Endpoints /\ e.in = r.ep.in /\ e.full = r.ep.full /\ e.out = r.ep.out /\ e.busy
        /\ e.configured = r.ep.configured
    BY <2>3 DEF Endpoints
  <2> HIDE DEF e
  <2>5. Fits([r EXCEPT !.ep = e])
    BY <1>3, <2>1, <2>4
  <2>6. QED
    BY <2>2, <2>5
<1>6. CASE event = "resume"
  <2> DEFINE e == [s.ep EXCEPT !.halted = FALSE, !.busy = FALSE]
  <2>1. Cdc!Stack(s, event) = IF s.ep.halted THEN [s EXCEPT !.ep = e] ELSE s
    BY <1>6 DEF Cdc!Stack
  <2>2. /\ e \in Endpoints /\ e.in = s.ep.in /\ e.full = s.ep.full /\ e.out = s.ep.out /\ ~e.halted
        /\ e.configured = s.ep.configured
    BY <1>1 DEF Endpoints
  <2> HIDE DEF e
  <2>3. s.ep.halted => Fits([s EXCEPT !.ep = e])
    BY <1>3, <2>2 DEF Fits
  <2>4. QED
    BY <2>1, <2>3
<1>7. ASSUME NEW r, Fits(r), NEW t \in BOOLEAN
      PROVE  Fits([r EXCEPT !.ep.stalled = t])
  <2> DEFINE e == [r.ep EXCEPT !.stalled = t]
  <2>1. [r EXCEPT !.ep.stalled = t] = [r EXCEPT !.ep = e]
    OBVIOUS
  <2>2. r.ep \in Endpoints
    BY <1>7, DevTurns DEF Fits
  <2>3. /\ e \in Endpoints /\ e.in = r.ep.in /\ e.full = r.ep.full /\ e.out = r.ep.out
        /\ e.configured = r.ep.configured /\ e.busy = r.ep.busy /\ e.halted = r.ep.halted
    BY <2>2 DEF Endpoints
  <2> HIDE DEF e
  <2>4. e.in # <<>> => e.busy
    BY <1>7, <2>3 DEF Fits
  <2>5. e.halted => e.in = <<>>
    BY <1>7, <2>3 DEF Fits
  <2>6. Fits([r EXCEPT !.ep = e])
    BY <1>3, <1>7, <2>3, <2>4, <2>5
  <2>7. QED
    BY <2>1, <2>6
<1>8. CASE event = "stall"
  <2>1. Cdc!Stack(s, event) = IF s.ep.configured THEN [Cdc!Spilled(s) EXCEPT !.ep.stalled = TRUE] ELSE s
    BY <1>8 DEF Cdc!Stack
  <2>2. QED
    BY <1>7, <2>1, SpilledFits
<1>9. CASE event = "unstall"
  <2>1. Cdc!Stack(s, event) = [s EXCEPT !.ep.stalled = FALSE]
    BY <1>9 DEF Cdc!Stack
  <2>2. QED
    BY <1>7, <2>1
<1>10. CASE event = "open"
  <2>1. Cdc!Stack(s, event) = IF s.ep.configured THEN Cdc!SetControlLineStateCb(s, TRUE) ELSE s
    BY <1>10 DEF Cdc!Stack
  <2>2. QED
    BY <2>1, TerminalFits
<1>11. CASE event = "close"
  <2>1. Cdc!Stack(s, event) = Cdc!SetControlLineStateCb(s, FALSE)
    BY <1>11 DEF Cdc!Stack
  <2>2. QED
    BY <2>1, TerminalFits
<1>12. CASE event = "none"
  BY <1>12 DEF Cdc!Stack
<1>13. QED
  BY <1>2, <1>4, <1>5, <1>6, <1>8, <1>9, <1>10, <1>11, <1>12

\* As much as there is, or as fits.
LEMMA TakenFits ==
  ASSUME NEW n \in Nat, NEW m \in Nat
  PROVE  Cdc!Taken(n, m) \in 0 .. n /\ Cdc!Taken(n, m) \in 0 .. m
BY DEF Cdc!Taken

LEMMA DrainTxFits ==
  ASSUME NEW s, Fits(s)
  PROVE  Fits(Cdc!DrainTx(s))
<1> DEFINE n == Cdc!Taken(Len(s.usb.tx), EpLen)
           p == SubSeq(s.usb.tx, 1, n)
           q == Cdc!After(s.usb.tx, n)
           e == [s.ep EXCEPT !.in = p, !.busy = TRUE]
           u == [s.usb EXCEPT !.tx = q]
           x == [s EXCEPT !.ep = e]
           d == [x EXCEPT !.usb = u]
           free == s.ep.configured /\ ~s.ep.halted /\ ~s.ep.busy /\ s.usb.tx # <<>>
<1>1. s \in Devs /\ s.usb \in Rings /\ s.ep \in Endpoints
  BY DevTurns DEF Fits
<1>2. s.usb.tx \in Numbered /\ Len(s.usb.tx) \in Nat /\ EpLen \in Nat /\ RingSz \in Nat
  BY <1>1, Elements, UsbAssumption DEF Rings
<1>3. n \in 0 .. Len(s.usb.tx)
  BY <1>2, TakenFits
<1>4. Cdc!DrainTx(s) = IF free THEN [s EXCEPT !.ep.in = p, !.ep.busy = TRUE, !.usb.tx = q] ELSE s
  BY DEF Cdc!DrainTx
<1>5. [s EXCEPT !.ep.in = p, !.ep.busy = TRUE, !.usb.tx = q] = [x EXCEPT !.usb = [x.usb EXCEPT !.tx = q]]
  <2> HIDE DEF n, p, q
  <2>1. [s EXCEPT !.ep.in = p, !.ep.busy = TRUE, !.usb.tx = q]
          = [[s EXCEPT !.ep.in = p, !.ep.busy = TRUE] EXCEPT !.usb.tx = q]
    OBVIOUS
  <2>2. [s EXCEPT !.ep.in = p, !.ep.busy = TRUE] = x
    OBVIOUS
  <2> HIDE DEF x
  <2>3. QED
    BY <2>1, <2>2
<1> HIDE DEF n
<1>6. ASSUME free
      PROVE  /\ Stream(s.line.host, p, q, s.line.next - 1, s.line.lost)
             /\ Len(q) <= RingSz /\ p \in Numbered /\ q \in Numbered
  <2>1. Stream(s.line.host, <<>>, s.usb.tx, s.line.next - 1, s.line.lost)
    BY <1>6 DEF Fits
  <2>2. Stream(s.line.host, p, q, s.line.next - 1, s.line.lost)
    BY <1>3, <2>1, StreamLoads
  <2>3. Len(q) = Len(s.usb.tx) - n
    BY <1>2, <1>3, <2>1, Parted DEF Stream
  <2>4. Len(s.usb.tx) <= RingSz
    BY DEF Fits
  <2>5. Len(q) <= RingSz
    BY <1>2, <1>3, <2>3, <2>4
  <2>6. QED
    BY <2>2, <2>5 DEF Stream
<1> HIDE DEF p, q
<1>7. ASSUME free PROVE Fits(d)
  <2>1. p \in Numbered /\ q \in Numbered
    BY <1>6, <1>7
  <2>2. /\ e \in Endpoints /\ e.in = p /\ e.busy = TRUE /\ e.configured = s.ep.configured
        /\ e.halted = s.ep.halted /\ e.full = s.ep.full /\ e.out = s.ep.out
    BY <1>1, <2>1 DEF Endpoints
  <2>3. u \in Rings /\ u.tx = q /\ u.rx = s.usb.rx /\ u.dtr = s.usb.dtr
    BY <1>1, <2>1 DEF Rings
  <2> HIDE DEF e, u
  <2>4. x \in Devs /\ x.usb = s.usb /\ x.ep = e /\ x.line = s.line
    BY <1>1, <2>2, DevTurns
  <2> HIDE DEF x
  <2>5. d \in Devs /\ d.usb = u /\ d.ep = e /\ d.line = s.line
    BY <2>3, <2>4, DevTurns
  <2> HIDE DEF d
  <2>6. ~s.ep.halted
    BY <1>7
  <2>7. QED
    BY <1>6, <1>7, <2>2, <2>3, <2>5, <2>6 DEF Fits
<1>8. x.usb = s.usb
  BY <1>1
<1>9. QED
  BY <1>4, <1>5, <1>7, <1>8

LEMMA DrainRxFits ==
  ASSUME NEW s, Fits(s)
  PROVE  Fits(Cdc!DrainRx(s))
<1> DEFINE n == Cdc!Taken(Len(s.ep.out), RingSz - Len(s.usb.rx))
           v == s.usb.rx \o SubSeq(s.ep.out, 1, n)
           missed == s.line.missed \cup In(Cdc!After(s.ep.out, n))
           u == [s.usb EXCEPT !.rx = v]
           l == [s.line EXCEPT !.missed = missed]
           e == [s.ep EXCEPT !.full = FALSE, !.out = <<>>]
           x == [s EXCEPT !.usb = u]
           y == [x EXCEPT !.line = l]
           d == [y EXCEPT !.ep = e]
           armed == s.ep.configured /\ ~s.ep.stalled /\ s.ep.full
<1>1. s \in Devs /\ s.usb \in Rings /\ s.ep \in Endpoints /\ s.line \in Lines
  BY DevTurns DEF Fits
<1>2. /\ s.usb.rx \in Numbered /\ s.ep.out \in Numbered /\ Len(s.usb.rx) \in Nat /\ Len(s.ep.out) \in Nat
      /\ RingSz \in Nat /\ Len(s.usb.rx) <= RingSz
  <2>1. s.usb.rx \in Numbered /\ s.ep.out \in Numbered
    BY <1>1 DEF Rings, Endpoints
  <2>2. Len(s.usb.rx) \in Nat /\ Len(s.ep.out) \in Nat
    BY <2>1, Elements
  <2>3. QED
    BY <2>1, <2>2, UsbAssumption DEF Fits
<1>3. n \in 0 .. Len(s.ep.out) /\ n <= RingSz - Len(s.usb.rx)
  <2>1. RingSz - Len(s.usb.rx) \in Nat
    BY <1>2
  <2> DEFINE r == RingSz - Len(s.usb.rx)
             o == Len(s.ep.out)
  <2>2. r \in Nat /\ o \in Nat
    BY <1>2, <2>1
  <2> HIDE DEF r, o
  <2>3. Cdc!Taken(o, r) \in 0 .. o /\ Cdc!Taken(o, r) <= r
    BY <2>2, TakenFits
  <2>4. QED
    BY <2>3 DEF r, o
<1> HIDE DEF n
<1>4. /\ Stream(s.line.got, v, <<>>, s.line.arrived, missed) /\ Len(v) = Len(s.usb.rx) + n
      /\ Cdc!Range(Cdc!After(s.ep.out, n)) = In(Cdc!After(s.ep.out, n))
      /\ In(Cdc!After(s.ep.out, n)) \subseteq Nat
  <2>1. Stream(s.line.got, s.usb.rx, s.ep.out, s.line.arrived, s.line.missed)
    BY DEF Fits
  <2>2. Stream(s.line.got, v, <<>>, s.line.arrived, missed) /\ Len(v) = Len(s.usb.rx) + n
    <3> DEFINE g == s.line.got
               r == s.usb.rx
               o == s.ep.out
               a == s.line.arrived
               m == s.line.missed
    <3>1. Stream(g, r, o, a, m) /\ n \in 0 .. Len(o)
      BY <1>3, <2>1
    <3> HIDE DEF g, r, o, a, m
    <3>2. /\ Stream(g, r \o SubSeq(o, 1, n), <<>>, a, m \cup In(Cdc!After(o, n)))
          /\ Len(r \o SubSeq(o, 1, n)) = Len(r) + n
      BY <3>1, StreamDrains
    <3>3. QED
      BY <3>2 DEF g, r, o, a, m
  <2>3. Rising(s.ep.out)
    BY <2>1 DEF Stream
  <2>4. Cdc!After(s.ep.out, n) \in Numbered
    BY <1>2, <1>3, <2>3, Parted
  <2>5. QED
    BY <2>2, <2>4, Elements
<1>5. Cdc!DrainRx(s) =
        IF armed
        THEN [s EXCEPT !.usb.rx = v, !.line.missed = s.line.missed \cup Cdc!Range(Cdc!After(s.ep.out, n)),
                       !.ep.full = FALSE, !.ep.out = <<>>]
        ELSE s
  <2>1. s = [s EXCEPT !.usb.rx = s.usb.rx] /\ s.line = [s.line EXCEPT !.missed = s.line.missed]
    BY <1>1 DEF Devs, Rings, Lines
  <2>2. QED
    BY <1>1 DEF Cdc!DrainRx, n
<1>6. v \in Numbered /\ missed \in SUBSET Nat /\ Len(v) <= RingSz
  <2>1. missed \in SUBSET Nat
    BY <1>1, <1>4 DEF Lines
  <2>2. v \in Numbered
    BY <1>4 DEF Stream
  <2>3. Len(v) = Len(s.usb.rx) + n
    BY <1>4
  <2> HIDE DEF v, missed
  <2> DEFINE k == Len(v)
             r == Len(s.usb.rx)
  <2>4. k = r + n /\ r \in Nat /\ n \in Int /\ RingSz \in Nat /\ n <= RingSz - r
    BY <1>2, <1>3, <2>3
  <2> HIDE DEF k, r
  <2>5. k <= RingSz
    BY <2>4
  <2>6. QED
    BY <2>1, <2>2, <2>5 DEF k
<1>7. [s EXCEPT !.usb.rx = v, !.line.missed = s.line.missed \cup Cdc!Range(Cdc!After(s.ep.out, n)),
                !.ep.full = FALSE, !.ep.out = <<>>]
        = [y EXCEPT !.ep = [y.ep EXCEPT !.full = FALSE, !.out = <<>>]]
  <2>1. s.line.missed \cup Cdc!Range(Cdc!After(s.ep.out, n)) = missed
    BY <1>4
  <2> HIDE DEF v, missed
  <2>2. [s EXCEPT !.usb.rx = v, !.line.missed = missed, !.ep.full = FALSE, !.ep.out = <<>>]
          = [[s EXCEPT !.usb.rx = v, !.line.missed = missed] EXCEPT !.ep.full = FALSE, !.ep.out = <<>>]
    OBVIOUS
  <2>3. [s EXCEPT !.usb.rx = v, !.line.missed = missed] = [[s EXCEPT !.usb.rx = v] EXCEPT !.line.missed = missed]
    OBVIOUS
  <2>4. [s EXCEPT !.usb.rx = v] = x
    OBVIOUS
  <2>5. x.line = s.line
    BY <1>1
  <2> HIDE DEF x
  <2>6. [x EXCEPT !.line.missed = missed] = y
    BY <2>5
  <2> HIDE DEF y
  <2>7. [y EXCEPT !.ep.full = FALSE, !.ep.out = <<>>] = [y EXCEPT !.ep = [y.ep EXCEPT !.full = FALSE, !.out = <<>>]]
    OBVIOUS
  <2>8. QED
    BY <2>1, <2>2, <2>3, <2>4, <2>6, <2>7
<1>8. Stream(s.line.got, v, <<>>, s.line.arrived, missed)
  BY <1>4
<1> HIDE DEF v, missed
<1>9. u \in Rings /\ u.tx = s.usb.tx /\ u.rx = v /\ u.dtr = s.usb.dtr
  BY <1>1, <1>6 DEF Rings
<1>10. /\ l \in Lines /\ l.next = s.line.next /\ l.host = s.line.host /\ l.lost = s.line.lost
       /\ l.arrived = s.line.arrived /\ l.got = s.line.got /\ l.missed = missed
  BY <1>1, <1>6 DEF Lines
<1>11. /\ e \in Endpoints /\ e.in = s.ep.in /\ e.busy = s.ep.busy /\ e.configured = s.ep.configured
       /\ e.halted = s.ep.halted /\ e.out = <<>>
  BY <1>1, Nothing DEF Endpoints
<1> HIDE DEF u, l
<1>12. x \in Devs /\ x.usb = u /\ x.ep = s.ep /\ x.line = s.line
  BY <1>1, <1>9, DevTurns
<1> HIDE DEF x
<1>13. y \in Devs /\ y.usb = u /\ y.ep = s.ep /\ y.line = l
  BY <1>10, <1>12, DevTurns
<1> HIDE DEF y
<1>14. d = [y EXCEPT !.ep = [y.ep EXCEPT !.full = FALSE, !.out = <<>>]]
  BY <1>13
<1> HIDE DEF e
<1>15. d \in Devs /\ d.usb = u /\ d.ep = e /\ d.line = l
  BY <1>11, <1>13, DevTurns
<1>16. Fits(d)
  <2> HIDE DEF d
  <2>1. QED
    BY <1>6, <1>8, <1>9, <1>10, <1>11, <1>15 DEF Fits
<1>17. QED
  BY <1>5, <1>7, <1>14, <1>16

LEMMA UsbStarts == Init => UsbInv
<1> SUFFICES ASSUME Init PROVE UsbInv
  OBVIOUS
<1> DEFINE s == Cdc!State
<1>1. /\ usb = [pc |-> "idle", left |-> 0, tx |-> <<>>, rx |-> <<>>, dtr |-> FALSE]
      /\ ep = [configured |-> FALSE, halted |-> FALSE, busy |-> FALSE, in |-> <<>>, stalled |-> FALSE,
               full |-> FALSE, out |-> <<>>]
      /\ line = [next |-> 1, host |-> <<>>, lost |-> {}, arrived |-> 0, got |-> <<>>, missed |-> {}, bus |-> 0]
  BY DEF Init, Cdc!Init
<1>2. s = [usb |-> usb, ep |-> ep, line |-> line]
  BY DEF Cdc!State
<1> HIDE DEF s
<1>3. s.usb = usb /\ s.ep = ep /\ s.line = line
  BY <1>2
<1>4. usb \in Rings /\ ep \in Endpoints
  BY <1>1, Nothing DEF Rings, Endpoints
<1>5. line \in Lines
  BY <1>1, Nothing DEF Lines
<1>6. s \in Devs
  BY <1>2, <1>4, <1>5 DEF Devs
<1>7. Stream(<<>>, <<>>, <<>>, 0, {})
  <2>1. Before(<<>>, <<>>) /\ 1 .. 0 = {}
    BY Nothing DEF Before
  <2>2. QED
    BY <2>1, Nothing DEF Stream
<1>8. RingSz \in Nat /\ Len(<<>>) = 0
  BY UsbAssumption
<1>9. 1 - 1 = 0
  OBVIOUS
<1>10. /\ usb.tx = <<>> /\ usb.rx = <<>> /\ ~usb.dtr /\ ep.in = <<>> /\ ep.out = <<>>
       /\ line.next = 1 /\ line.host = <<>> /\ line.lost = {} /\ line.arrived = 0 /\ line.got = <<>> /\ line.missed = {}
  BY <1>1
<1>11. /\ Stream(line.host, ep.in, usb.tx, line.next - 1, line.lost)
       /\ Stream(line.got, usb.rx, ep.out, line.arrived, line.missed)
  BY <1>7, <1>9, <1>10
<1>12. /\ Len(usb.tx) <= RingSz /\ Len(usb.rx) <= RingSz
  BY <1>8, <1>10
<1>13. Fits(s)
  BY <1>3, <1>6, <1>10, <1>11, <1>12 DEF Fits
<1>14. QED
  BY <1>13 DEF UsbInv, s

\* The device by its variables, now and after the step.
LEMMA UsbParts ==
  /\ Cdc!State.usb = usb /\ Cdc!State.ep = ep /\ Cdc!State.line = line
  /\ Cdc!State'.usb = usb' /\ Cdc!State'.ep = ep' /\ Cdc!State'.line = line'
  /\ Cdc!State = [usb |-> usb, ep |-> ep, line |-> line]
  /\ Cdc!State' = [usb |-> usb', ep |-> ep', line |-> line']
BY DEF Cdc!State

LEMMA UsbHolds ==
  ASSUME UsbInv
  PROVE  /\ usb \in Rings /\ ep \in Endpoints /\ line \in Lines
         /\ Stream(line.host, ep.in, usb.tx, line.next - 1, line.lost)
         /\ Stream(line.got, usb.rx, ep.out, line.arrived, line.missed)
         /\ Len(usb.tx) <= RingSz /\ Len(usb.rx) <= RingSz /\ RingSz \in Nat
         /\ ep.in # <<>> => ep.busy
         /\ ep.halted => ep.in = <<>>
         /\ ep.out # <<>> => ep.full
         /\ usb.dtr => ep.configured
<1>1. Fits(Cdc!State) /\ RingSz \in Nat
  BY UsbAssumption DEF UsbInv
<1>2. Cdc!State \in Devs
  BY <1>1 DEF Fits
<1> DEFINE s == Cdc!State
<1>3. s.usb = usb /\ s.ep = ep /\ s.line = line
  BY UsbParts
<1>4. Fits(s) /\ s \in Devs
  BY <1>1, <1>2
<1> HIDE DEF s
<1>5. s.usb \in Rings /\ s.ep \in Endpoints /\ s.line \in Lines
  BY <1>4, DevTurns
<1>6. /\ Stream(s.line.host, s.ep.in, s.usb.tx, s.line.next - 1, s.line.lost)
      /\ Stream(s.line.got, s.usb.rx, s.ep.out, s.line.arrived, s.line.missed)
      /\ Len(s.usb.tx) <= RingSz /\ Len(s.usb.rx) <= RingSz
      /\ s.ep.in # <<>> => s.ep.busy
      /\ s.ep.halted => s.ep.in = <<>>
      /\ s.ep.out # <<>> => s.ep.full
      /\ s.usb.dtr => s.ep.configured
  BY <1>4 DEF Fits
<1>7. QED
  BY <1>1, <1>3, <1>5, <1>6

LEMMA UsbFits ==
  ASSUME usb' \in Rings, ep' \in Endpoints, line' \in Lines,
         Stream(line'.host, ep'.in, usb'.tx, line'.next - 1, line'.lost),
         Stream(line'.got, usb'.rx, ep'.out, line'.arrived, line'.missed),
         Len(usb'.tx) <= RingSz, Len(usb'.rx) <= RingSz,
         ep'.in # <<>> => ep'.busy, ep'.halted => ep'.in = <<>>, ep'.out # <<>> => ep'.full,
         usb'.dtr => ep'.configured
  PROVE  UsbInv'
<1> DEFINE s == Cdc!State'
<1>1. s = [usb |-> usb', ep |-> ep', line |-> line']
  BY UsbParts
<1> HIDE DEF s
<1>2. s \in Devs /\ s.usb = usb' /\ s.ep = ep' /\ s.line = line'
  BY <1>1 DEF Devs
<1>3. Fits(s)
  BY <1>2 DEF Fits
<1>4. QED
  BY <1>3 DEF UsbInv, s

\* The call under way does not matter to it, and what a service leaves fits.
LEMMA ServiceFits ==
  ASSUME UsbInv, NEW pc \in {"idle", "put", "flush"}, Cdc!Service(pc)
  PROVE  UsbInv'
<1>1. PICK event \in Cdc!Events :
        LET s == Cdc!DrainRx(Cdc!DrainTx(Cdc!Stack(Cdc!State, event)))
        IN  /\ usb' = [s.usb EXCEPT !.pc = pc] /\ ep' = s.ep
            /\ line' = [s.line EXCEPT !.bus = IF event \in Cdc!Rare THEN @ + 1 ELSE @]
  BY DEF Cdc!Service
<1>2. event \in {"none", "reset", "configure", "halt", "resume", "stall", "unstall", "open", "close"}
  BY DEF Cdc!Events, Cdc!Rare
<1> DEFINE a == Cdc!Stack(Cdc!State, event)
           b == Cdc!DrainTx(a)
           s == Cdc!DrainRx(b)
<1>3. Fits(a)
  BY <1>2, StackFits DEF UsbInv
<1> HIDE DEF a
<1>4. Fits(b)
  BY <1>3, DrainTxFits
<1> HIDE DEF b
<1>5. Fits(s)
  BY <1>4, DrainRxFits
<1>6. /\ usb' = [s.usb EXCEPT !.pc = pc] /\ ep' = s.ep
      /\ line' = [s.line EXCEPT !.bus = IF event \in Cdc!Rare THEN s.line.bus + 1 ELSE s.line.bus]
  BY <1>1 DEF a, b
<1> HIDE DEF s
<1>7. s.usb \in Rings /\ s.ep \in Endpoints /\ s.line \in Lines
  BY <1>5, DevTurns DEF Fits
<1>8. /\ usb' \in Rings /\ usb'.tx = s.usb.tx /\ usb'.rx = s.usb.rx /\ usb'.dtr = s.usb.dtr
  BY <1>6, <1>7 DEF Rings
<1>9. /\ line' \in Lines /\ line'.next = s.line.next /\ line'.host = s.line.host /\ line'.lost = s.line.lost
      /\ line'.arrived = s.line.arrived /\ line'.got = s.line.got /\ line'.missed = s.line.missed
  <2> DEFINE n == IF event \in Cdc!Rare THEN s.line.bus + 1 ELSE s.line.bus
  <2>1. n \in Int
    BY <1>7 DEF Lines
  <2> HIDE DEF n
  <2>2. line' = [s.line EXCEPT !.bus = n]
    BY <1>6 DEF n
  <2>3. QED
    BY <1>7, <2>1, <2>2 DEF Lines
<1>10. QED
  BY <1>5, <1>6, <1>7, <1>8, <1>9, UsbFits DEF Fits

LEMMA CallsFit ==
  ASSUME UsbInv, ep' = ep, line' = line, usb' \in Rings, usb'.tx = usb.tx, usb'.rx = usb.rx, usb'.dtr = usb.dtr
  PROVE  UsbInv'
BY UsbHolds, UsbFits

LEMMA PutByteFits ==
  ASSUME UsbInv, Cdc!PutByte
  PROVE  UsbInv'
<1>1. /\ usb \in Rings /\ line \in Lines /\ ep \in Endpoints /\ RingSz \in Nat
      /\ Stream(line.host, ep.in, usb.tx, line.next - 1, line.lost)
  BY UsbHolds
<1> DEFINE n == line.next - 1
           w == [i \in 1 .. 1 |-> n + i]
           tx == usb.tx \o w
           p == IF usb.left = 1 THEN "kick" ELSE "put"
           k == usb.left - 1
<1>2. n \in Nat /\ n + 1 = line.next
  BY <1>1 DEF Stream, Lines
<1>3. Stream(line.host, ep.in, tx, n + 1, line.lost)
  BY <1>1, StreamGrows
<1>4. usb.tx \in Numbered
  BY <1>1 DEF Rings
<1>5. Append(usb.tx, line.next) = tx /\ Len(tx) = Len(usb.tx) + 1 /\ tx \in Numbered
  <2>1. <<line.next>> = w /\ line.next \in Nat
    BY <1>2
  <2>2. Append(usb.tx, line.next) = usb.tx \o <<line.next>> /\ <<line.next>> \in Seq(Nat) /\ Len(<<line.next>>) = 1
    BY <1>4, <2>1, AppendIsConcat DEF Numbered
  <2>3. usb.tx \o <<line.next>> \in Seq(Nat) /\ Len(usb.tx \o <<line.next>>) = Len(usb.tx) + Len(<<line.next>>)
    BY <1>4, <2>2, ConcatProperties DEF Numbered
  <2>4. QED
    BY <2>1, <2>2, <2>3 DEF Numbered
<1>6. Len(usb.tx) < RingSz /\ Len(usb.tx) \in Nat
  BY <1>4, Elements DEF Cdc!PutByte
<1>7. Len(tx) <= RingSz
  BY <1>1, <1>5, <1>6
<1>8. /\ usb' = [usb EXCEPT !.tx = tx, !.left = k, !.pc = p] /\ ep' = ep
      /\ line' = [line EXCEPT !.next = line.next + 1]
  BY <1>5 DEF Cdc!PutByte
<1>9. p \in {"idle", "put", "kick", "flush"} /\ k \in Int
  BY <1>1 DEF Rings
<1> HIDE DEF p, k, tx
<1>10. usb' \in Rings /\ usb'.tx = tx /\ usb'.rx = usb.rx /\ usb'.dtr = usb.dtr
  BY <1>1, <1>5, <1>8, <1>9 DEF Rings
<1>11. /\ line' \in Lines /\ line'.next = line.next + 1 /\ line'.host = line.host /\ line'.lost = line.lost
       /\ line'.arrived = line.arrived /\ line'.got = line.got /\ line'.missed = line.missed
  BY <1>1, <1>8 DEF Lines
<1>12. line'.next - 1 = n + 1
  BY <1>1, <1>2, <1>11 DEF Lines
<1>13. Stream(line'.host, ep'.in, usb'.tx, line'.next - 1, line'.lost)
  BY <1>3, <1>8, <1>10, <1>11, <1>12
<1>14. QED
  BY <1>7, <1>8, <1>10, <1>11, <1>13, UsbHolds, UsbFits

LEMMA ReadFits ==
  ASSUME UsbInv, NEW max \in 1 .. RingSz, Cdc!Read(max)
  PROVE  UsbInv'
<1>1. /\ usb \in Rings /\ line \in Lines /\ ep \in Endpoints /\ RingSz \in Nat /\ Len(usb.rx) <= RingSz
      /\ Stream(line.got, usb.rx, ep.out, line.arrived, line.missed)
  BY UsbHolds
<1>2. usb.rx \in Numbered /\ Len(usb.rx) \in Nat
  <2>1. usb.rx \in Numbered
    BY <1>1 DEF Rings
  <2>2. QED
    BY <2>1, Elements
<1> DEFINE n == Cdc!Taken(max, Len(usb.rx))
           rx == Cdc!After(usb.rx, n)
           got == line.got \o SubSeq(usb.rx, 1, n)
<1>3. n \in 0 .. Len(usb.rx)
  <2>1. max \in Nat
    BY <1>1
  <2> DEFINE r == Len(usb.rx)
  <2>2. r \in Nat
    BY <1>2
  <2> HIDE DEF r
  <2>3. Cdc!Taken(max, r) \in 0 .. r
    BY <2>1, <2>2, TakenFits
  <2>4. QED
    BY <2>3 DEF r
<1>4. usb' = [usb EXCEPT !.rx = rx] /\ line' = [line EXCEPT !.got = got] /\ ep' = ep
  BY DEF Cdc!Read
<1> HIDE DEF n
<1>5. Stream(got, rx, ep.out, line.arrived, line.missed) /\ Len(rx) = Len(usb.rx) - n
  <2> DEFINE g == line.got
             r == usb.rx
             o == ep.out
             a == line.arrived
             m == line.missed
  <2>1. Stream(g, r, o, a, m) /\ n \in 0 .. Len(r)
    BY <1>1, <1>3
  <2> HIDE DEF g, r, o, a, m
  <2>2. Stream(g \o SubSeq(r, 1, n), Cdc!After(r, n), o, a, m) /\ Len(Cdc!After(r, n)) = Len(r) - n
    BY <2>1, StreamReads
  <2>3. QED
    BY <2>2 DEF g, r, o, a, m
<1> HIDE DEF rx, got
<1>6. rx \in Numbered /\ got \in Numbered
  BY <1>5 DEF Stream
<1>7. Len(rx) <= RingSz
  BY <1>1, <1>2, <1>3, <1>5
<1>8. usb' \in Rings /\ usb'.tx = usb.tx /\ usb'.rx = rx /\ usb'.dtr = usb.dtr
  BY <1>1, <1>4, <1>6 DEF Rings
<1>9. /\ line' \in Lines /\ line'.next = line.next /\ line'.host = line.host /\ line'.lost = line.lost
      /\ line'.arrived = line.arrived /\ line'.got = got /\ line'.missed = line.missed
  BY <1>1, <1>4, <1>6 DEF Lines
<1>10. QED
  BY <1>4, <1>5, <1>7, <1>8, <1>9, UsbHolds, UsbFits

LEMMA HostInFits ==
  ASSUME UsbInv, Cdc!HostIn
  PROVE  UsbInv'
<1>1. /\ usb \in Rings /\ line \in Lines /\ ep \in Endpoints
      /\ Stream(line.host, ep.in, usb.tx, line.next - 1, line.lost)
  BY UsbHolds
<1> DEFINE host == line.host \o ep.in
<1>2. Stream(host, <<>>, usb.tx, line.next - 1, line.lost)
  BY <1>1, StreamMoves
<1>3. usb' = usb /\ ep' = [ep EXCEPT !.busy = FALSE, !.in = <<>>] /\ line' = [line EXCEPT !.host = host]
  BY DEF Cdc!HostIn
<1> HIDE DEF host
<1>4. host \in Numbered
  BY <1>2 DEF Stream
<1>5. /\ ep' \in Endpoints /\ ep'.in = <<>> /\ ep'.configured = ep.configured /\ ep'.full = ep.full
      /\ ep'.out = ep.out
  BY <1>1, <1>3, Nothing DEF Endpoints
<1>6. /\ line' \in Lines /\ line'.next = line.next /\ line'.host = host /\ line'.lost = line.lost
      /\ line'.arrived = line.arrived /\ line'.got = line.got /\ line'.missed = line.missed
  BY <1>1, <1>3, <1>4 DEF Lines
<1>7. Stream(line'.host, ep'.in, usb'.tx, line'.next - 1, line'.lost)
  BY <1>2, <1>3, <1>5, <1>6
<1>8. QED
  BY <1>3, <1>5, <1>6, <1>7, UsbHolds, UsbFits

LEMMA HostOutFits ==
  ASSUME UsbInv, NEW n \in 1 .. EpLen, Cdc!HostOut(n)
  PROVE  UsbInv'
<1>1. /\ usb \in Rings /\ line \in Lines /\ ep \in Endpoints /\ EpLen \in Nat
      /\ Stream(line.got, usb.rx, ep.out, line.arrived, line.missed)
  BY UsbHolds, UsbAssumption
<1>2. ep.out = <<>>
  BY UsbHolds DEF Cdc!HostOut
<1> DEFINE a == line.arrived
           out == [i \in 1 .. n |-> a + i]
<1>3. n \in Nat /\ a \in Nat
  BY <1>1 DEF Stream
<1>4. out \in Numbered
  BY <1>3 DEF Numbered
<1>5. Stream(line.got, usb.rx, out, a + n, line.missed)
  <2>1. Stream(line.got, usb.rx, <<>>, a, line.missed)
    BY <1>1, <1>2
  <2> HIDE DEF a
  <2>2. Stream(line.got, usb.rx, <<>> \o out, a + n, line.missed)
    BY <1>3, <2>1, StreamGrows
  <2> HIDE DEF out
  <2>3. <<>> \o out = out
    BY <1>4, ConcatEmptySeq DEF Numbered
  <2>4. QED
    BY <2>2, <2>3
<1>6. usb' = usb /\ ep' = [ep EXCEPT !.full = TRUE, !.out = out] /\ line' = [line EXCEPT !.arrived = a + n]
  BY DEF Cdc!HostOut
<1> HIDE DEF out
<1>7. /\ ep' \in Endpoints /\ ep'.in = ep.in /\ ep'.configured = ep.configured /\ ep'.full
      /\ ep'.out = out /\ ep'.busy = ep.busy /\ ep'.halted = ep.halted
  BY <1>1, <1>4, <1>6 DEF Endpoints
<1>8. /\ line' \in Lines /\ line'.next = line.next /\ line'.host = line.host /\ line'.lost = line.lost
      /\ line'.arrived = a + n /\ line'.got = line.got /\ line'.missed = line.missed
  BY <1>1, <1>3, <1>6 DEF Lines
<1>9. Stream(line'.got, usb'.rx, ep'.out, line'.arrived, line'.missed)
  BY <1>5, <1>6, <1>7, <1>8
<1>10. QED
  BY <1>6, <1>7, <1>8, <1>9, UsbHolds, UsbFits

LEMMA UsbKeeps ==
  ASSUME UsbInv, Cdc!Next
  PROVE  UsbInv'
<1>1. usb \in Rings
  BY UsbHolds
<1>2. ASSUME NEW n \in 0 .. UsbBytes, Cdc!BeginWrite(n)
      PROVE  UsbInv'
  <2> DEFINE p == IF n = 0 THEN "kick" ELSE "put"
  <2>1. usb' = [usb EXCEPT !.pc = p, !.left = n] /\ ep' = ep /\ line' = line
    BY <1>2 DEF Cdc!BeginWrite
  <2>2. p \in {"idle", "put", "kick", "flush"} /\ n \in Int
    <3>1. p \in {"idle", "put", "kick", "flush"}
      OBVIOUS
    <3> HIDE DEF p
    <3>2. UsbBytes \in Nat
      BY UsbAssumption
    <3>3. n \in Int
      BY <3>2
    <3>4. QED
      BY <3>1, <3>3
  <2> HIDE DEF p
  <2>3. usb' \in Rings /\ usb'.tx = usb.tx /\ usb'.rx = usb.rx /\ usb'.dtr = usb.dtr
    BY <1>1, <2>1, <2>2 DEF Rings
  <2>4. QED
    BY <2>1, <2>3, CallsFit
<1>3. CASE Cdc!BeginFlush \/ Cdc!FlushReturns
  <2> DEFINE p == IF Cdc!BeginFlush THEN "flush" ELSE "idle"
  <2>1. usb' = [usb EXCEPT !.pc = p] /\ ep' = ep /\ line' = line
    BY <1>3 DEF Cdc!BeginFlush, Cdc!FlushReturns
  <2>2. p \in {"idle", "put", "kick", "flush"}
    OBVIOUS
  <2> HIDE DEF p
  <2>3. usb' \in Rings /\ usb'.tx = usb.tx /\ usb'.rx = usb.rx /\ usb'.dtr = usb.dtr
    BY <1>1, <2>1, <2>2 DEF Rings
  <2>4. QED
    BY <2>1, <2>3, CallsFit
<1>4. CASE Cdc!Poll \/ Cdc!PutWaits \/ Cdc!Kick \/ Cdc!FlushWaits
  BY <1>4, ServiceFits DEF Cdc!Poll, Cdc!PutWaits, Cdc!Kick, Cdc!FlushWaits
<1>5. QED
  BY <1>2, <1>3, <1>4, PutByteFits, ReadFits, HostInFits, HostOutFits DEF Cdc!Next, Cdc!Main, Cdc!Proceeds

\* For every size of ring and packet, whatever the host resets, halts, stalls and takes:
\* the bytes of each direction are in order and there once, and those not there are the
\* ones that went with a reset or a halt, or found the receive ring full; no ring
\* overflows, and a terminal is one of this configuration.
THEOREM StreamsKeep ==
  Spec => []( /\ LET sent == (line.host \o ep.in) \o usb.tx
                 IN  Rising(sent) /\ In(sent) = (1 .. line.next - 1) \ line.lost
              /\ LET taken == (line.got \o usb.rx) \o ep.out
                 IN  Rising(taken) /\ In(taken) = (1 .. line.arrived) \ line.missed
              /\ Len(usb.tx) <= RingSz /\ Len(usb.rx) <= RingSz
              /\ Cdc!NeverStale)
<1>1. UsbInv /\ [Next]_vars => UsbInv'
  <2> SUFFICES ASSUME UsbInv, [Next]_vars PROVE UsbInv'
    OBVIOUS
  <2>1. CASE UNCHANGED usbVars
    <3>1. usb' = usb /\ ep' = ep /\ line' = line
      BY <2>1 DEF usbVars
    <3>2. QED
      BY <3>1, UsbHolds, CallsFit
  <2>2. QED
    BY <2>1, Steps, UsbKeeps
<1>2. ASSUME NEW s, NEW t, NEW u, NEW n, NEW gone, Stream(s, t, u, n, gone)
      PROVE  Rising((s \o t) \o u) /\ In((s \o t) \o u) = (1 .. n) \ gone
  <2>1. Stream(s \o t, <<>>, u, n, gone)
    BY <1>2, StreamMoves
  <2> DEFINE v == s \o t
  <2>2. Stream(v, <<>>, u, n, gone)
    BY <2>1
  <2> HIDE DEF v
  <2>3. v \in Numbered /\ u \in Numbered /\ Rising(v) /\ Rising(u) /\ Before(v, u)
    BY <2>2 DEF Stream
  <2>4. Rising(v \o u) /\ In(v \o u) = In(v) \cup In(u)
    BY <2>3, Joined
  <2>5. In(v) \cup In(<<>>) \cup In(u) = (1 .. n) \ gone
    BY <2>2 DEF Stream
  <2>6. Rising(v \o u) /\ In(v \o u) = (1 .. n) \ gone
    BY <2>4, <2>5, Nothing
  <2>7. QED
    BY <2>6 DEF v
<1>3. UsbInv => /\ LET sent == (line.host \o ep.in) \o usb.tx
                   IN  Rising(sent) /\ In(sent) = (1 .. line.next - 1) \ line.lost
                /\ LET taken == (line.got \o usb.rx) \o ep.out
                   IN  Rising(taken) /\ In(taken) = (1 .. line.arrived) \ line.missed
                /\ Len(usb.tx) <= RingSz /\ Len(usb.rx) <= RingSz
                /\ Cdc!NeverStale
  <2> SUFFICES ASSUME UsbInv
               PROVE  /\ LET sent == (line.host \o ep.in) \o usb.tx
                         IN  Rising(sent) /\ In(sent) = (1 .. line.next - 1) \ line.lost
                      /\ LET taken == (line.got \o usb.rx) \o ep.out
                         IN  Rising(taken) /\ In(taken) = (1 .. line.arrived) \ line.missed
                      /\ Len(usb.tx) <= RingSz /\ Len(usb.rx) <= RingSz
                      /\ Cdc!NeverStale
    OBVIOUS
  <2>1. /\ Stream(line.host, ep.in, usb.tx, line.next - 1, line.lost)
        /\ Stream(line.got, usb.rx, ep.out, line.arrived, line.missed)
        /\ Len(usb.tx) <= RingSz /\ Len(usb.rx) <= RingSz /\ (usb.dtr => ep.configured)
    BY UsbHolds
  <2>2. /\ Rising((line.host \o ep.in) \o usb.tx)
        /\ In((line.host \o ep.in) \o usb.tx) = (1 .. line.next - 1) \ line.lost
    BY <1>2, <2>1
  <2>3. /\ Rising((line.got \o usb.rx) \o ep.out)
        /\ In((line.got \o usb.rx) \o ep.out) = (1 .. line.arrived) \ line.missed
    BY <1>2, <2>1
  <2>4. QED
    BY <2>1, <2>2, <2>3 DEF Cdc!NeverStale
<1>4. QED
  BY <1>1, <1>3, UsbStarts, PTL DEF Spec

\* A set is counted alike where the driver's module counts it.
LEMMA UsbCounts == ASSUME NEW S PROVE Cdc!Cardinality(S) = Cardinality(S)
  BY Zenon DEF Cdc!Cardinality, Cardinality

\* A flush returns only when the host has every byte written that was not lost with a
\* reset or a halt.
THEOREM FlushTells == Spec => Cdc!FlushMeans
<1>1. UsbInv /\ [Next]_vars =>
        [usb.pc = "flush" /\ usb'.pc = "idle"
           => Len(line.host) + Cdc!Cardinality(line.lost) = line.next - 1]_Cdc!usbVars
  <2> SUFFICES ASSUME UsbInv, [Next]_vars, usb.pc = "flush", usb'.pc = "idle"
               PROVE  Len(line.host) + Cardinality(line.lost) = line.next - 1
    BY UsbCounts
  <2>1. Cdc!FlushReturns
    <3>1. ~UNCHANGED usbVars
      BY DEF usbVars
    <3>2. Cdc!Next
      BY <3>1, Steps
    <3>3. ~Cdc!FlushWaits
      <4>1. ASSUME Cdc!Service("flush") PROVE usb'.pc = "flush"
        <5>1. PICK event \in Cdc!Events :
                LET s == Cdc!DrainRx(Cdc!DrainTx(Cdc!Stack(Cdc!State, event)))
                IN  usb' = [s.usb EXCEPT !.pc = "flush"]
          BY <4>1 DEF Cdc!Service
        <5>2. event \in {"none", "reset", "configure", "halt", "resume", "stall", "unstall", "open", "close"}
          BY DEF Cdc!Events, Cdc!Rare
        <5> DEFINE a == Cdc!Stack(Cdc!State, event)
                   b == Cdc!DrainTx(a)
                   s == Cdc!DrainRx(b)
        <5>3. Fits(a)
          BY <5>2, StackFits DEF UsbInv
        <5> HIDE DEF a
        <5>4. Fits(b)
          BY <5>3, DrainTxFits
        <5> HIDE DEF b
        <5>5. s.usb \in Rings
          BY <5>4, DrainRxFits, DevTurns DEF Fits
        <5>6. usb' = [s.usb EXCEPT !.pc = "flush"]
          BY <5>1 DEF a, b
        <5> HIDE DEF s
        <5>7. QED
          BY <5>5, <5>6 DEF Rings
      <4>2. QED
        BY <4>1 DEF Cdc!FlushWaits
    <3>4. QED
      BY <3>2, <3>3 DEF Cdc!Next, Cdc!Main, Cdc!Proceeds, Cdc!BeginWrite, Cdc!BeginFlush, Cdc!Read, Cdc!Poll,
           Cdc!PutByte, Cdc!PutWaits, Cdc!Kick, Cdc!HostIn, Cdc!HostOut
  <2>2. usb.tx = <<>> /\ ep.in = <<>> /\ Stream(line.host, ep.in, usb.tx, line.next - 1, line.lost)
    BY <2>1, UsbHolds DEF Cdc!FlushReturns, Cdc!Flushing
  <2> DEFINE n == line.next - 1
             host == line.host
             lost == line.lost
  <2>3. Stream(host, <<>>, <<>>, n, lost)
    BY <2>2
  <2> HIDE DEF n, host, lost
  <2>4. n \in Nat /\ host \in Numbered /\ Rising(host) /\ lost \subseteq 1 .. n /\ In(host) = (1 .. n) \ lost
    BY <2>3, Nothing DEF Stream
  <2>5. IsFiniteSet(1 .. n) /\ Cardinality(1 .. n) = n
    <3>1. 1 \in Int /\ n \in Int
      BY <2>4
    <3>2. IsFiniteSet(1 .. n) /\ Cardinality(1 .. n) = IF 1 > n THEN 0 ELSE n - 1 + 1
      BY <3>1, FS_Interval
    <3>3. QED
      BY <2>4, <3>2
  <2>6. IsFiniteSet(lost) /\ Cardinality(lost) \in Nat
    BY <2>4, <2>5, FS_Subset, FS_CardinalityType
  <2>7. IsFiniteSet(In(host)) /\ Cardinality(In(host)) = Len(host) /\ Len(host) \in Nat
    BY <2>4, AsMany, Elements
  <2>8. In(host) \cup lost = 1 .. n /\ In(host) \cap lost = {}
    BY <2>4
  <2>9. Cardinality(In(host) \cup lost) = Cardinality(In(host)) + Cardinality(lost) - Cardinality(In(host) \cap lost)
    BY <2>6, <2>7, FS_Union
  <2>10. Cardinality({}) = 0
    BY FS_EmptySet
  <2> DEFINE all == 1 .. n
             here == Cardinality(In(host))
             gone == Cardinality(lost)
  <2>11. Len(host) + Cardinality(lost) = n
    <3>1. all = In(host) \cup lost /\ {} = In(host) \cap lost
      BY <2>8
    <3>2. Cardinality(all) = n
      BY <2>5
    <3> HIDE DEF all
    <3>3. Cardinality(all) = here + gone - Cardinality({})
      BY <2>9, <3>1
    <3>4. n = here + gone - 0
      BY <2>10, <3>2, <3>3
    <3>5. here = Len(host) /\ gone \in Nat /\ Len(host) \in Nat
      BY <2>6, <2>7
    <3> HIDE DEF here, gone
    <3>6. Len(host) + gone = n
      BY <3>4, <3>5
    <3>7. QED
      BY <3>6 DEF gone
  <2>12. QED
    BY <2>11 DEF n, host, lost
<1>2. UsbInv /\ [Next]_vars => UsbInv'
  <2> SUFFICES ASSUME UsbInv, [Next]_vars PROVE UsbInv'
    OBVIOUS
  <2>1. CASE UNCHANGED usbVars
    <3>1. usb' = usb /\ ep' = ep /\ line' = line
      BY <2>1 DEF usbVars
    <3>2. QED
      BY <3>1, UsbHolds, CallsFit
  <2>2. QED
    BY <2>1, Steps, UsbKeeps
<1>3. QED
  BY <1>1, <1>2, UsbStarts, PTL DEF Spec, Cdc!FlushMeans
-----------------------------------------------------------------------------
\* The console: what remains of a CR is the mark that the last key was one.
EndsOf(keys) == {i \in DOMAIN keys : keys[i] = "CR" \/ (keys[i] = "LF" /\ ~(i > 1 /\ keys[i - 1] = "CR"))}
ConsoleInv ==
  /\ typed \in Seq(Con!Keys) /\ con \in [line : Seq(Con!Printing), last_was_cr : BOOLEAN]
  /\ Len(con.line) + 1 <= LineMax
  /\ con.last_was_cr <=> typed # <<>> /\ typed[Len(typed)] = "CR"
  /\ lines \in Seq(Seq(Con!Printing))
  /\ IsFiniteSet(EndsOf(typed)) /\ Len(lines) = Cardinality(EndsOf(typed))

\* One more key is an end of line or none, and no other key becomes one by it.
LEMMA KeyMore ==
  ASSUME NEW keys \in Seq(Con!Keys), NEW c \in Con!Keys
  PROVE  LET n == Len(keys) + 1
             ends == c = "CR" \/ (c = "LF" /\ ~(keys # <<>> /\ keys[Len(keys)] = "CR"))
         IN  /\ Append(keys, c) \in Seq(Con!Keys) /\ Append(keys, c) # <<>>
             /\ Len(Append(keys, c)) = n /\ Append(keys, c)[n] = c
             /\ EndsOf(Append(keys, c)) = EndsOf(keys) \cup (IF ends THEN {n} ELSE {})
             /\ n \notin EndsOf(keys)
<1> DEFINE n == Len(keys) + 1
           more == Append(keys, c)
           ends == c = "CR" \/ (c = "LF" /\ ~(keys # <<>> /\ keys[Len(keys)] = "CR"))
<1>1. /\ more \in Seq(Con!Keys) /\ Len(more) = n /\ more[n] = c /\ Len(keys) \in Nat
      /\ DOMAIN keys = 1 .. Len(keys) /\ DOMAIN more = 1 .. n
      /\ \A i \in 1 .. Len(keys) : more[i] = keys[i]
  BY AppendProperties, LenProperties
<1>2. keys # <<>> <=> n > 1
  <2>1. keys = <<>> <=> Len(keys) = 0
    BY EmptySeq
  <2>2. QED
    BY <1>1, <2>1
<1> HIDE DEF more
<1>3. \A i \in 1 .. Len(keys) : i \in EndsOf(more) <=> i \in EndsOf(keys)
  <2> TAKE i \in 1 .. Len(keys)
  <2>1. more[i] = keys[i] /\ i \in DOMAIN more /\ i \in DOMAIN keys
    BY <1>1
  <2>2. i > 1 => more[i - 1] = keys[i - 1]
    BY <1>1
  <2>3. QED
    BY <2>1, <2>2 DEF EndsOf
<1>4. n \in EndsOf(more) <=> ends
  <2>1. n \in DOMAIN more /\ more[n] = c
    BY <1>1
  <2>2. n > 1 => more[n - 1] = keys[Len(keys)]
    BY <1>1
  <2>3. QED
    BY <1>2, <2>1, <2>2 DEF EndsOf
<1>5. EndsOf(keys) \subseteq 1 .. Len(keys) /\ EndsOf(more) \subseteq (1 .. Len(keys)) \cup {n}
  <2>1. 1 .. n = (1 .. Len(keys)) \cup {n}
    BY <1>1
  <2>2. QED
    BY <1>1, <2>1 DEF EndsOf
<1>6. n \notin 1 .. Len(keys)
  BY <1>1
<1>7. EndsOf(more) = EndsOf(keys) \cup (IF ends THEN {n} ELSE {})
  <2> HIDE DEF ends, n
  <2>1. QED
    BY <1>3, <1>4, <1>5
<1>8. more # <<>>
  BY <1>1
<1>9. QED
  BY <1>1, <1>5, <1>6, <1>7, <1>8 DEF more

LEMMA ConsoleStarts == Init => ConsoleInv
<1> SUFFICES ASSUME Init PROVE ConsoleInv
  OBVIOUS
<1>1. con = [line |-> <<>>, last_was_cr |-> FALSE] /\ typed = <<>> /\ lines = <<>>
  BY DEF Init, Con!Init
<1>2. LineMax \in Nat \ {0}
  BY ConsoleAssumption
<1>3. EndsOf(<<>>) = {}
  BY DEF EndsOf
<1>4. IsFiniteSet({}) /\ Cardinality({}) = 0
  BY FS_EmptySet
<1>5. <<>> \in Seq(Con!Keys) /\ <<>> \in Seq(Con!Printing) /\ <<>> \in Seq(Seq(Con!Printing)) /\ Len(<<>>) = 0
  OBVIOUS
<1> DEFINE none == <<>>
<1>6. /\ none \in Seq(Con!Keys) /\ none \in Seq(Con!Printing) /\ none \in Seq(Seq(Con!Printing)) /\ Len(none) = 0
      /\ con = [line |-> none, last_was_cr |-> FALSE] /\ typed = none /\ lines = none /\ EndsOf(none) = {}
      /\ ~(none # <<>>)
  BY <1>1, <1>3, <1>5
<1> HIDE DEF none
<1>7. con \in [line : Seq(Con!Printing), last_was_cr : BOOLEAN] /\ con.line = none /\ con.last_was_cr = FALSE
  BY <1>6
<1>8. Len(con.line) + 1 <= LineMax
  BY <1>2, <1>6, <1>7
<1>9. IsFiniteSet(EndsOf(typed)) /\ Len(lines) = Cardinality(EndsOf(typed))
  BY <1>4, <1>6
<1>10. con.last_was_cr <=> typed # <<>> /\ typed[Len(typed)] = "CR"
  BY <1>6, <1>7
<1>11. typed \in Seq(Con!Keys) /\ lines \in Seq(Seq(Con!Printing))
  BY <1>6
<1>12. QED
  BY <1>7, <1>8, <1>9, <1>10, <1>11 DEF ConsoleInv

\* What a key leaves: a line that fits, the mark, and a line dispatched if it ends one.
LEMMA KeyFits ==
  ASSUME ConsoleInv, NEW c \in Con!Keys, typed' = Append(typed, c), NEW l \in Seq(Con!Printing),
         Len(l) + 1 <= LineMax, NEW b \in BOOLEAN, con' = [line |-> l, last_was_cr |-> b], b <=> c = "CR",
         IF c = "CR" \/ (c = "LF" /\ ~con.last_was_cr) THEN lines' = Append(lines, con.line) ELSE lines' = lines
  PROVE  ConsoleInv'
<1> DEFINE n == Len(typed) + 1
           ends == c = "CR" \/ (c = "LF" /\ ~con.last_was_cr)
           old == EndsOf(typed)
           new == EndsOf(typed')
<1>1. /\ typed \in Seq(Con!Keys) /\ con.line \in Seq(Con!Printing) /\ lines \in Seq(Seq(Con!Printing))
      /\ con.last_was_cr <=> typed # <<>> /\ typed[Len(typed)] = "CR"
      /\ IsFiniteSet(old) /\ Len(lines) = Cardinality(old)
  BY DEF ConsoleInv
<1>2. /\ typed' \in Seq(Con!Keys) /\ typed' # <<>> /\ Len(typed') = n /\ typed'[n] = c
      /\ new = old \cup (IF ends THEN {n} ELSE {}) /\ n \notin old
  BY <1>1, KeyMore
<1>3. /\ con' \in [line : Seq(Con!Printing), last_was_cr : BOOLEAN] /\ con'.line = l /\ con'.last_was_cr = b
  OBVIOUS
<1>4. con'.last_was_cr <=> typed' # <<>> /\ typed'[Len(typed')] = "CR"
  BY <1>2, <1>3
<1>5. lines' \in Seq(Seq(Con!Printing)) /\ IsFiniteSet(new) /\ Len(lines') = Cardinality(new)
  <2> HIDE DEF n, old, new
  <2>1. CASE ends
    <3> DEFINE S == Seq(Con!Printing)
               x == con.line
    <3>1. x \in S /\ lines \in Seq(S) /\ lines' = Append(lines, x)
      BY <1>1, <2>1
    <3>2. lines' \in Seq(S) /\ Len(lines') = Len(lines) + 1
      <4> HIDE DEF S, x, ends
      <4>1. QED
        BY <3>1, AppendProperties
    <3>3. new = old \cup {n} /\ IsFiniteSet(old) /\ n \notin old
      BY <1>1, <1>2, <2>1
    <3>4. IsFiniteSet(old \cup {n}) /\ Cardinality(old \cup {n}) = Cardinality(old) + 1
      BY <3>3, FS_AddElement
    <3>5. IsFiniteSet(new) /\ Cardinality(new) = Cardinality(old) + 1
      BY <3>3, <3>4
    <3>6. QED
      BY <1>1, <3>2, <3>5
  <2>2. CASE ~ends
    <3>1. lines' = lines
      BY <2>2
    <3>2. new = old
      BY <1>2, <2>2
    <3>3. QED
      BY <1>1, <3>1, <3>2
  <2>3. QED
    BY <2>1, <2>2
<1>6. QED
  BY <1>2, <1>3, <1>4, <1>5 DEF ConsoleInv

LEMMA ConsoleKeeps ==
  ASSUME ConsoleInv, Con!Next
  PROVE  ConsoleInv'
<1>1. /\ con \in [line : Seq(Con!Printing), last_was_cr : BOOLEAN] /\ con.line \in Seq(Con!Printing)
      /\ Len(con.line) + 1 <= LineMax /\ Len(con.line) \in Nat /\ LineMax \in Nat \ {0}
      /\ con = [line |-> con.line, last_was_cr |-> con.last_was_cr]
  BY ConsoleAssumption, LenProperties DEF ConsoleInv
<1>2. <<>> \in Seq(Con!Printing) /\ Len(<<>>) + 1 <= LineMax
  BY <1>1
<1>3. {"CR", "LF", "BS"} \subseteq Con!Keys /\ Con!Printing \subseteq Con!Keys
  BY DEF Con!Keys
<1>4. CASE Con!NewlineAfterCr
  <2> DEFINE l == con.line
  <2>1. /\ typed' = Append(typed, "LF") /\ con.last_was_cr /\ lines' = lines
        /\ con' = [con EXCEPT !.last_was_cr = FALSE]
    BY <1>4 DEF Con!NewlineAfterCr, Con!Typed
  <2>2. l \in Seq(Con!Printing) /\ Len(l) + 1 <= LineMax
    BY <1>1
  <2> HIDE DEF l
  <2>3. con' = [line |-> l, last_was_cr |-> FALSE]
    BY <1>1, <2>1 DEF l
  <2>4. QED
    BY <1>3, <2>1, <2>2, <2>3, KeyFits
<1>5. ASSUME NEW c \in {"CR", "LF"}, Con!Enter(c)
      PROVE  ConsoleInv'
  <2>1. /\ typed' = Append(typed, c) /\ ~(c = "LF" /\ con.last_was_cr) /\ lines' = Append(lines, con.line)
        /\ con' = [line |-> <<>>, last_was_cr |-> c = "CR"]
    BY <1>5 DEF Con!Enter, Con!Typed, Con!Dispatch
  <2> DEFINE b == c = "CR"
  <2>2. b \in BOOLEAN /\ (b <=> c = "CR") /\ con' = [line |-> <<>>, last_was_cr |-> b] /\ c \in Con!Keys
    BY <1>3, <2>1
  <2>3. IF c = "CR" \/ (c = "LF" /\ ~con.last_was_cr) THEN lines' = Append(lines, con.line) ELSE lines' = lines
    BY <2>1
  <2> HIDE DEF b
  <2>4. QED
    BY <1>2, <2>1, <2>2, <2>3, KeyFits
<1>6. CASE Con!Erase
  <2> DEFINE l == IF con.line = <<>> THEN <<>> ELSE Con!Front(con.line)
  <2>1. /\ typed' = Append(typed, "BS") /\ lines' = lines
        /\ con' = [line |-> l, last_was_cr |-> FALSE]
    BY <1>6 DEF Con!Erase, Con!Typed
  <2>2. l \in Seq(Con!Printing) /\ Len(l) <= Len(con.line) /\ Len(l) \in Nat
    <3>1. CASE con.line = <<>>
      BY <1>1, <3>1
    <3>2. CASE con.line # <<>>
      <4> DEFINE s == con.line
                 f == SubSeq(s, 1, Len(s) - 1)
      <4>1. s \in Seq(Con!Printing) /\ Len(s) \in Nat /\ Len(s) # 0 /\ \A i \in 1 .. Len(s) : s[i] \in Con!Printing
        BY <1>1, <3>2, EmptySeq, ElementOfSeq
      <4>2. l = f
        BY <3>2 DEF Con!Front
      <4> HIDE DEF s, l
      <4>3. /\ SubSeq(s, 1, Len(s) - 1) \in Seq(Con!Printing)
            /\ Len(SubSeq(s, 1, Len(s) - 1)) = IF 1 <= Len(s) - 1 THEN (Len(s) - 1) - 1 + 1 ELSE 0
        BY <4>1, SubSeqProperties
      <4>4. QED
        BY <4>1, <4>2, <4>3 DEF s
    <3>3. QED
      BY <3>1, <3>2
  <2>3. Len(l) + 1 <= LineMax
    BY <1>1, <2>2
  <2> HIDE DEF l
  <2>4. QED
    BY <1>3, <2>1, <2>2, <2>3, KeyFits
<1>7. ASSUME NEW c \in Con!Printing, Con!Character(c)
      PROVE  ConsoleInv'
  <2> DEFINE l == IF Len(con.line) < LineMax - 1 THEN Append(con.line, c) ELSE con.line
  <2>1. /\ typed' = Append(typed, c) /\ lines' = lines
        /\ con' = [line |-> l, last_was_cr |-> FALSE]
    BY <1>7 DEF Con!Character, Con!Typed
  <2>2. l \in Seq(Con!Printing) /\ Len(l) + 1 <= LineMax
    <3>1. Append(con.line, c) \in Seq(Con!Printing) /\ Len(Append(con.line, c)) = Len(con.line) + 1
      BY <1>1, AppendProperties
    <3>2. QED
      BY <1>1, <3>1
  <2> HIDE DEF l
  <2>3. c \notin {"CR", "LF"} /\ c \in Con!Keys
    BY <1>3, ConsoleAssumption DEF Con!Printing, Con!Blank
  <2>4. QED
    BY <2>1, <2>2, <2>3, KeyFits
<1>8. QED
  BY <1>4, <1>5, <1>6, <1>7 DEF Con!Next

\* A set is counted alike where the console's module counts it.
LEMMA ConsoleCounts == ASSUME NEW S PROVE Con!Cardinality(S) = Cardinality(S)
  BY Zenon DEF Con!Cardinality, Cardinality

\* For every sequence of keys and size of the buffer: one line is dispatched for every
\* end of line, spelled CR, LF or CR LF, and the line with its terminator fits.
THEOREM LinesAsTyped == Spec => [](Con!TypeOK /\ Con!OneLinePerEnd)
<1>1. ConsoleInv /\ [Next]_vars => ConsoleInv'
  <2> SUFFICES ASSUME ConsoleInv, [Next]_vars PROVE ConsoleInv'
    OBVIOUS
  <2>1. CASE UNCHANGED conVars
    BY <2>1 DEF conVars, ConsoleInv
  <2>2. QED
    BY <2>1, Steps, ConsoleKeeps
<1>2. ConsoleInv => Con!TypeOK /\ Con!OneLinePerEnd
  <2> SUFFICES ASSUME ConsoleInv PROVE Con!TypeOK /\ Con!OneLinePerEnd
    OBVIOUS
  <2>1. Con!TypeOK
    BY DEF ConsoleInv, Con!TypeOK
  <2>2. Len(lines) = Con!Cardinality(EndsOf(typed))
    BY ConsoleCounts DEF ConsoleInv
  <2>3. QED
    BY <2>1, <2>2 DEF Con!OneLinePerEnd, EndsOf
<1>3. QED
  BY <1>1, <1>2, ConsoleStarts, PTL DEF Spec
-----------------------------------------------------------------------------
\* The tick: a span of milliseconds in phases.
Span(n) == n * Phases

LEMMA Spans ==
  /\ Phases \in Nat \ {0} /\ Span(0) = 0
  /\ \A n \in Int : Span(n) \in Int /\ Span(n + 1) = Span(n) + Phases
  /\ \A m, n \in Int : m <= n => Span(m) <= Span(n)
<1>1. Phases \in Nat \ {0}
  BY TickAssumption
<1> DEFINE p == Phases
<1>2. p \in Nat
  BY <1>1
<1> HIDE DEF p
<1>3. 0 * p = 0 /\ \A n \in Int : n * p \in Int /\ (n + 1) * p = n * p + p
  BY <1>2
<1>4. \A m, n \in Int : m <= n => m * p <= n * p
  BY <1>2
<1>5. QED
  BY <1>1, <1>3, <1>4 DEF Span, p

LEMMA LongestDelay ==
  ASSUME NEW ms \in Delays
  PROVE  ms \in Nat /\ Tck!Longest \in Nat /\ Span(ms) <= Tck!Longest
<1>1. Delays \subseteq Nat /\ \E longest \in Delays : \A n \in Delays : longest >= n
  BY TickAssumption
<1>2. Tck!Max(Delays) \in Delays /\ \A n \in Delays : Tck!Max(Delays) >= n
  BY <1>1 DEF Tck!Max
<1> DEFINE longest == Tck!Max(Delays)
<1>3. Tck!Longest = Span(longest)
  BY DEF Tck!Longest, Span
<1>4. longest \in Nat /\ ms \in Nat /\ ms <= longest
  BY <1>1, <1>2
<1> HIDE DEF longest
<1>5. Span(ms) <= Span(longest) /\ Span(0) <= Span(longest) /\ Span(longest) \in Int /\ Span(0) = 0
  <2>1. ms \in Int /\ longest \in Int /\ 0 \in Int /\ 0 <= longest
    BY <1>4
  <2>2. \A m, n \in Int : m <= n => Span(m) <= Span(n)
    BY Spans
  <2>3. Span(ms) <= Span(longest) /\ Span(0) <= Span(longest)
    BY <1>4, <2>1, <2>2
  <2>4. QED
    BY <2>1, <2>3, Spans
<1>6. QED
  BY <1>3, <1>4, <1>5

\* The bytes of a count, and what one of them may hold.
Counters == {Tck!Bytes(n) : n \in 0 .. Tck!Wrapped - 1}
Digits == {Tck!Bytes(n)[i] : n \in 0 .. Tck!Wrapped - 1, i \in 0 .. Places - 1}

LEMMA Counted ==
  /\ Tck!Wrapped \in Nat \ {0} /\ Places \in Nat \ {0}
  /\ \A n \in 0 .. Tck!Wrapped - 1 : Tck!Bytes(n) \in Counters /\ Tck!Value(Tck!Bytes(n)) = n
  /\ \A b \in Counters : Tck!Value(b) \in 0 .. Tck!Wrapped - 1 /\ b \in [0 .. Places - 1 -> Digits]
<1>1. Tck!Wrapped \in Nat \ {0} /\ Places \in Nat \ {0}
  BY DigitsAssumption, TickAssumption
<1>2. \A n \in 0 .. Tck!Wrapped - 1 : Tck!Bytes(n) \in Counters /\ Tck!Value(Tck!Bytes(n)) = n
  BY DigitsAssumption DEF Counters
<1>3. ASSUME NEW n \in 0 .. Tck!Wrapped - 1
      PROVE  Tck!Bytes(n) \in [0 .. Places - 1 -> Digits]
  <2>1. Tck!Bytes(n) = [i \in 0 .. Places - 1 |-> Tck!Bytes(n)[i]]
    BY Zenon DEF Tck!Bytes
  <2>2. \A i \in 0 .. Places - 1 : Tck!Bytes(n)[i] \in Digits
    BY DEF Digits
  <2>3. QED
    BY <2>1, <2>2
<1>4. QED
  BY <1>1, <1>2, <1>3 DEF Counters

\* Between the steps: interrupts are off exactly while main looks, so that what it has
\* read stands; and as many phases have passed since the delay was called as the
\* milliseconds counted since its first look have, but for the first of them.
Looks == {"get", "first", "again"}
Ticks == [ms : Counters, flag : BOOLEAN, gie : BOOLEAN]
Readers == [pc : {"idle", "get", "called", "first", "wait", "again"}, got : [0 .. Places - 1 -> Digits],
            at : 0 .. Places, prev : BOOLEAN, t0 : 0 .. Tck!Wrapped - 1, ms : Nat]
Times == [phase : 0 .. Phases - 1, ms : 0 .. Tck!Wrapped - 1, since : Nat, idle : Nat]
Pending == IF tick.flag THEN 1 ELSE 0
Counting == (Tck!Value(tick.ms) - reader.t0) % Tck!Wrapped
LooksSafely ==
  IF reader.pc \in Looks
  THEN ~tick.gie /\ reader.prev /\ \A i \in 0 .. reader.at - 1 : reader.got[i] = tick.ms[i]
  ELSE tick.gie
TimeHasPassed ==
  \/ reader.pc \in {"idle", "get"}
  \/ elapsed.since = Tck!Longest
  \/ reader.pc \in {"called", "first"} /\ (tick.flag => elapsed.since >= 1)
  \/ reader.pc \in {"wait", "again"} /\ elapsed.since >= Span(Counting + Pending - 1) + elapsed.phase + 1
TickInv ==
  /\ tick \in Ticks /\ reader \in Readers /\ elapsed \in Times
  /\ Tck!CountIsTrue
  /\ tick.flag => elapsed.phase = 0
  /\ LooksSafely
  /\ reader.pc \in {"idle", "get"} \/ reader.ms \in Delays
  /\ TimeHasPassed

LEMMA Remainders ==
  ASSUME NEW m \in Nat \ {0}
  PROVE  /\ \A n \in 0 .. m - 1 : n % m = n
         /\ m % m = 0
         /\ \A n \in Int : n % m \in 0 .. m - 1
  OBVIOUS

LEMMA TickStarts == Init => TickInv
<1> SUFFICES ASSUME Init PROVE TickInv
  OBVIOUS
<1> DEFINE none == Tck!Bytes(0)
<1>1. /\ tick = [ms |-> none, flag |-> FALSE, gie |-> TRUE]
      /\ reader = [pc |-> "idle", got |-> none, at |-> 0, prev |-> FALSE, t0 |-> 0, ms |-> 0]
      /\ elapsed = [phase |-> 0, ms |-> 0, since |-> 0, idle |-> 0]
  BY DEF Init, Tck!Init, Tck!Idle
<1> HIDE DEF none
<1>2. 0 \in 0 .. Tck!Wrapped - 1 /\ 0 \in 0 .. Phases - 1 /\ 0 \in 0 .. Places
  BY Counted, Spans
<1>3. none \in Counters /\ none \in [0 .. Places - 1 -> Digits] /\ Tck!Value(none) = 0
  BY <1>2, Counted DEF none
<1>4. tick \in Ticks
  BY <1>1, <1>3 DEF Ticks
<1>5. reader \in Readers
  BY <1>1, <1>2, <1>3 DEF Readers
<1>6. elapsed \in Times
  BY <1>1, <1>2 DEF Times
<1>7. Tck!CountIsTrue
  <2>1. 0 % Tck!Wrapped = 0
    BY <1>2, Counted, Remainders
  <2>2. QED
    BY <1>1, <1>3, <2>1 DEF Tck!CountIsTrue
<1>8. QED
  BY <1>1, <1>4, <1>5, <1>6, <1>7 DEF TickInv, LooksSafely, TimeHasPassed, Looks

\* What the steps need to know of the state.
LEMMA TickParts ==
  ASSUME TickInv
  PROVE  /\ tick = [ms |-> tick.ms, flag |-> tick.flag, gie |-> tick.gie]
         /\ tick.ms \in Counters /\ tick.flag \in BOOLEAN /\ tick.gie \in BOOLEAN
         /\ elapsed = [phase |-> elapsed.phase, ms |-> elapsed.ms, since |-> elapsed.since, idle |-> elapsed.idle]
         /\ elapsed.phase \in 0 .. Phases - 1 /\ elapsed.ms \in 0 .. Tck!Wrapped - 1 /\ elapsed.since \in Nat
         /\ elapsed.idle \in Nat
         /\ reader.pc \in {"idle", "get", "called", "first", "wait", "again"}
         /\ reader.got \in [0 .. Places - 1 -> Digits] /\ reader.at \in 0 .. Places /\ reader.prev \in BOOLEAN
         /\ reader.t0 \in 0 .. Tck!Wrapped - 1 /\ reader.ms \in Nat
         /\ Tck!Value(tick.ms) \in 0 .. Tck!Wrapped - 1
         /\ elapsed.ms = (Tck!Value(tick.ms) + Pending) % Tck!Wrapped
         /\ Counting \in 0 .. Tck!Wrapped - 1 /\ Pending \in {0, 1}
<1>1. tick \in Ticks /\ reader \in Readers /\ elapsed \in Times
  BY DEF TickInv
<1>2. /\ tick = [ms |-> tick.ms, flag |-> tick.flag, gie |-> tick.gie]
      /\ tick.ms \in Counters /\ tick.flag \in BOOLEAN /\ tick.gie \in BOOLEAN
  BY <1>1 DEF Ticks
<1>3. /\ elapsed = [phase |-> elapsed.phase, ms |-> elapsed.ms, since |-> elapsed.since, idle |-> elapsed.idle]
      /\ elapsed.phase \in 0 .. Phases - 1 /\ elapsed.ms \in 0 .. Tck!Wrapped - 1 /\ elapsed.since \in Nat
      /\ elapsed.idle \in Nat
  BY <1>1 DEF Times
<1>4. /\ reader.pc \in {"idle", "get", "called", "first", "wait", "again"}
      /\ reader.got \in [0 .. Places - 1 -> Digits] /\ reader.at \in 0 .. Places /\ reader.prev \in BOOLEAN
      /\ reader.t0 \in 0 .. Tck!Wrapped - 1 /\ reader.ms \in Nat
  BY <1>1 DEF Readers
<1>5. Tck!Value(tick.ms) \in 0 .. Tck!Wrapped - 1
  BY <1>2, Counted
<1>6. Counting \in 0 .. Tck!Wrapped - 1
  <2> DEFINE c == Tck!Value(tick.ms)
             w == Tck!Wrapped
             t == reader.t0
  <2>1. w \in Nat \ {0} /\ c \in 0 .. w - 1 /\ t \in 0 .. w - 1
    BY <1>4, <1>5, Counted
  <2> HIDE DEF c, w, t
  <2>2. c - t \in Int
    BY <2>1
  <2>3. (c - t) % w \in 0 .. w - 1
    BY <2>1, <2>2, Remainders
  <2>4. QED
    BY <2>3 DEF Counting, c, w, t
<1>7. elapsed.ms = (Tck!Value(tick.ms) + Pending) % Tck!Wrapped /\ Pending \in {0, 1}
  BY DEF TickInv, Tck!CountIsTrue, Pending
<1>8. QED
  BY <1>2, <1>3, <1>4, <1>5, <1>6, <1>7

\* A phase passes; with the last of a millisecond one more is due.
LEMMA PassKeeps ==
  ASSUME TickInv, Tck!Pass
  PROVE  TickInv'
<1> DEFINE f == Tck!LastPhase
           p == (elapsed.phase + 1) % Phases
           m == (elapsed.ms + IF f THEN 1 ELSE 0) % Tck!Wrapped
           s == IF reader.pc \in {"idle", "get"} THEN 0
                ELSE IF elapsed.since < Tck!Longest THEN elapsed.since + 1 ELSE Tck!Longest
           i == IF reader.pc = "idle" THEN 0 ELSE elapsed.idle + 1
           c == Tck!Value(tick.ms)
           w == Tck!Wrapped
<1>1. /\ tick.flag = FALSE /\ tick' = [tick EXCEPT !.flag = f] /\ reader' = reader
      /\ elapsed' = [phase |-> p, ms |-> m, since |-> s, idle |-> i]
  BY TickParts DEF Tck!Pass
<1>2. f \in BOOLEAN /\ i \in Nat
  BY TickParts DEF Tck!LastPhase
<1>3. p \in 0 .. Phases - 1 /\ (f => p = 0) /\ (~f => p = elapsed.phase + 1) /\ (f => elapsed.phase + 1 = Phases)
  <2> DEFINE n == Phases
             h == elapsed.phase
  <2>1. n \in Nat \ {0} /\ h \in 0 .. n - 1 /\ (f <=> h + 1 = n)
    BY TickParts, Spans DEF Tck!LastPhase
  <2> HIDE DEF n, h, f
  <2>2. CASE f
    <3>1. h + 1 = n /\ n % n = 0 /\ 0 \in 0 .. n - 1
      BY <2>1, <2>2, Remainders
    <3>2. QED
      BY <2>2, <3>1 DEF n, h
  <2>3. CASE ~f
    <3>1. h + 1 \in 0 .. n - 1
      BY <2>1, <2>3
    <3>2. (h + 1) % n = h + 1
      BY <2>1, <3>1, Remainders
    <3>3. QED
      BY <2>3, <3>1, <3>2 DEF n, h
  <2>4. QED
    BY <2>2, <2>3
<1>4. m = (c + IF f THEN 1 ELSE 0) % w /\ m \in 0 .. w - 1
  <2>1. w \in Nat \ {0} /\ c \in 0 .. w - 1
    BY TickParts, Counted
  <2>2. elapsed.ms = (c + 0) % w
    BY <1>1, TickParts DEF Pending
  <2> DEFINE e == elapsed.ms
             g == IF f THEN 1 ELSE 0
  <2>3. g \in {0, 1} /\ m = (e + g) % w
    OBVIOUS
  <2> HIDE DEF c, w, e, f, g, m
  <2>4. c + 0 = c /\ c % w = c
    BY <2>1, Remainders
  <2>5. e = c
    BY <2>2, <2>4 DEF e
  <2>6. m = (c + g) % w
    BY <2>3, <2>5
  <2>7. c + g \in Int
    BY <2>1, <2>3
  <2>8. m \in 0 .. w - 1
    BY <2>1, <2>6, <2>7, Remainders
  <2>9. QED
    BY <2>6, <2>8 DEF g
<1>5. reader.pc \notin {"idle", "get"} => Tck!Longest \in Nat
  BY LongestDelay DEF TickInv
<1>6. s \in Nat /\ (reader.pc \notin {"idle", "get"} => s = Tck!Longest \/ s = elapsed.since + 1)
  BY <1>5, TickParts
<1> HIDE DEF p, m, s, i
<1>7. elapsed' \in Times /\ elapsed'.phase = p /\ elapsed'.ms = m /\ elapsed'.since = s
  BY <1>1, <1>2, <1>3, <1>4, <1>6 DEF Times
<1> HIDE DEF f
<1>8. tick' = [ms |-> tick.ms, flag |-> f, gie |-> tick.gie]
  BY <1>1, TickParts
<1>9. tick' \in Ticks /\ tick'.ms = tick.ms /\ tick'.flag = f /\ tick'.gie = tick.gie
  BY <1>2, <1>8, TickParts DEF Ticks
<1>10. Tck!CountIsTrue'
  BY <1>4, <1>7, <1>9 DEF Tck!CountIsTrue
<1>11. LooksSafely'
  BY <1>1, <1>9 DEF LooksSafely, TickInv
<1>12. TimeHasPassed'
  <2>1. CASE reader.pc \in {"idle", "get"}
    BY <1>1, <2>1 DEF TimeHasPassed
  <2>2. CASE s = Tck!Longest
    BY <1>7, <2>2 DEF TimeHasPassed
  <2>3. CASE s = elapsed.since + 1 /\ s # Tck!Longest /\ elapsed.since = Tck!Longest /\ reader.pc \notin {"idle", "get"}
    <3>1. QED
      BY <2>3, <1>5, TickParts DEF s
  <2>4. CASE s = elapsed.since + 1 /\ reader.pc \in {"called", "first"}
    BY <1>1, <1>7, <2>4, TickParts DEF TimeHasPassed
  <2>5. CASE /\ s = elapsed.since + 1 /\ reader.pc \in {"wait", "again"}
             /\ elapsed.since >= Span(Counting + Pending - 1) + elapsed.phase + 1
    <3> DEFINE d == Counting
               x == elapsed.since
               h == elapsed.phase
    <3>1. Counting' = d /\ Pending = 0 /\ Pending' = IF f THEN 1 ELSE 0
      BY <1>1, <1>9 DEF Counting, Pending
    <3>2. d \in Nat /\ x \in Nat /\ h \in Nat
      BY TickParts, Counted, Spans
    <3> HIDE DEF d, x, h
    <3>3. x >= Span(d + 0 - 1) + h + 1 /\ s = x + 1 /\ (~f => p = h + 1) /\ (f => p = 0 /\ h + 1 = Phases)
      BY <1>3, <2>5, <3>1 DEF d, x, h
    <3>4. s >= Span(d + Pending' - 1) + p + 1
      <4>1. CASE f
        <5> DEFINE k == d - 1
        <5>1. k \in Int /\ d + 0 - 1 = k /\ d + 1 - 1 = k + 1
          BY <3>2
        <5> HIDE DEF k
        <5>2. Span(k + 1) = Span(k) + Phases /\ Span(k) \in Int /\ Phases \in Nat
          BY <5>1, Spans
        <5>3. x >= Span(k) + h + 1 /\ Pending' = 1 /\ p = 0 /\ h + 1 = Phases
          BY <3>1, <3>3, <4>1, <5>1
        <5>4. s >= Span(k + 1) + 0 + 1
          BY <3>2, <3>3, <5>2, <5>3
        <5>5. QED
          BY <5>1, <5>3, <5>4
      <4>2. CASE ~f
        <5>1. Pending' = 0 /\ p = h + 1
          BY <3>1, <3>3, <4>2
        <5>2. Span(d + 0 - 1) \in Int
          BY <3>2, Spans
        <5>3. s >= Span(d + 0 - 1) + (h + 1) + 1
          BY <3>2, <3>3, <5>2
        <5>4. QED
          BY <5>1, <5>3
      <4>3. QED
        BY <4>1, <4>2
    <3>5. QED
      BY <1>1, <1>7, <2>5, <3>1, <3>4 DEF TimeHasPassed
  <2>6. QED
    BY <1>6, <2>1, <2>2, <2>3, <2>4, <2>5, TickParts DEF TickInv, TimeHasPassed
<1>13. tick'.flag => elapsed'.phase = 0
  BY <1>3, <1>7, <1>9
<1>14. QED
  BY <1>1, <1>7, <1>9, <1>10, <1>11, <1>12, <1>13 DEF TickInv

\* The handler counts the millisecond that was due.
LEMMA OverflowKeeps ==
  ASSUME TickInv, Tck!OnOverflow
  PROVE  TickInv'
<1> DEFINE c == Tck!Value(tick.ms)
           w == Tck!Wrapped
           n == (c + 1) % w
           b == Tck!Bytes(n)
<1>1. tick.flag = TRUE /\ tick.gie = TRUE /\ reader' = reader /\ elapsed' = elapsed
  BY TickParts DEF Tck!OnOverflow
<1>2. tick' = [tick EXCEPT !.flag = FALSE, !.ms = b]
  BY DEF Tck!OnOverflow
<1>3. w \in Nat \ {0} /\ c \in 0 .. w - 1
  BY TickParts, Counted
<1>4. n \in 0 .. w - 1 /\ n % w = n
  <2> HIDE DEF c, w
  <2>1. c + 1 \in Int
    BY <1>3
  <2>2. n \in 0 .. w - 1
    BY <1>3, <2>1, Remainders
  <2>3. QED
    BY <1>3, <2>2, Remainders
<1> HIDE DEF n
<1>5. b \in Counters /\ Tck!Value(b) = n
  BY <1>4, Counted
<1> HIDE DEF b
<1>6. tick' = [ms |-> b, flag |-> FALSE, gie |-> tick.gie]
  BY <1>2, TickParts
<1>7. tick' \in Ticks /\ tick'.ms = b /\ tick'.flag = FALSE /\ tick'.gie = tick.gie
  BY <1>5, <1>6, TickParts DEF Ticks
<1>8. Tck!CountIsTrue'
  <2>1. elapsed.ms = (c + 1) % w
    BY <1>1, TickParts DEF Pending
  <2>2. elapsed.ms = n
    BY <2>1 DEF n
  <2>3. n + 0 = n
    BY <1>3, <1>4
  <2>4. elapsed'.ms = (Tck!Value(tick'.ms) + 0) % w
    BY <1>1, <1>4, <1>5, <1>7, <2>2, <2>3
  <2>5. QED
    BY <1>7, <2>4 DEF Tck!CountIsTrue
<1>9. reader.pc \notin Looks /\ LooksSafely'
  BY <1>1, <1>7 DEF LooksSafely, TickInv
<1>10. TimeHasPassed'
  <2>1. CASE reader.pc \in {"wait", "again"} /\ elapsed.since >= Span(Counting + Pending - 1) + elapsed.phase + 1
    <3> DEFINE d == Counting
               t == reader.t0
    <3>1. Pending = 1 /\ Pending' = 0
      BY <1>1, <1>7 DEF Pending
    <3>2. t \in Int /\ c \in Int
      BY TickParts, <1>3, Counted
    <3>3. ((((c + 1) % w) - t) % w) \in {0, ((c - t) % w) + 1}
      <4> HIDE DEF c, w, t
      <4>1. QED
        BY <1>3, <3>2, ClockTurns
    <3>4. Counting' \in {0, d + 1}
      BY <1>1, <1>5, <1>7, <3>3 DEF Counting, n
    <3>5. d \in Nat /\ elapsed.since \in Nat /\ elapsed.phase \in Nat
      BY TickParts, Counted, Spans
    <3> DEFINE x == elapsed.since
               h == elapsed.phase
               e == Counting'
    <3> HIDE DEF d, x, h, e
    <3>6. x >= Span(d + 1 - 1) + h + 1 /\ e \in {0, d + 1} /\ x \in Nat /\ h \in Nat
      BY <2>1, <3>1, <3>4, <3>5 DEF d, x, h, e
    <3>7. e + 0 - 1 <= d + 1 - 1 /\ e + 0 - 1 \in Int /\ d + 1 - 1 \in Int
      BY <3>5, <3>6
    <3>8. /\ Span(e + 0 - 1) <= Span(d + 1 - 1)
          /\ Span(e + 0 - 1) \in Int /\ Span(d + 1 - 1) \in Int
      BY <3>7, Spans
    <3>9. x >= Span(e + 0 - 1) + h + 1
      BY <3>6, <3>8
    <3>10. QED
      BY <1>1, <2>1, <3>1, <3>9 DEF TimeHasPassed, x, h, e
  <2>2. QED
    BY <1>1, <1>7, <2>1 DEF TickInv, TimeHasPassed
<1>11. QED
  BY <1>1, <1>7, <1>8, <1>9, <1>10 DEF TickInv

\* Main moves: the counter stands still, and what changes is how main looks at it.
LEMMA MainKeeps ==
  ASSUME TickInv, reader' \in Readers, NEW g \in BOOLEAN, tick' = [tick EXCEPT !.gie = g],
         elapsed' \in Times, elapsed'.phase = elapsed.phase, elapsed'.ms = elapsed.ms,
         IF reader'.pc \in Looks
         THEN ~g /\ reader'.prev /\ \A i \in 0 .. reader'.at - 1 : reader'.got[i] = tick.ms[i]
         ELSE g,
         reader'.pc \in {"idle", "get"} \/ reader'.ms \in Delays,
         TimeHasPassed'
  PROVE  TickInv'
<1>1. tick' = [ms |-> tick.ms, flag |-> tick.flag, gie |-> g]
  BY TickParts
<1>2. tick' \in Ticks /\ tick'.ms = tick.ms /\ tick'.flag = tick.flag /\ tick'.gie = g
  BY <1>1, TickParts DEF Ticks
<1>3. Tck!CountIsTrue'
  BY <1>2 DEF TickInv, Tck!CountIsTrue
<1>4. LooksSafely'
  BY <1>2 DEF LooksSafely
<1>5. tick'.flag => elapsed'.phase = 0
  BY <1>2 DEF TickInv
<1>6. QED
  BY <1>2, <1>3, <1>4, <1>5 DEF TickInv

\* What passes of the time is untouched by a step that keeps counter, time and t0.
LEMMA SameTime ==
  ASSUME TickInv, tick'.ms = tick.ms, tick'.flag = tick.flag, elapsed'.since = elapsed.since,
         elapsed'.phase = elapsed.phase, reader'.t0 = reader.t0,
         \/ reader'.pc \in {"idle", "get"}
         \/ reader.pc \in {"called", "first"} /\ reader'.pc \in {"called", "first"}
         \/ reader.pc \in {"wait", "again"} /\ reader'.pc \in {"wait", "again"}
  PROVE  TimeHasPassed'
<1>1. Counting' = Counting /\ Pending' = Pending
  BY DEF Counting, Pending
<1>2. QED
  BY <1>1 DEF TickInv, TimeHasPassed

LEMMA BeginKeeps ==
  ASSUME TickInv, Tck!Begin
  PROVE  TickInv'
<1>1. reader \in Readers /\ elapsed \in Times
  BY DEF TickInv
<1>2. reader.pc = "idle" /\ tick.gie /\ ~tick.flag
  <2>1. reader.pc = "idle" /\ ~(tick.flag /\ tick.gie)
    BY DEF Tck!Begin, Tck!Get, Tck!Delay
  <2>2. QED
    BY <2>1 DEF TickInv, LooksSafely, Looks
<1>3. 0 \in 0 .. Places
  BY Counted
<1>4. CASE Tck!Get
  <2>1. /\ reader' = [reader EXCEPT !.pc = "get", !.at = 0, !.prev = tick.gie]
        /\ tick' = [tick EXCEPT !.gie = FALSE] /\ elapsed' = elapsed
    BY <1>4 DEF Tck!Get, Tck!Look
  <2>2. reader' \in Readers /\ reader'.pc = "get" /\ reader'.at = 0 /\ reader'.prev
    BY <1>1, <1>2, <1>3, <2>1 DEF Readers
  <2>3. TimeHasPassed'
    BY <2>2 DEF TimeHasPassed
  <2>4. \A i \in 0 .. reader'.at - 1 : reader'.got[i] = tick.ms[i]
    BY <2>2
  <2>5. QED
    BY <1>1, <2>1, <2>2, <2>3, <2>4, MainKeeps DEF Looks
<1>5. ASSUME NEW ms \in Delays, Tck!Delay(ms)
      PROVE  TickInv'
  <2>1. /\ reader' = [reader EXCEPT !.pc = "called", !.ms = ms] /\ elapsed' = [elapsed EXCEPT !.since = 0]
        /\ tick' = tick
    BY <1>5 DEF Tck!Delay
  <2>2. ms \in Nat
    BY LongestDelay
  <2>3. reader' \in Readers /\ reader'.pc = "called" /\ reader'.ms = ms
    BY <1>1, <2>1, <2>2 DEF Readers
  <2>4. elapsed' \in Times /\ elapsed'.phase = elapsed.phase /\ elapsed'.ms = elapsed.ms
    BY <1>1, <2>1 DEF Times
  <2>5. TimeHasPassed'
    BY <1>2, <2>1, <2>3 DEF TimeHasPassed
  <2>6. tick' = [tick EXCEPT !.gie = tick.gie]
    BY <2>1, TickParts
  <2>7. QED
    BY <1>2, <2>3, <2>4, <2>5, <2>6, MainKeeps, TickParts DEF Looks
<1>6. QED
  BY <1>4, <1>5 DEF Tck!Begin

\* The reader reads one byte, of a counter that stands still.
LEMMA ReadKeeps ==
  ASSUME TickInv, Tck!ReadByte, elapsed' = [elapsed EXCEPT !.idle = 0]
  PROVE  /\ TickInv' /\ tick' = tick /\ reader'.pc = reader.pc /\ reader'.at = reader.at + 1
         /\ \A i \in 0 .. reader.at : reader'.got[i] = tick.ms[i]
<1> DEFINE k == reader.at
           v == tick.ms[k]
           got == [reader.got EXCEPT ![k] = v]
<1>1. reader \in Readers /\ elapsed \in Times
  BY DEF TickInv
<1>2. reader.pc \in Looks /\ k < Places /\ tick' = tick
  BY DEF Tck!ReadByte, Looks
<1>3. reader' = [reader EXCEPT !.got = got, !.at = k + 1]
  BY DEF Tck!ReadByte
<1>4. k \in 0 .. Places - 1 /\ k + 1 \in 0 .. Places
  BY <1>2, TickParts, Counted
<1>5. v \in Digits
  BY <1>4, TickParts, Counted
<1>6. /\ got \in [0 .. Places - 1 -> Digits] /\ got[k] = v
      /\ \A i \in 0 .. Places - 1 : i # k => got[i] = reader.got[i]
  BY <1>4, <1>5, TickParts
<1>7. /\ ~tick.gie /\ reader.prev /\ \A i \in 0 .. k - 1 : reader.got[i] = tick.ms[i]
  BY <1>2 DEF TickInv, LooksSafely
<1>8. \A i \in 0 .. k : got[i] = tick.ms[i]
  <2> TAKE i \in 0 .. k
  <2>1. i \in 0 .. Places - 1 /\ (i = k \/ i \in 0 .. k - 1)
    <3> DEFINE n == Places
    <3>1. n \in Nat /\ k \in 0 .. n - 1 /\ i \in 0 .. k
      BY <1>4, Counted
    <3> HIDE DEF n, k
    <3>2. i \in 0 .. n - 1 /\ (i = k \/ i \in 0 .. k - 1)
      BY <3>1
    <3>3. QED
      BY <3>2 DEF n
  <2>2. QED
    BY <1>6, <1>7, <2>1
<1>9. k \in Int /\ k + 1 - 1 = k
  BY <1>4
<1> HIDE DEF got, k
<1>10. /\ reader' \in Readers /\ reader'.pc = reader.pc /\ reader'.got = got /\ reader'.at = k + 1
       /\ reader'.prev = reader.prev /\ reader'.t0 = reader.t0 /\ reader'.ms = reader.ms
  BY <1>1, <1>3, <1>4, <1>6 DEF Readers
<1>11. /\ elapsed' \in Times /\ elapsed'.phase = elapsed.phase /\ elapsed'.ms = elapsed.ms
       /\ elapsed'.since = elapsed.since
  BY <1>1 DEF Times
<1>12. TimeHasPassed'
  BY <1>2, <1>10, <1>11, SameTime DEF Looks
<1>13. tick' = [tick EXCEPT !.gie = FALSE]
  BY <1>2, <1>7, TickParts
<1>14. \A i \in 0 .. reader'.at - 1 : reader'.got[i] = tick.ms[i]
  <2> DEFINE a == reader'.at
  <2>1. a = k + 1
    BY <1>10
  <2> HIDE DEF a
  <2>2. a - 1 = k
    BY <1>9, <2>1
  <2>3. QED
    BY <1>8, <1>10, <2>2 DEF a
<1>15. TickInv'
  BY <1>2, <1>7, <1>10, <1>11, <1>12, <1>13, <1>14, MainKeeps DEF TickInv, Looks
<1>16. QED
  BY <1>2, <1>8, <1>10, <1>15 DEF k

LEMMA SameBytes ==
  ASSUME NEW f \in [0 .. Places - 1 -> Digits], NEW g \in [0 .. Places - 1 -> Digits],
         \A i \in 0 .. Places - 1 : f[i] = g[i]
  PROVE  f = g
<1>1. f = [i \in 0 .. Places - 1 |-> f[i]] /\ g = [i \in 0 .. Places - 1 |-> g[i]]
  OBVIOUS
<1>2. [i \in 0 .. Places - 1 |-> f[i]] = [i \in 0 .. Places - 1 |-> g[i]]
  OBVIOUS
<1>3. QED
  BY <1>1, <1>2

\* A look that has ended has the counter, and interrupts are on again.
LEMMA Whole ==
  ASSUME TickInv, reader.pc \in Looks, reader.at = Places
  PROVE  reader.got = tick.ms
<1>1. \A i \in 0 .. Places - 1 : reader.got[i] = tick.ms[i]
  BY DEF TickInv, LooksSafely
<1>2. reader.got \in [0 .. Places - 1 -> Digits] /\ tick.ms \in [0 .. Places - 1 -> Digits]
  BY TickParts, Counted
<1>3. QED
  BY <1>1, <1>2, SameBytes

LEMMA ProceedKeeps ==
  ASSUME TickInv, Tck!Proceed
  PROVE  TickInv'
<1>1. reader \in Readers /\ elapsed \in Times /\ elapsed' = [elapsed EXCEPT !.idle = 0] /\ Tck!InCall
      /\ ~(tick.flag /\ tick.gie)
  BY DEF TickInv, Tck!Proceed
<1>2. /\ elapsed' \in Times /\ elapsed'.phase = elapsed.phase /\ elapsed'.ms = elapsed.ms
      /\ elapsed'.since = elapsed.since
  BY <1>1 DEF Times
<1>3. 0 \in 0 .. Places /\ 0 \in 0 .. Tck!Wrapped - 1 /\ Tck!Bytes(0) \in [0 .. Places - 1 -> Digits]
  BY Counted
<1>4. CASE Tck!GetReturns \/ Tck!DelayReturns
  <2>1. reader.pc \in Looks /\ tick' = [tick EXCEPT !.gie = reader.prev] /\ reader' = Tck!Idle
    BY <1>4 DEF Tck!GetReturns, Tck!DelayReturns, Tck!Ended, Looks
  <2>2. reader.prev = TRUE
    BY <2>1, TickParts DEF TickInv, LooksSafely
  <2> DEFINE none == Tck!Bytes(0)
  <2>3. reader' = [pc |-> "idle", got |-> none, at |-> 0, prev |-> FALSE, t0 |-> 0, ms |-> 0]
    BY <2>1 DEF Tck!Idle
  <2> HIDE DEF none
  <2>4. reader' \in Readers /\ reader'.pc = "idle"
    BY <1>3, <2>3 DEF Readers, none
  <2>5. TimeHasPassed'
    BY <2>4 DEF TimeHasPassed
  <2>6. QED
    BY <1>2, <2>1, <2>2, <2>4, <2>5, MainKeeps DEF Looks
<1>5. CASE Tck!FirstLook \/ Tck!LookAgain
  <2> DEFINE p == IF reader.pc = "called" THEN "first" ELSE "again"
  <2>1. /\ reader.pc = "called" \/ reader.pc = "wait"
        /\ reader' = [reader EXCEPT !.pc = p, !.at = 0, !.prev = tick.gie] /\ tick' = [tick EXCEPT !.gie = FALSE]
    BY <1>5 DEF Tck!FirstLook, Tck!LookAgain, Tck!Look
  <2>2. tick.gie = TRUE
    BY <2>1, TickParts DEF TickInv, LooksSafely, Looks
  <2>3. p \in {"first", "again"} /\ (reader.pc = "called" <=> p = "first")
    OBVIOUS
  <2> HIDE DEF p
  <2>4. /\ reader' \in Readers /\ reader'.pc = p /\ reader'.at = 0 /\ reader'.prev = TRUE /\ reader'.ms = reader.ms
        /\ reader'.t0 = reader.t0
    BY <1>1, <1>3, <2>1, <2>2, <2>3 DEF Readers
  <2>5. tick'.ms = tick.ms /\ tick'.flag = tick.flag
    BY <2>1, TickParts
  <2>6. TimeHasPassed'
    BY <1>2, <2>1, <2>3, <2>4, <2>5, SameTime
  <2>7. \A i \in 0 .. reader'.at - 1 : reader'.got[i] = tick.ms[i]
    BY <2>4
  <2>8. reader.ms \in Delays
    BY <2>1 DEF TickInv
  <2>9. QED
    BY <1>2, <2>1, <2>3, <2>4, <2>6, <2>7, <2>8, MainKeeps DEF Looks
<1>6. CASE Tck!DelayGoesOn
  <2> DEFINE none == Tck!Bytes(0)
  <2>1. /\ reader.pc = "again" /\ tick' = [tick EXCEPT !.gie = reader.prev]
        /\ reader' = [reader EXCEPT !.pc = "wait", !.got = none, !.at = 0]
    BY <1>6 DEF Tck!DelayGoesOn, Tck!Ended
  <2>2. reader.prev = TRUE /\ reader.ms \in Delays
    BY <2>1, TickParts DEF TickInv, LooksSafely, Looks
  <2>3. none \in [0 .. Places - 1 -> Digits]
    BY <1>3
  <2> HIDE DEF none
  <2>4. reader' \in Readers /\ reader'.pc = "wait" /\ reader'.ms = reader.ms /\ reader'.t0 = reader.t0
    BY <1>1, <1>3, <2>1, <2>3 DEF Readers
  <2>5. tick'.ms = tick.ms /\ tick'.flag = tick.flag
    BY <2>1, TickParts
  <2>6. TimeHasPassed'
    BY <1>2, <2>1, <2>4, <2>5, SameTime
  <2>7. QED
    BY <1>2, <2>1, <2>2, <2>4, <2>6, MainKeeps DEF Looks
<1>7. CASE Tck!DelayStarts
  <2> DEFINE none == Tck!Bytes(0)
             t == Tck!Value(reader.got)
  <2>1. /\ reader.pc = "first" /\ reader.at = Places /\ tick' = [tick EXCEPT !.gie = reader.prev]
        /\ reader' = [reader EXCEPT !.pc = "wait", !.t0 = t, !.got = none, !.at = 0]
    BY <1>7 DEF Tck!DelayStarts, Tck!Ended
  <2>2. reader.prev = TRUE /\ reader.ms \in Delays
    BY <2>1, TickParts DEF TickInv, LooksSafely, Looks
  <2>3. none \in [0 .. Places - 1 -> Digits] /\ t = Tck!Value(tick.ms) /\ t \in 0 .. Tck!Wrapped - 1
    BY <1>3, <2>1, Whole, TickParts DEF Looks
  <2> HIDE DEF none, t
  <2>4. reader' \in Readers /\ reader'.pc = "wait" /\ reader'.ms = reader.ms /\ reader'.t0 = t
    BY <1>1, <1>3, <2>1, <2>3 DEF Readers
  <2>5. tick'.ms = tick.ms /\ tick'.flag = tick.flag
    BY <2>1, TickParts
  <2>6. Counting' = 0 /\ Pending' = Pending
    <3> DEFINE w == Tck!Wrapped
    <3>1. Counting' = (t - t) % w
      BY <2>3, <2>4, <2>5 DEF Counting
    <3>2. w \in Nat \ {0} /\ t \in 0 .. w - 1
      BY <2>3, Counted
    <3> HIDE DEF w
    <3>3. t - t = 0 /\ 0 \in 0 .. w - 1
      BY <3>2
    <3>4. 0 % w = 0
      BY <3>2, <3>3, Remainders
    <3>5. QED
      BY <2>5, <3>1, <3>3, <3>4 DEF Pending
  <2>7. TimeHasPassed'
    <3> DEFINE x == elapsed.since
               h == elapsed.phase
               n == Phases
    <3>1. /\ x = Tck!Longest \/ (tick.flag => x >= 1)
          /\ tick.flag => h = 0
      BY <2>1 DEF TickInv, TimeHasPassed
    <3>2. Span(0) = 0 /\ Span(-1) = -n /\ x \in Nat /\ h \in 0 .. n - 1 /\ n \in Nat
      <4>1. -1 \in Int /\ -1 + 1 = 0
        OBVIOUS
      <4>2. Span(-1 + 1) = Span(-1) + Phases /\ Span(-1) \in Int
        BY <4>1, Spans
      <4>3. Phases \in Nat /\ Span(0) = 0
        BY Spans
      <4>4. Span(0) = Span(-1) + Phases
        BY <4>1, <4>2
      <4>5. Span(-1) = -n
        BY <4>2, <4>3, <4>4
      <4>6. QED
        BY <4>3, <4>5, TickParts
    <3>3. CASE x = Tck!Longest
      BY <1>2, <3>3 DEF TimeHasPassed
    <3>4. CASE tick.flag => x >= 1
      <4>1. CASE tick.flag
        <5>1. Pending = 1 /\ 0 + 1 - 1 = 0 /\ h = 0 /\ x >= 1
          BY <3>1, <3>4, <4>1 DEF Pending
        <5>2. Counting' + Pending' - 1 = 0
          BY <2>6, <5>1
        <5>3. elapsed'.since >= Span(Counting' + Pending' - 1) + elapsed'.phase + 1
          BY <1>2, <3>2, <5>1, <5>2
        <5>4. QED
          BY <2>4, <5>3 DEF TimeHasPassed
      <4>2. CASE ~tick.flag
        <5>1. Pending = 0 /\ 0 + 0 - 1 = -1
          BY <4>2 DEF Pending
        <5>2. Counting' + Pending' - 1 = -1
          BY <2>6, <5>1
        <5>3. elapsed'.since = x /\ elapsed'.phase = h /\ Span(Counting' + Pending' - 1) = -n
          BY <1>2, <3>2, <5>2
        <5> HIDE DEF x, h, n
        <5>4. x >= -n + h + 1
          BY <3>2
        <5>5. QED
          BY <2>4, <5>3, <5>4 DEF TimeHasPassed
      <4>3. QED
        BY <4>1, <4>2
    <3>5. QED
      BY <3>1, <3>3, <3>4
  <2>8. QED
    BY <1>2, <2>1, <2>2, <2>4, <2>7, MainKeeps DEF Looks
<1>8. QED
  BY <1>1, <1>4, <1>5, <1>6, <1>7, ReadKeeps DEF Tck!InCall

\* For every width of counter, number of phases and delay, and however the overflows of
\* Timer2 fall between the steps of main: the counter is behind by the overflow pending
\* and no more, a read puts together the counter as it stands, and a delay lasts for all
\* of its milliseconds but the one it began in.
THEOREM TicksAreTold == Spec => []Tck!CountIsTrue /\ Tck!ReadIsWhole /\ Tck!DelayLasts
<1>1. TickInv /\ [Next]_vars => TickInv'
  <2> SUFFICES ASSUME TickInv, [Next]_vars PROVE TickInv'
    OBVIOUS
  <2>1. CASE UNCHANGED tickVars
    <3>1. tick' = tick /\ reader' = reader /\ elapsed' = elapsed
      BY <2>1 DEF tickVars
    <3>2. Counting' = Counting /\ Pending' = Pending
      BY <3>1 DEF Counting, Pending
    <3>3. QED
      BY <3>1, <3>2 DEF TickInv, Tck!CountIsTrue, LooksSafely, TimeHasPassed
  <2>2. QED
    BY <2>1, Steps, PassKeeps, OverflowKeeps, ProceedKeeps, BeginKeeps DEF Tck!Next
<1>2. TickInv /\ [Next]_vars => [reader.at < Places /\ reader'.at = Places => reader'.got = tick.ms]_Tck!tickVars
  <2> SUFFICES ASSUME TickInv, [Next]_vars, ~UNCHANGED Tck!tickVars, reader.at < Places, reader'.at = Places
               PROVE  reader'.got = tick.ms
    OBVIOUS
  <2>1. Tck!Next
    BY Steps DEF tickVars, Tck!tickVars
  <2>2. Places \in Nat \ {0}
    BY Counted
  <2>3. Tck!ReadByte /\ elapsed' = [elapsed EXCEPT !.idle = 0]
    <3>1. ~Tck!Pass /\ ~Tck!OnOverflow
      BY <2>2 DEF Tck!Pass, Tck!OnOverflow
    <3>2. reader'.at # 0 /\ reader'.at # reader.at
      BY <2>2, TickParts
    <3>3. reader \in Readers
      BY DEF TickInv
    <3>4. ~Tck!Begin
      BY <3>2, <3>3 DEF Tck!Begin, Tck!Get, Tck!Delay, Tck!Look, Readers
    <3>5. ~(Tck!GetReturns \/ Tck!FirstLook \/ Tck!DelayStarts \/ Tck!LookAgain \/ Tck!DelayGoesOn \/ Tck!DelayReturns)
      <4>1. ~(Tck!GetReturns \/ Tck!DelayReturns)
        BY <3>2 DEF Tck!GetReturns, Tck!DelayReturns, Tck!Idle
      <4>2. ~(Tck!FirstLook \/ Tck!LookAgain)
        BY <3>2, <3>3 DEF Tck!FirstLook, Tck!LookAgain, Tck!Look, Readers
      <4>3. ~Tck!DelayStarts
        BY <3>2, <3>3 DEF Tck!DelayStarts, Readers
      <4>4. ~Tck!DelayGoesOn
        BY <3>2, <3>3 DEF Tck!DelayGoesOn, Readers
      <4>5. QED
        BY <4>1, <4>2, <4>3, <4>4
    <3>6. QED
      BY <2>1, <3>1, <3>4, <3>5 DEF Tck!Next, Tck!Proceed, Tck!InCall
  <2>4. /\ tick' = tick /\ reader'.at = reader.at + 1 /\ reader'.pc = reader.pc /\ TickInv'
    BY <2>3, ReadKeeps
  <2>5. reader'.pc \in Looks
    BY <2>3, <2>4 DEF Tck!ReadByte, Looks
  <2>6. \A i \in 0 .. Places - 1 : reader'.got[i] = tick.ms[i]
    BY <2>4, <2>5 DEF TickInv, LooksSafely
  <2>7. reader'.got \in [0 .. Places - 1 -> Digits] /\ tick.ms \in [0 .. Places - 1 -> Digits]
    BY <2>4, TickParts, Counted DEF TickInv, Readers
  <2>8. QED
    BY <2>6, <2>7, SameBytes
<1>3. TickInv /\ [Next]_vars
        => [reader.pc = "again" /\ reader'.pc = "idle" => elapsed.since >= (reader.ms - 1) * Phases]_Tck!tickVars
  <2> SUFFICES ASSUME TickInv, [Next]_vars, ~UNCHANGED Tck!tickVars, reader.pc = "again", reader'.pc = "idle"
               PROVE  elapsed.since >= (reader.ms - 1) * Phases
    OBVIOUS
  <2>1. Tck!Next
    BY Steps DEF tickVars, Tck!tickVars
  <2>2. reader \in Readers
    BY DEF TickInv
  <2>3. Tck!DelayReturns
    <3>1. ~Tck!Begin /\ ~Tck!Pass /\ ~Tck!OnOverflow
      BY DEF Tck!Begin, Tck!Get, Tck!Delay, Tck!Pass, Tck!OnOverflow
    <3>2. ~Tck!ReadByte
      BY <2>2, ReadKeeps, <2>1, <3>1 DEF Tck!Next, Tck!Proceed
    <3>3. ~(Tck!GetReturns \/ Tck!FirstLook \/ Tck!DelayStarts \/ Tck!LookAgain \/ Tck!DelayGoesOn)
      BY <2>2 DEF Tck!GetReturns, Tck!Ended, Tck!FirstLook, Tck!DelayStarts, Tck!LookAgain, Tck!DelayGoesOn, Readers
    <3>4. QED
      BY <2>1, <3>1, <3>2, <3>3 DEF Tck!Next, Tck!Proceed, Tck!InCall
  <2>4. reader.got = tick.ms
    BY <2>3, Whole DEF Tck!DelayReturns, Tck!Ended, Looks
  <2>5. Counting >= reader.ms
    BY <2>3, <2>4 DEF Tck!DelayReturns, Tck!ElapsedSince, Counting
  <2> DEFINE x == elapsed.since
             h == elapsed.phase
             d == Counting
             f == Pending
             m == reader.ms
  <2>6. x \in Nat /\ h \in Nat /\ d \in Nat /\ f \in {0, 1} /\ m \in Nat /\ d >= m
    <3>1. h \in 0 .. Phases - 1 /\ d \in 0 .. Tck!Wrapped - 1 /\ x \in Nat /\ f \in {0, 1} /\ m \in Nat
      BY TickParts
    <3> HIDE DEF h, d, x, f, m
    <3>2. h \in Nat
      BY <3>1, Spans
    <3>3. d \in Nat
      BY <3>1, Counted
    <3>4. QED
      BY <2>5, <3>1, <3>2, <3>3 DEF d, m
  <2>7. m \in Delays /\ (x = Tck!Longest \/ x >= Span(d + f - 1) + h + 1)
    BY DEF TickInv, TimeHasPassed
  <2>8. Span(m) <= Tck!Longest /\ Tck!Longest \in Nat
    BY <2>7, LongestDelay
  <2> HIDE DEF x, h, d, f, m
  <2>9. m - 1 <= m /\ m - 1 <= d + f - 1 /\ {m - 1, m, d + f - 1} \subseteq Int
    BY <2>6
  <2>10. /\ Span(m - 1) <= Span(m) /\ Span(m - 1) <= Span(d + f - 1)
         /\ Span(m) \in Int /\ Span(m - 1) \in Int /\ Span(d + f - 1) \in Int
    BY <2>9, Spans
  <2>11. x >= Span(m - 1)
    BY <2>6, <2>7, <2>8, <2>10
  <2>12. QED
    BY <2>11 DEF Span, x, m
<1>4. TickInv => Tck!CountIsTrue
  BY DEF TickInv
<1>5. QED
  BY <1>1, <1>2, <1>3, <1>4, TickStarts, PTL DEF Spec, Tck!ReadIsWhole, Tck!DelayLasts
=============================================================================
