------------------------------ MODULE SwuartProofs ------------------------------
(***************************************************************************)
(* For every bit time, lead, lateness of the handlers, ring and counter    *)
(* width: what the far receiver makes of the TX line, and what the reader  *)
(* is given of the RX line, as long as the handlers run in time.           *)
(***************************************************************************)
EXTENDS Swuart, SequenceTheorems, TLAPS

\* The types an inductive argument can keep: counters of the width the code gives
\* them, sequences of any length.
TxStates == {"TX_IDLE", "TX_DATA", "TX_STOP"}
RxStates == {"RX_IDLE", "RX_CONFIRM_START", "RX_DATA", "RX_STOP"}
Pcs == {"idle", "push", "pop", "deadline", "arm"}
Rings == [buf : [0 .. SZ - 1 -> 0 .. 255], head : 0 .. SZ - 1, tail : 0 .. SZ - 1,
          count : 0 .. CountMod - 1]
TxChannel == [state : TxStates, shift : 0 .. 255, bits : 0 .. 8, deadline : 0 .. CycleMod - 1,
              ring : Rings]
RxChannel == [state : RxStates, shift : 0 .. 255, bits : 0 .. 8, deadline : 0 .. CycleMod - 1,
              ring : Rings, errors : Nat]
Mains == [pc : Pcs, left : Int, wrote : BOOLEAN, since : 0 .. MainTicks]
TxModule == Module({"OFF", "SET", "CLEAR"})
RxModule == Module({"CAPTURE", "COMPARE"})
Modules == [tx : TxModule, rx : RxModule]
Peers == [age : Int, bits : Seq({0, 1}), frame : Seq({0, 1}), quiet : 0 .. Bit]

SwTyped ==
  /\ use \in Uses /\ timer \in 0 .. CycleMod - 1
  /\ tx \in TxChannel /\ (tx.state = "TX_DATA" => tx.bits <= 7)
  /\ rx \in RxChannel /\ (rx.state = "RX_DATA" => rx.bits <= 7)
  /\ ccp \in Modules /\ main \in Mains
  /\ pin \in [tx : {0, 1}, rx : {0, 1}] /\ peer \in Peers
  /\ written \in Seq(0 .. 255) /\ heard \in Seq(-1 .. 255)
  /\ sent \in Seq(-1 .. 255) /\ got \in Seq(0 .. 255)
-----------------------------------------------------------------------------
\* What the updates of the channel, the ring and the modules leave in each field.
LEMMA LoadedIs ==
  ASSUME NEW t \in TxChannel
  PROVE  Loaded(t) = [state |-> "TX_DATA", shift |-> t.ring.buf[t.ring.tail], bits |-> 0,
                      deadline |-> t.deadline, ring |-> Drop(t.ring)]
<1> DEFINE q == Loaded(t)
           x == t.ring.buf[t.ring.tail]
           d == Drop(t.ring)
<1>1. q = [t EXCEPT !.shift = x, !.ring = d, !.bits = 0, !.state = "TX_DATA"]
  BY DEF Loaded
<1> HIDE DEF q, x, d
<1>2. q = [state |-> "TX_DATA", shift |-> x, bits |-> 0, deadline |-> t.deadline, ring |-> d]
  BY <1>1 DEF TxChannel
<1>3. QED
  BY <1>2 DEF q, x, d

LEMMA PutIs ==
  ASSUME NEW r \in Rings, NEW b \in 0 .. 255
  PROVE  Put(r, b) = [buf |-> [r.buf EXCEPT ![r.head] = b], head |-> (r.head + 1) % SZ,
                      tail |-> r.tail, count |-> (r.count + 1) % CountMod]
<1> DEFINE q == Put(r, b)
           x == [r.buf EXCEPT ![r.head] = b]
           h == (r.head + 1) % SZ
           c == (r.count + 1) % CountMod
<1>1. q = [r EXCEPT !.buf = x, !.head = h, !.count = c]
  BY DEF Put
<1> HIDE DEF q, x, h, c
<1>2. q = [buf |-> x, head |-> h, tail |-> r.tail, count |-> c]
  BY <1>1 DEF Rings
<1>3. QED
  BY <1>2 DEF q, x, h, c

LEMMA DropIs ==
  ASSUME NEW r \in Rings
  PROVE  Drop(r) = [buf |-> r.buf, head |-> r.head, tail |-> (r.tail + 1) % SZ,
                    count |-> (r.count - 1) % CountMod]
<1> DEFINE q == Drop(r)
           h == (r.tail + 1) % SZ
           c == (r.count - 1) % CountMod
<1>1. q = [r EXCEPT !.tail = h, !.count = c]
  BY DEF Drop
<1> HIDE DEF q, h, c
<1>2. q = [buf |-> r.buf, head |-> r.head, tail |-> h, count |-> c]
  BY <1>1 DEF Rings
<1>3. QED
  BY <1>2 DEF q, h, c

LEMMA RearmIs ==
  ASSUME NEW c \in Modules, NEW mode, NEW value
  PROVE  [Served("tx", c) EXCEPT !.tx.mode = mode, !.tx.value = value]
         = [tx |-> [mode |-> mode, value |-> value, due |-> FALSE, late |-> 0], rx |-> c.rx]
<1> DEFINE q == Served("tx", c)
           r == [q EXCEPT !.tx.mode = mode, !.tx.value = value]
<1>1. q = [c EXCEPT !["tx"].due = FALSE, !["tx"].late = 0]
  BY DEF Served
<1> HIDE DEF q
<1>2. q = [tx |-> [mode |-> c.tx.mode, value |-> c.tx.value, due |-> FALSE, late |-> 0], rx |-> c.rx]
  BY <1>1 DEF Modules, TxModule, RxModule, Module
<1>3. r = [q EXCEPT !.tx.mode = mode, !.tx.value = value]
  OBVIOUS
<1> HIDE DEF r
<1>4. r = [tx |-> [mode |-> mode, value |-> value, due |-> FALSE, late |-> 0], rx |-> c.rx]
  BY <1>2, <1>3
<1>5. QED
  BY <1>4 DEF q, r

LEMMA RxRearmIs ==
  ASSUME NEW c \in Modules, NEW value
  PROVE  [Served("rx", c) EXCEPT !.rx.value = value]
         = [tx |-> c.tx, rx |-> [mode |-> c.rx.mode, value |-> value, due |-> FALSE, late |-> 0]]
<1> DEFINE q == Served("rx", c)
           r == [q EXCEPT !.rx.value = value]
<1>1. q = [c EXCEPT !["rx"].due = FALSE, !["rx"].late = 0]
  BY DEF Served
<1> HIDE DEF q
<1>2. q = [tx |-> c.tx, rx |-> [mode |-> c.rx.mode, value |-> c.rx.value, due |-> FALSE, late |-> 0]]
  BY <1>1 DEF Modules, TxModule, RxModule, Module
<1>3. r = [q EXCEPT !.rx.value = value]
  OBVIOUS
<1> HIDE DEF r
<1>4. r = [tx |-> c.tx, rx |-> [mode |-> c.rx.mode, value |-> value, due |-> FALSE, late |-> 0]]
  BY <1>2, <1>3
<1>5. QED
  BY <1>4 DEF q, r

LEMMA RxModeIs ==
  ASSUME NEW c \in Modules, NEW mode
  PROVE  [Served("rx", c) EXCEPT !.rx.mode = mode]
         = [tx |-> c.tx, rx |-> [mode |-> mode, value |-> c.rx.value, due |-> FALSE, late |-> 0]]
<1> DEFINE q == Served("rx", c)
           r == [q EXCEPT !.rx.mode = mode]
<1>1. q = [c EXCEPT !["rx"].due = FALSE, !["rx"].late = 0]
  BY DEF Served
<1> HIDE DEF q
<1>2. q = [tx |-> c.tx, rx |-> [mode |-> c.rx.mode, value |-> c.rx.value, due |-> FALSE, late |-> 0]]
  BY <1>1 DEF Modules, TxModule, RxModule, Module
<1>3. r = [q EXCEPT !.rx.mode = mode]
  OBVIOUS
<1> HIDE DEF r
<1>4. r = [tx |-> c.tx, rx |-> [mode |-> mode, value |-> c.rx.value, due |-> FALSE, late |-> 0]]
  BY <1>2, <1>3
<1>5. QED
  BY <1>4 DEF q, r

LEMMA RxArmIs ==
  ASSUME NEW c \in Modules, NEW mode, NEW value
  PROVE  [Served("rx", c) EXCEPT !.rx.mode = mode, !.rx.value = value]
         = [tx |-> c.tx, rx |-> [mode |-> mode, value |-> value, due |-> FALSE, late |-> 0]]
<1> DEFINE q == Served("rx", c)
           r == [q EXCEPT !.rx.mode = mode, !.rx.value = value]
<1>1. q = [c EXCEPT !["rx"].due = FALSE, !["rx"].late = 0]
  BY DEF Served
<1> HIDE DEF q
<1>2. q = [tx |-> c.tx, rx |-> [mode |-> c.rx.mode, value |-> c.rx.value, due |-> FALSE, late |-> 0]]
  BY <1>1 DEF Modules, TxModule, RxModule, Module
<1>3. r = [q EXCEPT !.rx.mode = mode, !.rx.value = value]
  OBVIOUS
<1> HIDE DEF r
<1>4. r = [tx |-> c.tx, rx |-> [mode |-> mode, value |-> value, due |-> FALSE, late |-> 0]]
  BY <1>2, <1>3
<1>5. QED
  BY <1>4 DEF q, r

LEMMA TxModeIs ==
  ASSUME NEW c \in Modules, NEW mode
  PROVE  [Served("tx", c) EXCEPT !.tx.mode = mode]
         = [tx |-> [mode |-> mode, value |-> c.tx.value, due |-> FALSE, late |-> 0], rx |-> c.rx]
<1> DEFINE q == Served("tx", c)
           r == [q EXCEPT !.tx.mode = mode]
<1>1. q = [c EXCEPT !["tx"].due = FALSE, !["tx"].late = 0]
  BY DEF Served
<1> HIDE DEF q
<1>2. q = [tx |-> [mode |-> c.tx.mode, value |-> c.tx.value, due |-> FALSE, late |-> 0], rx |-> c.rx]
  BY <1>1 DEF Modules, TxModule, RxModule, Module
<1>3. r = [q EXCEPT !.tx.mode = mode]
  OBVIOUS
<1> HIDE DEF r
<1>4. r = [tx |-> [mode |-> mode, value |-> c.tx.value, due |-> FALSE, late |-> 0], rx |-> c.rx]
  BY <1>2, <1>3
<1>5. QED
  BY <1>4 DEF q, r

LEMMA ArmIs ==
  ASSUME NEW c \in Modules, NEW mode, NEW value
  PROVE  [c EXCEPT !["tx"].mode = mode, !["tx"].value = value]
         = [tx |-> [mode |-> mode, value |-> value, due |-> c.tx.due, late |-> c.tx.late],
            rx |-> c.rx]
<1> DEFINE q == [c EXCEPT !["tx"].mode = mode, !["tx"].value = value]
<1>1. q = [c EXCEPT !["tx"].mode = mode, !["tx"].value = value]
  OBVIOUS
<1> HIDE DEF q
<1>2. q = [tx |-> [mode |-> mode, value |-> value, due |-> c.tx.due, late |-> c.tx.late],
           rx |-> c.rx]
  BY <1>1 DEF Modules, TxModule, RxModule, Module
<1>3. QED
  BY <1>2 DEF q

LEMMA LaterIs ==
  ASSUME NEW S, NEW c \in Module(S), NEW event \in BOOLEAN
  PROVE  Later(c, event) = [mode |-> c.mode, value |-> c.value, due |-> (c.due \/ event),
                            late |-> IF c.due THEN c.late + 1 ELSE 0]
<1> DEFINE q == Later(c, event)
           d == c.due \/ event
           l == IF c.due THEN c.late + 1 ELSE 0
<1>1. q = [c EXCEPT !.due = d, !.late = l]
  BY DEF Later
<1> HIDE DEF q, d, l
<1>2. q = [mode |-> c.mode, value |-> c.value, due |-> d, late |-> l]
  BY <1>1 DEF Module
<1>3. QED
  BY <1>2 DEF q, d, l
-----------------------------------------------------------------------------
LEMMA Constants ==
  /\ Bit \in Nat \ {0, 1} /\ Lead \in Nat /\ CycleMod \in Nat \ {0} /\ CycleMod > 11 * Bit
  /\ Latency \in Nat /\ MainTicks \in Nat /\ SZ \in Nat \ {0} /\ CountMod \in Nat \ {0}
  /\ CountMod > SZ /\ Values \subseteq 0 .. 255 /\ MaxBytes \in Nat /\ CycleMod > Bit
BY SwuartAssumption

LEMMA ModRange ==
  ASSUME NEW n \in Nat \ {0}, NEW x \in Int
  PROVE  x % n \in 0 .. n - 1
OBVIOUS

LEMMA AfterTyped ==
  ASSUME NEW d \in Int, NEW n \in Int
  PROVE  After(d, n) \in 0 .. CycleMod - 1
<1>1. d + n \in Int
  OBVIOUS
<1>2. QED
  BY <1>1, ModRange, Constants DEF After

LEMMA PutTyped ==
  ASSUME NEW r \in Rings, NEW b \in 0 .. 255
  PROVE  Put(r, b) \in Rings
<1>1. r.head \in 0 .. SZ - 1 /\ r.tail \in 0 .. SZ - 1 /\ r.count \in 0 .. CountMod - 1
      /\ r.buf \in [0 .. SZ - 1 -> 0 .. 255]
  BY DEF Rings
<1>2. r.head + 1 \in Int /\ r.count + 1 \in Int
  BY <1>1, Constants
<1>3. (r.head + 1) % SZ \in 0 .. SZ - 1 /\ (r.count + 1) % CountMod \in 0 .. CountMod - 1
  BY <1>2, ModRange, Constants
<1>4. [r.buf EXCEPT ![r.head] = b] \in [0 .. SZ - 1 -> 0 .. 255]
  BY <1>1
<1> DEFINE h == (r.head + 1) % SZ
           c == (r.count + 1) % CountMod
           u == [r.buf EXCEPT ![r.head] = b]
<1>5. Put(r, b) = [buf |-> u, head |-> h, tail |-> r.tail, count |-> c]
  BY PutIs
<1>6. h \in 0 .. SZ - 1 /\ c \in 0 .. CountMod - 1 /\ u \in [0 .. SZ - 1 -> 0 .. 255]
  BY <1>3, <1>4
<1> HIDE DEF h, c, u
<1>7. QED
  BY <1>1, <1>5, <1>6 DEF Rings

LEMMA DropTyped ==
  ASSUME NEW r \in Rings
  PROVE  Drop(r) \in Rings
<1>1. r.head \in 0 .. SZ - 1 /\ r.tail \in 0 .. SZ - 1 /\ r.count \in 0 .. CountMod - 1
      /\ r.buf \in [0 .. SZ - 1 -> 0 .. 255]
  BY DEF Rings
<1>2. r.tail + 1 \in Int /\ r.count - 1 \in Int
  BY <1>1, Constants
<1>3. (r.tail + 1) % SZ \in 0 .. SZ - 1 /\ (r.count - 1) % CountMod \in 0 .. CountMod - 1
  BY <1>2, ModRange, Constants
<1> DEFINE h == (r.tail + 1) % SZ
           c == (r.count - 1) % CountMod
<1>4. Drop(r) = [buf |-> r.buf, head |-> r.head, tail |-> h, count |-> c]
  BY DropIs
<1>5. h \in 0 .. SZ - 1 /\ c \in 0 .. CountMod - 1
  BY <1>3
<1> HIDE DEF h, c
<1>6. QED
  BY <1>1, <1>4, <1>5 DEF Rings

LEMMA LoadedTyped ==
  ASSUME NEW t \in TxChannel
  PROVE  Loaded(t) \in TxChannel
<1>1. t.ring \in Rings /\ t.deadline \in 0 .. CycleMod - 1
  BY DEF TxChannel
<1>2. t.ring.buf[t.ring.tail] \in 0 .. 255
  BY <1>1 DEF Rings
<1>3. Drop(t.ring) \in Rings
  BY <1>1, DropTyped
<1>4. QED
  BY <1>1, <1>2, <1>3, LoadedIs DEF TxChannel, TxStates

LEMMA SlotsTyped ==
  ASSUME NEW b \in 0 .. 255, NEW stop \in {0, 1}
  PROVE  /\ Slots(b, stop) \in Seq({0, 1}) /\ Len(Slots(b, stop)) = 10
         /\ \A i \in 1 .. 10 : Slots(b, stop)[i] \in {0, 1}
<1>1. \A n \in Int : n % 2 \in {0, 1}
  OBVIOUS
<1>2. /\ b \in Int /\ b \div 2 \in Int /\ b \div 4 \in Int /\ b \div 8 \in Int /\ b \div 16 \in Int
      /\ b \div 32 \in Int /\ b \div 64 \in Int /\ b \div 128 \in Int
  OBVIOUS
<1>3. Slots(b, stop) \in Seq({0, 1}) /\ Len(Slots(b, stop)) = 10
  BY <1>1, <1>2 DEF Slots
<1>4. QED
  BY <1>3, ElementOfSeq

\* Which slot of a frame a level belongs to.
LEMMA SlotIndex ==
  ASSUME NEW i \in 1 .. 10 * Bit
  PROVE  1 + (i - 1) \div Bit \in 1 .. 10
<1>1. \A n \in Nat \ {0} : \A x \in 0 .. 10 * n - 1 : x \div n \in 0 .. 9
  OBVIOUS
<1>2. i - 1 \in 0 .. 10 * Bit - 1
  BY Constants
<1> DEFINE q == (i - 1) \div Bit
<1>3. q \in 0 .. 9
  BY <1>1, <1>2, Constants
<1> HIDE DEF q
<1>4. 1 + q \in 1 .. 10
  BY <1>3
<1>5. QED
  BY <1>4 DEF q

LEMMA FramesTyped ==
  /\ \A b \in 0 .. 255, stop \in {0, 1} : Frame(b, stop) \in Seq({0, 1})
  /\ \A b \in 0 .. 255 : BadStop(b) \in Seq({0, 1})
  /\ Noise \in Seq({0, 1})
<1>1. ASSUME NEW b \in 0 .. 255, NEW stop \in {0, 1}
      PROVE  Frame(b, stop) \in [1 .. 10 * Bit -> {0, 1}]
  <2>1. ASSUME NEW i \in 1 .. 10 * Bit PROVE Slots(b, stop)[1 + (i - 1) \div Bit] \in {0, 1}
    BY SlotIndex, SlotsTyped
  <2>2. QED
    BY <2>1 DEF Frame
<1>2. 10 * Bit \in Nat /\ 11 * Bit \in Nat /\ Bit \in Nat
  BY Constants
<1>3. ASSUME NEW b \in 0 .. 255 PROVE BadStop(b) \in [1 .. 11 * Bit -> {0, 1}]
  <2>1. ASSUME NEW i \in 1 .. 11 * Bit PROVE (IF i <= 10 * Bit THEN Frame(b, 0)[i] ELSE 1) \in {0, 1}
    <3>1. CASE i <= 10 * Bit
      <4>1. i \in 1 .. 10 * Bit
        BY <1>2, <3>1
      <4>2. Frame(b, 0) \in [1 .. 10 * Bit -> {0, 1}]
        BY <1>1
      <4>3. QED
        BY <3>1, <4>1, <4>2
    <3>2. CASE ~(i <= 10 * Bit)
      BY <3>2
    <3>3. QED
      BY <3>1, <3>2
  <2>2. QED
    BY <2>1 DEF BadStop
<1>4. Noise \in [1 .. Bit -> {0, 1}]
  BY DEF Noise
<1>5. \A n \in Nat : \A f \in [1 .. n -> {0, 1}] : f \in Seq({0, 1})
  BY SeqDef
<1>6. QED
  BY <1>1, <1>2, <1>3, <1>4, <1>5

-----------------------------------------------------------------------------
\* The types, whatever the uses and however late the handlers run.
LEMMA TypedParts ==
  ASSUME SwTyped
  PROVE  /\ tx.state \in TxStates /\ tx.shift \in 0 .. 255 /\ tx.bits \in 0 .. 8
         /\ tx.deadline \in 0 .. CycleMod - 1 /\ tx.ring \in Rings
         /\ rx.state \in RxStates /\ rx.shift \in 0 .. 255 /\ rx.bits \in 0 .. 8
         /\ rx.deadline \in 0 .. CycleMod - 1 /\ rx.ring \in Rings /\ rx.errors \in Nat
         /\ ccp.tx \in TxModule /\ ccp.rx \in RxModule
         /\ pin.tx \in {0, 1} /\ pin.rx \in {0, 1}
         /\ peer.age \in Int /\ peer.bits \in Seq({0, 1}) /\ peer.frame \in Seq({0, 1})
         /\ peer.quiet \in 0 .. Bit
BY DEF SwTyped, TxChannel, RxChannel, Modules, Peers

LEMMA RingFields ==
  ASSUME NEW r \in Rings
  PROVE  /\ r.buf \in [0 .. SZ - 1 -> 0 .. 255] /\ r.head \in 0 .. SZ - 1
         /\ r.tail \in 0 .. SZ - 1 /\ r.count \in 0 .. CountMod - 1
         /\ r.buf[r.tail] \in 0 .. 255 /\ r.count \in Nat
<1>1. /\ r.buf \in [0 .. SZ - 1 -> 0 .. 255] /\ r.head \in 0 .. SZ - 1
      /\ r.tail \in 0 .. SZ - 1 /\ r.count \in 0 .. CountMod - 1
  BY DEF Rings
<1>2. r.buf[r.tail] \in 0 .. 255
  BY <1>1
<1>3. r.count \in Nat
  BY <1>1
<1>4. QED
  BY <1>1, <1>2, <1>3

LEMMA InitTyped == Init => SwTyped
<1> SUFFICES ASSUME Init PROVE SwTyped
  OBVIOUS
<1> USE Constants
<1>1. EmptyRing \in Rings
  BY DEF EmptyRing, Rings
<1>2. <<>> \in Seq({0, 1}) /\ <<>> \in Seq(0 .. 255) /\ <<>> \in Seq(-1 .. 255)
  OBVIOUS
<1>3. tx \in TxChannel /\ tx.state # "TX_DATA" /\ rx \in RxChannel /\ rx.state # "RX_DATA"
  BY <1>1 DEF Init, TxChannel, TxStates, RxChannel, RxStates
<1>4. ccp \in Modules
  BY DEF Init, Modules, TxModule, RxModule, Module
<1>5. main \in Mains /\ pin \in [tx : {0, 1}, rx : {0, 1}]
  BY DEF Init, Mains, Pcs, Returned
<1>6. peer \in Peers
  BY <1>2 DEF Init, Peers
<1>7. QED
  BY <1>2, <1>3, <1>4, <1>5, <1>6 DEF Init, SwTyped

LEMMA MainTyped ==
  ASSUME SwTyped
  PROVE  /\ Returned \in Mains
         /\ \A n \in Int : [Returned EXCEPT !.pc = "push", !.left = n] =
               [pc |-> "push", left |-> n, wrote |-> FALSE, since |-> 0]
         /\ [main EXCEPT !.left = @ - 1, !.wrote = TRUE] =
               [pc |-> main.pc, left |-> main.left - 1, wrote |-> TRUE, since |-> main.since]
         /\ \A pc \in Pcs : [main EXCEPT !.pc = pc] =
               [pc |-> pc, left |-> main.left, wrote |-> main.wrote, since |-> main.since]
         /\ [main EXCEPT !.pc = "arm", !.since = 0] =
               [pc |-> "arm", left |-> main.left, wrote |-> main.wrote, since |-> 0]
         /\ [main EXCEPT !.since = @ + 1] =
               [pc |-> main.pc, left |-> main.left, wrote |-> main.wrote, since |-> main.since + 1]
         /\ main.pc \in Pcs /\ main.left \in Int /\ main.wrote \in BOOLEAN
         /\ main.since \in 0 .. MainTicks
<1>1. main \in Mains
  BY DEF SwTyped
<1>2. Returned \in Mains
  BY Constants DEF Returned, Mains, Pcs
<1>3. ASSUME NEW n \in Int
      PROVE [Returned EXCEPT !.pc = "push", !.left = n] =
               [pc |-> "push", left |-> n, wrote |-> FALSE, since |-> 0]
  <2> DEFINE q == [Returned EXCEPT !.pc = "push", !.left = n]
  <2>1. q = [Returned EXCEPT !.pc = "push", !.left = n]
    OBVIOUS
  <2> HIDE DEF q
  <2>2. q = [pc |-> "push", left |-> n, wrote |-> FALSE, since |-> 0]
    BY <2>1 DEF Returned
  <2>3. QED
    BY <2>2 DEF q
<1>4. [main EXCEPT !.left = @ - 1, !.wrote = TRUE] =
               [pc |-> main.pc, left |-> main.left - 1, wrote |-> TRUE, since |-> main.since]
  <2> DEFINE q == [main EXCEPT !.left = @ - 1, !.wrote = TRUE]
  <2>1. q = [main EXCEPT !.left = @ - 1, !.wrote = TRUE]
    OBVIOUS
  <2> HIDE DEF q
  <2>2. q = [pc |-> main.pc, left |-> main.left - 1, wrote |-> TRUE, since |-> main.since]
    BY <1>1, <2>1 DEF Mains
  <2>3. QED
    BY <2>2 DEF q
<1>5. ASSUME NEW pc \in Pcs
      PROVE [main EXCEPT !.pc = pc] =
               [pc |-> pc, left |-> main.left, wrote |-> main.wrote, since |-> main.since]
  <2> DEFINE q == [main EXCEPT !.pc = pc]
  <2>1. q = [main EXCEPT !.pc = pc]
    OBVIOUS
  <2> HIDE DEF q
  <2>2. q = [pc |-> pc, left |-> main.left, wrote |-> main.wrote, since |-> main.since]
    BY <1>1, <2>1 DEF Mains
  <2>3. QED
    BY <2>2 DEF q
<1>6. [main EXCEPT !.pc = "arm", !.since = 0] =
               [pc |-> "arm", left |-> main.left, wrote |-> main.wrote, since |-> 0]
  <2> DEFINE q == [main EXCEPT !.pc = "arm", !.since = 0]
  <2>1. q = [main EXCEPT !.pc = "arm", !.since = 0]
    OBVIOUS
  <2> HIDE DEF q
  <2>2. q = [pc |-> "arm", left |-> main.left, wrote |-> main.wrote, since |-> 0]
    BY <1>1, <2>1 DEF Mains
  <2>3. QED
    BY <2>2 DEF q
<1>7. [main EXCEPT !.since = @ + 1] =
               [pc |-> main.pc, left |-> main.left, wrote |-> main.wrote, since |-> main.since + 1]
  <2> DEFINE q == [main EXCEPT !.since = @ + 1]
  <2>1. q = [main EXCEPT !.since = @ + 1]
    OBVIOUS
  <2> HIDE DEF q
  <2>2. q = [pc |-> main.pc, left |-> main.left, wrote |-> main.wrote, since |-> main.since + 1]
    BY <1>1, <2>1 DEF Mains
  <2>3. QED
    BY <2>2 DEF q
<1>8. main.pc \in Pcs /\ main.left \in Int /\ main.wrote \in BOOLEAN /\ main.since \in 0 .. MainTicks
  BY <1>1 DEF Mains
<1>9. QED
  BY <1>2, <1>3, <1>4, <1>5, <1>6, <1>7, <1>8

\* What each action does, field by field.
LEMMA BeginWriteDoes ==
  ASSUME SwTyped, NEW n \in Int, BeginWrite(n)
  PROVE  /\ main.pc = "idle"
         /\ main' = [pc |-> "push", left |-> n, wrote |-> FALSE, since |-> 0]
         /\ use = "tx" => LineIdle \/ (tx.state = "TX_DATA" /\ tx.bits < 7)
         /\ use \in {"tx", "tx_any"}
         /\ UNCHANGED <<use, timer, tx, rx, ccp, pin, peer, written, heard, sent, got>>
BY MainTyped DEF BeginWrite

LEMMA PushDoes ==
  ASSUME SwTyped, NEW b \in 0 .. 255, Push(b)
  PROVE  /\ main.pc = "push" /\ tx.ring.count < SZ
         /\ tx' = [state |-> tx.state, shift |-> tx.shift, bits |-> tx.bits,
                   deadline |-> tx.deadline, ring |-> Put(tx.ring, b)]
         /\ written' = Append(written, b)
         /\ main' = [pc |-> "push", left |-> main.left - 1, wrote |-> TRUE, since |-> main.since]
         /\ UNCHANGED <<use, timer, rx, ccp, pin, peer, heard, sent, got>>
<1> DEFINE q == tx'
           r == Put(tx.ring, b)
<1>1. q = [tx EXCEPT !.ring = r]
  BY DEF Push
<1> HIDE DEF q, r
<1>2. q = [state |-> tx.state, shift |-> tx.shift, bits |-> tx.bits,
           deadline |-> tx.deadline, ring |-> r]
  BY <1>1 DEF SwTyped, TxChannel
<1>3. main' = [pc |-> main.pc, left |-> main.left - 1, wrote |-> TRUE, since |-> main.since]
  BY MainTyped DEF Push
<1>4. QED
  BY <1>2, <1>3 DEF Push, q, r

LEMMA TestIdleDoes ==
  ASSUME SwTyped, TestIdle
  PROVE  /\ main.pc = "push"
         /\ \/ /\ main.wrote /\ tx.state = "TX_IDLE"
               /\ main' = [pc |-> "pop", left |-> main.left, wrote |-> main.wrote,
                           since |-> main.since]
            \/ main' = Returned
         /\ UNCHANGED <<use, timer, tx, rx, ccp, pin, peer, written, heard, sent, got>>
<1>1. "pop" \in Pcs
  BY DEF Pcs
<1>2. QED
  BY <1>1, MainTyped DEF TestIdle

LEMMA PopDoes ==
  ASSUME SwTyped, Pop
  PROVE  /\ main.pc = "pop"
         /\ tx' = [state |-> "TX_DATA", shift |-> tx.ring.buf[tx.ring.tail], bits |-> 0,
                   deadline |-> tx.deadline, ring |-> Drop(tx.ring)]
         /\ main' = [pc |-> "deadline", left |-> main.left, wrote |-> main.wrote,
                     since |-> main.since]
         /\ UNCHANGED <<use, timer, rx, ccp, pin, peer, written, heard, sent, got>>
<1>1. "deadline" \in Pcs /\ tx \in TxChannel
  BY DEF Pcs, SwTyped
<1>2. QED
  BY <1>1, MainTyped, LoadedIs DEF Pop

LEMMA ReadTimerDoes ==
  ASSUME SwTyped, ReadTimer
  PROVE  /\ main.pc = "deadline"
         /\ tx' = [state |-> tx.state, shift |-> tx.shift, bits |-> tx.bits,
                   deadline |-> After(timer, Lead), ring |-> tx.ring]
         /\ main' = [pc |-> "arm", left |-> main.left, wrote |-> main.wrote, since |-> 0]
         /\ UNCHANGED <<use, timer, rx, ccp, pin, peer, written, heard, sent, got>>
<1> DEFINE q == tx'
           d == After(timer, Lead)
<1>1. q = [tx EXCEPT !.deadline = d]
  BY DEF ReadTimer
<1> HIDE DEF q, d
<1>2. q = [state |-> tx.state, shift |-> tx.shift, bits |-> tx.bits, deadline |-> d,
           ring |-> tx.ring]
  BY <1>1 DEF SwTyped, TxChannel
<1>3. QED
  BY <1>2, MainTyped DEF ReadTimer, q, d

LEMMA ArmStartDoes ==
  ASSUME SwTyped, ArmStart
  PROVE  /\ main.pc = "arm"
         /\ ccp' = [tx |-> [mode |-> "CLEAR", value |-> tx.deadline, due |-> ccp.tx.due,
                            late |-> ccp.tx.late], rx |-> ccp.rx]
         /\ main' = Returned
         /\ UNCHANGED <<use, timer, tx, rx, pin, peer, written, heard, sent, got>>
<1>1. ccp \in Modules
  BY DEF SwTyped
<1>2. ccp' = [ccp EXCEPT !["tx"].mode = "CLEAR", !["tx"].value = tx.deadline]
  BY DEF ArmStart, Arm
<1>3. ccp' = [tx |-> [mode |-> "CLEAR", value |-> tx.deadline, due |-> ccp.tx.due,
                      late |-> ccp.tx.late], rx |-> ccp.rx]
  BY <1>1, <1>2, ArmIs
<1>4. QED
  BY <1>3 DEF ArmStart

LEMMA TxRearmDoes ==
  ASSUME SwTyped, NEW t \in TxChannel, NEW mode, TxRearm(t, mode)
  PROVE  /\ tx' = [state |-> t.state, shift |-> t.shift, bits |-> t.bits,
                   deadline |-> After(tx.deadline, Bit), ring |-> t.ring]
         /\ ccp' = [tx |-> [mode |-> mode, value |-> After(tx.deadline, Bit), due |-> FALSE,
                            late |-> 0], rx |-> ccp.rx]
         /\ pin' = pin
<1> DEFINE q == tx'
           d == After(tx.deadline, Bit)
<1>1. q = [t EXCEPT !.deadline = d]
  BY DEF TxRearm
<1>2. ccp' = [Served("tx", ccp) EXCEPT !.tx.mode = mode, !.tx.value = d] /\ pin' = pin
  BY DEF TxRearm
<1> HIDE DEF q, d
<1>3. q = [state |-> t.state, shift |-> t.shift, bits |-> t.bits, deadline |-> d, ring |-> t.ring]
  BY <1>1 DEF TxChannel
<1>4. ccp \in Modules
  BY DEF SwTyped
<1>5. ccp' = [tx |-> [mode |-> mode, value |-> d, due |-> FALSE, late |-> 0], rx |-> ccp.rx]
  BY <1>2, <1>4, RearmIs
<1>6. QED
  BY <1>2, <1>3, <1>5 DEF q, d

LEMMA TxOffDoes ==
  ASSUME SwTyped, TxOff
  PROVE  /\ ccp.tx.due /\ tx.state = "TX_IDLE" /\ tx.ring.count = 0
         /\ ccp' = [tx |-> [mode |-> "OFF", value |-> ccp.tx.value, due |-> FALSE, late |-> 0],
                    rx |-> ccp.rx]
         /\ pin' = [tx |-> 1, rx |-> pin.rx]
         /\ UNCHANGED <<use, timer, tx, rx, main, peer, written, heard, sent, got>>
<1>1. ccp \in Modules
  BY DEF SwTyped
<1>2. ccp' = [tx |-> [mode |-> "OFF", value |-> ccp.tx.value, due |-> FALSE, late |-> 0],
              rx |-> ccp.rx]
  BY <1>1, TxModeIs DEF TxOff
<1> DEFINE q == pin'
<1>3. q = [pin EXCEPT !.tx = 1]
  BY DEF TxOff
<1> HIDE DEF q
<1>4. q = [tx |-> 1, rx |-> pin.rx]
  BY <1>3 DEF SwTyped
<1>5. QED
  BY <1>2, <1>4 DEF TxOff, Handles, q

LEMMA TxNextDoes ==
  ASSUME SwTyped, TxNext
  PROVE  /\ ccp.tx.due /\ tx.state = "TX_IDLE" /\ tx.ring.count # 0
         /\ tx' = [state |-> "TX_DATA", shift |-> tx.ring.buf[tx.ring.tail], bits |-> 0,
                   deadline |-> After(tx.deadline, Bit), ring |-> Drop(tx.ring)]
         /\ ccp' = [tx |-> [mode |-> "CLEAR", value |-> After(tx.deadline, Bit), due |-> FALSE,
                            late |-> 0], rx |-> ccp.rx]
         /\ UNCHANGED <<use, timer, rx, main, pin, peer, written, heard, sent, got>>
<1>1. tx \in TxChannel
  BY DEF SwTyped
<1> DEFINE t == Loaded(tx)
<1>2. t \in TxChannel
  BY <1>1, LoadedTyped
<1>3. t = [state |-> "TX_DATA", shift |-> tx.ring.buf[tx.ring.tail], bits |-> 0,
           deadline |-> tx.deadline, ring |-> Drop(tx.ring)]
  BY <1>1, LoadedIs
<1>4. TxRearm(t, "CLEAR")
  BY DEF TxNext
<1> HIDE DEF t
<1>5. /\ tx' = [state |-> t.state, shift |-> t.shift, bits |-> t.bits,
                deadline |-> After(tx.deadline, Bit), ring |-> t.ring]
      /\ ccp' = [tx |-> [mode |-> "CLEAR", value |-> After(tx.deadline, Bit), due |-> FALSE,
                         late |-> 0], rx |-> ccp.rx]
      /\ pin' = pin
  BY <1>2, <1>4, TxRearmDoes
<1>6. QED
  BY <1>3, <1>5 DEF TxNext, Handles

LEMMA TxBitDoes ==
  ASSUME SwTyped, TxBit
  PROVE  /\ ccp.tx.due /\ tx.state = "TX_DATA" /\ tx.bits \in 0 .. 7
         /\ tx' = [state |-> IF tx.bits = 7 THEN "TX_STOP" ELSE "TX_DATA",
                   shift |-> tx.shift \div 2, bits |-> tx.bits + 1,
                   deadline |-> After(tx.deadline, Bit), ring |-> tx.ring]
         /\ ccp' = [tx |-> [mode |-> Level(tx.shift % 2), value |-> After(tx.deadline, Bit),
                            due |-> FALSE, late |-> 0], rx |-> ccp.rx]
         /\ UNCHANGED <<use, timer, rx, main, pin, peer, written, heard, sent, got>>
<1>1. tx \in TxChannel /\ tx.bits \in 0 .. 7 /\ tx.state = "TX_DATA" /\ tx.shift \in 0 .. 255
  BY TypedParts DEF SwTyped, TxBit
<1> DEFINE h == tx.shift \div 2
           n == tx.bits + 1
           st == IF tx.bits + 1 >= 8 THEN "TX_STOP" ELSE "TX_DATA"
           t == [tx EXCEPT !.shift = h, !.bits = n, !.state = st]
           m == Level(tx.shift % 2)
<1>2. TxRearm(t, m)
  BY DEF TxBit
<1>3. h \in 0 .. 255 /\ n \in 0 .. 8 /\ st \in TxStates /\ st = IF tx.bits = 7 THEN "TX_STOP" ELSE "TX_DATA"
  BY <1>1 DEF TxStates
<1>4. t = [tx EXCEPT !.shift = h, !.bits = n, !.state = st]
  OBVIOUS
<1> HIDE DEF h, n, st, t, m
<1>5. t = [state |-> st, shift |-> h, bits |-> n, deadline |-> tx.deadline, ring |-> tx.ring]
  BY <1>1, <1>4 DEF TxChannel
<1>6. t \in TxChannel
  BY <1>3, <1>5, TypedParts DEF TxChannel
<1>7. /\ tx' = [state |-> t.state, shift |-> t.shift, bits |-> t.bits,
                deadline |-> After(tx.deadline, Bit), ring |-> t.ring]
      /\ ccp' = [tx |-> [mode |-> m, value |-> After(tx.deadline, Bit), due |-> FALSE,
                         late |-> 0], rx |-> ccp.rx]
      /\ pin' = pin
  BY <1>2, <1>6, TxRearmDoes
<1>8. tx' = [state |-> IF tx.bits = 7 THEN "TX_STOP" ELSE "TX_DATA",
             shift |-> tx.shift \div 2, bits |-> tx.bits + 1,
             deadline |-> After(tx.deadline, Bit), ring |-> tx.ring]
  BY <1>3, <1>5, <1>7 DEF h, n
<1>9. QED
  BY <1>1, <1>7, <1>8 DEF TxBit, Handles, m

LEMMA TxStopDoes ==
  ASSUME SwTyped, TxStop
  PROVE  /\ ccp.tx.due /\ tx.state = "TX_STOP"
         /\ tx' = [state |-> "TX_IDLE", shift |-> tx.shift, bits |-> tx.bits,
                   deadline |-> After(tx.deadline, Bit), ring |-> tx.ring]
         /\ ccp' = [tx |-> [mode |-> "SET", value |-> After(tx.deadline, Bit),
                            due |-> FALSE, late |-> 0], rx |-> ccp.rx]
         /\ UNCHANGED <<use, timer, rx, main, pin, peer, written, heard, sent, got>>
<1> DEFINE t == [tx EXCEPT !.state = "TX_IDLE"]
<1>1. TxRearm(t, "SET")
  BY DEF TxStop
<1>2. t = [tx EXCEPT !.state = "TX_IDLE"]
  OBVIOUS
<1> HIDE DEF t
<1>3. t = [state |-> "TX_IDLE", shift |-> tx.shift, bits |-> tx.bits, deadline |-> tx.deadline,
           ring |-> tx.ring]
  BY <1>2 DEF SwTyped, TxChannel
<1>4. t \in TxChannel
  BY <1>3, TypedParts DEF TxChannel, TxStates
<1>5. /\ tx' = [state |-> t.state, shift |-> t.shift, bits |-> t.bits,
                deadline |-> After(tx.deadline, Bit), ring |-> t.ring]
      /\ ccp' = [tx |-> [mode |-> "SET", value |-> After(tx.deadline, Bit), due |-> FALSE,
                         late |-> 0], rx |-> ccp.rx]
      /\ pin' = pin
  BY <1>1, <1>4, TxRearmDoes
<1>6. QED
  BY <1>3, <1>5 DEF TxStop, Handles

LEMMA RxEdgeDoes ==
  ASSUME SwTyped, RxEdge
  PROVE  /\ ccp.rx.due /\ rx.state = "RX_IDLE"
         /\ rx' = [state |-> "RX_CONFIRM_START", shift |-> rx.shift, bits |-> rx.bits,
                   deadline |-> After(ccp.rx.value, Bit \div 2), ring |-> rx.ring,
                   errors |-> rx.errors]
         /\ ccp' = [tx |-> ccp.tx, rx |-> [mode |-> "COMPARE",
                      value |-> After(ccp.rx.value, Bit \div 2), due |-> FALSE, late |-> 0]]
         /\ UNCHANGED <<use, timer, tx, main, pin, peer, written, heard, sent, got>>
<1> DEFINE q == rx'
           d == After(ccp.rx.value, Bit \div 2)
<1>1. /\ q = [rx EXCEPT !.deadline = d, !.state = "RX_CONFIRM_START"]
      /\ ccp' = [Served("rx", ccp) EXCEPT !.rx.mode = "COMPARE", !.rx.value = d]
  BY DEF RxEdge
<1> HIDE DEF q, d
<1>2. q = [state |-> "RX_CONFIRM_START", shift |-> rx.shift, bits |-> rx.bits,
           deadline |-> d, ring |-> rx.ring, errors |-> rx.errors]
  BY <1>1 DEF SwTyped, RxChannel
<1>3. ccp \in Modules
  BY DEF SwTyped
<1>4. ccp' = [tx |-> ccp.tx, rx |-> [mode |-> "COMPARE", value |-> d, due |-> FALSE, late |-> 0]]
  BY <1>1, <1>3, RxArmIs
<1>5. QED
  BY <1>2, <1>4 DEF RxEdge, Handles, q, d

LEMMA RxRearmDoes ==
  ASSUME SwTyped, NEW r \in RxChannel, RxRearm(r)
  PROVE  /\ rx' = [state |-> r.state, shift |-> r.shift, bits |-> r.bits,
                   deadline |-> After(rx.deadline, Bit), ring |-> r.ring, errors |-> r.errors]
         /\ ccp' = [tx |-> ccp.tx, rx |-> [mode |-> ccp.rx.mode,
                      value |-> After(rx.deadline, Bit), due |-> FALSE, late |-> 0]]
<1> DEFINE q == rx'
           d == After(rx.deadline, Bit)
<1>1. /\ q = [r EXCEPT !.deadline = d]
      /\ ccp' = [Served("rx", ccp) EXCEPT !.rx.value = d]
  BY DEF RxRearm
<1> HIDE DEF q, d
<1>2. q = [state |-> r.state, shift |-> r.shift, bits |-> r.bits, deadline |-> d,
           ring |-> r.ring, errors |-> r.errors]
  BY <1>1 DEF RxChannel
<1>3. ccp \in Modules
  BY DEF SwTyped
<1>4. ccp' = [tx |-> ccp.tx, rx |-> [mode |-> ccp.rx.mode, value |-> d, due |-> FALSE, late |-> 0]]
  BY <1>1, <1>3, RxRearmIs
<1>5. QED
  BY <1>2, <1>4 DEF q, d

LEMMA RxCaptureDoes ==
  ASSUME SwTyped, NEW r \in RxChannel, RxCaptureAgain(r)
  PROVE  /\ rx' = [state |-> "RX_IDLE", shift |-> r.shift, bits |-> r.bits,
                   deadline |-> r.deadline, ring |-> r.ring, errors |-> r.errors]
         /\ ccp' = [tx |-> ccp.tx, rx |-> [mode |-> "CAPTURE", value |-> ccp.rx.value,
                                           due |-> FALSE, late |-> 0]]
<1> DEFINE q == rx'
<1>1. /\ q = [r EXCEPT !.state = "RX_IDLE"]
      /\ ccp' = [Served("rx", ccp) EXCEPT !.rx.mode = "CAPTURE"]
  BY DEF RxCaptureAgain
<1> HIDE DEF q
<1>2. q = [state |-> "RX_IDLE", shift |-> r.shift, bits |-> r.bits, deadline |-> r.deadline,
           ring |-> r.ring, errors |-> r.errors]
  BY <1>1 DEF RxChannel
<1>3. ccp \in Modules
  BY DEF SwTyped
<1>4. QED
  BY <1>1, <1>2, <1>3, RxModeIs DEF q

LEMMA RxConfirmDoes ==
  ASSUME SwTyped, RxConfirm
  PROVE  /\ ccp.rx.due /\ rx.state = "RX_CONFIRM_START"
         /\ IF pin.rx # 0
            THEN /\ rx' = [state |-> "RX_IDLE", shift |-> rx.shift, bits |-> rx.bits,
                           deadline |-> rx.deadline, ring |-> rx.ring, errors |-> rx.errors]
                 /\ ccp' = [tx |-> ccp.tx, rx |-> [mode |-> "CAPTURE", value |-> ccp.rx.value,
                                                   due |-> FALSE, late |-> 0]]
            ELSE /\ rx' = [state |-> "RX_DATA", shift |-> 0, bits |-> 0,
                           deadline |-> After(rx.deadline, Bit), ring |-> rx.ring,
                           errors |-> rx.errors]
                 /\ ccp' = [tx |-> ccp.tx, rx |-> [mode |-> ccp.rx.mode,
                              value |-> After(rx.deadline, Bit), due |-> FALSE, late |-> 0]]
         /\ UNCHANGED <<use, timer, tx, main, pin, peer, written, heard, sent, got>>
<1>1. CASE pin.rx # 0
  <2>1. RxCaptureAgain(rx) /\ rx \in RxChannel
    BY <1>1 DEF RxConfirm, SwTyped
  <2>2. QED
    BY <1>1, <2>1, RxCaptureDoes DEF RxConfirm, Handles
<1>2. CASE ~(pin.rx # 0)
  <2> DEFINE r == [rx EXCEPT !.shift = 0, !.bits = 0, !.state = "RX_DATA"]
  <2>1. RxRearm(r)
    BY <1>2 DEF RxConfirm
  <2>2. r = [rx EXCEPT !.shift = 0, !.bits = 0, !.state = "RX_DATA"]
    OBVIOUS
  <2> HIDE DEF r
  <2>3. r = [state |-> "RX_DATA", shift |-> 0, bits |-> 0, deadline |-> rx.deadline,
             ring |-> rx.ring, errors |-> rx.errors]
    BY <2>2 DEF SwTyped, RxChannel
  <2>4. r \in RxChannel
    BY <2>3, TypedParts DEF RxChannel, RxStates
  <2>5. /\ rx' = [state |-> r.state, shift |-> r.shift, bits |-> r.bits,
                  deadline |-> After(rx.deadline, Bit), ring |-> r.ring, errors |-> r.errors]
        /\ ccp' = [tx |-> ccp.tx, rx |-> [mode |-> ccp.rx.mode,
                     value |-> After(rx.deadline, Bit), due |-> FALSE, late |-> 0]]
    BY <2>1, <2>4, RxRearmDoes
  <2>6. QED
    BY <1>2, <2>3, <2>5 DEF RxConfirm, Handles
<1>3. QED
  BY <1>1, <1>2

LEMMA RxBitDoes ==
  ASSUME SwTyped, RxBit
  PROVE  /\ ccp.rx.due /\ rx.state = "RX_DATA" /\ rx.bits \in 0 .. 7
         /\ (rx.shift \div 2) + 128 * pin.rx \in 0 .. 255
         /\ rx' = [state |-> IF rx.bits = 7 THEN "RX_STOP" ELSE "RX_DATA",
                   shift |-> (rx.shift \div 2) + 128 * pin.rx, bits |-> rx.bits + 1,
                   deadline |-> After(rx.deadline, Bit), ring |-> rx.ring,
                   errors |-> rx.errors]
         /\ ccp' = [tx |-> ccp.tx, rx |-> [mode |-> ccp.rx.mode,
                      value |-> After(rx.deadline, Bit), due |-> FALSE, late |-> 0]]
         /\ UNCHANGED <<use, timer, tx, main, pin, peer, written, heard, sent, got>>
<1>1. rx \in RxChannel /\ rx.bits \in 0 .. 7 /\ rx.shift \in 0 .. 255 /\ pin.rx \in {0, 1}
  BY TypedParts DEF SwTyped, RxBit
<1> DEFINE h == (rx.shift \div 2) + 128 * pin.rx
           n == rx.bits + 1
           st == IF rx.bits + 1 < 8 THEN "RX_DATA" ELSE "RX_STOP"
           r == [rx EXCEPT !.shift = h, !.bits = n, !.state = st]
<1>2. RxRearm(r)
  BY DEF RxBit
<1>3. /\ h \in 0 .. 255 /\ n \in 0 .. 8 /\ st \in RxStates
      /\ st = IF rx.bits = 7 THEN "RX_STOP" ELSE "RX_DATA"
  BY <1>1 DEF RxStates
<1>4. r = [rx EXCEPT !.shift = h, !.bits = n, !.state = st]
  OBVIOUS
<1> HIDE DEF h, n, st, r
<1>5. r = [state |-> st, shift |-> h, bits |-> n, deadline |-> rx.deadline,
           ring |-> rx.ring, errors |-> rx.errors]
  BY <1>1, <1>4 DEF RxChannel
<1>6. r \in RxChannel
  BY <1>3, <1>5, TypedParts DEF RxChannel
<1>7. /\ rx' = [state |-> r.state, shift |-> r.shift, bits |-> r.bits,
                deadline |-> After(rx.deadline, Bit), ring |-> r.ring, errors |-> r.errors]
      /\ ccp' = [tx |-> ccp.tx, rx |-> [mode |-> ccp.rx.mode,
                   value |-> After(rx.deadline, Bit), due |-> FALSE, late |-> 0]]
  BY <1>2, <1>6, RxRearmDoes
<1>8. rx' = [state |-> IF rx.bits = 7 THEN "RX_STOP" ELSE "RX_DATA",
             shift |-> (rx.shift \div 2) + 128 * pin.rx, bits |-> rx.bits + 1,
             deadline |-> After(rx.deadline, Bit), ring |-> rx.ring, errors |-> rx.errors]
  BY <1>3, <1>5, <1>7 DEF h, n
<1>9. (rx.shift \div 2) + 128 * pin.rx \in 0 .. 255
  BY <1>3 DEF h
<1>10. QED
  BY <1>1, <1>7, <1>8, <1>9 DEF RxBit, Handles

LEMMA RxStopDoes ==
  ASSUME SwTyped, RxStop
  PROVE  /\ ccp.rx.due /\ rx.state = "RX_STOP"
         /\ rx' = [state |-> "RX_IDLE", shift |-> rx.shift, bits |-> rx.bits,
                   deadline |-> rx.deadline,
                   ring |-> IF pin.rx # 0 /\ rx.ring.count < SZ THEN Put(rx.ring, rx.shift)
                            ELSE rx.ring,
                   errors |-> IF pin.rx # 0 /\ rx.ring.count < SZ THEN rx.errors
                              ELSE rx.errors + 1]
         /\ ccp' = [tx |-> ccp.tx, rx |-> [mode |-> "CAPTURE", value |-> ccp.rx.value,
                                           due |-> FALSE, late |-> 0]]
         /\ UNCHANGED <<use, timer, tx, main, pin, peer, written, heard, sent, got>>
<1> DEFINE r == IF pin.rx # 0 THEN RxPush(rx) ELSE [rx EXCEPT !.errors = @ + 1]
           ring == IF pin.rx # 0 /\ rx.ring.count < SZ THEN Put(rx.ring, rx.shift) ELSE rx.ring
           errors == IF pin.rx # 0 /\ rx.ring.count < SZ THEN rx.errors ELSE rx.errors + 1
<1>1. RxCaptureAgain(r)
  BY DEF RxStop
<1>2. rx.ring \in Rings /\ rx.shift \in 0 .. 255 /\ rx.errors \in Nat /\ rx.ring.count \in Nat
      /\ SZ \in Nat
  BY TypedParts, RingFields, Constants
<1>3. Put(rx.ring, rx.shift) \in Rings
  BY <1>2, PutTyped
<1>4. r = [rx EXCEPT !.ring = ring, !.errors = errors]
  <2> DEFINE p == Put(rx.ring, rx.shift)
             e == rx.errors + 1
  <2>1. CASE pin.rx # 0 /\ rx.ring.count < SZ
    <3>1. r = [rx EXCEPT !.ring = p]
      BY <1>2, <2>1 DEF RxPush
    <3>2. ring = p /\ errors = rx.errors
      BY <2>1
    <3> HIDE DEF r, p, ring, errors
    <3>3. QED
      BY <3>1, <3>2 DEF SwTyped, RxChannel
  <2>2. CASE ~(pin.rx # 0 /\ rx.ring.count < SZ)
    <3>1. r = [rx EXCEPT !.errors = e]
      BY <1>2, <2>2 DEF RxPush
    <3>2. ring = rx.ring /\ errors = e
      BY <2>2
    <3> HIDE DEF r, e, ring, errors
    <3>3. QED
      BY <3>1, <3>2 DEF SwTyped, RxChannel
  <2>3. QED
    BY <2>1, <2>2
<1>5. ring \in Rings /\ errors \in Nat
  BY <1>2, <1>3
<1> HIDE DEF r, ring, errors
<1>6. r = [state |-> rx.state, shift |-> rx.shift, bits |-> rx.bits, deadline |-> rx.deadline,
           ring |-> ring, errors |-> errors]
  BY <1>4 DEF SwTyped, RxChannel
<1>7. r \in RxChannel
  BY <1>5, <1>6, TypedParts DEF RxChannel
<1>8. /\ rx' = [state |-> "RX_IDLE", shift |-> r.shift, bits |-> r.bits,
                deadline |-> r.deadline, ring |-> r.ring, errors |-> r.errors]
      /\ ccp' = [tx |-> ccp.tx, rx |-> [mode |-> "CAPTURE", value |-> ccp.rx.value,
                                        due |-> FALSE, late |-> 0]]
  BY <1>1, <1>7, RxCaptureDoes
<1>9. rx' = [state |-> "RX_IDLE", shift |-> rx.shift, bits |-> rx.bits,
             deadline |-> rx.deadline, ring |-> ring, errors |-> errors]
  BY <1>6, <1>8
<1>10. QED
  BY <1>8, <1>9 DEF RxStop, Handles, ring, errors

LEMMA ReadDoes ==
  ASSUME SwTyped, Read
  PROVE  /\ rx.ring.count > 0
         /\ rx' = [state |-> rx.state, shift |-> rx.shift, bits |-> rx.bits,
                   deadline |-> rx.deadline, ring |-> Drop(rx.ring), errors |-> rx.errors]
         /\ got' = Append(got, rx.ring.buf[rx.ring.tail])
         /\ UNCHANGED <<use, timer, tx, ccp, main, pin, peer, written, heard, sent>>
<1> DEFINE q == rx'
           d == Drop(rx.ring)
<1>1. q = [rx EXCEPT !.ring = d]
  BY DEF Read
<1> HIDE DEF q, d
<1>2. q = [state |-> rx.state, shift |-> rx.shift, bits |-> rx.bits, deadline |-> rx.deadline,
           ring |-> d, errors |-> rx.errors]
  BY <1>1 DEF SwTyped, RxChannel
<1>3. QED
  BY <1>2 DEF Read, q, d

LEMMA PeerSendsDoes ==
  ASSUME SwTyped, NEW levels, NEW what, PeerSends(levels, what)
  PROVE  /\ use = "rx" /\ peer.frame = <<>> /\ Len(sent) < MaxBytes
         /\ peer' = [age |-> peer.age, bits |-> peer.bits, frame |-> levels, quiet |-> 0]
         /\ sent' = sent \o what
         /\ UNCHANGED <<use, timer, tx, rx, ccp, main, pin, written, heard, got>>
<1> DEFINE q == peer'
<1>1. q = [peer EXCEPT !.frame = levels, !.quiet = 0]
  BY DEF PeerSends
<1> HIDE DEF q
<1>2. q = [age |-> peer.age, bits |-> peer.bits, frame |-> levels, quiet |-> 0]
  BY <1>1 DEF SwTyped, Peers
<1>3. QED
  BY <1>2 DEF PeerSends, q

LEMMA TransmitsDoes ==
  ASSUME SwTyped, Transmits
  PROVE  /\ heard' = heard
         /\ IF peer.frame = <<>>
            THEN peer' = [age |-> peer.age, bits |-> peer.bits, frame |-> peer.frame,
                          quiet |-> Quieter]
            ELSE peer' = [age |-> peer.age, bits |-> peer.bits, frame |-> Tail(peer.frame),
                          quiet |-> peer.quiet]
<1> DEFINE q == peer'
           u == Quieter
           f == Tail(peer.frame)
<1>1. CASE peer.frame = <<>>
  <2>1. q = [peer EXCEPT !.quiet = u]
    BY <1>1 DEF Transmits
  <2> HIDE DEF q, u
  <2>2. q = [age |-> peer.age, bits |-> peer.bits, frame |-> peer.frame, quiet |-> u]
    BY <2>1 DEF SwTyped, Peers
  <2>3. QED
    BY <1>1, <2>2 DEF Transmits, q, u
<1>2. CASE peer.frame # <<>>
  <2>1. q = [peer EXCEPT !.frame = f]
    BY <1>2 DEF Transmits
  <2> HIDE DEF q, f
  <2>2. q = [age |-> peer.age, bits |-> peer.bits, frame |-> f, quiet |-> peer.quiet]
    BY <2>1 DEF SwTyped, Peers
  <2>3. QED
    BY <1>2, <2>2 DEF Transmits, q, f
<1>3. QED
  BY <1>1, <1>2

\* The samples of the peer once the tick's level is on the line.
Sampled(level) ==
  IF peer.age + 1 = Len(peer.bits) * Bit + Bit \div 2 THEN Append(peer.bits, level) ELSE peer.bits

LEMMA ReceivesDoes ==
  ASSUME SwTyped, NEW level, Receives(level)
  PROVE  IF peer.age = -1
         THEN /\ heard' = heard
              /\ peer' = IF level = 0
                         THEN [age |-> 0, bits |-> peer.bits, frame |-> peer.frame, quiet |-> 0]
                         ELSE [age |-> peer.age, bits |-> peer.bits, frame |-> peer.frame,
                               quiet |-> Quieter]
         ELSE IF Len(Sampled(level)) < 10
         THEN /\ heard' = heard
              /\ peer' = [age |-> peer.age + 1, bits |-> Sampled(level), frame |-> peer.frame,
                          quiet |-> peer.quiet]
         ELSE /\ heard' = Append(heard, Decode(Sampled(level)))
              /\ peer' = [age |-> -1, bits |-> <<>>, frame |-> peer.frame, quiet |-> peer.quiet]
<1> DEFINE q == peer'
           u == Quieter
           b == Sampled(level)
           a == peer.age + 1
<1>1. CASE peer.age = -1 /\ level = 0
  <2>1. q = [peer EXCEPT !.age = 0, !.quiet = 0] /\ heard' = heard
    BY <1>1 DEF Receives
  <2> HIDE DEF q
  <2>2. q = [age |-> 0, bits |-> peer.bits, frame |-> peer.frame, quiet |-> 0]
    BY <2>1 DEF SwTyped, Peers
  <2>3. QED
    BY <1>1, <2>1, <2>2 DEF q
<1>2. CASE peer.age = -1 /\ level # 0
  <2>1. q = [peer EXCEPT !.quiet = u] /\ heard' = heard
    BY <1>2 DEF Receives
  <2> HIDE DEF q, u
  <2>2. q = [age |-> peer.age, bits |-> peer.bits, frame |-> peer.frame, quiet |-> u]
    BY <2>1 DEF SwTyped, Peers
  <2>3. QED
    BY <1>2, <2>1, <2>2 DEF q, u
<1>3. CASE peer.age # -1 /\ Len(b) < 10
  <2>1. q = [peer EXCEPT !.age = a, !.bits = b] /\ heard' = heard
    BY <1>3 DEF Receives, Sampled
  <2> HIDE DEF q, a, b
  <2>2. q = [age |-> a, bits |-> b, frame |-> peer.frame, quiet |-> peer.quiet]
    BY <2>1 DEF SwTyped, Peers
  <2>3. QED
    BY <1>3, <2>1, <2>2 DEF q, a, b
<1>4. CASE peer.age # -1 /\ ~(Len(b) < 10)
  <2>1. q = [peer EXCEPT !.age = -1, !.bits = <<>>] /\ heard' = Append(heard, Decode(b))
    BY <1>4 DEF Receives, Sampled
  <2> HIDE DEF q
  <2>2. q = [age |-> -1, bits |-> <<>>, frame |-> peer.frame, quiet |-> peer.quiet]
    BY <2>1 DEF SwTyped, Peers
  <2>3. QED
    BY <1>4, <2>1, <2>2 DEF q, b
<1>5. QED
  BY <1>1, <1>2, <1>3, <1>4

LEMMA TickDoes ==
  ASSUME SwTyped, Tick
  PROVE  /\ ccp.tx.due => ccp.tx.late < Latency
         /\ ccp.rx.due => ccp.rx.late < Latency
         /\ main.pc # "idle" => main.since < MainTicks
         /\ timer' = Now /\ pin' = [tx |-> TxLevel, rx |-> RxLevel]
         /\ ccp' = [tx |-> [mode |-> ccp.tx.mode, value |-> ccp.tx.value,
                            due |-> (ccp.tx.due \/ Event(ccp.tx, Now)),
                            late |-> IF ccp.tx.due THEN ccp.tx.late + 1 ELSE 0],
                    rx |-> [mode |-> ccp.rx.mode,
                            value |-> IF Captured THEN Now ELSE ccp.rx.value,
                            due |-> (ccp.rx.due \/ Event(ccp.rx, Now) \/ Captured),
                            late |-> IF ccp.rx.due THEN ccp.rx.late + 1 ELSE 0]]
         /\ main' = [pc |-> main.pc, left |-> main.left, wrote |-> main.wrote,
                     since |-> IF main.pc = "idle" THEN main.since ELSE main.since + 1]
         /\ IF use = "rx" THEN Transmits ELSE Receives(TxLevel)
         /\ UNCHANGED <<use, tx, rx, written, sent, got>>
<1> DEFINE e == Event(ccp.tx, Now)
           f == Event(ccp.rx, Now) \/ Captured
           t == Later(ccp.tx, e)
           r == Later(ccp.rx, f)
           v == IF Captured THEN Now ELSE ccp.rx.value
           q == [r EXCEPT !.value = v]
<1>1. ccp' = [tx |-> t, rx |-> [r EXCEPT !.value = IF Captured THEN Now ELSE @]]
  BY DEF Tick
<1>2. e \in BOOLEAN /\ f \in BOOLEAN
  BY DEF Event, Captured
<1>3. t = [mode |-> ccp.tx.mode, value |-> ccp.tx.value, due |-> (ccp.tx.due \/ e),
           late |-> IF ccp.tx.due THEN ccp.tx.late + 1 ELSE 0]
  <2> HIDE DEF e
  <2>1. ccp.tx \in Module({"OFF", "SET", "CLEAR"})
    BY TypedParts DEF TxModule
  <2>2. QED
    BY <1>2, <2>1, LaterIs
<1>4. r = [mode |-> ccp.rx.mode, value |-> ccp.rx.value, due |-> (ccp.rx.due \/ f),
           late |-> IF ccp.rx.due THEN ccp.rx.late + 1 ELSE 0]
  <2> HIDE DEF f
  <2>1. ccp.rx \in Module({"CAPTURE", "COMPARE"})
    BY TypedParts DEF RxModule
  <2>2. QED
    BY <1>2, <2>1, LaterIs
<1>5. [r EXCEPT !.value = IF Captured THEN Now ELSE @] = q
  <2> HIDE DEF f, e, t
  <2>1. r.value = ccp.rx.value
    BY <1>4
  <2> HIDE DEF r
  <2>2. QED
    BY <2>1
<1>6. q = [mode |-> ccp.rx.mode, value |-> v, due |-> (ccp.rx.due \/ f),
           late |-> IF ccp.rx.due THEN ccp.rx.late + 1 ELSE 0]
  <2> DEFINE l == IF ccp.rx.due THEN ccp.rx.late + 1 ELSE 0
             d == ccp.rx.due \/ f
  <2>1. q = [r EXCEPT !.value = v] /\ r = [mode |-> ccp.rx.mode, value |-> ccp.rx.value,
                                           due |-> d, late |-> l]
    BY <1>4
  <2> HIDE DEF q, r, v, l, d
  <2>2. q = [mode |-> ccp.rx.mode, value |-> v, due |-> d, late |-> l]
    BY <2>1
  <2>3. QED
    BY <2>2 DEF d, l
<1> HIDE DEF t, r, q
<1>7. ccp' = [tx |-> t, rx |-> q]
  BY <1>1, <1>5
<1>8. main' = [pc |-> main.pc, left |-> main.left, wrote |-> main.wrote,
               since |-> IF main.pc = "idle" THEN main.since ELSE main.since + 1]
  <2>1. CASE main.pc = "idle"
    <3>1. main' = main
      BY <2>1 DEF Tick
    <3>2. main \in Mains
      BY DEF SwTyped
    <3>3. QED
      BY <2>1, <3>1, <3>2 DEF Mains
  <2>2. CASE main.pc # "idle"
    <3>1. main' = [main EXCEPT !.since = @ + 1]
      BY <2>2 DEF Tick
    <3>2. QED
      BY <2>2, <3>1, MainTyped
  <2>3. QED
    BY <2>1, <2>2
<1>9. /\ ccp.tx.due => ccp.tx.late < Latency
      /\ ccp.rx.due => ccp.rx.late < Latency
      /\ main.pc # "idle" => main.since < MainTicks
      /\ timer' = Now /\ pin' = [tx |-> TxLevel, rx |-> RxLevel]
      /\ IF use = "rx" THEN Transmits ELSE Receives(TxLevel)
      /\ UNCHANGED <<use, tx, rx, written, sent, got>>
  BY DEF Tick
<1>10. ccp' = [tx |-> [mode |-> ccp.tx.mode, value |-> ccp.tx.value,
                            due |-> (ccp.tx.due \/ Event(ccp.tx, Now)),
                            late |-> IF ccp.tx.due THEN ccp.tx.late + 1 ELSE 0],
                    rx |-> [mode |-> ccp.rx.mode,
                            value |-> IF Captured THEN Now ELSE ccp.rx.value,
                            due |-> (ccp.rx.due \/ Event(ccp.rx, Now) \/ Captured),
                            late |-> IF ccp.rx.due THEN ccp.rx.late + 1 ELSE 0]]
  BY <1>3, <1>6, <1>7 DEF e, f, v
<1> QED
  BY <1>8, <1>9, <1>10
-----------------------------------------------------------------------------
\* The levels of a tick, and what the peer's ends make of one.
LEMMA LevelsTyped ==
  ASSUME SwTyped
  PROVE  Now \in 0 .. CycleMod - 1 /\ TxLevel \in {0, 1} /\ RxLevel \in {0, 1}
<1>1. timer \in Int
  BY Constants DEF SwTyped
<1>2. Now \in 0 .. CycleMod - 1
  BY <1>1, AfterTyped DEF Now
<1>3. TxLevel \in {0, 1}
  BY TypedParts DEF TxLevel
<1>4. RxLevel \in {0, 1}
  <2>1. peer.frame \in Seq({0, 1})
    BY TypedParts
  <2>2. CASE peer.frame = <<>>
    BY <2>2 DEF RxLevel
  <2>3. CASE peer.frame # <<>>
    <3>1. Head(peer.frame) \in {0, 1}
      BY <2>1, <2>3, HeadTailProperties
    <3>2. QED
      BY <2>3, <3>1 DEF RxLevel
  <2>4. QED
    BY <2>2, <2>3
<1>5. QED
  BY <1>2, <1>3, <1>4

LEMMA DecodeTyped ==
  ASSUME NEW b \in Seq({0, 1}), Len(b) >= 10
  PROVE  Decode(b) \in -1 .. 255
<1>1. \A i \in 1 .. 10 : b[i] \in {0, 1}
  BY ElementOfSeq
<1>2. /\ b[2] \in {0, 1} /\ b[3] \in {0, 1} /\ b[4] \in {0, 1} /\ b[5] \in {0, 1}
      /\ b[6] \in {0, 1} /\ b[7] \in {0, 1} /\ b[8] \in {0, 1} /\ b[9] \in {0, 1}
  BY <1>1
<1> DEFINE p == b[2]  q == b[3]  r == b[4]  t == b[5]  u == b[6]  v == b[7]  w == b[8]  x == b[9]
<1>3. /\ p \in 0 .. 1 /\ q \in 0 .. 1 /\ r \in 0 .. 1 /\ t \in 0 .. 1
      /\ u \in 0 .. 1 /\ v \in 0 .. 1 /\ w \in 0 .. 1 /\ x \in 0 .. 1
  BY <1>2
<1>4. p + 2 * q + 4 * r + 8 * t + 16 * u + 32 * v + 64 * w + 128 * x \in -1 .. 255
  <2> HIDE DEF p, q, r, t, u, v, w, x
  <2>1. QED
    BY <1>3
<1>5. QED
  BY <1>4 DEF Decode, Bad

LEMMA PeerTyped ==
  ASSUME SwTyped, NEW level \in {0, 1},
         IF use = "rx" THEN Transmits ELSE Receives(level)
  PROVE  peer' \in Peers /\ heard' \in Seq(-1 .. 255)
<1>1. /\ peer.age \in Int /\ peer.bits \in Seq({0, 1}) /\ peer.frame \in Seq({0, 1})
      /\ peer.quiet \in 0 .. Bit /\ heard \in Seq(-1 .. 255) /\ Bit \in Nat
  BY TypedParts, Constants DEF SwTyped
<1>2. Quieter \in 0 .. Bit /\ 0 \in 0 .. Bit
  BY <1>1 DEF Quieter
<1>3. CASE use = "rx"
  <2>0. /\ heard' = heard
        /\ IF peer.frame = <<>>
           THEN peer' = [age |-> peer.age, bits |-> peer.bits, frame |-> peer.frame,
                         quiet |-> Quieter]
           ELSE peer' = [age |-> peer.age, bits |-> peer.bits, frame |-> Tail(peer.frame),
                         quiet |-> peer.quiet]
    BY <1>3, TransmitsDoes
  <2> DEFINE u == Quieter
  <2>1. CASE peer.frame = <<>>
    <3>1. peer' = [age |-> peer.age, bits |-> peer.bits, frame |-> peer.frame, quiet |-> u]
      BY <2>0, <2>1
    <3>2. u \in 0 .. Bit
      BY <1>2
    <3> HIDE DEF u
    <3>3. peer' \in Peers
      BY <1>1, <3>1, <3>2 DEF Peers
    <3>4. QED
      BY <1>1, <2>0, <3>3
  <2>2. CASE peer.frame # <<>>
    <3>1. Tail(peer.frame) \in Seq({0, 1})
      BY <1>1, <2>2, HeadTailProperties
    <3>2. peer' = [age |-> peer.age, bits |-> peer.bits, frame |-> Tail(peer.frame),
                   quiet |-> peer.quiet]
      BY <2>0, <2>2
    <3>3. peer' \in Peers
      BY <1>1, <3>1, <3>2 DEF Peers
    <3>4. QED
      BY <1>1, <2>0, <3>3
  <2>3. QED
    BY <2>1, <2>2
<1>4. CASE use # "rx"
  <2> DEFINE b == Sampled(level)
  <2>1. b \in Seq({0, 1})
    <3>1. Append(peer.bits, level) \in Seq({0, 1})
      BY <1>1, AppendProperties
    <3>2. QED
      BY <1>1, <3>1 DEF Sampled
  <2>2. <<>> \in Seq({0, 1}) /\ peer.age + 1 \in Int /\ -1 \in Int /\ 0 \in Int
    BY <1>1
  <2>3. Receives(level)
    BY <1>4
  <2>4. CASE peer.age = -1
    <3>1. /\ heard' = heard
          /\ peer' = IF level = 0
                     THEN [age |-> 0, bits |-> peer.bits, frame |-> peer.frame, quiet |-> 0]
                     ELSE [age |-> peer.age, bits |-> peer.bits, frame |-> peer.frame,
                           quiet |-> Quieter]
      BY <2>3, <2>4, ReceivesDoes
    <3> DEFINE u == Quieter
    <3>2. u \in 0 .. Bit
      BY <1>2
    <3>3. \/ peer' = [age |-> 0, bits |-> peer.bits, frame |-> peer.frame, quiet |-> 0]
          \/ peer' = [age |-> peer.age, bits |-> peer.bits, frame |-> peer.frame, quiet |-> u]
      BY <3>1
    <3> HIDE DEF u
    <3>4. peer' \in Peers
      BY <1>1, <1>2, <3>2, <3>3 DEF Peers
    <3>5. QED
      BY <1>1, <3>1, <3>4
  <2>5. CASE peer.age # -1 /\ Len(b) < 10
    <3>1. heard' = heard /\ peer' = [age |-> peer.age + 1, bits |-> b, frame |-> peer.frame,
                                     quiet |-> peer.quiet]
      BY <2>3, <2>5, ReceivesDoes
    <3> HIDE DEF b
    <3>2. QED
      BY <1>1, <2>1, <2>2, <3>1 DEF Peers
  <2>6. CASE peer.age # -1 /\ ~(Len(b) < 10)
    <3>1. heard' = Append(heard, Decode(b)) /\ peer' = [age |-> -1, bits |-> <<>>,
                                     frame |-> peer.frame, quiet |-> peer.quiet]
      BY <2>3, <2>6, ReceivesDoes
    <3> HIDE DEF b
    <3>2. Len(b) >= 10
      BY <2>1, <2>6, LenProperties
    <3>3. Decode(b) \in -1 .. 255
      BY <2>1, <3>2, DecodeTyped
    <3>4. heard' \in Seq(-1 .. 255)
      BY <1>1, <3>1, <3>3, AppendProperties
    <3>5. QED
      BY <1>1, <2>2, <3>1, <3>4 DEF Peers
  <2>7. QED
    BY <2>4, <2>5, <2>6
<1>5. QED
  BY <1>3, <1>4

LEMMA TxModuleSet ==
  ASSUME NEW m \in {"OFF", "SET", "CLEAR"}, NEW v \in 0 .. CycleMod - 1, NEW r \in RxModule
  PROVE  [tx |-> [mode |-> m, value |-> v, due |-> FALSE, late |-> 0], rx |-> r] \in Modules
<1>1. [mode |-> m, value |-> v, due |-> FALSE, late |-> 0] \in TxModule
  BY Constants DEF TxModule, Module
<1>2. QED
  BY <1>1 DEF Modules

LEMMA RxModuleSet ==
  ASSUME NEW m \in {"CAPTURE", "COMPARE"}, NEW v \in 0 .. CycleMod - 1, NEW t \in TxModule
  PROVE  [tx |-> t, rx |-> [mode |-> m, value |-> v, due |-> FALSE, late |-> 0]] \in Modules
<1>1. [mode |-> m, value |-> v, due |-> FALSE, late |-> 0] \in RxModule
  BY Constants DEF RxModule, Module
<1>2. QED
  BY <1>1 DEF Modules

LEMMA NextTyped ==
  ASSUME SwTyped, [Next]_vars
  PROVE  SwTyped'
<1>0. /\ tx.state \in TxStates /\ tx.shift \in 0 .. 255 /\ tx.bits \in 0 .. 8
      /\ tx.deadline \in 0 .. CycleMod - 1 /\ tx.ring \in Rings
      /\ rx.state \in RxStates /\ rx.shift \in 0 .. 255 /\ rx.bits \in 0 .. 8
      /\ rx.deadline \in 0 .. CycleMod - 1 /\ rx.ring \in Rings /\ rx.errors \in Nat
      /\ ccp.tx \in TxModule /\ ccp.rx \in RxModule
      /\ pin.tx \in {0, 1} /\ pin.rx \in {0, 1} /\ timer \in 0 .. CycleMod - 1
  BY TypedParts DEF SwTyped
<1>1. /\ main.pc \in Pcs /\ main.left \in Int /\ main.wrote \in BOOLEAN
      /\ main.since \in 0 .. MainTicks
  BY MainTyped
<1>2. /\ After(tx.deadline, Bit) \in 0 .. CycleMod - 1
      /\ After(rx.deadline, Bit) \in 0 .. CycleMod - 1
      /\ After(timer, Lead) \in 0 .. CycleMod - 1
      /\ After(ccp.rx.value, Bit \div 2) \in 0 .. CycleMod - 1
  <2>1. tx.deadline \in Int /\ rx.deadline \in Int /\ timer \in Int /\ ccp.rx.value \in Int
    BY <1>0, Constants DEF RxModule, Module
  <2>2. Bit \in Int /\ Lead \in Int /\ Bit \div 2 \in Int
    BY Constants
  <2>3. QED
    BY <2>1, <2>2, AfterTyped
<1>3. Drop(tx.ring) \in Rings /\ Drop(rx.ring) \in Rings
      /\ tx.ring.buf[tx.ring.tail] \in 0 .. 255 /\ rx.ring.buf[rx.ring.tail] \in 0 .. 255
  <2>1. tx.ring \in Rings /\ rx.ring \in Rings
    BY <1>0
  <2>2. Drop(tx.ring) \in Rings /\ Drop(rx.ring) \in Rings
    BY <2>1, DropTyped
  <2>3. tx.ring.buf[tx.ring.tail] \in 0 .. 255 /\ rx.ring.buf[rx.ring.tail] \in 0 .. 255
    BY <2>1, RingFields
  <2>4. QED
    BY <2>2, <2>3
<1>4. 0 \in 0 .. Latency /\ 0 \in 0 .. MainTicks /\ MainTicks \in Nat /\ Latency \in Nat
  BY Constants
<1>5. /\ written \in Seq(0 .. 255) /\ got \in Seq(0 .. 255) /\ sent \in Seq(-1 .. 255)
      /\ heard \in Seq(-1 .. 255)
  BY DEF SwTyped
<1>a. /\ ccp.tx.mode \in {"OFF", "SET", "CLEAR"} /\ ccp.tx.value \in 0 .. CycleMod - 1
      /\ ccp.rx.mode \in {"CAPTURE", "COMPARE"} /\ ccp.rx.value \in 0 .. CycleMod - 1
      /\ ccp.tx.due \in BOOLEAN /\ ccp.tx.late \in 0 .. Latency
  BY <1>0 DEF TxModule, RxModule, Module
<1>6. ASSUME NEW n \in 1 .. SZ + 1, BeginWrite(n) PROVE SwTyped'
  <2>1. n \in Int
    BY Constants
  <2>2. main' \in Mains
    <3>1. main' = [pc |-> "push", left |-> n, wrote |-> FALSE, since |-> 0]
      BY <1>6, <2>1, BeginWriteDoes
    <3>2. QED
      BY <1>4, <2>1, <3>1 DEF Mains, Pcs
  <2>3. QED
    BY <1>6, <2>1, <2>2, BeginWriteDoes DEF SwTyped
<1>7. ASSUME NEW b \in Values, Push(b) PROVE SwTyped'
  <2>1. b \in 0 .. 255
    BY Constants
  <2> DEFINE r == Put(tx.ring, b)
  <2>2. r \in Rings
    BY <1>0, <2>1, PutTyped
  <2>3. written' \in Seq(0 .. 255)
    <3>1. written' = Append(written, b)
      BY <1>7, <2>1, PushDoes
    <3>2. QED
      BY <1>5, <2>1, <3>1, AppendProperties
  <2>4. tx' = [state |-> tx.state, shift |-> tx.shift, bits |-> tx.bits,
               deadline |-> tx.deadline, ring |-> r]
        /\ main' = [pc |-> "push", left |-> main.left - 1, wrote |-> TRUE, since |-> main.since]
        /\ UNCHANGED <<use, timer, rx, ccp, pin, peer, heard, sent, got>>
    BY <1>7, <2>1, PushDoes
  <2> HIDE DEF r
  <2>5. tx' \in TxChannel /\ main' \in Mains /\ tx'.state = tx.state /\ tx'.bits = tx.bits
    BY <1>0, <1>1, <2>2, <2>4 DEF TxChannel, Mains, Pcs
  <2>6. QED
    BY <2>3, <2>4, <2>5 DEF SwTyped
<1>8. CASE TestIdle
  <2>1. main' \in Mains
    <3>1. \/ main' = [pc |-> "pop", left |-> main.left, wrote |-> main.wrote,
                      since |-> main.since]
          \/ main' = Returned
      BY <1>8, TestIdleDoes
    <3>2. Returned \in Mains
      BY MainTyped
    <3>3. QED
      BY <1>1, <3>1, <3>2 DEF Mains, Pcs
  <2>2. QED
    BY <1>8, <2>1, TestIdleDoes DEF SwTyped
<1>9. CASE Pop
  <2>0. /\ tx' = [state |-> "TX_DATA", shift |-> tx.ring.buf[tx.ring.tail], bits |-> 0,
                  deadline |-> tx.deadline, ring |-> Drop(tx.ring)]
        /\ main' = [pc |-> "deadline", left |-> main.left, wrote |-> main.wrote,
                    since |-> main.since]
    BY <1>9, PopDoes
  <2>1. tx' \in TxChannel /\ main' \in Mains /\ tx'.bits = 0
    <3>1. tx' \in TxChannel /\ tx'.bits = 0
      <4> DEFINE x == tx.ring.buf[tx.ring.tail]
                 r == Drop(tx.ring)
      <4>1. x \in 0 .. 255 /\ r \in Rings
        BY <1>3
      <4>2. tx' = [state |-> "TX_DATA", shift |-> x, bits |-> 0, deadline |-> tx.deadline,
                   ring |-> r]
        BY <2>0
      <4> HIDE DEF x, r
      <4>3. QED
        BY <1>0, <4>1, <4>2 DEF TxChannel, TxStates
    <3>2. main' \in Mains
      BY <1>1, <2>0 DEF Mains, Pcs
    <3>3. QED
      BY <3>1, <3>2
  <2>2. QED
    BY <1>9, <2>1, PopDoes DEF SwTyped
<1>10. CASE ReadTimer
  <2>1. tx' \in TxChannel /\ main' \in Mains /\ tx'.state = tx.state /\ tx'.bits = tx.bits
    BY <1>0, <1>1, <1>2, <1>4, <1>10, ReadTimerDoes DEF TxChannel, Mains, Pcs
  <2>2. QED
    BY <1>10, <2>1, ReadTimerDoes DEF SwTyped
<1>11. CASE ArmStart
  <2>1. ccp' \in Modules
    <3>1. ccp' = [tx |-> [mode |-> "CLEAR", value |-> tx.deadline, due |-> ccp.tx.due,
                          late |-> ccp.tx.late], rx |-> ccp.rx]
      BY <1>11, ArmStartDoes
    <3>2. [mode |-> "CLEAR", value |-> tx.deadline, due |-> ccp.tx.due, late |-> ccp.tx.late]
          \in TxModule
      BY <1>0, <1>a DEF TxModule, Module
    <3>3. QED
      BY <1>0, <3>1, <3>2 DEF Modules
  <2>2. main' \in Mains
    BY <1>11, ArmStartDoes, MainTyped
  <2>3. UNCHANGED <<use, timer, tx, rx, pin, peer, written, heard, sent, got>>
    BY <1>11, ArmStartDoes
  <2>4. QED
    BY <2>1, <2>2, <2>3 DEF SwTyped
<1>12. CASE TxOff
  <2>0. ccp' = [tx |-> [mode |-> "OFF", value |-> ccp.tx.value, due |-> FALSE, late |-> 0],
                rx |-> ccp.rx]
    BY <1>12, TxOffDoes
  <2>1. ccp' \in Modules
    BY <1>0, <1>a, <2>0, TxModuleSet
  <2>2. pin' \in [tx : {0, 1}, rx : {0, 1}]
    BY <1>0, <1>12, TxOffDoes
  <2>3. QED
    BY <1>12, <2>1, <2>2, TxOffDoes DEF SwTyped
<1>13. CASE TxNext
  <2>1. ccp' \in Modules
    <3>1. ccp' = [tx |-> [mode |-> "CLEAR", value |-> After(tx.deadline, Bit), due |-> FALSE,
                          late |-> 0], rx |-> ccp.rx]
      BY <1>13, TxNextDoes
    <3>2. QED
      BY <1>0, <1>2, <3>1, TxModuleSet
  <2>2. tx' \in TxChannel /\ tx'.bits = 0
    <3> DEFINE x == tx.ring.buf[tx.ring.tail]
               r == Drop(tx.ring)
               d == After(tx.deadline, Bit)
    <3>1. x \in 0 .. 255 /\ r \in Rings /\ d \in 0 .. CycleMod - 1
      BY <1>2, <1>3
    <3>2. tx' = [state |-> "TX_DATA", shift |-> x, bits |-> 0, deadline |-> d, ring |-> r]
      BY <1>13, TxNextDoes
    <3> HIDE DEF x, r, d
    <3>3. QED
      BY <3>1, <3>2 DEF TxChannel, TxStates
  <2>3. QED
    BY <1>13, <2>1, <2>2, TxNextDoes DEF SwTyped
<1>14. CASE TxBit
  <2> DEFINE m == Level(tx.shift % 2)
  <2>1. m \in {"OFF", "SET", "CLEAR"}
    BY DEF Level
  <2>2. ccp' = [tx |-> [mode |-> m, value |-> After(tx.deadline, Bit), due |-> FALSE, late |-> 0],
                rx |-> ccp.rx]
    BY <1>14, TxBitDoes
  <2> HIDE DEF m
  <2>3. ccp' \in Modules
    BY <1>0, <1>2, <2>1, <2>2, TxModuleSet
  <2>4. tx.shift \div 2 \in 0 .. 255
    BY <1>0
  <2>5. tx' \in TxChannel /\ (tx'.state = "TX_DATA" => tx'.bits <= 7)
    BY <1>0, <1>2, <1>14, <2>4, TxBitDoes DEF TxChannel, TxStates
  <2>6. QED
    BY <1>14, <2>3, <2>5, TxBitDoes DEF SwTyped
<1>15. CASE TxStop
  <2>1. ccp' \in Modules
    <3>1. ccp' = [tx |-> [mode |-> "SET", value |-> After(tx.deadline, Bit), due |-> FALSE,
                          late |-> 0], rx |-> ccp.rx]
      BY <1>15, TxStopDoes
    <3>2. QED
      BY <1>0, <1>2, <3>1, TxModuleSet
  <2>2. tx' \in TxChannel /\ tx'.state # "TX_DATA"
    BY <1>0, <1>2, <1>15, TxStopDoes DEF TxChannel, TxStates
  <2>3. QED
    BY <1>15, <2>1, <2>2, TxStopDoes DEF SwTyped
<1>16. CASE RxEdge
  <2>1. ccp' \in Modules
    <3>1. ccp' = [tx |-> ccp.tx, rx |-> [mode |-> "COMPARE",
                    value |-> After(ccp.rx.value, Bit \div 2), due |-> FALSE, late |-> 0]]
      BY <1>16, RxEdgeDoes
    <3>2. QED
      BY <1>0, <1>2, <3>1, RxModuleSet
  <2>2. rx' \in RxChannel /\ rx'.state # "RX_DATA"
    BY <1>0, <1>2, <1>16, RxEdgeDoes DEF RxChannel, RxStates
  <2>3. QED
    BY <1>16, <2>1, <2>2, RxEdgeDoes DEF SwTyped
<1>17. CASE RxConfirm
  <2>0. IF pin.rx # 0
        THEN /\ rx' = [state |-> "RX_IDLE", shift |-> rx.shift, bits |-> rx.bits,
                       deadline |-> rx.deadline, ring |-> rx.ring, errors |-> rx.errors]
             /\ ccp' = [tx |-> ccp.tx, rx |-> [mode |-> "CAPTURE", value |-> ccp.rx.value,
                                               due |-> FALSE, late |-> 0]]
        ELSE /\ rx' = [state |-> "RX_DATA", shift |-> 0, bits |-> 0,
                       deadline |-> After(rx.deadline, Bit), ring |-> rx.ring,
                       errors |-> rx.errors]
             /\ ccp' = [tx |-> ccp.tx, rx |-> [mode |-> ccp.rx.mode,
                          value |-> After(rx.deadline, Bit), due |-> FALSE, late |-> 0]]
    BY <1>17, RxConfirmDoes
  <2>1. ccp' \in Modules
    BY <1>0, <1>2, <1>a, <2>0, RxModuleSet
  <2>2. rx' \in RxChannel /\ (rx'.state = "RX_DATA" => rx'.bits <= 7)
    <3>1. CASE pin.rx # 0
      BY <1>0, <2>0, <3>1 DEF RxChannel, RxStates
    <3>2. CASE ~(pin.rx # 0)
      BY <1>0, <1>2, <2>0, <3>2 DEF RxChannel, RxStates
    <3>3. QED
      BY <3>1, <3>2
  <2>3. QED
    BY <1>17, <2>1, <2>2, RxConfirmDoes DEF SwTyped
<1>18. CASE RxBit
  <2>1. ccp' \in Modules
    <3>1. ccp' = [tx |-> ccp.tx, rx |-> [mode |-> ccp.rx.mode,
                    value |-> After(rx.deadline, Bit), due |-> FALSE, late |-> 0]]
      BY <1>18, RxBitDoes
    <3>2. QED
      BY <1>0, <1>2, <1>a, <3>1, RxModuleSet
  <2>2. rx' \in RxChannel /\ (rx'.state = "RX_DATA" => rx'.bits <= 7)
    <3> DEFINE h == (rx.shift \div 2) + 128 * pin.rx
               d == After(rx.deadline, Bit)
    <3>1. h \in 0 .. 255 /\ d \in 0 .. CycleMod - 1 /\ rx.bits \in 0 .. 7
          /\ rx' = [state |-> IF rx.bits = 7 THEN "RX_STOP" ELSE "RX_DATA",
                    shift |-> h, bits |-> rx.bits + 1, deadline |-> d, ring |-> rx.ring,
                    errors |-> rx.errors]
      BY <1>2, <1>18, RxBitDoes
    <3> HIDE DEF h, d
    <3>2. QED
      BY <1>0, <3>1 DEF RxChannel, RxStates
  <2>3. QED
    BY <1>18, <2>1, <2>2, RxBitDoes DEF SwTyped
<1>19. CASE RxStop
  <2>1. ccp' \in Modules
    <3>1. ccp' = [tx |-> ccp.tx, rx |-> [mode |-> "CAPTURE", value |-> ccp.rx.value,
                                         due |-> FALSE, late |-> 0]]
      BY <1>19, RxStopDoes
    <3>2. QED
      BY <1>0, <1>a, <3>1, RxModuleSet
  <2>2. rx' \in RxChannel /\ rx'.state # "RX_DATA"
    <3> DEFINE ring == IF pin.rx # 0 /\ rx.ring.count < SZ THEN Put(rx.ring, rx.shift)
                       ELSE rx.ring
               errors == IF pin.rx # 0 /\ rx.ring.count < SZ THEN rx.errors ELSE rx.errors + 1
    <3>1. Put(rx.ring, rx.shift) \in Rings
      BY <1>0, PutTyped
    <3>2. ring \in Rings /\ errors \in Nat
      BY <1>0, <3>1
    <3>3. rx' = [state |-> "RX_IDLE", shift |-> rx.shift, bits |-> rx.bits,
                 deadline |-> rx.deadline, ring |-> ring, errors |-> errors]
      BY <1>19, RxStopDoes
    <3> HIDE DEF ring, errors
    <3>4. QED
      BY <1>0, <3>2, <3>3 DEF RxChannel, RxStates
  <2>3. QED
    BY <1>19, <2>1, <2>2, RxStopDoes DEF SwTyped
<1>20. CASE Read
  <2>0. /\ rx' = [state |-> rx.state, shift |-> rx.shift, bits |-> rx.bits,
                  deadline |-> rx.deadline, ring |-> Drop(rx.ring), errors |-> rx.errors]
        /\ got' = Append(got, rx.ring.buf[rx.ring.tail])
    BY <1>20, ReadDoes
  <2>1. rx' \in RxChannel /\ rx'.state = rx.state /\ rx'.bits = rx.bits
    BY <1>0, <1>3, <2>0 DEF RxChannel
  <2>2. got' \in Seq(0 .. 255)
    <3> DEFINE x == rx.ring.buf[rx.ring.tail]
    <3>1. x \in 0 .. 255 /\ got' = Append(got, x)
      BY <1>3, <2>0
    <3> HIDE DEF x
    <3>2. QED
      BY <1>5, <3>1, AppendProperties
  <2>3. QED
    BY <1>20, <2>1, <2>2, ReadDoes DEF SwTyped
<1>21. ASSUME NEW levels \in Seq({0, 1}), NEW what \in Seq(-1 .. 255), PeerSends(levels, what)
       PROVE  SwTyped'
  <2>1. peer' \in Peers
    <3>1. peer' = [age |-> peer.age, bits |-> peer.bits, frame |-> levels, quiet |-> 0]
      BY <1>21, PeerSendsDoes
    <3>2. peer.age \in Int /\ peer.bits \in Seq({0, 1}) /\ 0 \in 0 .. Bit
      BY TypedParts, Constants
    <3>3. QED
      BY <1>21, <3>1, <3>2 DEF Peers
  <2>2. sent' \in Seq(-1 .. 255)
    <3>1. sent' = sent \o what
      BY <1>21, PeerSendsDoes
    <3>2. sent \in Seq(-1 .. 255)
      BY <1>5
    <3>3. sent \o what \in Seq(-1 .. 255)
      BY <3>2, ConcatProperties
    <3>4. QED
      BY <3>1, <3>3
  <2>3. QED
    BY <1>21, <2>1, <2>2, PeerSendsDoes DEF SwTyped
<1>22. CASE Peer
  <2>1. \A b \in Values : b \in 0 .. 255 /\ <<b>> \in Seq(-1 .. 255)
    BY Constants
  <2>2. <<Bad>> \in Seq(-1 .. 255) /\ <<>> \in Seq(-1 .. 255)
    BY DEF Bad
  <2>3. CASE PeerSendsBadStop
    BY <1>21, <2>1, <2>2, <2>3, FramesTyped DEF PeerSendsBadStop
  <2>4. CASE PeerSpike
    BY <1>21, <2>2, <2>4, FramesTyped DEF PeerSpike
  <2>5. ASSUME NEW b \in Values, PeerSendsByte(b) PROVE SwTyped'
    BY <1>21, <2>1, <2>5, FramesTyped DEF PeerSendsByte
  <2>6. QED
    BY <1>22, <2>3, <2>4, <2>5 DEF Peer
<1>23. CASE Tick
  <2>1. Now \in 0 .. CycleMod - 1 /\ TxLevel \in {0, 1} /\ RxLevel \in {0, 1}
    BY LevelsTyped
  <2>2. timer' \in 0 .. CycleMod - 1 /\ pin' \in [tx : {0, 1}, rx : {0, 1}]
    BY <1>23, <2>1, TickDoes
  <2>3. peer' \in Peers /\ heard' \in Seq(-1 .. 255)
    <3>1. IF use = "rx" THEN Transmits ELSE Receives(TxLevel)
      BY <1>23, TickDoes
    <3>2. QED
      BY <2>1, <3>1, PeerTyped
  <2>4. main' \in Mains
    <3>1. IF main.pc = "idle" THEN TRUE ELSE main.since + 1 \in 0 .. MainTicks
      BY <1>1, <1>4, <1>23, TickDoes
    <3>2. QED
      BY <1>1, <1>23, <3>1, TickDoes DEF Mains
  <2>5. ccp' \in Modules
    <3> DEFINE e == ccp.tx.due \/ Event(ccp.tx, Now)
               f == ccp.rx.due \/ Event(ccp.rx, Now) \/ Captured
               v == IF Captured THEN Now ELSE ccp.rx.value
               k == IF ccp.tx.due THEN ccp.tx.late + 1 ELSE 0
               l == IF ccp.rx.due THEN ccp.rx.late + 1 ELSE 0
    <3>1. e \in BOOLEAN /\ f \in BOOLEAN
      BY DEF Event, Captured
    <3>2. /\ ccp.tx.mode \in {"OFF", "SET", "CLEAR"} /\ ccp.tx.value \in 0 .. CycleMod - 1
          /\ ccp.tx.late \in 0 .. Latency
          /\ ccp.rx.mode \in {"CAPTURE", "COMPARE"} /\ ccp.rx.value \in 0 .. CycleMod - 1
          /\ ccp.rx.late \in 0 .. Latency
      BY <1>0 DEF TxModule, RxModule, Module
    <3>3. v \in 0 .. CycleMod - 1
      BY <2>1, <3>2
    <3>4. k \in 0 .. Latency /\ l \in 0 .. Latency
      BY <1>4, <1>23, <3>2, TickDoes
    <3>5. ccp' = [tx |-> [mode |-> ccp.tx.mode, value |-> ccp.tx.value, due |-> e, late |-> k],
                  rx |-> [mode |-> ccp.rx.mode, value |-> v, due |-> f, late |-> l]]
      BY <1>23, TickDoes
    <3> HIDE DEF e, f, v, k, l
    <3>6. QED
      BY <3>1, <3>2, <3>3, <3>4, <3>5 DEF Modules, TxModule, RxModule, Module
  <2>6. QED
    BY <1>23, <2>2, <2>3, <2>4, <2>5, TickDoes DEF SwTyped
<1>24. CASE UNCHANGED vars
  BY <1>24 DEF vars, SwTyped
<1>25. QED
  BY <1>6, <1>7, <1>8, <1>9, <1>10, <1>11, <1>12, <1>13, <1>14, <1>15, <1>16, <1>17, <1>18,
     <1>19, <1>20, <1>22, <1>23, <1>24 DEF Next, Write, Main, TxHandler, RxHandler

\* The types hold whatever the uses, the bit time and the lateness of the handlers.
THEOREM Typed == Spec => []SwTyped
<1>1. Init => SwTyped
  BY InitTyped
<1>2. SwTyped /\ [Next]_vars => SwTyped'
  BY NextTyped
<1>3. QED
  BY <1>1, <1>2, PTL DEF Spec
-----------------------------------------------------------------------------
\* Positions of a ring, which run from its tail and wrap once.
LEMMA Wrap ==
  ASSUME NEW n \in Nat \ {0}, NEW x \in 0 .. 2 * n - 1
  PROVE  x % n = IF x < n THEN x ELSE x - n
<1>1. CASE x < n
  BY <1>1
<1>2. CASE x >= n
  <2>1. x - n \in 0 .. n - 1
    BY <1>2
  <2>2. (x - n) % n = x - n
    BY <2>1
  <2>3. QED
    BY <1>2, <2>2
<1>3. QED
  BY <1>1, <1>2

\* Where a put writes and where it leaves the head, in a ring with c bytes
\* from t on and room for one more.
LEMMA PutSlots ==
  ASSUME NEW n \in Nat \ {0}, NEW t \in 0 .. n - 1, NEW c \in 0 .. n - 1
  PROVE  /\ (((t + c) % n) + 1) % n = (t + (c + 1)) % n
         /\ \A i \in 1 .. c : (t + i - 1) % n # (t + c) % n
<1>0. \A x \in 0 .. 2 * n - 1 : x % n = IF x < n THEN x ELSE x - n
  BY Wrap
<1>1. (t + c) % n = IF t + c < n THEN t + c ELSE t + c - n
  <2>1. t + c \in 0 .. 2 * n - 1
    OBVIOUS
  <2>2. QED
    BY <1>0, <2>1
<1>2. (t + (c + 1)) % n = IF t + c + 1 < n THEN t + c + 1 ELSE t + c + 1 - n
  <2>1. t + (c + 1) \in 0 .. 2 * n - 1
    OBVIOUS
  <2>2. QED
    BY <1>0, <2>1
<1>3. ASSUME NEW h \in 0 .. n - 1 PROVE (h + 1) % n = IF h + 1 < n THEN h + 1 ELSE h + 1 - n
  <2>1. h + 1 \in 0 .. 2 * n - 1
    OBVIOUS
  <2>2. QED
    BY <1>0, <2>1
<1>4. (((t + c) % n) + 1) % n = (t + (c + 1)) % n
  <2> DEFINE h == (t + c) % n
  <2>1. h \in 0 .. n - 1 /\ h = IF t + c < n THEN t + c ELSE t + c - n
    BY <1>1
  <2> HIDE DEF h
  <2>2. (h + 1) % n = IF h + 1 < n THEN h + 1 ELSE h + 1 - n
    BY <1>3, <2>1
  <2>3. (h + 1) % n = (t + (c + 1)) % n
    BY <1>2, <2>1, <2>2
  <2>4. QED
    BY <2>3 DEF h
<1>5. ASSUME NEW i \in 1 .. c PROVE (t + i - 1) % n # (t + c) % n
  <2>1. (t + i - 1) % n = IF t + i - 1 < n THEN t + i - 1 ELSE t + i - 1 - n
    <3>1. t + i - 1 \in 0 .. 2 * n - 1
      OBVIOUS
    <3>2. QED
      BY <1>0, <3>1
  <2>2. QED
    BY <1>1, <2>1
<1>6. QED
  BY <1>4, <1>5

\* A take moves the tail to the next byte and leaves the others where they are.
LEMMA TakeSlots ==
  ASSUME NEW n \in Nat \ {0}, NEW t \in 0 .. n - 1, NEW c \in 1 .. n
  PROVE  /\ (t + c) % n = (((t + 1) % n) + (c - 1)) % n
         /\ \A i \in 1 .. c - 1 : (((t + 1) % n) + i - 1) % n = (t + (i + 1) - 1) % n
<1> DEFINE u == (t + 1) % n
<1>0. \A x \in 0 .. 2 * n - 1 : x % n = IF x < n THEN x ELSE x - n
  BY Wrap
<1>1. u \in 0 .. n - 1 /\ u = IF t + 1 < n THEN t + 1 ELSE t + 1 - n
  <2>1. t + 1 \in 0 .. 2 * n - 1
    OBVIOUS
  <2>2. QED
    BY <1>0, <2>1
<1> HIDE DEF u
<1>2. ASSUME NEW i \in 1 .. c PROVE (u + i - 1) % n = (t + i) % n
  <2>1. (t + i) % n = IF t + i < n THEN t + i ELSE t + i - n
    <3>1. t + i \in 0 .. 2 * n - 1
      OBVIOUS
    <3>2. QED
      BY <1>0, <3>1
  <2>2. (u + i - 1) % n = IF u + i - 1 < n THEN u + i - 1 ELSE u + i - 1 - n
    <3>1. ASSUME NEW v \in 0 .. n - 1
          PROVE  (v + i - 1) % n = IF v + i - 1 < n THEN v + i - 1 ELSE v + i - 1 - n
      <4>1. v + i - 1 \in 0 .. 2 * n - 1
        OBVIOUS
      <4>2. QED
        BY <1>0, <4>1
    <3>2. QED
      BY <1>1, <3>1
  <2>3. QED
    BY <1>1, <2>1, <2>2
<1>3. (t + c) % n = (u + (c - 1)) % n
  <2>1. (u + c - 1) % n = (t + c) % n
    BY <1>2
  <2>2. u + c - 1 = u + (c - 1)
    BY <1>1
  <2>3. QED
    BY <2>1, <2>2
<1>4. ASSUME NEW i \in 1 .. c - 1 PROVE (u + i - 1) % n = (t + (i + 1) - 1) % n
  <2>1. i \in 1 .. c /\ t + (i + 1) - 1 = t + i
    OBVIOUS
  <2>2. QED
    BY <1>2, <2>1
<1>5. QED
  BY <1>3, <1>4 DEF u

\* A ring whose counters fit together.
RingOK(r) ==
  /\ r \in Rings
  /\ r.count <= SZ
  /\ r.head = (r.tail + r.count) % SZ

LEMMA ContentShape ==
  ASSUME NEW r \in Rings
  PROVE  /\ Content(r) \in Seq(0 .. 255)
         /\ Len(Content(r)) = r.count
         /\ \A i \in 1 .. r.count : Content(r)[i] = r.buf[(r.tail + i - 1) % SZ]
<1>1. r.count \in Nat
  BY DEF Rings
<1>2. ASSUME NEW i \in 1 .. r.count PROVE r.buf[(r.tail + i - 1) % SZ] \in 0 .. 255
  <2>1. (r.tail + i - 1) % SZ \in 0 .. SZ - 1
    BY <1>1, SwuartAssumption DEF Rings, SwuartAssumption
  <2>2. QED
    BY <2>1 DEF Rings
<1> DEFINE n == r.count
           x(i) == r.buf[(r.tail + i - 1) % SZ]
<1>3. Content(r) = [i \in 1 .. n |-> x(i)] /\ n \in Nat /\ \A i \in 1 .. n : x(i) \in 0 .. 255
  BY <1>1, <1>2 DEF Content
<1> HIDE DEF n, x
<1>4. Content(r) \in Seq(0 .. 255) /\ Len(Content(r)) = n /\ \A i \in 1 .. n : Content(r)[i] = x(i)
  BY <1>3
<1>5. QED
  BY <1>4 DEF n, x

\* The parts of a ring.
LEMMA RingParts ==
  ASSUME NEW r, RingOK(r)
  PROVE  /\ SZ \in Nat \ {0} /\ CountMod \in Nat /\ CountMod > SZ
         /\ r.buf \in [0 .. SZ - 1 -> 0 .. 255] /\ r.head \in 0 .. SZ - 1
         /\ r.tail \in 0 .. SZ - 1 /\ r.count \in 0 .. SZ
         /\ r = [buf |-> r.buf, head |-> r.head, tail |-> r.tail, count |-> r.count]
  BY SwuartAssumption DEF RingOK, Rings, SwuartAssumption

\* What a put and a take leave in the ring.
LEMMA PutKeeps ==
  ASSUME NEW r, RingOK(r), r.count < SZ, NEW b \in 0 .. 255
  PROVE  /\ RingOK(Put(r, b))
         /\ Put(r, b).count = r.count + 1
         /\ \A i \in 1 .. r.count : Content(Put(r, b))[i] = Content(r)[i]
         /\ Content(Put(r, b))[r.count + 1] = b
<1> DEFINE q == Put(r, b)
           slot(i) == (r.tail + i - 1) % SZ
<1>1. /\ r.count \in 0 .. SZ - 1 /\ r.count + 1 \in Nat /\ r.count + 1 <= SZ
      /\ r.count + 1 \in 0 .. CountMod - 1
  BY RingParts
<1>2. (r.count + 1) % CountMod = r.count + 1
  <2> DEFINE c == r.count + 1
  <2> HIDE DEF c
  <2>1. \A m \in Nat : c \in 0 .. m - 1 => c % m = c
    OBVIOUS
  <2>2. QED
    BY <1>1, <2>1, RingParts DEF c
<1>3. /\ q.buf = [r.buf EXCEPT ![r.head] = b]
      /\ q.head = (r.head + 1) % SZ
      /\ q.tail = r.tail
      /\ q.count = r.count + 1
      /\ q = [buf |-> q.buf, head |-> q.head, tail |-> q.tail, count |-> q.count]
  <2>1. q = [buf |-> [r.buf EXCEPT ![r.head] = b], head |-> (r.head + 1) % SZ, tail |-> r.tail,
             count |-> (r.count + 1) % CountMod]
    <3>1. q = [r EXCEPT !.buf = [r.buf EXCEPT ![r.head] = b], !.head = (r.head + 1) % SZ,
                        !.count = (r.count + 1) % CountMod]
      BY DEF Put
    <3> DEFINE buf == [r.buf EXCEPT ![r.head] = b]
               head == (r.head + 1) % SZ
               count == (r.count + 1) % CountMod
    <3> HIDE DEF q, buf, head, count
    <3>2. q = [r EXCEPT !.buf = buf, !.head = head, !.count = count]
      BY <3>1 DEF buf, head, count
    <3>3. q = [buf |-> buf, head |-> head, tail |-> r.tail, count |-> count]
      BY <3>2 DEF RingOK, Rings
    <3>4. QED
      BY <3>3 DEF buf, head, count
  <2> HIDE DEF q
  <2>2. QED
    BY <1>2, <2>1
<1> HIDE DEF q
<1>4. r.head = (r.tail + r.count) % SZ
  BY DEF RingOK
<1>5. RingOK(q)
  <2>1. q.head = (q.tail + q.count) % SZ
    BY <1>1, <1>3, <1>4, PutSlots, RingParts
  <2>2. q.head \in 0 .. SZ - 1
    <3>1. r.head + 1 \in Int /\ SZ \in Nat \ {0} /\ q.head = (r.head + 1) % SZ
      BY <1>3, RingParts
    <3>2. QED
      BY <3>1, ModRange
  <2>3. q.buf \in [0 .. SZ - 1 -> 0 .. 255]
    <3> DEFINE f == r.buf
               h == r.head
    <3>1. f \in [0 .. SZ - 1 -> 0 .. 255] /\ h \in 0 .. SZ - 1 /\ q.buf = [f EXCEPT ![h] = b]
      BY <1>3, RingParts
    <3> HIDE DEF f, h
    <3>2. QED
      BY <3>1
  <2>4. q \in Rings
    <3>1. q.tail \in 0 .. SZ - 1 /\ q.count \in 0 .. CountMod - 1
      BY <1>1, <1>3, RingParts
    <3>2. q = [buf |-> q.buf, head |-> q.head, tail |-> q.tail, count |-> q.count]
      BY <1>3
    <3>3. QED
      BY <2>2, <2>3, <3>1, <3>2 DEF Rings
  <2>5. QED
    BY <1>1, <1>3, <2>1, <2>4 DEF RingOK
<1>6. ASSUME NEW i \in 1 .. r.count PROVE Content(q)[i] = Content(r)[i]
  <2>1. slot(i) # r.head
    BY <1>1, <1>4, PutSlots, RingParts
  <2>2. slot(i) \in 0 .. SZ - 1
    BY RingParts
  <2>3. Content(r)[i] = r.buf[slot(i)]
    BY ContentShape DEF RingOK
  <2>4. i \in 1 .. q.count
    BY <1>1, <1>3
  <2>5. Content(q)[i] = q.buf[slot(i)]
    <3>1. Content(q)[i] = q.buf[(q.tail + i - 1) % SZ]
      BY <1>5, <2>4, ContentShape DEF RingOK
    <3>2. q.tail = r.tail
      BY <1>3
    <3>3. QED
      BY <3>1, <3>2
  <2> HIDE DEF slot
  <2>6. QED
    BY <1>3, <2>1, <2>2, <2>3, <2>5, RingParts
<1>7. Content(q)[r.count + 1] = b
  <2>1. r.count + 1 \in 1 .. q.count
    BY <1>1, <1>3
  <2>2. Content(q)[r.count + 1] = q.buf[(q.tail + (r.count + 1) - 1) % SZ]
    BY <1>5, <2>1, ContentShape DEF RingOK
  <2>3. q.tail + (r.count + 1) - 1 = r.tail + r.count
    BY <1>3, RingParts
  <2>4. QED
    BY <1>3, <1>4, <2>2, <2>3, RingParts
<1>8. QED
  BY <1>3, <1>5, <1>6, <1>7 DEF q

LEMMA TakeKeeps ==
  ASSUME NEW r, RingOK(r), r.count > 0
  PROVE  /\ RingOK(Drop(r))
         /\ Drop(r).count = r.count - 1
         /\ r.buf[r.tail] = Content(r)[1]
         /\ \A i \in 1 .. r.count - 1 : Content(Drop(r))[i] = Content(r)[i + 1]
<1> DEFINE q == Drop(r)
<1>1. /\ r.count \in 1 .. SZ /\ r.count - 1 \in 0 .. SZ - 1
      /\ r.count - 1 \in 0 .. CountMod - 1
  BY RingParts
<1>2. (r.count - 1) % CountMod = r.count - 1
  <2> DEFINE c == r.count - 1
  <2> HIDE DEF c
  <2>1. \A m \in Nat : c \in 0 .. m - 1 => c % m = c
    OBVIOUS
  <2>2. QED
    BY <1>1, <2>1, RingParts DEF c
<1>3. /\ q.buf = r.buf
      /\ q.head = r.head
      /\ q.tail = (r.tail + 1) % SZ
      /\ q.count = r.count - 1
      /\ q = [buf |-> q.buf, head |-> q.head, tail |-> q.tail, count |-> q.count]
  <2>1. q = [buf |-> r.buf, head |-> r.head, tail |-> (r.tail + 1) % SZ,
             count |-> (r.count - 1) % CountMod]
    <3> DEFINE tail == (r.tail + 1) % SZ
               count == (r.count - 1) % CountMod
    <3>1. q = [r EXCEPT !.tail = tail, !.count = count]
      BY DEF Drop
    <3> HIDE DEF q, tail, count
    <3>2. q = [buf |-> r.buf, head |-> r.head, tail |-> tail, count |-> count]
      BY <3>1 DEF RingOK, Rings
    <3>3. QED
      BY <3>2 DEF tail, count
  <2> HIDE DEF q
  <2>2. QED
    BY <1>2, <2>1
<1> HIDE DEF q
<1>4. RingOK(q)
  <2>1. r.head = (r.tail + r.count) % SZ
    BY DEF RingOK
  <2>2. q.head = (q.tail + q.count) % SZ
    BY <1>1, <1>3, <2>1, TakeSlots, RingParts
  <2>3. q.tail \in 0 .. SZ - 1
    BY <1>3, RingParts
  <2>4. q \in Rings
    BY <1>1, <1>3, <2>3, RingParts DEF Rings
  <2>5. QED
    BY <1>1, <1>3, <2>2, <2>4, RingParts DEF RingOK
<1>5. r.buf[r.tail] = Content(r)[1]
  <2>1. Content(r)[1] = r.buf[(r.tail + 1 - 1) % SZ]
    BY <1>1, ContentShape DEF RingOK
  <2>2. (r.tail + 1 - 1) % SZ = r.tail
    <3>1. r.tail + 1 - 1 = r.tail /\ r.tail \in 0 .. SZ - 1 /\ SZ \in Nat \ {0}
      BY RingParts
    <3>2. \A t \in 0 .. SZ - 1 : t % SZ = t
      BY <3>1
    <3>3. QED
      BY <3>1, <3>2
  <2>3. QED
    BY <2>1, <2>2
<1>6. ASSUME NEW i \in 1 .. r.count - 1 PROVE Content(q)[i] = Content(r)[i + 1]
  <2>1. i \in 1 .. q.count /\ i + 1 \in 1 .. r.count
    BY <1>1, <1>3
  <2>2. Content(q)[i] = q.buf[(q.tail + i - 1) % SZ]
    BY <1>4, <2>1, ContentShape DEF RingOK
  <2>3. Content(r)[i + 1] = r.buf[(r.tail + (i + 1) - 1) % SZ]
    BY <2>1, ContentShape DEF RingOK
  <2>4. (q.tail + i - 1) % SZ = (r.tail + (i + 1) - 1) % SZ
    BY <1>1, <1>3, TakeSlots, RingParts
  <2>5. QED
    BY <1>3, <2>2, <2>3, <2>4
<1>7. QED
  BY <1>3, <1>4, <1>5, <1>6 DEF q
-----------------------------------------------------------------------------
\* Ticks from t to v on a counter that wraps.
Away(v, t) == (v - t) % CycleMod

LEMMA Wraps ==
  ASSUME NEW m \in Nat \ {0}, NEW v \in 0 .. m - 1, NEW t \in 0 .. m - 1
  PROVE  /\ (v - t) % m = IF v >= t THEN v - t ELSE v - t + m
         /\ (v + t) % m = IF v + t < m THEN v + t ELSE v + t - m
<1>1. CASE v >= t
  <2>1. v - t \in 0 .. m - 1
    BY <1>1
  <2>2. QED
    BY <1>1, <2>1
<1>2. CASE v < t
  <2> DEFINE x == v - t
  <2>1. x \in Int /\ x + m \in 0 .. m - 1 /\ ~(v >= t) /\ v - t + m = x + m
    BY <1>2
  <2> HIDE DEF x
  <2>2. (x + m) % m = x + m
    BY <2>1
  <2>3. x % m = x + m
    BY <2>1, <2>2
  <2>4. QED
    BY <2>1, <2>3 DEF x
<1>3. v + t \in 0 .. 2 * m - 1
  OBVIOUS
<1>4. (v + t) % m = IF v + t < m THEN v + t ELSE v + t - m
  <2>1. \A x \in 0 .. 2 * m - 1 : x % m = IF x < m THEN x ELSE x - m
    BY Wrap
  <2>2. QED
    BY <1>3, <2>1
<1>5. (v - t) % m = IF v >= t THEN v - t ELSE v - t + m
  BY <1>1, <1>2
<1>6. QED
  BY <1>4, <1>5

\* Deadlines and the timer: what a tick, a match and an arming do to the distance.
LEMMA Deadlines ==
  ASSUME NEW v \in 0 .. CycleMod - 1, NEW t \in 0 .. CycleMod - 1
  PROVE  /\ Away(v, t) \in 0 .. CycleMod - 1
         /\ Away(v, t) > 0 => Away(v, After(t, 1)) = Away(v, t) - 1
         /\ Away(v, t) > 0 => (v = After(t, 1) <=> Away(v, t) = 1)
         /\ \A n \in 0 .. CycleMod - 1 : Away(After(t, n), t) = n
         /\ \A l \in 0 .. CycleMod - 2 :
              t = After(v, l) => After(t, 1) = After(v, l + 1) /\ v # After(t, 1)
         /\ \A l, n \in 0 .. CycleMod - 1 :
              l < n /\ t = After(v, l) => Away(After(v, n), t) = n - l
         /\ v = After(v, 0)
<1> DEFINE m == CycleMod
<1>1. m \in Nat \ {0, 1}
  BY Constants
<1>2. \A x, y \in 0 .. m - 1 : /\ (x - y) % m = IF x >= y THEN x - y ELSE x - y + m
                               /\ (x + y) % m = IF x + y < m THEN x + y ELSE x + y - m
  BY <1>1, Wraps
<1>3. \A x, y \in 0 .. m - 1 : Away(x, y) = IF x >= y THEN x - y ELSE x - y + m
  BY <1>2 DEF Away
<1>4. \A x, y \in 0 .. m - 1 : After(x, y) = IF x + y < m THEN x + y ELSE x + y - m
  BY <1>2 DEF After
<1>5. v \in 0 .. m - 1 /\ t \in 0 .. m - 1 /\ 1 \in 0 .. m - 1 /\ 0 \in 0 .. m - 1
  BY <1>1
<1> HIDE DEF m
<1>6. Away(v, t) \in 0 .. m - 1
  <2>1. Away(v, t) = IF v >= t THEN v - t ELSE v - t + m
    BY <1>3, <1>5
  <2>2. (IF v >= t THEN v - t ELSE v - t + m) \in 0 .. m - 1
    BY <1>1, <1>5
  <2>3. QED
    BY <2>1, <2>2
<1> DEFINE u == After(t, 1)
<1>7. u = (IF t + 1 < m THEN t + 1 ELSE t + 1 - m) /\ u \in 0 .. m - 1
  BY <1>1, <1>4, <1>5
<1>8. Away(v, t) > 0 => Away(v, u) = Away(v, t) - 1
  <2> HIDE DEF u
  <2>1. QED
    BY <1>1, <1>3, <1>5, <1>7
<1>9. Away(v, t) > 0 => (v = u <=> Away(v, t) = 1)
  <2> HIDE DEF u
  <2>1. QED
    BY <1>1, <1>3, <1>5, <1>7
<1>10. ASSUME NEW n \in 0 .. m - 1 PROVE Away(After(t, n), t) = n
  <2> DEFINE w == After(t, n)
  <2>1. w = (IF t + n < m THEN t + n ELSE t + n - m) /\ w \in 0 .. m - 1
    BY <1>1, <1>4, <1>5
  <2> HIDE DEF w
  <2>2. Away(w, t) = n
    BY <1>1, <1>3, <1>5, <2>1
  <2>3. QED
    BY <2>2 DEF w
<1>11. ASSUME NEW l \in 0 .. m - 2, t = After(v, l) PROVE u = After(v, l + 1) /\ v # u
  <2>1. l \in 0 .. m - 1 /\ l + 1 \in 0 .. m - 1
    BY <1>1
  <2>2. t = IF v + l < m THEN v + l ELSE v + l - m
    BY <1>4, <1>5, <1>11, <2>1
  <2>3. After(v, l + 1) = IF v + (l + 1) < m THEN v + (l + 1) ELSE v + (l + 1) - m
    BY <1>4, <1>5, <2>1
  <2> HIDE DEF u
  <2>4. QED
    BY <1>1, <1>5, <1>7, <2>1, <2>2, <2>3
<1>12. ASSUME NEW l \in 0 .. m - 1, NEW n \in 0 .. m - 1, l < n, t = After(v, l)
       PROVE  Away(After(v, n), t) = n - l
  <2> DEFINE w == After(v, n)
  <2>1. w = (IF v + n < m THEN v + n ELSE v + n - m) /\ w \in 0 .. m - 1
    BY <1>1, <1>4, <1>5
  <2>2. t = IF v + l < m THEN v + l ELSE v + l - m
    BY <1>4, <1>5, <1>12
  <2> HIDE DEF w
  <2>3. Away(w, t) = n - l
    BY <1>1, <1>3, <1>5, <1>12, <2>1, <2>2
  <2>4. QED
    BY <2>3 DEF w
<1>13. v = After(v, 0)
  BY <1>1, <1>4, <1>5
<1>14. QED
  BY <1>6, <1>8, <1>9, <1>10, <1>11, <1>12, <1>13 DEF m
-----------------------------------------------------------------------------
\* The transmitter and the peer's receiver.

\* The timing the code counts on: tx_compare_event runs before the bit it armed
\* is over; EPIC_SWUART_Write, when it starts in a frame, tests for TX_IDLE before
\* that frame ends; and it arms the start bit within SWUART_LEAD_CYCLES of
\* reading Timer1.
InTime ==
  /\ Latency < Bit /\ Latency + MainTicks < 2 * Bit
  /\ MainTicks < Lead /\ Lead < CycleMod

\* Waiting: the start bit of the byte loaded is armed, or about to be.  Slot and
\* Cell: the slot the compare is for, and the one on the line.  Pos: ticks since
\* the frame on the line began.
Off == ccp.tx.mode = "OFF"
Ahead == Away(ccp.tx.value, timer)
Waiting == tx.state = "TX_DATA" /\ tx.bits = 0 /\ ~ccp.tx.due
InFrame == peer.age >= 0
Slot == IF tx.state = "TX_IDLE" THEN 9 ELSE tx.bits
Cell == IF Off \/ Waiting THEN 9 ELSE IF ccp.tx.due THEN Slot ELSE Slot - 1
Pos == IF ccp.tx.due THEN Slot * Bit + ccp.tx.late ELSE Slot * Bit - Ahead
Cur == written[Len(heard) + 1]
Halved(b, k) == <<b, b \div 2, b \div 4, b \div 8, b \div 16, b \div 32, b \div 64, b \div 128>>[k + 1]

\* Written is what was heard, the byte on the line, the byte loaded, the ring.
TxRing ==
  /\ RingOK(tx.ring)
  /\ Len(written) = Len(heard) + (IF InFrame THEN 1 ELSE 0) + (IF Waiting THEN 1 ELSE 0) + tx.ring.count
  /\ \A i \in 1 .. tx.ring.count : Content(tx.ring)[i] = written[Len(written) - tx.ring.count + i]
  /\ \A i \in 1 .. Len(heard) : heard[i] = written[i]
TxOnOff ==
  /\ tx.state = "TX_STOP" => tx.bits = 8
  /\ Off => /\ ~ccp.tx.due /\ pin.tx = 1
            /\ IF main.pc \in {"deadline", "arm"} THEN tx.state = "TX_DATA" /\ tx.bits = 0
               ELSE tx.state = "TX_IDLE"
  /\ ~Off => main.pc \in {"idle", "push"}
TxMain ==
  /\ main.pc = "push" => IF tx.state = "TX_IDLE" THEN Off /\ ~InFrame /\ (main.wrote => tx.ring.count > 0)
                         ELSE Pos - main.since <= 6 * Bit + Latency
  /\ main.pc \in {"pop", "deadline", "arm"} => ~InFrame
  /\ main.pc = "pop" => tx.ring.count > 0
  /\ main.pc = "arm" => Away(tx.deadline, timer) = Lead - main.since

\* The compare in force, and the peer's age within its frame.
TxClock ==
  ~Off =>
    /\ ccp.tx.value = tx.deadline
    /\ ccp.tx.due => timer = After(ccp.tx.value, ccp.tx.late) /\ (ccp.tx.mode = "CLEAR" <=> pin.tx = 0)
    /\ ~ccp.tx.due => Ahead >= 1 /\ (InFrame => Ahead <= Bit)
    /\ InFrame => peer.age = IF Waiting THEN Pos + 10 * Bit ELSE Pos
    /\ ~InFrame => pin.tx = 1 /\ (Waiting \/ (ccp.tx.due /\ Slot = 9))
    /\ Waiting => ccp.tx.mode = "CLEAR"
    /\ ~ccp.tx.due /\ ~Waiting => ccp.tx.mode = Level(Slots(Cur, 1)[Slot + 1])

\* The level on the line and the samples taken so far are the byte's.
TxLine ==
  /\ peer.age >= -1
  /\ ~InFrame => peer.bits = <<>>
  /\ InFrame => /\ Cell * Bit <= peer.age /\ peer.age < (Cell + 1) * Bit
                /\ pin.tx = Slots(Cur, 1)[Cell + 1]
                /\ Len(peer.bits) <= 9
                /\ Len(peer.bits) * Bit + (Bit \div 2) - Bit <= peer.age
                /\ peer.age < Len(peer.bits) * Bit + (Bit \div 2)
                /\ \A j \in 1 .. Len(peer.bits) : peer.bits[j] = Slots(Cur, 1)[j]
TxShift ==
  tx.state = "TX_DATA" =>
    IF Waiting THEN tx.shift = written[Len(written) - tx.ring.count]
    ELSE tx.shift = Halved(Cur, tx.bits)
TxInv == TxRing /\ TxOnOff /\ TxMain /\ TxClock /\ TxLine /\ TxShift
SwInv == (use = "tx" => TxInv) /\ (use = "rx" => heard = <<>>)
TInv == SwTyped /\ SwInv
-----------------------------------------------------------------------------
\* Multiples of the bit time.
LEMMA Times ==
  /\ \A k \in Int : k * Bit \in Int /\ (k + 1) * Bit = k * Bit + Bit
                    /\ (k - 1) * Bit = k * Bit - Bit
  /\ \A k, n \in Int : k < n => (k + 1) * Bit <= n * Bit
  /\ Bit \div 2 \in 1 .. Bit - 1
<1>1. Bit \in Nat \ {0, 1}
  BY Constants
<1>2. \A k \in Int : k * Bit \in Int /\ (k + 1) * Bit = k * Bit + Bit /\ (k - 1) * Bit = k * Bit - Bit
  BY <1>1
<1>3. ASSUME NEW k \in Int, NEW n \in Int, k < n PROVE (k + 1) * Bit <= n * Bit
  <2> DEFINE d == n - (k + 1)
  <2>1. d \in Nat /\ n = (k + 1) + d
    BY <1>3
  <2> HIDE DEF d
  <2>2. d * Bit \in Nat
    BY <1>1, <2>1
  <2>3. ((k + 1) + d) * Bit = (k + 1) * Bit + d * Bit
    BY <1>1, <2>1
  <2>4. (k + 1) * Bit \in Int
    BY <1>1
  <2>5. QED
    BY <2>1, <2>2, <2>3, <2>4
<1>4. Bit \div 2 \in 1 .. Bit - 1
  BY <1>1
<1>5. QED
  BY <1>2, <1>3, <1>4

\* The slot a tick falls in is the slot it samples.
LEMMA Sampling ==
  ASSUME NEW c \in Int, NEW n \in Int, NEW p \in Int,
         c * Bit <= p, p < (c + 1) * Bit, p = n * Bit + (Bit \div 2)
  PROVE  c = n
<1>1. c < n => (c + 1) * Bit <= n * Bit
  BY Times
<1>2. n < c => (n + 1) * Bit <= c * Bit
  BY Times
<1>3. (n + 1) * Bit = n * Bit + Bit /\ n * Bit \in Int /\ c * Bit \in Int /\ (c + 1) * Bit \in Int
  BY Times
<1>4. Bit \div 2 \in 1 .. Bit - 1 /\ Bit \in Int
  BY Times, Constants
<1> DEFINE x == n * Bit
           y == c * Bit
           z == (c + 1) * Bit
           w == (n + 1) * Bit
           h == Bit \div 2
<1>5. /\ y <= p /\ p < z /\ p = x + h /\ (c < n => z <= x) /\ (n < c => w <= y)
      /\ w = x + Bit /\ x \in Int /\ y \in Int /\ z \in Int /\ h \in 1 .. Bit - 1 /\ Bit \in Int
  BY <1>1, <1>2, <1>3, <1>4
<1> HIDE DEF x, y, z, w, h
<1>6. QED
  BY <1>5

\* What the shift register holds, bit by bit.
LEMMA HalvedIs ==
  ASSUME NEW b \in 0 .. 255
  PROVE  /\ Halved(b, 0) = b
         /\ \A k \in 0 .. 6 : Halved(b, k) \div 2 = Halved(b, k + 1)
         /\ \A k \in 0 .. 7 : Slots(b, 1)[k + 2] = Halved(b, k) % 2
         /\ Slots(b, 1)[1] = 0 /\ Slots(b, 1)[10] = 1
<1>1. /\ Halved(b, 0) = b /\ Halved(b, 1) = b \div 2 /\ Halved(b, 2) = b \div 4
      /\ Halved(b, 3) = b \div 8 /\ Halved(b, 4) = b \div 16 /\ Halved(b, 5) = b \div 32
      /\ Halved(b, 6) = b \div 64 /\ Halved(b, 7) = b \div 128
  BY DEF Halved
<1>2. /\ b \in Int
      /\ (b \div 2) \div 2 = b \div 4 /\ (b \div 4) \div 2 = b \div 8
      /\ (b \div 8) \div 2 = b \div 16 /\ (b \div 16) \div 2 = b \div 32
      /\ (b \div 32) \div 2 = b \div 64 /\ (b \div 64) \div 2 = b \div 128
  OBVIOUS
<1>3. ASSUME NEW k \in 0 .. 6 PROVE Halved(b, k) \div 2 = Halved(b, k + 1)
  <2>1. k = 0 \/ k = 1 \/ k = 2 \/ k = 3 \/ k = 4 \/ k = 5 \/ k = 6
    OBVIOUS
  <2>2. QED
    BY <1>1, <1>2, <2>1
<1>4. ASSUME NEW k \in 0 .. 7 PROVE Slots(b, 1)[k + 2] = Halved(b, k) % 2
  <2>1. k = 0 \/ k = 1 \/ k = 2 \/ k = 3 \/ k = 4 \/ k = 5 \/ k = 6 \/ k = 7
    OBVIOUS
  <2>2. QED
    BY <1>1, <2>1 DEF Slots
<1>5. Slots(b, 1)[1] = 0 /\ Slots(b, 1)[10] = 1
  BY DEF Slots
<1>6. QED
  BY <1>1, <1>3, <1>4, <1>5

LEMMA Halving ==
  ASSUME NEW n \in Int
  PROVE  n = 2 * (n \div 2) + (n % 2) /\ n % 2 \in Int
<1> DEFINE h == n \div 2
           r == n % 2
<1>1. n - 2 * h = r
  BY Z3
<1>2. h \in Int /\ r \in Int
  OBVIOUS
<1> HIDE DEF h, r
<1>3. n = 2 * h + r /\ r \in Int
  BY <1>1, <1>2
<1>4. QED
  BY <1>3 DEF h, r

\* The samples of all ten slots give the byte back.
LEMMA DecodeIs ==
  ASSUME NEW b \in 0 .. 255, NEW s, \A j \in 1 .. 10 : s[j] = Slots(b, 1)[j]
  PROVE  Decode(s) = b
<1>1. /\ s[1] = 0 /\ s[10] = 1 /\ s[2] = b % 2 /\ s[3] = (b \div 2) % 2
      /\ s[4] = (b \div 4) % 2 /\ s[5] = (b \div 8) % 2 /\ s[6] = (b \div 16) % 2
      /\ s[7] = (b \div 32) % 2 /\ s[8] = (b \div 64) % 2 /\ s[9] = (b \div 128) % 2
  BY DEF Slots
<1> DEFINE b2 == b \div 2  b4 == b \div 4  b8 == b \div 8  b16 == b \div 16
           b32 == b \div 32  b64 == b \div 64  b128 == b \div 128
<1>2. /\ b2 = b \div 2 /\ b4 = b2 \div 2 /\ b8 = b4 \div 2 /\ b16 = b8 \div 2 /\ b32 = b16 \div 2
      /\ b64 = b32 \div 2 /\ b128 = b64 \div 2 /\ b128 \in {0, 1}
  OBVIOUS
<1>3. /\ b2 \in Int /\ b4 \in Int /\ b8 \in Int /\ b16 \in Int /\ b32 \in Int /\ b64 \in Int
      /\ b128 \in Int
  OBVIOUS
<1> DEFINE c0 == s[2]  c1 == s[3]  c2 == s[4]  c3 == s[5]  c4 == s[6]  c5 == s[7]  c6 == s[8]
           c7 == s[9]
<1>4. /\ c0 = b % 2 /\ c1 = b2 % 2 /\ c2 = b4 % 2 /\ c3 = b8 % 2 /\ c4 = b16 % 2
      /\ c5 = b32 % 2 /\ c6 = b64 % 2 /\ c7 = b128 % 2
  BY <1>1
<1>5. Decode(s) = c0 + 2 * c1 + 4 * c2 + 8 * c3 + 16 * c4 + 32 * c5 + 64 * c6 + 128 * c7
  BY <1>1 DEF Decode
<1> HIDE DEF b2, b4, b8, b16, b32, b64, b128, c0, c1, c2, c3, c4, c5, c6, c7
<1>6. \A n \in Int : n = 2 * (n \div 2) + (n % 2) /\ n % 2 \in Int
  BY Halving
<1>7. /\ b = 2 * b2 + c0 /\ b2 = 2 * b4 + c1 /\ b4 = 2 * b8 + c2 /\ b8 = 2 * b16 + c3
      /\ b16 = 2 * b32 + c4 /\ b32 = 2 * b64 + c5 /\ b64 = 2 * b128 + c6 /\ b128 = c7
      /\ c0 \in Int /\ c1 \in Int /\ c2 \in Int /\ c3 \in Int /\ c4 \in Int /\ c5 \in Int
      /\ c6 \in Int /\ c7 \in Int
  <2>1. /\ b = 2 * (b \div 2) + (b % 2) /\ b2 = 2 * (b2 \div 2) + (b2 % 2)
        /\ b4 = 2 * (b4 \div 2) + (b4 % 2) /\ b8 = 2 * (b8 \div 2) + (b8 % 2)
        /\ b16 = 2 * (b16 \div 2) + (b16 % 2) /\ b32 = 2 * (b32 \div 2) + (b32 % 2)
        /\ b64 = 2 * (b64 \div 2) + (b64 % 2)
    BY <1>3, <1>6
  <2>2. /\ b % 2 \in Int /\ b2 % 2 \in Int /\ b4 % 2 \in Int /\ b8 % 2 \in Int
        /\ b16 % 2 \in Int /\ b32 % 2 \in Int /\ b64 % 2 \in Int /\ b128 % 2 \in Int
    BY <1>3, <1>6
  <2>3. b128 % 2 = b128
    <3>1. b128 \in {0, 1}
      BY <1>2
    <3>2. \A x \in {0, 1} : (x % 2) = x
      OBVIOUS
    <3>3. QED
      BY <3>1, <3>2
  <2>4. QED
    BY <1>2, <1>4, <2>1, <2>2, <2>3
<1>8. b64 = 2 * c7 + c6 /\ b32 = 4 * c7 + 2 * c6 + c5 /\ b16 = 8 * c7 + 4 * c6 + 2 * c5 + c4
  BY <1>3, <1>7
<1>9. b8 = 16 * c7 + 8 * c6 + 4 * c5 + 2 * c4 + c3
  BY <1>3, <1>7, <1>8
<1>10. b = c0 + 2 * c1 + 4 * c2 + 8 * c3 + 16 * c4 + 32 * c5 + 64 * c6 + 128 * c7
  BY <1>3, <1>7, <1>9
<1>11. QED
  BY <1>5, <1>10
-----------------------------------------------------------------------------
\* The invariant with the types, field by field.
LEMMA TxFacts ==
  ASSUME TInv, use = "tx"
  PROVE  /\ SwTyped /\ TxRing /\ TxOnOff /\ TxMain /\ TxClock /\ TxLine /\ TxShift
         /\ tx.state \in TxStates /\ tx.bits \in 0 .. 8 /\ tx.shift \in 0 .. 255
         /\ tx.deadline \in 0 .. CycleMod - 1 /\ timer \in 0 .. CycleMod - 1
         /\ (tx.state = "TX_DATA" => tx.bits <= 7)
         /\ ccp.tx.value \in 0 .. CycleMod - 1 /\ ccp.tx.due \in BOOLEAN
         /\ ccp.tx.late \in 0 .. Latency /\ ccp.tx.mode \in {"OFF", "SET", "CLEAR"}
         /\ main.pc \in Pcs /\ main.since \in 0 .. MainTicks
         /\ pin.tx \in {0, 1} /\ peer.age \in Int /\ peer.bits \in Seq({0, 1})
         /\ written \in Seq(0 .. 255) /\ heard \in Seq(-1 .. 255)
<1>1. SwTyped /\ TxRing /\ TxOnOff /\ TxMain /\ TxClock /\ TxLine /\ TxShift
  BY DEF TInv, SwInv, TxInv
<1>2. ccp.tx \in TxModule
  BY <1>1, TypedParts
<1>3. /\ ccp.tx.value \in 0 .. CycleMod - 1 /\ ccp.tx.due \in BOOLEAN
      /\ ccp.tx.late \in 0 .. Latency /\ ccp.tx.mode \in {"OFF", "SET", "CLEAR"}
  BY <1>2 DEF TxModule, Module
<1>4. main.pc \in Pcs /\ main.since \in 0 .. MainTicks
  BY <1>1, MainTyped
<1>5. QED
  BY <1>1, <1>3, <1>4, TypedParts DEF SwTyped

LEMMA AheadTyped ==
  ASSUME TInv, use = "tx"
  PROVE  Ahead \in Nat
<1>1. ccp.tx.value \in Int /\ timer \in Int
  BY TxFacts
<1>2. ccp.tx.value - timer \in Int
  BY <1>1
<1>3. Ahead \in 0 .. CycleMod - 1
  BY <1>2, ModRange, Constants DEF Ahead, Away
<1>4. QED
  BY <1>3

\* A frame is under way when a bit of it is to come.
LEMMA FrameUnderWay ==
  ASSUME TInv, use = "tx", tx.state # "TX_IDLE", ~Waiting
  PROVE  InFrame /\ ~Off
<1>1. /\ TxOnOff /\ TxClock /\ tx.bits \in 0 .. 8
      /\ (tx.state = "TX_DATA" => tx.bits <= 7)
  BY TxFacts
<1>2. ~Off
  BY <1>1 DEF TxOnOff, Waiting
<1>3. Slot # 9
  BY <1>1 DEF Slot
<1>4. QED
  BY <1>1, <1>2, <1>3 DEF TxClock

\* The byte under way is one that was written.
LEMMA CurIs ==
  ASSUME TInv, use = "tx", InFrame
  PROVE  /\ Len(heard) + 1 \in 1 .. Len(written) - tx.ring.count
         /\ Cur \in 0 .. 255 /\ tx.ring.count \in 0 .. SZ
<1>1. /\ Len(heard) \in Nat /\ Len(written) \in Nat /\ tx.ring.count \in 0 .. SZ /\ SZ \in Nat
      /\ written \in Seq(0 .. 255)
  BY TxFacts, RingParts, LenProperties DEF TxRing
<1>2. Len(written) = Len(heard) + 1 + (IF Waiting THEN 1 ELSE 0) + tx.ring.count
  BY TxFacts DEF TxRing
<1>3. Len(heard) + 1 \in 1 .. Len(written) - tx.ring.count
  BY <1>1, <1>2
<1>4. Len(heard) + 1 \in 1 .. Len(written)
  BY <1>1, <1>3
<1>5. QED
  BY <1>1, <1>3, <1>4, ElementOfSeq DEF Cur

\* Steps that leave the transmitter, its module and the line alone.
LEMMA TxUntouched ==
  ASSUME TInv, use = "tx", UNCHANGED <<timer, tx, main, written, heard>>,
         ccp'.tx = ccp.tx, pin'.tx = pin.tx, peer'.age = peer.age, peer'.bits = peer.bits
  PROVE  TxInv'
<1>1. /\ (Off <=> Off') /\ Ahead' = Ahead /\ (Waiting <=> Waiting') /\ (InFrame <=> InFrame')
      /\ Slot' = Slot
  BY DEF Off, Ahead, Waiting, InFrame, Slot
<1>2. Cell' = Cell /\ Pos' = Pos /\ Cur' = Cur
  BY <1>1 DEF Cell, Pos, Cur
<1>3. TxInv
  BY DEF TInv, SwInv
<1>4. TxRing' /\ TxOnOff'
  BY <1>1, <1>3 DEF TxInv, TxRing, TxOnOff
<1>5. TxMain'
  BY <1>1, <1>2, <1>3 DEF TxInv, TxMain
<1>6. TxClock'
  BY <1>1, <1>2, <1>3 DEF TxInv, TxClock
<1>7. TxLine'
  BY <1>1, <1>2, <1>3 DEF TxInv, TxLine
<1>8. TxShift'
  BY <1>1, <1>2, <1>3 DEF TxInv, TxShift
<1>9. QED
  BY <1>4, <1>5, <1>6, <1>7, <1>8 DEF TxInv

\* Steps of main that only move main.
LEMMA MainMoves ==
  ASSUME TInv, use = "tx", UNCHANGED <<timer, tx, ccp, pin, peer, written, heard>>,
         (TxOnOff /\ TxMain)'
  PROVE  TxInv'
<1>1. /\ (Off <=> Off') /\ Ahead' = Ahead /\ (Waiting <=> Waiting') /\ (InFrame <=> InFrame')
      /\ Slot' = Slot
  BY DEF Off, Ahead, Waiting, InFrame, Slot
<1>2. Cell' = Cell /\ Pos' = Pos /\ Cur' = Cur
  BY <1>1 DEF Cell, Pos, Cur
<1>3. TxInv
  BY DEF TInv, SwInv
<1>4. TxRing'
  BY <1>1, <1>3 DEF TxInv, TxRing
<1>5. TxClock'
  BY <1>1, <1>2, <1>3 DEF TxInv, TxClock
<1>6. TxLine'
  BY <1>1, <1>2, <1>3 DEF TxInv, TxLine
<1>7. TxShift'
  BY <1>1, <1>2, <1>3 DEF TxInv, TxShift
<1>8. QED
  BY <1>4, <1>5, <1>6, <1>7 DEF TxInv

LEMMA BeginWriteKeepsTx ==
  ASSUME TInv, use = "tx", InTime, NEW n \in Int, BeginWrite(n)
  PROVE  TxInv'
<1>1. SwTyped
  BY TxFacts
<1>2. /\ main.pc = "idle" /\ main'.pc = "push" /\ main'.wrote = FALSE /\ main'.since = 0
      /\ (LineIdle \/ (tx.state = "TX_DATA" /\ tx.bits < 7))
      /\ UNCHANGED <<use, timer, tx, rx, ccp, pin, peer, written, heard, sent, got>>
  BY <1>1, BeginWriteDoes
<1>3. /\ (Off <=> Off') /\ Ahead' = Ahead /\ Slot' = Slot /\ (InFrame <=> InFrame')
  BY <1>2 DEF Off, Ahead, Slot, InFrame
<1>4. Pos' = Pos
  BY <1>2, <1>3 DEF Pos
<1>5. TxOnOff'
  BY <1>2, <1>3, TxFacts DEF TxOnOff
<1>6. CASE LineIdle
  <2>1. Off /\ ~InFrame /\ tx.state = "TX_IDLE"
    BY <1>2, <1>6, TxFacts DEF LineIdle, Off, InFrame, TxOnOff
  <2>2. TxMain'
    BY <1>2, <1>3, <2>1 DEF TxMain
  <2>3. QED
    BY <1>2, <1>5, <2>2, MainMoves
<1>7. CASE tx.state = "TX_DATA" /\ tx.bits < 7
  <2>1. Slot \in 0 .. 6
    BY <1>7, TxFacts DEF Slot
  <2>2. Slot * Bit <= 6 * Bit /\ Slot * Bit \in Int /\ Bit \in Nat /\ Latency \in Nat
    <3>1. Slot < 6 \/ Slot = 6
      BY <2>1
    <3>2. Slot \in Int /\ 6 \in Int /\ Slot * Bit \in Int /\ (Slot + 1) * Bit = Slot * Bit + Bit
      BY <2>1, Times
    <3>3. Slot < 6 => (Slot + 1) * Bit <= 6 * Bit
      BY <3>2, Times
    <3>4. QED
      BY <3>1, <3>2, <3>3, Constants
  <2>3. Ahead \in Nat
    BY AheadTyped
  <2>4. Pos <= 6 * Bit + Latency /\ Pos \in Int
    <3> DEFINE x == Slot * Bit
               y == 6 * Bit
    <3>1. /\ x <= y /\ x \in Int /\ y \in Int /\ Latency \in Nat /\ Ahead \in Nat
          /\ ccp.tx.late \in 0 .. Latency
          /\ Pos = IF ccp.tx.due THEN x + ccp.tx.late ELSE x - Ahead
      BY <2>2, <2>3, TxFacts DEF Pos
    <3> HIDE DEF x, y
    <3>2. QED
      BY <3>1 DEF y
  <2>5. TxMain'
    BY <1>2, <1>4, <1>7, <2>4 DEF TxMain
  <2>6. QED
    BY <1>2, <1>5, <2>5, MainMoves
<1>8. QED
  BY <1>2, <1>6, <1>7

LEMMA TestIdleKeepsTx ==
  ASSUME TInv, use = "tx", TestIdle
  PROVE  TxInv'
<1>1. SwTyped
  BY TxFacts
<1>2. /\ main.pc = "push"
      /\ \/ main.wrote /\ tx.state = "TX_IDLE" /\ main'.pc = "pop"
         \/ main'.pc = "idle"
      /\ UNCHANGED <<use, timer, tx, rx, ccp, pin, peer, written, heard, sent, got>>
  BY <1>1, TestIdleDoes DEF Returned
<1>3. /\ (Off <=> Off') /\ (InFrame <=> InFrame')
  BY <1>2 DEF Off, InFrame
<1>4. TxOnOff' /\ TxMain'
  BY <1>2, <1>3, TxFacts DEF TxOnOff, TxMain
<1>5. QED
  BY <1>2, <1>4, MainMoves

LEMMA PushKeepsTx ==
  ASSUME TInv, use = "tx", NEW b \in 0 .. 255, Push(b)
  PROVE  TxInv'
<1> DEFINE r == tx.ring
           n == Len(written)
<1>1. SwTyped /\ TxRing /\ TxOnOff /\ TxMain /\ TxClock /\ TxLine /\ TxShift
  BY TxFacts
<1>2. /\ main.pc = "push" /\ r.count < SZ /\ main'.pc = "push" /\ main'.wrote = TRUE
      /\ main'.since = main.since
      /\ tx'.state = tx.state /\ tx'.shift = tx.shift /\ tx'.bits = tx.bits
      /\ tx'.deadline = tx.deadline /\ tx'.ring = Put(r, b)
      /\ written' = Append(written, b)
      /\ UNCHANGED <<use, timer, rx, ccp, pin, peer, heard, sent, got>>
  <2>1. /\ main.pc = "push" /\ tx.ring.count < SZ
        /\ tx' = [state |-> tx.state, shift |-> tx.shift, bits |-> tx.bits,
                  deadline |-> tx.deadline, ring |-> Put(tx.ring, b)]
        /\ written' = Append(written, b)
        /\ main' = [pc |-> "push", left |-> main.left - 1, wrote |-> TRUE, since |-> main.since]
        /\ UNCHANGED <<use, timer, rx, ccp, pin, peer, heard, sent, got>>
    BY <1>1, PushDoes
  <2>2. QED
    BY <2>1
<1>3. RingOK(r) /\ r.count \in Nat /\ r.count \in 0 .. SZ
  BY <1>1, RingParts DEF TxRing
<1>4. /\ RingOK(Put(r, b)) /\ Put(r, b).count = r.count + 1
      /\ \A i \in 1 .. r.count : Content(Put(r, b))[i] = Content(r)[i]
      /\ Content(Put(r, b))[r.count + 1] = b
  <2>1. r.count < SZ
    BY <1>2
  <2> HIDE DEF r
  <2>2. QED
    BY <1>3, <2>1, PutKeeps
<1>5. /\ n \in Nat /\ Len(written') = n + 1 /\ written'[n + 1] = b /\ Len(heard) \in Nat
      /\ \A i \in 1 .. n : written'[i] = written[i]
  BY <1>2, TxFacts, AppendProperties, LenProperties
<1>6. /\ (Off <=> Off') /\ Ahead' = Ahead /\ (Waiting <=> Waiting') /\ (InFrame <=> InFrame')
      /\ Slot' = Slot
  BY <1>2 DEF Off, Ahead, Waiting, InFrame, Slot
<1>7. Cell' = Cell /\ Pos' = Pos
  BY <1>2, <1>6 DEF Cell, Pos
<1> DEFINE h == Len(heard)
           k == IF InFrame THEN 1 ELSE 0
           w == IF Waiting THEN 1 ELSE 0
           c == r.count
<1>8. /\ n = h + k + w + c /\ n \in Nat /\ h \in Nat /\ k \in {0, 1} /\ w \in {0, 1} /\ c \in Nat
      /\ (InFrame => k = 1) /\ (Waiting => w = 1)
  BY <1>1, <1>3, <1>5 DEF TxRing
<1> HIDE DEF h, k, w, c
<1>9. InFrame => Cur' = Cur
  <2>1. InFrame => h + 1 \in 1 .. n
    BY <1>8
  <2>2. QED
    BY <1>2, <1>5, <2>1 DEF Cur, h
<1> HIDE DEF n
<1>10. TxRing'
  <2>1. RingOK(tx'.ring) /\ tx'.ring.count = c + 1
    BY <1>2, <1>4 DEF c
  <2>2. Len(written') = h + k + w + (c + 1)
    BY <1>5, <1>8
  <2>3. ASSUME NEW i \in 1 .. c + 1
        PROVE  Content(Put(r, b))[i] = written'[(n + 1) - (c + 1) + i]
    <3>1. CASE i \in 1 .. c
      <4>1. n - c + i \in 1 .. n /\ (n + 1) - (c + 1) + i = n - c + i
        BY <1>8, <3>1
      <4>2. Content(r)[i] = written[n - c + i]
        BY <1>1, <3>1 DEF TxRing, n, c
      <4>3. Content(Put(r, b))[i] = Content(r)[i]
        BY <1>4, <3>1 DEF c
      <4>4. QED
        BY <1>5, <4>1, <4>2, <4>3
    <3>2. CASE i = c + 1
      <4>1. (n + 1) - (c + 1) + i = n + 1
        BY <1>8, <3>2
      <4>2. QED
        BY <1>4, <1>5, <3>2, <4>1 DEF c
    <3>3. QED
      BY <1>8, <3>1, <3>2
  <2>4. ASSUME NEW i \in 1 .. h PROVE heard[i] = written'[i]
    <3>1. i \in 1 .. n
      BY <1>8
    <3>2. heard[i] = written[i]
      BY <1>1 DEF TxRing, h
    <3>3. QED
      BY <1>5, <3>1, <3>2
  <2>5. heard' = heard /\ tx'.ring = Put(r, b) /\ Len(written') = n + 1
    BY <1>2, <1>5
  <2>6. \A i \in 1 .. tx'.ring.count :
           Content(tx'.ring)[i] = written'[Len(written') - tx'.ring.count + i]
    BY <2>1, <2>3, <2>5
  <2>7. \A i \in 1 .. Len(heard') : heard'[i] = written'[i]
    BY <2>4, <2>5 DEF h
  <2>8. Len(written') = Len(heard') + (IF InFrame' THEN 1 ELSE 0) + (IF Waiting' THEN 1 ELSE 0)
                        + tx'.ring.count
    BY <1>6, <2>1, <2>2, <2>5 DEF h, k, w
  <2>9. QED
    BY <2>1, <2>6, <2>7, <2>8 DEF TxRing
<1>11. TxOnOff'
  BY <1>1, <1>2, <1>6 DEF TxOnOff
<1>12. TxMain'
  BY <1>1, <1>2, <1>3, <1>4, <1>6, <1>7 DEF TxMain
<1>13. TxClock'
  <2>1. ~Off /\ ~ccp.tx.due /\ ~Waiting => InFrame
    BY <1>1 DEF TxClock
  <2>2. QED
    BY <1>1, <1>2, <1>6, <1>7, <1>9, <2>1 DEF TxClock
<1>14. TxLine'
  BY <1>1, <1>2, <1>6, <1>7, <1>9 DEF TxLine
<1>15. TxShift'
  <2>1. CASE Waiting
    <3>1. n - c \in 1 .. n /\ (n + 1) - (c + 1) = n - c
      BY <1>8, <2>1
    <3>2. Len(written') = n + 1 /\ tx'.ring.count = c + 1
      BY <1>2, <1>4, <1>5 DEF c
    <3>3. written'[Len(written') - tx'.ring.count] = written[n - c]
      BY <1>5, <3>1, <3>2
    <3>4. QED
      BY <1>1, <1>2, <1>6, <2>1, <3>3 DEF TxShift, n, c
  <2>2. CASE ~Waiting
    <3>1. tx.state = "TX_DATA" => InFrame
      BY <2>2, FrameUnderWay
    <3>2. QED
      BY <1>1, <1>2, <1>6, <1>9, <2>2, <3>1 DEF TxShift
  <2>3. QED
    BY <2>1, <2>2
<1>16. QED
  BY <1>10, <1>11, <1>12, <1>13, <1>14, <1>15 DEF TxInv

\* What taking the oldest byte off the ring leaves of it.
LEMMA OldestLeaves ==
  ASSUME TInv, use = "tx", tx.ring.count > 0, NEW d \in Nat,
         Len(written) = d + tx.ring.count
  PROVE  /\ RingOK(Drop(tx.ring)) /\ Drop(tx.ring).count = tx.ring.count - 1
         /\ tx.ring.buf[tx.ring.tail] = written[d + 1]
         /\ \A i \in 1 .. tx.ring.count - 1 :
              Content(Drop(tx.ring))[i] = written[Len(written) - (tx.ring.count - 1) + i]
<1> DEFINE r == tx.ring
           c == tx.ring.count
           n == Len(written)
<1>1. RingOK(r) /\ c \in 0 .. SZ /\ c \in Nat /\ n \in Nat
  BY TxFacts, RingParts, LenProperties DEF TxRing
<1>2. /\ RingOK(Drop(r)) /\ Drop(r).count = c - 1
      /\ r.buf[r.tail] = Content(r)[1]
      /\ \A i \in 1 .. c - 1 : Content(Drop(r))[i] = Content(r)[i + 1]
  BY <1>1, TakeKeeps
<1>3. \A i \in 1 .. c : Content(r)[i] = written[n - c + i]
  BY TxFacts DEF TxRing
<1>4. c > 0 /\ n = d + c
  OBVIOUS
<1> HIDE DEF r, c, n
<1>5. 1 \in 1 .. c /\ n - c + 1 = d + 1
  BY <1>1, <1>4
<1>6. r.buf[r.tail] = written[d + 1]
  <2>1. Content(r)[1] = written[n - c + 1]
    BY <1>3, <1>5
  <2>2. QED
    BY <1>2, <1>5, <2>1
<1>7. ASSUME NEW i \in 1 .. c - 1 PROVE Content(Drop(r))[i] = written[n - (c - 1) + i]
  <2>1. i + 1 \in 1 .. c /\ n - c + (i + 1) = n - (c - 1) + i
    BY <1>1, <1>4
  <2>2. Content(r)[i + 1] = written[n - c + (i + 1)]
    BY <1>3, <2>1
  <2>3. QED
    BY <1>2, <2>1, <2>2
<1>8. QED
  BY <1>2, <1>6, <1>7 DEF r, c, n

LEMMA PopKeepsTx ==
  ASSUME TInv, use = "tx", Pop
  PROVE  TxInv'
<1> DEFINE h == Len(heard)
           c == tx.ring.count
           n == Len(written)
<1>1. SwTyped /\ TxRing /\ TxOnOff /\ TxMain /\ TxClock /\ TxLine /\ TxShift
  BY TxFacts
<1>2. /\ main.pc = "pop" /\ main'.pc = "deadline"
      /\ tx'.state = "TX_DATA" /\ tx'.shift = tx.ring.buf[tx.ring.tail] /\ tx'.bits = 0
      /\ tx'.deadline = tx.deadline /\ tx'.ring = Drop(tx.ring)
      /\ UNCHANGED <<use, timer, rx, ccp, pin, peer, written, heard, sent, got>>
  <2>1. /\ main.pc = "pop"
        /\ tx' = [state |-> "TX_DATA", shift |-> tx.ring.buf[tx.ring.tail], bits |-> 0,
                  deadline |-> tx.deadline, ring |-> Drop(tx.ring)]
        /\ main' = [pc |-> "deadline", left |-> main.left, wrote |-> main.wrote,
                    since |-> main.since]
        /\ UNCHANGED <<use, timer, rx, ccp, pin, peer, written, heard, sent, got>>
    BY <1>1, PopDoes
  <2>2. QED
    BY <2>1
<1>3. Off /\ ~InFrame /\ c > 0 /\ ~ccp.tx.due /\ pin.tx = 1 /\ tx.state = "TX_IDLE"
  BY <1>1, <1>2 DEF TxOnOff, TxMain
<1>4. ~Waiting /\ Waiting' /\ Off' /\ ~InFrame'
  BY <1>2, <1>3 DEF Waiting, Off, InFrame
<1>5. h \in Nat /\ c \in Nat /\ n \in Nat
  BY TxFacts, RingParts, LenProperties DEF TxRing
<1>6. n = h + c
  <2>1. n = h + (IF InFrame THEN 1 ELSE 0) + (IF Waiting THEN 1 ELSE 0) + c
    BY <1>1 DEF TxRing
  <2> HIDE DEF n, h, c
  <2>2. QED
    BY <1>3, <1>4, <1>5, <2>1
<1>7. /\ RingOK(Drop(tx.ring)) /\ Drop(tx.ring).count = c - 1
      /\ tx.ring.buf[tx.ring.tail] = written[h + 1]
      /\ \A i \in 1 .. c - 1 : Content(Drop(tx.ring))[i] = written[n - (c - 1) + i]
  BY <1>3, <1>5, <1>6, OldestLeaves
<1> HIDE DEF h, c, n
<1>8. TxRing'
  <2>1. RingOK(tx'.ring) /\ tx'.ring.count = c - 1 /\ Len(written') = n /\ Len(heard') = h
    BY <1>2, <1>7 DEF n, h
  <2>2. n = h + 0 + 1 + (c - 1)
    BY <1>5, <1>6
  <2>3. \A i \in 1 .. h : heard'[i] = written'[i]
    BY <1>1, <1>2 DEF TxRing, h
  <2>4. \A i \in 1 .. c - 1 : Content(tx'.ring)[i] = written'[n - (c - 1) + i]
    BY <1>2, <1>7
  <2>5. QED
    BY <1>4, <2>1, <2>2, <2>3, <2>4 DEF TxRing
<1>9. TxOnOff' /\ TxMain'
  BY <1>2, <1>3, <1>4 DEF TxOnOff, TxMain
<1>10. TxClock' /\ TxLine'
  BY <1>1, <1>2, <1>3, <1>4 DEF TxClock, TxLine
<1>11. TxShift'
  <2>1. n - (c - 1) = h + 1
    BY <1>5, <1>6
  <2>2. tx'.shift = written'[Len(written') - tx'.ring.count]
    BY <1>2, <1>7, <2>1 DEF n
  <2>3. QED
    BY <1>4, <2>2 DEF TxShift
<1>12. QED
  BY <1>8, <1>9, <1>10, <1>11 DEF TxInv

LEMMA ReadTimerKeepsTx ==
  ASSUME TInv, use = "tx", InTime, ReadTimer
  PROVE  TxInv'
<1>1. SwTyped /\ TxRing /\ TxOnOff /\ TxMain /\ TxClock /\ TxLine /\ TxShift
  BY TxFacts
<1>2. /\ main.pc = "deadline" /\ main'.pc = "arm" /\ main'.since = 0
      /\ tx'.state = tx.state /\ tx'.shift = tx.shift /\ tx'.bits = tx.bits
      /\ tx'.deadline = After(timer, Lead) /\ tx'.ring = tx.ring
      /\ UNCHANGED <<use, timer, rx, ccp, pin, peer, written, heard, sent, got>>
  <2>1. /\ main.pc = "deadline"
        /\ tx' = [state |-> tx.state, shift |-> tx.shift, bits |-> tx.bits,
                  deadline |-> After(timer, Lead), ring |-> tx.ring]
        /\ main' = [pc |-> "arm", left |-> main.left, wrote |-> main.wrote, since |-> 0]
        /\ UNCHANGED <<use, timer, rx, ccp, pin, peer, written, heard, sent, got>>
    BY <1>1, ReadTimerDoes
  <2>2. QED
    BY <2>1
<1>3. Off /\ ~InFrame
  BY <1>1, <1>2 DEF TxOnOff, TxMain
<1>4. /\ Off' /\ ~InFrame' /\ (Waiting <=> Waiting')
  BY <1>2, <1>3 DEF Waiting, Off, InFrame
<1>5. Away(After(timer, Lead), timer) = Lead - 0
  <2>1. timer \in 0 .. CycleMod - 1 /\ Lead \in 0 .. CycleMod - 1
    BY TxFacts, Constants DEF InTime
  <2>2. Away(After(timer, Lead), timer) = Lead
    BY <2>1, Deadlines
  <2>3. QED
    BY <2>2, Constants
<1>6. TxRing'
  BY <1>1, <1>2, <1>3, <1>4 DEF TxRing
<1>7. TxOnOff'
  BY <1>1, <1>2, <1>3, <1>4 DEF TxOnOff
<1>8. TxMain'
  BY <1>2, <1>4, <1>5 DEF TxMain
<1>9. TxClock' /\ TxLine'
  BY <1>1, <1>2, <1>3, <1>4 DEF TxClock, TxLine
<1>10. TxShift'
  <2>1. tx.state = "TX_DATA" => Waiting
    BY <1>3, FrameUnderWay
  <2>2. QED
    BY <1>1, <1>2, <1>4, <2>1 DEF TxShift
<1>11. QED
  BY <1>6, <1>7, <1>8, <1>9, <1>10 DEF TxInv

LEMMA ArmStartKeepsTx ==
  ASSUME TInv, use = "tx", InTime, ArmStart
  PROVE  TxInv'
<1>1. SwTyped /\ TxRing /\ TxOnOff /\ TxMain /\ TxClock /\ TxLine /\ TxShift
  BY TxFacts
<1>2. /\ main.pc = "arm" /\ main'.pc = "idle"
      /\ ccp'.tx = [mode |-> "CLEAR", value |-> tx.deadline, due |-> ccp.tx.due,
                    late |-> ccp.tx.late]
      /\ UNCHANGED <<use, timer, tx, rx, pin, peer, written, heard, sent, got>>
  <2>1. /\ main.pc = "arm"
        /\ ccp' = [tx |-> [mode |-> "CLEAR", value |-> tx.deadline, due |-> ccp.tx.due,
                           late |-> ccp.tx.late], rx |-> ccp.rx]
        /\ main' = Returned
        /\ UNCHANGED <<use, timer, tx, rx, pin, peer, written, heard, sent, got>>
    BY <1>1, ArmStartDoes
  <2>2. QED
    BY <2>1 DEF Returned
<1>3. /\ Off /\ ~InFrame /\ tx.state = "TX_DATA" /\ tx.bits = 0 /\ ~ccp.tx.due /\ pin.tx = 1
  BY <1>1, <1>2 DEF TxOnOff, TxMain
<1>4. Waiting /\ Waiting' /\ ~Off' /\ ~InFrame'
  BY <1>2, <1>3 DEF Waiting, Off, InFrame
<1>5. Ahead' >= 1
  <2>1. Away(tx.deadline, timer) = Lead - main.since
    BY <1>1, <1>2 DEF TxMain
  <2>2. Ahead' = Lead - main.since
    BY <1>2, <2>1 DEF Ahead
  <2>3. main.since \in 0 .. MainTicks /\ MainTicks < Lead /\ Lead \in Nat /\ MainTicks \in Nat
    BY TxFacts, Constants DEF InTime
  <2>4. QED
    BY <2>2, <2>3
<1>6. TxRing'
  BY <1>1, <1>2, <1>3, <1>4 DEF TxRing
<1>7. TxOnOff' /\ TxMain'
  BY <1>2, <1>3, <1>4 DEF TxOnOff, TxMain
<1>8. TxClock'
  BY <1>2, <1>3, <1>4, <1>5 DEF TxClock
<1>9. TxLine' /\ TxShift'
  BY <1>1, <1>2, <1>3, <1>4 DEF TxLine, TxShift
<1>10. QED
  BY <1>6, <1>7, <1>8, <1>9 DEF TxInv

\* The next deadline is a bit time after the last, however late the handler runs.
LEMMA NextDeadline ==
  ASSUME TInv, use = "tx", InTime, ccp.tx.due
  PROVE  /\ ~Off /\ ~Waiting /\ main.pc \in {"idle", "push"}
         /\ ccp.tx.value = tx.deadline /\ ccp.tx.late \in Nat /\ Bit \in Nat
         /\ Away(After(tx.deadline, Bit), timer) = Bit - ccp.tx.late
         /\ Bit - ccp.tx.late >= 1 /\ Bit - ccp.tx.late <= Bit
<1>1. TxOnOff /\ TxClock /\ ccp.tx.late \in 0 .. Latency /\ ccp.tx.value \in 0 .. CycleMod - 1
      /\ timer \in 0 .. CycleMod - 1
  BY TxFacts
<1>2. ~Off /\ ~Waiting /\ main.pc \in {"idle", "push"}
  BY <1>1 DEF TxOnOff, Waiting
<1>3. ccp.tx.value = tx.deadline /\ timer = After(ccp.tx.value, ccp.tx.late)
  BY <1>1, <1>2 DEF TxClock
<1> DEFINE l == ccp.tx.late
<1>4. l \in 0 .. CycleMod - 1 /\ Bit \in 0 .. CycleMod - 1 /\ l < Bit /\ l \in Nat /\ Bit \in Nat
  BY <1>1, Constants DEF InTime
<1>5. Away(After(ccp.tx.value, Bit), timer) = Bit - l
  <2> HIDE DEF l
  <2>1. timer = After(ccp.tx.value, l)
    BY <1>3 DEF l
  <2>2. \A v, t, i, k \in 0 .. CycleMod - 1 :
           i < k /\ t = After(v, i) => Away(After(v, k), t) = k - i
    BY Deadlines
  <2>3. QED
    BY <1>1, <1>4, <2>1, <2>2
<1>6. Bit - l >= 1 /\ Bit - l <= Bit
  <2> HIDE DEF l
  <2>1. QED
    BY <1>4
<1>7. QED
  BY <1>2, <1>3, <1>4, <1>5, <1>6

\* Where the frame stands before and after a handler.
LEMMA HandlerPos ==
  ASSUME NEW s \in 0 .. 9, NEW t \in 0 .. 9, t = s + 1, NEW l \in Nat
  PROVE  s * Bit + l = t * Bit - (Bit - l)
<1>1. t * Bit = s * Bit + Bit /\ s * Bit \in Int /\ Bit \in Int
  BY Times, Constants
<1> DEFINE x == s * Bit
           y == t * Bit
<1>2. y = x + Bit /\ x \in Int /\ Bit \in Int
  BY <1>1
<1> HIDE DEF x, y
<1>3. x + l = y - (Bit - l)
  BY <1>2
<1>4. QED
  BY <1>3 DEF x, y

LEMMA TxOffKeepsTx ==
  ASSUME TInv, use = "tx", InTime, TxOff
  PROVE  TxInv'
<1>1. SwTyped /\ TxRing /\ TxOnOff /\ TxMain /\ TxClock /\ TxLine /\ TxShift
  BY TxFacts
<1>2. /\ ccp.tx.due /\ tx.state = "TX_IDLE" /\ tx.ring.count = 0
      /\ ccp'.tx.mode = "OFF" /\ ccp'.tx.due = FALSE /\ pin'.tx = 1
      /\ UNCHANGED <<use, timer, tx, rx, main, peer, written, heard, sent, got>>
  <2>1. /\ ccp.tx.due /\ tx.state = "TX_IDLE" /\ tx.ring.count = 0
        /\ ccp' = [tx |-> [mode |-> "OFF", value |-> ccp.tx.value, due |-> FALSE, late |-> 0],
                   rx |-> ccp.rx]
        /\ pin' = [tx |-> 1, rx |-> pin.rx]
        /\ UNCHANGED <<use, timer, tx, rx, main, peer, written, heard, sent, got>>
    BY <1>1, TxOffDoes
  <2>2. QED
    BY <2>1
<1>3. ~Off /\ ~Waiting /\ main.pc = "idle"
  BY <1>1, <1>2, NextDeadline DEF TxMain
<1>4. Off' /\ ~Waiting' /\ (InFrame <=> InFrame') /\ Cell = 9 /\ Cell' = 9
  BY <1>2, <1>3 DEF Waiting, Off, InFrame, Cell, Slot
<1>5. TxRing'
  BY <1>1, <1>2, <1>3, <1>4 DEF TxRing
<1>6. TxOnOff' /\ TxMain' /\ TxClock' /\ TxShift'
  BY <1>2, <1>3, <1>4 DEF TxOnOff, TxMain, TxClock, TxShift
<1>7. TxLine'
  <2>1. InFrame => Slots(Cur, 1)[10] = 1
    BY CurIs, HalvedIs
  <2>2. Cur' = Cur /\ peer' = peer /\ pin'.tx = 1
    BY <1>2 DEF Cur
  <2>3. Cell + 1 = 10 /\ Cell' + 1 = 10
    BY <1>4
  <2>4. QED
    BY <1>1, <1>4, <2>1, <2>2, <2>3 DEF TxLine
<1>8. QED
  BY <1>5, <1>6, <1>7 DEF TxInv

LEMMA TxNextKeepsTx ==
  ASSUME TInv, use = "tx", InTime, TxNext
  PROVE  TxInv'
<1> DEFINE h == Len(heard)
           k == IF InFrame THEN 1 ELSE 0
           c == tx.ring.count
           n == Len(written)
<1>1. SwTyped /\ TxRing /\ TxOnOff /\ TxMain /\ TxClock /\ TxLine /\ TxShift
  BY TxFacts
<1>2. /\ ccp.tx.due /\ tx.state = "TX_IDLE" /\ tx.ring.count # 0
      /\ tx'.state = "TX_DATA" /\ tx'.shift = tx.ring.buf[tx.ring.tail] /\ tx'.bits = 0
      /\ tx'.deadline = After(tx.deadline, Bit) /\ tx'.ring = Drop(tx.ring)
      /\ ccp'.tx = [mode |-> "CLEAR", value |-> After(tx.deadline, Bit), due |-> FALSE, late |-> 0]
      /\ UNCHANGED <<use, timer, rx, main, pin, peer, written, heard, sent, got>>
  <2>1. /\ ccp.tx.due /\ tx.state = "TX_IDLE" /\ tx.ring.count # 0
        /\ tx' = [state |-> "TX_DATA", shift |-> tx.ring.buf[tx.ring.tail], bits |-> 0,
                  deadline |-> After(tx.deadline, Bit), ring |-> Drop(tx.ring)]
        /\ ccp' = [tx |-> [mode |-> "CLEAR", value |-> After(tx.deadline, Bit), due |-> FALSE,
                           late |-> 0], rx |-> ccp.rx]
        /\ UNCHANGED <<use, timer, rx, main, pin, peer, written, heard, sent, got>>
    BY <1>1, TxNextDoes
  <2>2. QED
    BY <2>1
<1>3. ~Off /\ ~Waiting /\ main.pc = "idle" /\ Slot = 9
  BY <1>1, <1>2, NextDeadline DEF TxMain, Slot
<1>4. ~Off' /\ Waiting' /\ (InFrame <=> InFrame') /\ Cell = 9 /\ Cell' = 9 /\ Slot' = 0
  BY <1>2, <1>3 DEF Waiting, Off, InFrame, Cell, Slot
<1>5. h \in Nat /\ c \in Nat /\ n \in Nat /\ k \in {0, 1}
  BY TxFacts, RingParts, LenProperties DEF TxRing
<1>6. n = (h + k) + c
  <2>1. n = h + k + (IF Waiting THEN 1 ELSE 0) + c
    BY <1>1 DEF TxRing
  <2> HIDE DEF n, h, k, c
  <2>2. QED
    BY <1>3, <1>5, <2>1
<1> DEFINE d == h + k
<1>7. d \in Nat /\ c > 0
  BY <1>2, <1>5
<1>8. /\ RingOK(Drop(tx.ring)) /\ Drop(tx.ring).count = c - 1
      /\ tx.ring.buf[tx.ring.tail] = written[d + 1]
      /\ \A i \in 1 .. c - 1 : Content(Drop(tx.ring))[i] = written[n - (c - 1) + i]
  <2> HIDE DEF d
  <2>1. n = d + c
    BY <1>6 DEF d
  <2>2. QED
    BY <1>7, <2>1, OldestLeaves
<1> HIDE DEF h, c, n, k
<1>9. TxRing'
  <2>1. RingOK(tx'.ring) /\ tx'.ring.count = c - 1 /\ Len(written') = n /\ Len(heard') = h
    BY <1>2, <1>8 DEF n, h
  <2>2. n = h + k + 1 + (c - 1)
    BY <1>5, <1>6
  <2>3. \A i \in 1 .. h : heard'[i] = written'[i]
    BY <1>1, <1>2 DEF TxRing, h
  <2>4. \A i \in 1 .. c - 1 : Content(tx'.ring)[i] = written'[n - (c - 1) + i]
    BY <1>2, <1>8
  <2>5. Len(written') = Len(heard') + (IF InFrame' THEN 1 ELSE 0) + (IF Waiting' THEN 1 ELSE 0)
                        + tx'.ring.count
    BY <1>4, <2>1, <2>2 DEF k
  <2>6. QED
    BY <2>1, <2>3, <2>4, <2>5 DEF TxRing
<1>10. TxOnOff' /\ TxMain'
  BY <1>2, <1>3, <1>4 DEF TxOnOff, TxMain
<1>11. TxClock'
  <2>1. Ahead' = Bit - ccp.tx.late /\ Ahead' >= 1 /\ Ahead' <= Bit /\ ccp.tx.late \in Nat /\ Bit \in Nat
    BY <1>2, NextDeadline DEF Ahead
  <2>2. Pos = 9 * Bit + ccp.tx.late
    BY <1>2, <1>3 DEF Pos
  <2>3. Pos' = 0 * Bit - (Bit - ccp.tx.late)
    BY <1>2, <1>4, <2>1 DEF Pos
  <2>4. Pos' + 10 * Bit = Pos
    BY <2>1, <2>2, <2>3
  <2>5. InFrame => peer.age = Pos
    BY <1>1, <1>3 DEF TxClock
  <2>6. ~InFrame => pin.tx = 1
    BY <1>1, <1>3 DEF TxClock
  <2>7. QED
    BY <1>2, <1>4, <2>1, <2>4, <2>5, <2>6 DEF TxClock
<1>12. TxLine'
  <2>1. Cur' = Cur
    BY <1>2 DEF Cur
  <2>2. QED
    BY <1>1, <1>2, <1>4, <2>1 DEF TxLine
<1>13. TxShift'
  <2>1. n - (c - 1) = d + 1
    BY <1>5, <1>6
  <2>2. tx'.shift = written'[Len(written') - tx'.ring.count]
    BY <1>2, <1>8, <2>1 DEF n
  <2>3. QED
    BY <1>4, <2>2 DEF TxShift
<1>14. QED
  BY <1>9, <1>10, <1>11, <1>12, <1>13 DEF TxInv

LEMMA TxBitKeepsTx ==
  ASSUME TInv, use = "tx", InTime, TxBit
  PROVE  TxInv'
<1> DEFINE b == tx.bits
           l == ccp.tx.late
<1>1. SwTyped /\ TxRing /\ TxOnOff /\ TxMain /\ TxClock /\ TxLine /\ TxShift
  BY TxFacts
<1>2. /\ ccp.tx.due /\ tx.state = "TX_DATA" /\ b \in 0 .. 7
      /\ tx'.state = (IF b = 7 THEN "TX_STOP" ELSE "TX_DATA")
      /\ tx'.shift = tx.shift \div 2 /\ tx'.bits = b + 1
      /\ tx'.deadline = After(tx.deadline, Bit) /\ tx'.ring = tx.ring
      /\ ccp'.tx = [mode |-> Level(tx.shift % 2), value |-> After(tx.deadline, Bit),
                    due |-> FALSE, late |-> 0]
      /\ UNCHANGED <<use, timer, rx, main, pin, peer, written, heard, sent, got>>
  <2>1. /\ ccp.tx.due /\ tx.state = "TX_DATA" /\ tx.bits \in 0 .. 7
        /\ tx' = [state |-> IF tx.bits = 7 THEN "TX_STOP" ELSE "TX_DATA",
                  shift |-> tx.shift \div 2, bits |-> tx.bits + 1,
                  deadline |-> After(tx.deadline, Bit), ring |-> tx.ring]
        /\ ccp' = [tx |-> [mode |-> Level(tx.shift % 2), value |-> After(tx.deadline, Bit),
                           due |-> FALSE, late |-> 0], rx |-> ccp.rx]
        /\ UNCHANGED <<use, timer, rx, main, pin, peer, written, heard, sent, got>>
    BY <1>1, TxBitDoes
  <2>2. QED
    BY <2>1
<1>3. ~Off /\ ~Waiting /\ InFrame /\ main.pc \in {"idle", "push"}
  BY <1>2, NextDeadline, FrameUnderWay
<1>4. Cur \in 0 .. 255 /\ Cur' = Cur
  BY <1>2, <1>3, CurIs DEF Cur
<1>5. ~Off' /\ ~Waiting' /\ InFrame' /\ Slot = b /\ Slot' = b + 1 /\ Cell = b /\ Cell' = b
  <2>1. b + 1 # 0 /\ b + 1 - 1 = b
    BY <1>2
  <2>2. Level(tx.shift % 2) # "OFF"
    BY DEF Level
  <2>3. ~Off' /\ ~Waiting' /\ InFrame' /\ Slot = b /\ Slot' = b + 1
    BY <1>2, <1>3, <2>1, <2>2 DEF Off, Waiting, InFrame, Slot
  <2>4. QED
    BY <1>2, <1>3, <2>1, <2>3 DEF Cell
<1>6. /\ Ahead' = Bit - l /\ Ahead' >= 1 /\ Ahead' <= Bit /\ l \in Nat /\ Bit \in Nat
  BY <1>2, NextDeadline DEF Ahead
<1>7. Pos' = Pos
  <2>1. Pos = b * Bit + l /\ Pos' = (b + 1) * Bit - (Bit - l)
    BY <1>2, <1>5, <1>6 DEF Pos
  <2>2. b \in 0 .. 9 /\ b + 1 \in 0 .. 9
    BY <1>2
  <2> HIDE DEF b, l
  <2>3. QED
    BY <1>6, <2>1, <2>2, HandlerPos
<1>8. tx.shift = Halved(Cur, b)
  BY <1>1, <1>2, <1>3 DEF TxShift
<1>9. TxRing'
  BY <1>1, <1>2, <1>3, <1>5 DEF TxRing
<1>10. TxOnOff'
  <2>1. b = 7 => b + 1 = 8
    OBVIOUS
  <2>2. QED
    BY <1>2, <1>3, <1>5, <2>1 DEF TxOnOff
<1>11. TxMain'
  BY <1>1, <1>2, <1>3, <1>7 DEF TxMain
<1>12. TxClock'
  <2>1. Level(tx.shift % 2) = Level(Slots(Cur, 1)[Slot' + 1])
    <3>1. Slots(Cur, 1)[b + 2] = Halved(Cur, b) % 2
      BY <1>2, <1>4, HalvedIs
    <3>2. Slot' + 1 = b + 2
      BY <1>2, <1>5
    <3>3. QED
      BY <1>8, <3>1, <3>2
  <2>2. peer.age = Pos
    BY <1>1, <1>3 DEF TxClock
  <2>3. QED
    BY <1>2, <1>4, <1>5, <1>6, <1>7, <2>1, <2>2 DEF TxClock
<1>13. TxLine'
  BY <1>1, <1>2, <1>3, <1>4, <1>5 DEF TxLine
<1>14. TxShift'
  <2>1. b # 7 => tx.shift \div 2 = Halved(Cur, b + 1)
    <3>1. b # 7 => b \in 0 .. 6
      BY <1>2
    <3>2. b \in 0 .. 6 => Halved(Cur, b) \div 2 = Halved(Cur, b + 1)
      BY <1>4, HalvedIs
    <3>3. QED
      BY <1>8, <3>1, <3>2
  <2>2. QED
    BY <1>2, <1>4, <1>5, <2>1 DEF TxShift
<1>15. QED
  BY <1>9, <1>10, <1>11, <1>12, <1>13, <1>14 DEF TxInv

LEMMA TxStopKeepsTx ==
  ASSUME TInv, use = "tx", InTime, TxStop
  PROVE  TxInv'
<1> DEFINE l == ccp.tx.late
<1>1. SwTyped /\ TxRing /\ TxOnOff /\ TxMain /\ TxClock /\ TxLine /\ TxShift
  BY TxFacts
<1>2. /\ ccp.tx.due /\ tx.state = "TX_STOP"
      /\ tx'.state = "TX_IDLE" /\ tx'.shift = tx.shift /\ tx'.bits = tx.bits
      /\ tx'.deadline = After(tx.deadline, Bit) /\ tx'.ring = tx.ring
      /\ ccp'.tx = [mode |-> "SET", value |-> After(tx.deadline, Bit), due |-> FALSE, late |-> 0]
      /\ UNCHANGED <<use, timer, rx, main, pin, peer, written, heard, sent, got>>
  <2>1. /\ ccp.tx.due /\ tx.state = "TX_STOP"
        /\ tx' = [state |-> "TX_IDLE", shift |-> tx.shift, bits |-> tx.bits,
                  deadline |-> After(tx.deadline, Bit), ring |-> tx.ring]
        /\ ccp' = [tx |-> [mode |-> "SET", value |-> After(tx.deadline, Bit),
                           due |-> FALSE, late |-> 0], rx |-> ccp.rx]
        /\ UNCHANGED <<use, timer, rx, main, pin, peer, written, heard, sent, got>>
    BY <1>1, TxStopDoes
  <2>2. QED
    BY <2>1
<1>3. ~Off /\ ~Waiting /\ InFrame /\ tx.bits = 8
  BY <1>1, <1>2, NextDeadline, FrameUnderWay DEF TxOnOff
<1>4. Cur \in 0 .. 255 /\ Cur' = Cur
  BY <1>2, <1>3, CurIs DEF Cur
<1>5. ~Off' /\ ~Waiting' /\ InFrame' /\ Slot = 8 /\ Slot' = 9 /\ Cell = 8 /\ Cell' = 8
  <2>1. ~Off' /\ ~Waiting' /\ InFrame' /\ Slot = 8 /\ Slot' = 9
    BY <1>2, <1>3 DEF Off, Waiting, InFrame, Slot
  <2>2. QED
    BY <1>2, <1>3, <2>1 DEF Cell
<1>6. /\ Ahead' = Bit - l /\ Ahead' >= 1 /\ Ahead' <= Bit /\ l \in Nat /\ Bit \in Nat
  BY <1>2, NextDeadline DEF Ahead
<1>7. Pos = 8 * Bit + l /\ Pos' = Pos
  <2>1. Pos = 8 * Bit + l /\ Pos' = 9 * Bit - (Bit - l)
    BY <1>2, <1>5, <1>6 DEF Pos
  <2> HIDE DEF l
  <2>2. QED
    BY <1>6, <2>1
<1>8. main.pc = "idle"
  <2>1. main.pc = "push" => Pos - main.since <= 6 * Bit + Latency
    BY <1>1, <1>2 DEF TxMain
  <2>2. main.since \in 0 .. MainTicks /\ Latency \in Nat /\ MainTicks \in Nat
        /\ Latency + MainTicks < 2 * Bit
    BY TxFacts, Constants DEF InTime
  <2> HIDE DEF l
  <2>3. ~(Pos - main.since <= 6 * Bit + Latency)
    BY <1>6, <1>7, <2>2
  <2>4. main.pc \in {"idle", "push"}
    BY <1>2, NextDeadline
  <2>5. QED
    BY <2>1, <2>3, <2>4
<1>9. TxRing'
  BY <1>1, <1>2, <1>3, <1>5 DEF TxRing
<1>10. TxOnOff' /\ TxMain' /\ TxShift'
  BY <1>2, <1>3, <1>5, <1>8 DEF TxOnOff, TxMain, TxShift
<1>11. TxClock'
  <2>1. Slots(Cur, 1)[Slot' + 1] = 1
    <3>1. Slots(Cur, 1)[10] = 1
      BY <1>4, HalvedIs
    <3>2. QED
      BY <1>5, <3>1
  <2>2. peer.age = Pos
    BY <1>1, <1>3 DEF TxClock
  <2>3. QED
    BY <1>2, <1>4, <1>5, <1>6, <1>7, <2>1, <2>2 DEF TxClock, Level
<1>12. TxLine'
  BY <1>1, <1>2, <1>3, <1>4, <1>5 DEF TxLine
<1>13. QED
  BY <1>9, <1>10, <1>11, <1>12 DEF TxInv
-----------------------------------------------------------------------------
\* One tick: what it does to the transmitter's module.
LEMMA TickModule ==
  ASSUME TInv, use = "tx", InTime, Tick
  PROVE  /\ (Off <=> Off') /\ Slot' = Slot /\ TxLevel \in {0, 1}
         /\ ccp'.tx.mode = ccp.tx.mode /\ ccp'.tx.value = ccp.tx.value
         /\ (Off => ~ccp'.tx.due /\ TxLevel = pin.tx)
         /\ (ccp.tx.due => /\ ccp'.tx.due /\ ccp'.tx.late = ccp.tx.late + 1 /\ TxLevel = pin.tx
                           /\ ccp.tx.late + 1 <= Latency
                           /\ timer' = After(ccp.tx.value, ccp'.tx.late))
         /\ (~Off /\ ~ccp.tx.due => IF Ahead > 1
               THEN ~ccp'.tx.due /\ TxLevel = pin.tx /\ Ahead' = Ahead - 1
               ELSE /\ Ahead = 1 /\ ccp'.tx.due /\ ccp'.tx.late = 0
                    /\ timer' = After(ccp.tx.value, 0)
                    /\ TxLevel = IF ccp.tx.mode = "SET" THEN 1 ELSE 0)
<1>1. SwTyped /\ TxOnOff /\ TxClock /\ ccp.tx.value \in 0 .. CycleMod - 1
      /\ timer \in 0 .. CycleMod - 1 /\ ccp.tx.late \in 0 .. Latency
      /\ ccp.tx.mode \in {"OFF", "SET", "CLEAR"} /\ ccp.tx.due \in BOOLEAN
  BY TxFacts
<1>2. /\ (ccp.tx.due => ccp.tx.late < Latency)
      /\ timer' = Now /\ UNCHANGED tx
      /\ ccp'.tx = [mode |-> ccp.tx.mode, value |-> ccp.tx.value,
                    due |-> (ccp.tx.due \/ Event(ccp.tx, Now)),
                    late |-> IF ccp.tx.due THEN ccp.tx.late + 1 ELSE 0]
  <2>1. /\ ccp.tx.due => ccp.tx.late < Latency
        /\ timer' = Now /\ UNCHANGED tx
        /\ ccp' = [tx |-> [mode |-> ccp.tx.mode, value |-> ccp.tx.value,
                           due |-> (ccp.tx.due \/ Event(ccp.tx, Now)),
                           late |-> IF ccp.tx.due THEN ccp.tx.late + 1 ELSE 0],
                   rx |-> [mode |-> ccp.rx.mode,
                           value |-> IF Captured THEN Now ELSE ccp.rx.value,
                           due |-> (ccp.rx.due \/ Event(ccp.rx, Now) \/ Captured),
                           late |-> IF ccp.rx.due THEN ccp.rx.late + 1 ELSE 0]]
    BY <1>1, TickDoes
  <2>2. QED
    BY <2>1
<1> DEFINE e == Event(ccp.tx, Now)
<1>3. /\ ccp'.tx.mode = ccp.tx.mode /\ ccp'.tx.value = ccp.tx.value
      /\ ccp'.tx.late = IF ccp.tx.due THEN ccp.tx.late + 1 ELSE 0
      /\ (e => ccp'.tx.due) /\ (ccp.tx.due => ccp'.tx.due)
      /\ (~e /\ ~ccp.tx.due => ~ccp'.tx.due)
  <2> DEFINE o == ccp.tx.due \/ e
  <2>1. (e => o) /\ (ccp.tx.due => o) /\ (~e /\ ~ccp.tx.due => ~o)
    OBVIOUS
  <2>2. ccp'.tx = [mode |-> ccp.tx.mode, value |-> ccp.tx.value, due |-> o,
                   late |-> IF ccp.tx.due THEN ccp.tx.late + 1 ELSE 0]
    BY <1>2
  <2> HIDE DEF e, o
  <2>3. /\ ccp'.tx.mode = ccp.tx.mode /\ ccp'.tx.value = ccp.tx.value /\ ccp'.tx.due = o
        /\ ccp'.tx.late = IF ccp.tx.due THEN ccp.tx.late + 1 ELSE 0
    BY <2>2
  <2>4. QED
    BY <2>1, <2>3
<1>4. /\ (e => TxLevel = IF ccp.tx.mode = "SET" THEN 1 ELSE 0) /\ (~e => TxLevel = pin.tx)
  BY DEF TxLevel
<1> HIDE DEF e
<1>5. TxLevel \in {0, 1}
  BY <1>1, LevelsTyped
<1>6. (Off <=> Off') /\ Slot' = Slot
  BY <1>2 DEF Off, Slot
<1>7. Off => ~ccp'.tx.due /\ TxLevel = pin.tx
  <2>1. Off => ~e /\ ~ccp.tx.due
    BY <1>1 DEF Off, TxOnOff, Event, e
  <2>2. QED
    BY <1>3, <1>4, <2>1
<1>8. ASSUME ccp.tx.due
      PROVE  /\ ccp'.tx.due /\ ccp'.tx.late = ccp.tx.late + 1 /\ TxLevel = pin.tx
             /\ ccp.tx.late + 1 <= Latency
             /\ timer' = After(ccp.tx.value, ccp'.tx.late)
  <2> DEFINE l == ccp.tx.late
  <2>1. l < Latency /\ l \in 0 .. Latency /\ timer = After(ccp.tx.value, l)
    BY <1>1, <1>2, <1>8 DEF TxOnOff, TxClock
  <2>2. l \in 0 .. CycleMod - 2 /\ l + 1 <= Latency
    BY <2>1, Constants DEF InTime
  <2>3. \A v, t \in 0 .. CycleMod - 1 : \A i \in 0 .. CycleMod - 2 :
           t = After(v, i) => After(t, 1) = After(v, i + 1) /\ v # After(t, 1)
    BY Deadlines
  <2>4. Now = After(ccp.tx.value, l + 1) /\ ccp.tx.value # Now
    <3> HIDE DEF l
    <3>1. QED
      BY <1>1, <2>1, <2>2, <2>3 DEF Now
  <2>5. ~e
    BY <2>4 DEF Event, e
  <2>6. ccp'.tx.due /\ ccp'.tx.late = l + 1 /\ TxLevel = pin.tx
    BY <1>8, <1>3, <1>4, <2>5
  <2>7. QED
    BY <1>2, <2>2, <2>4, <2>6
<1>9. ASSUME ~Off, ~ccp.tx.due
      PROVE  IF Ahead > 1
             THEN ~ccp'.tx.due /\ TxLevel = pin.tx /\ Ahead' = Ahead - 1
             ELSE /\ Ahead = 1 /\ ccp'.tx.due /\ ccp'.tx.late = 0
                  /\ timer' = After(ccp.tx.value, 0)
                  /\ TxLevel = IF ccp.tx.mode = "SET" THEN 1 ELSE 0
  <2>1. Ahead >= 1 /\ Ahead \in Nat
    BY <1>1, <1>9, AheadTyped DEF TxClock
  <2>2. \A v, t \in 0 .. CycleMod - 1 :
           /\ Away(v, t) > 0 => Away(v, After(t, 1)) = Away(v, t) - 1
           /\ Away(v, t) > 0 => (v = After(t, 1) <=> Away(v, t) = 1)
           /\ v = After(v, 0)
    BY Deadlines
  <2>3. /\ Away(ccp.tx.value, Now) = Ahead - 1 /\ (ccp.tx.value = Now <=> Ahead = 1)
        /\ ccp.tx.value = After(ccp.tx.value, 0)
    BY <1>1, <2>1, <2>2 DEF Ahead, Now
  <2>4. Ahead' = Ahead - 1
    BY <1>2, <2>3 DEF Ahead
  <2>5. e <=> Ahead = 1
    BY <1>1, <1>9, <2>3 DEF Event, Off, e
  <2>6. CASE Ahead > 1
    <3>1. ~e
      BY <2>1, <2>5, <2>6
    <3>2. QED
      BY <1>9, <1>3, <1>4, <2>4, <2>6, <3>1
  <2>7. CASE Ahead = 1
    <3>1. e /\ ~(Ahead > 1)
      BY <2>5, <2>7
    <3>2. timer' = After(ccp.tx.value, 0)
      BY <1>2, <2>3, <2>7
    <3>3. QED
      BY <1>9, <1>3, <1>4, <2>7, <3>1, <3>2
  <2>8. QED
    BY <2>1, <2>6, <2>7
<1>10. QED
  BY <1>2, <1>3, <1>5, <1>6, <1>7, <1>8, <1>9

\* Where a tick takes the frame: to the next slot exactly when its bit begins.
LEMMA TickFrame ==
  ASSUME TInv, use = "tx", InTime, Tick, InFrame
  PROVE  /\ Cell' \in 0 .. 9 /\ (Waiting <=> Waiting') /\ (~Off => Pos' = Pos + 1)
         /\ Cell' * Bit <= peer.age + 1 /\ peer.age + 1 < (Cell' + 1) * Bit
         /\ TxLevel = Slots(Cur, 1)[Cell' + 1]
<1> DEFINE a == peer.age
           h == Bit \div 2
           m == Len(peer.bits)
           s == Slot * Bit
           l == ccp.tx.late
<1>1. TxOnOff /\ TxClock /\ TxLine /\ a \in Int /\ peer.bits \in Seq({0, 1}) /\ tx.bits \in 0 .. 8
      /\ l \in 0 .. Latency /\ tx.state \in TxStates /\ ccp.tx.due \in BOOLEAN
      /\ ccp.tx.mode \in {"OFF", "SET", "CLEAR"} /\ (tx.state = "TX_DATA" => tx.bits <= 7)
  BY TxFacts
<1>2. /\ (Off <=> Off') /\ Slot' = Slot /\ TxLevel \in {0, 1}
      /\ (Off => ~ccp'.tx.due /\ TxLevel = pin.tx)
      /\ (ccp.tx.due => /\ ccp'.tx.due /\ ccp'.tx.late = ccp.tx.late + 1 /\ TxLevel = pin.tx
                        /\ ccp.tx.late + 1 <= Latency)
      /\ (~Off /\ ~ccp.tx.due => IF Ahead > 1
            THEN ~ccp'.tx.due /\ TxLevel = pin.tx /\ Ahead' = Ahead - 1
            ELSE /\ Ahead = 1 /\ ccp'.tx.due /\ ccp'.tx.late = 0
                 /\ TxLevel = IF ccp.tx.mode = "SET" THEN 1 ELSE 0)
  BY TickModule
<1>3. UNCHANGED tx
  BY DEF Tick
<1>4. a + 1 < 10 * Bit
  <2>1. m \in Nat /\ m <= 9 /\ a < m * Bit + h /\ h \in 1 .. Bit - 1
    BY <1>1, Times, LenProperties DEF TxLine
  <2> HIDE DEF m, h, a
  <2>2. m < 9 => (m + 1) * Bit <= 9 * Bit
    BY <2>1, Times
  <2>3. (m + 1) * Bit = m * Bit + Bit /\ m * Bit \in Int
    BY <2>1, Times
  <2> DEFINE x == m * Bit
  <2>4. /\ x <= 9 * Bit /\ x \in Int /\ a < x + h /\ Bit \in Nat
    <3>1. CASE m = 9
      BY <2>1, <2>3, <3>1, Constants
    <3>2. CASE m < 9
      BY <2>1, <2>2, <2>3, <3>2, Constants
    <3>3. QED
      BY <2>1, <3>1, <3>2
  <2> HIDE DEF x
  <2>5. QED
    BY <1>1, <2>1, <2>4 DEF a
<1>5. Slot \in 0 .. 9 /\ s \in Int /\ Bit \in Nat /\ Ahead \in Nat /\ (Slot + 1) * Bit = s + Bit
      /\ (Slot - 1) * Bit = s - Bit
  <2>1. Slot \in 0 .. 9
    BY <1>1 DEF Slot, TxStates
  <2>2. QED
    BY <2>1, Times, AheadTyped, Constants
<1>6. /\ Cell * Bit <= a /\ a < (Cell + 1) * Bit /\ pin.tx = Slots(Cur, 1)[Cell + 1]
  BY <1>1 DEF TxLine
<1>7. CASE Off
  <2>1. Cell = 9 /\ Cell' = 9 /\ (Waiting <=> Waiting') /\ TxLevel = pin.tx
    BY <1>1, <1>2, <1>3, <1>7 DEF Cell, Waiting, TxOnOff
  <2>2. 9 * Bit <= a + 1 /\ 9 + 1 = 10
    BY <1>1, <1>5, <1>6, <2>1
  <2>3. QED
    BY <1>4, <1>6, <1>7, <2>1, <2>2
<1>8. CASE ~Off /\ Waiting
  <2>1. Slot = 0 /\ ~ccp.tx.due
    BY <1>8 DEF Slot, Waiting
  <2>2. a = Pos + 10 * Bit /\ Pos = 0 * Bit - Ahead
    BY <1>1, <1>8, <2>1 DEF TxClock, Pos
  <2>3. Ahead > 1
    <3> HIDE DEF a
    <3>1. a + 1 < 10 * Bit /\ a = 0 * Bit - Ahead + 10 * Bit
      BY <1>4, <2>2
    <3>2. QED
      BY <1>5, <3>1
  <2>4. ~ccp'.tx.due /\ TxLevel = pin.tx /\ Ahead' = Ahead - 1
    BY <1>2, <1>8, <2>1, <2>3
  <2>5. Waiting' /\ Cell = 9 /\ Cell' = 9
    BY <1>3, <1>8, <2>4 DEF Waiting, Cell
  <2>6. Pos' = 0 * Bit - (Ahead - 1)
    BY <1>2, <2>1, <2>4 DEF Pos
  <2>7. Pos' = Pos + 1
    BY <1>5, <2>2, <2>6
  <2>8. 9 * Bit <= a + 1 /\ 9 + 1 = 10
    BY <1>1, <1>5, <1>6, <2>5
  <2>9. QED
    BY <1>4, <1>6, <1>8, <2>4, <2>5, <2>7, <2>8
<1>9. CASE ~Off /\ ccp.tx.due
  <2>1. ~Waiting /\ ~Waiting' /\ Cell = Slot /\ Cell' = Slot /\ TxLevel = pin.tx
    BY <1>2, <1>9 DEF Waiting, Cell
  <2>2. a = s + l /\ Pos = s + l /\ Pos' = s + (l + 1)
    BY <1>1, <1>2, <1>9, <2>1 DEF TxClock, Pos
  <2>3. l + 1 < Bit /\ l \in Nat
    BY <1>1, <1>2, <1>5, <1>9, Constants DEF InTime
  <2> HIDE DEF s, l, a
  <2>4. s <= a + 1 /\ a + 1 < s + Bit /\ Pos' = Pos + 1
    BY <1>5, <2>2, <2>3
  <2>5. Cell' * Bit = s /\ (Cell' + 1) * Bit = s + Bit
    BY <1>5, <2>1 DEF s
  <2>6. QED
    BY <1>5, <1>6, <2>1, <2>4, <2>5 DEF a
<1>10. CASE ~Off /\ ~ccp.tx.due /\ ~Waiting /\ Ahead > 1
  <2>1. ~Waiting' /\ Cell = Slot - 1 /\ Cell' = Slot - 1 /\ TxLevel = pin.tx /\ Ahead' = Ahead - 1
        /\ ~ccp'.tx.due
    BY <1>2, <1>3, <1>10 DEF Waiting, Cell
  <2>2. Slot # 0
    BY <1>1, <1>10 DEF Slot, Waiting, TxOnOff, TxStates
  <2>3. a = s - Ahead /\ Pos = s - Ahead /\ Pos' = s - (Ahead - 1)
    BY <1>1, <1>2, <1>10, <2>1 DEF TxClock, Pos
  <2>4. Cell' * Bit = s - Bit /\ (Cell' + 1) * Bit = s /\ Cell' \in 0 .. 9 /\ Cell * Bit = s - Bit
    BY <1>5, <2>1, <2>2
  <2>5. s - Bit <= a /\ a \in Int /\ s \in Int /\ Ahead \in Nat /\ Ahead > 1 /\ Bit \in Nat
    BY <1>1, <1>5, <1>6, <1>10, <2>4
  <2> HIDE DEF s, a
  <2>6. s - Bit <= a + 1 /\ a + 1 < s /\ Pos' = Pos + 1
    BY <2>3, <2>5
  <2>7. QED
    BY <1>6, <1>10, <2>1, <2>4, <2>6 DEF a
<1>11. CASE ~Off /\ ~ccp.tx.due /\ ~Waiting /\ ~(Ahead > 1)
  <2>1. /\ Ahead = 1 /\ ccp'.tx.due /\ ccp'.tx.late = 0
        /\ TxLevel = IF ccp.tx.mode = "SET" THEN 1 ELSE 0
    BY <1>2, <1>11
  <2>2. ~Waiting' /\ Cell' = Slot
    BY <1>2, <1>11, <2>1 DEF Waiting, Cell
  <2>3. a = s - 1 /\ Pos = s - 1 /\ Pos' = s + 0
    BY <1>1, <1>2, <1>11, <2>1, <2>2 DEF TxClock, Pos
  <2>4. TxLevel = Slots(Cur, 1)[Slot + 1]
    <3>1. ccp.tx.mode = Level(Slots(Cur, 1)[Slot + 1])
      BY <1>1, <1>11 DEF TxClock
    <3>2. Slots(Cur, 1)[Slot + 1] \in {0, 1}
      <4>1. Slot + 1 \in 1 .. 10 /\ Cur \in 0 .. 255
        BY <1>5, CurIs
      <4>2. \A i \in 1 .. 10 : Slots(Cur, 1)[i] \in {0, 1}
        BY <4>1, SlotsTyped
      <4>3. QED
        BY <4>1, <4>2
    <3>3. QED
      BY <2>1, <3>1, <3>2 DEF Level
  <2>5. Cell' * Bit = s /\ (Cell' + 1) * Bit = s + Bit
    BY <1>5, <2>2
  <2> HIDE DEF s, a
  <2>6. s <= a + 1 /\ a + 1 < s + Bit /\ Pos' = Pos + 1
    BY <1>5, <2>3, Constants
  <2>7. QED
    BY <1>5, <1>11, <2>2, <2>4, <2>5, <2>6 DEF a
<1>12. QED
  BY <1>1, <1>7, <1>8, <1>9, <1>10, <1>11

\* Between frames the line leaves mark only for the start bit that is due.
LEMMA TickBetween ==
  ASSUME TInv, use = "tx", InTime, Tick, ~InFrame
  PROVE  IF TxLevel = 0
         THEN /\ ~Off /\ Waiting /\ ccp'.tx.due /\ ~Waiting' /\ Slot = 0 /\ Cell' = 0 /\ Pos' = 0
              /\ Pos = -1
         ELSE /\ (Waiting <=> Waiting') /\ (~Off => Pos' = Pos + 1)
              /\ (~Off => Waiting' \/ (ccp'.tx.due /\ Slot = 9))
<1>1. TxOnOff /\ TxClock /\ ccp.tx.due \in BOOLEAN /\ ccp.tx.late \in 0 .. Latency
      /\ ccp.tx.mode \in {"OFF", "SET", "CLEAR"}
  BY TxFacts
<1>2. /\ (Off <=> Off') /\ Slot' = Slot
      /\ (Off => ~ccp'.tx.due /\ TxLevel = pin.tx)
      /\ (ccp.tx.due => ccp'.tx.due /\ ccp'.tx.late = ccp.tx.late + 1 /\ TxLevel = pin.tx)
      /\ (~Off /\ ~ccp.tx.due => IF Ahead > 1
            THEN ~ccp'.tx.due /\ TxLevel = pin.tx /\ Ahead' = Ahead - 1
            ELSE /\ Ahead = 1 /\ ccp'.tx.due /\ ccp'.tx.late = 0
                 /\ TxLevel = IF ccp.tx.mode = "SET" THEN 1 ELSE 0)
  BY TickModule
<1>3. UNCHANGED tx /\ Ahead \in Nat /\ Bit \in Nat
  BY AheadTyped, Constants DEF Tick
<1>4. CASE Off
  <2>1. TxLevel = 1 /\ (Waiting <=> Waiting')
    BY <1>1, <1>2, <1>3, <1>4 DEF TxOnOff, Waiting
  <2>2. QED
    BY <1>4, <2>1
<1>5. CASE ~Off /\ ccp.tx.due
  <2>1. TxLevel = 1 /\ Slot = 9 /\ ~Waiting /\ ~Waiting' /\ ccp'.tx.due
    BY <1>1, <1>2, <1>5 DEF TxClock, Waiting
  <2>2. Pos = 9 * Bit + ccp.tx.late /\ Pos' = 9 * Bit + (ccp.tx.late + 1)
    BY <1>2, <1>5, <2>1 DEF Pos
  <2>3. ccp.tx.late \in Nat
    BY <1>1, Constants
  <2> DEFINE l == ccp.tx.late
  <2> HIDE DEF l
  <2>4. Pos' = Pos + 1
    BY <1>3, <2>2, <2>3 DEF l
  <2>5. QED
    BY <2>1, <2>4
<1>6. CASE ~Off /\ ~ccp.tx.due
  <2>1. Waiting /\ Slot = 0 /\ pin.tx = 1 /\ ccp.tx.mode = "CLEAR"
    BY <1>1, <1>6 DEF TxClock, Waiting, Slot
  <2>2. CASE Ahead > 1
    <3>1. ~ccp'.tx.due /\ TxLevel = pin.tx /\ Ahead' = Ahead - 1
      BY <1>2, <1>6, <2>2
    <3>2. Waiting'
      BY <1>3, <2>1, <3>1 DEF Waiting
    <3>3. Pos = 0 * Bit - Ahead /\ Pos' = 0 * Bit - (Ahead - 1)
      BY <1>2, <1>6, <2>1, <3>1 DEF Pos
    <3>4. Pos' = Pos + 1
      BY <1>3, <3>3
    <3>5. QED
      BY <2>1, <3>1, <3>2, <3>4
  <2>3. CASE ~(Ahead > 1)
    <3>1. Ahead = 1 /\ ccp'.tx.due /\ ccp'.tx.late = 0 /\ TxLevel = 0
      BY <1>2, <1>6, <2>1, <2>3
    <3>2. ~Waiting' /\ Cell' = 0
      BY <1>2, <1>6, <2>1, <3>1 DEF Waiting, Cell
    <3>3. Pos = 0 * Bit - 1 /\ Pos' = 0 * Bit + 0
      BY <1>2, <1>6, <2>1, <3>1 DEF Pos
    <3>4. Pos = -1 /\ Pos' = 0
      BY <1>3, <3>3
    <3>5. QED
      BY <1>6, <2>1, <3>1, <3>2, <3>4
  <2>4. QED
    BY <2>2, <2>3
<1>7. QED
  BY <1>4, <1>5, <1>6

LEMMA PosTyped ==
  ASSUME TInv, use = "tx"
  PROVE  Pos \in Int
<1>1. tx.bits \in 0 .. 8 /\ ccp.tx.late \in 0 .. Latency
  BY TxFacts
<1>2. Slot \in Int
  BY <1>1 DEF Slot
<1>3. Slot * Bit \in Int
  BY <1>2, Times
<1>4. Ahead \in Int /\ ccp.tx.late \in Int
  BY <1>1, AheadTyped
<1>5. QED
  BY <1>3, <1>4 DEF Pos

\* What every tick does, whatever the peer makes of the line.
LEMMA TickAll ==
  ASSUME TInv, use = "tx", InTime, Tick
  PROVE  /\ UNCHANGED <<use, tx, written>> /\ pin'.tx = TxLevel /\ Receives(TxLevel)
         /\ Cell \in Int /\ TxOnOff' /\ (~Off => Pos' = Pos + 1)
         /\ (main.pc \in {"pop", "deadline", "arm"} => Off)
         /\ main'.pc = main.pc /\ main'.wrote = main.wrote
         /\ (main.pc = "push" /\ tx.state # "TX_IDLE" => Pos' - main'.since <= 6 * Bit + Latency)
         /\ (main.pc = "arm" => Away(tx'.deadline, timer') = Lead - main'.since)
         /\ (~Off => /\ ccp'.tx.value = tx'.deadline
                     /\ (ccp'.tx.due => timer' = After(ccp'.tx.value, ccp'.tx.late)
                                        /\ (ccp'.tx.mode = "CLEAR" <=> pin'.tx = 0))
                     /\ (~ccp'.tx.due => ~ccp.tx.due /\ Ahead' >= 1 /\ (InFrame => Ahead' <= Bit)))
<1>1. SwTyped /\ TxOnOff /\ TxMain /\ TxClock /\ main.since \in 0 .. MainTicks
      /\ tx.state \in TxStates /\ tx.bits \in 0 .. 8 /\ main.pc \in Pcs
      /\ tx.deadline \in 0 .. CycleMod - 1 /\ timer \in 0 .. CycleMod - 1
      /\ ccp.tx.mode \in {"OFF", "SET", "CLEAR"}
  BY TxFacts
<1>2. /\ main.pc # "idle" => main.since < MainTicks
      /\ timer' = Now /\ pin'.tx = TxLevel /\ Receives(TxLevel)
      /\ main'.pc = main.pc /\ main'.wrote = main.wrote
      /\ main'.since = (IF main.pc = "idle" THEN main.since ELSE main.since + 1)
      /\ UNCHANGED <<use, tx, written>>
  <2>1. /\ main.pc # "idle" => main.since < MainTicks
        /\ timer' = Now /\ pin' = [tx |-> TxLevel, rx |-> RxLevel]
        /\ main' = [pc |-> main.pc, left |-> main.left, wrote |-> main.wrote,
                    since |-> IF main.pc = "idle" THEN main.since ELSE main.since + 1]
        /\ (IF use = "rx" THEN Transmits ELSE Receives(TxLevel))
        /\ UNCHANGED <<use, tx, written>>
    BY <1>1, TickDoes
  <2>2. QED
    BY <2>1
<1>3. /\ (Off <=> Off') /\ Slot' = Slot /\ TxLevel \in {0, 1}
      /\ ccp'.tx.mode = ccp.tx.mode /\ ccp'.tx.value = ccp.tx.value
      /\ (Off => ~ccp'.tx.due /\ TxLevel = pin.tx)
      /\ (ccp.tx.due => /\ ccp'.tx.due /\ ccp'.tx.late = ccp.tx.late + 1 /\ TxLevel = pin.tx
                        /\ timer' = After(ccp.tx.value, ccp'.tx.late))
      /\ (~Off /\ ~ccp.tx.due => IF Ahead > 1
            THEN ~ccp'.tx.due /\ TxLevel = pin.tx /\ Ahead' = Ahead - 1
            ELSE /\ Ahead = 1 /\ ccp'.tx.due /\ ccp'.tx.late = 0
                 /\ timer' = After(ccp.tx.value, 0)
                 /\ TxLevel = IF ccp.tx.mode = "SET" THEN 1 ELSE 0)
  BY TickModule
<1>4. Cell \in Int
  BY <1>1 DEF Cell, Slot, TxStates
<1>5. TxOnOff'
  BY <1>1, <1>2, <1>3 DEF TxOnOff
<1>6. ~Off => Pos' = Pos + 1
  <2>1. CASE InFrame
    BY <2>1, TickFrame
  <2>2. CASE ~InFrame
    BY <1>3, <2>2, TickBetween
  <2>3. QED
    BY <2>1, <2>2
<1>7. main.pc \in {"pop", "deadline", "arm"} => Off
  BY <1>1 DEF TxOnOff
<1>8. main.pc = "push" /\ tx.state # "TX_IDLE" => Pos' - main'.since <= 6 * Bit + Latency
  <2> SUFFICES ASSUME main.pc = "push", tx.state # "TX_IDLE"
               PROVE  Pos' - main'.since <= 6 * Bit + Latency
    OBVIOUS
  <2>1. ~Off /\ Pos - main.since <= 6 * Bit + Latency
    BY <1>1 DEF TxOnOff, TxMain
  <2>2. Pos' = Pos + 1 /\ main'.since = main.since + 1
    BY <1>2, <1>6, <2>1
  <2>3. Pos \in Int /\ main.since \in Int
    BY <1>1, PosTyped
  <2>4. QED
    BY <2>1, <2>2, <2>3
<1>9. main.pc = "arm" => Away(tx'.deadline, timer') = Lead - main'.since
  <2> SUFFICES ASSUME main.pc = "arm" PROVE Away(tx'.deadline, timer') = Lead - main'.since
    OBVIOUS
  <2>1. Away(tx.deadline, timer) = Lead - main.since
    BY <1>1 DEF TxMain
  <2>2. main.since < MainTicks /\ main'.since = main.since + 1
    BY <1>2
  <2>3. main.since \in Int /\ MainTicks \in Int /\ Lead \in Int /\ MainTicks < Lead
    BY <1>1, Constants DEF InTime
  <2>4. \A v, t \in 0 .. CycleMod - 1 : Away(v, t) > 0 => Away(v, After(t, 1)) = Away(v, t) - 1
    BY Deadlines
  <2>5. Away(tx.deadline, timer) > 0
    BY <2>1, <2>2, <2>3
  <2>6. Away(tx.deadline, Now) = Away(tx.deadline, timer) - 1
    BY <1>1, <2>4, <2>5 DEF Now
  <2>7. Away(tx'.deadline, timer') = Away(tx.deadline, timer) - 1
    BY <1>2, <2>6
  <2>8. QED
    BY <2>1, <2>2, <2>3, <2>7
<1>10. ASSUME ~Off
       PROVE  /\ ccp'.tx.value = tx'.deadline
              /\ (ccp'.tx.due => timer' = After(ccp'.tx.value, ccp'.tx.late)
                                 /\ (ccp'.tx.mode = "CLEAR" <=> pin'.tx = 0))
              /\ (~ccp'.tx.due => ~ccp.tx.due /\ Ahead' >= 1 /\ (InFrame => Ahead' <= Bit))
  <2>1. Ahead \in Nat /\ Bit \in Nat
    BY AheadTyped, Constants
  <2>2. ccp'.tx.value = tx'.deadline
    BY <1>1, <1>2, <1>3, <1>10 DEF TxClock
  <2>3. CASE ccp.tx.due
    BY <1>1, <1>2, <1>3, <1>10, <2>2, <2>3 DEF TxClock
  <2>4. CASE ~ccp.tx.due /\ Ahead > 1
    BY <1>1, <1>2, <1>3, <1>10, <2>1, <2>2, <2>4 DEF TxClock
  <2>5. CASE ~ccp.tx.due /\ ~(Ahead > 1)
    BY <1>1, <1>2, <1>3, <1>10, <2>2, <2>5 DEF Off
  <2>6. QED
    BY <2>3, <2>4, <2>5
<1>11. QED
  BY <1>2, <1>4, <1>5, <1>6, <1>7, <1>8, <1>9, <1>10

\* A tick between frames at mark.
LEMMA TickAtMark ==
  ASSUME TInv, use = "tx", InTime, Tick, ~InFrame, TxLevel = 1
  PROVE  TxInv'
<1>1. SwTyped /\ TxRing /\ TxOnOff /\ TxMain /\ TxClock /\ TxLine /\ TxShift /\ peer.age \in Int
  BY TxFacts
<1>2. peer.age = -1
  BY <1>1 DEF InFrame, TxLine
<1>3. peer'.age = -1 /\ peer'.bits = peer.bits /\ heard' = heard
  <2>1. /\ heard' = heard
        /\ peer' = [age |-> peer.age, bits |-> peer.bits, frame |-> peer.frame, quiet |-> Quieter]
    BY <1>1, <1>2, TickAll, ReceivesDoes
  <2>2. QED
    BY <1>2, <2>1
<1>4. ~InFrame' /\ (Waiting <=> Waiting') /\ (~Off => Waiting' \/ (ccp'.tx.due /\ Slot' = 9))
      /\ (Off <=> Off') /\ ccp'.tx.mode = ccp.tx.mode
  BY <1>3, TickBetween, TickModule DEF InFrame
<1>5. /\ UNCHANGED <<use, tx, written>> /\ pin'.tx = 1 /\ TxOnOff'
      /\ main'.pc = main.pc /\ main'.wrote = main.wrote
      /\ (main.pc = "push" /\ tx.state # "TX_IDLE" => Pos' - main'.since <= 6 * Bit + Latency)
      /\ (main.pc = "arm" => Away(tx'.deadline, timer') = Lead - main'.since)
      /\ (~Off => /\ ccp'.tx.value = tx'.deadline
                  /\ (ccp'.tx.due => timer' = After(ccp'.tx.value, ccp'.tx.late)
                                     /\ (ccp'.tx.mode = "CLEAR" <=> pin'.tx = 0))
                  /\ (~ccp'.tx.due => ~ccp.tx.due /\ Ahead' >= 1))
  BY TickAll
<1>6. TxRing'
  BY <1>1, <1>3, <1>4, <1>5 DEF TxRing
<1>7. TxMain'
  BY <1>1, <1>4, <1>5 DEF TxMain
<1>8. TxClock'
  BY <1>1, <1>4, <1>5 DEF TxClock
<1>9. TxLine'
  BY <1>1, <1>3, <1>4 DEF TxLine
<1>10. TxShift'
  <2>1. tx.state = "TX_DATA" => Waiting
    BY FrameUnderWay
  <2>2. QED
    BY <1>1, <1>4, <1>5, <2>1 DEF TxShift
<1>11. QED
  BY <1>5, <1>6, <1>7, <1>8, <1>9, <1>10 DEF TxInv

\* The tick that brings the start bit.
LEMMA TickStart ==
  ASSUME TInv, use = "tx", InTime, Tick, ~InFrame, TxLevel = 0
  PROVE  TxInv'
<1> DEFINE h == Len(heard)
           c == tx.ring.count
           n == Len(written)
<1>1. SwTyped /\ TxRing /\ TxOnOff /\ TxMain /\ TxClock /\ TxLine /\ TxShift /\ peer.age \in Int
      /\ written \in Seq(0 .. 255) /\ tx.state \in TxStates
  BY TxFacts
<1>2. peer.age = -1
  BY <1>1 DEF InFrame, TxLine
<1>3. peer'.age = 0 /\ peer'.bits = <<>> /\ heard' = heard
  <2>1. /\ heard' = heard
        /\ peer' = [age |-> 0, bits |-> peer.bits, frame |-> peer.frame, quiet |-> 0]
    BY <1>1, <1>2, TickAll, ReceivesDoes
  <2>2. QED
    BY <1>1, <2>1 DEF TxLine
<1>4. /\ ~Off /\ Waiting /\ ccp'.tx.due /\ ~Waiting' /\ Slot = 0 /\ Slot' = 0 /\ Cell' = 0
      /\ Pos' = 0 /\ InFrame' /\ ~Off' /\ ccp'.tx.mode = ccp.tx.mode
  BY <1>3, TickBetween, TickModule DEF InFrame
<1>5. /\ UNCHANGED <<use, tx, written>> /\ pin'.tx = 0 /\ TxOnOff'
      /\ (main.pc \in {"pop", "deadline", "arm"} => Off)
      /\ main'.pc = main.pc /\ main'.wrote = main.wrote
      /\ (main.pc = "push" /\ tx.state # "TX_IDLE" => Pos' - main'.since <= 6 * Bit + Latency)
      /\ ccp'.tx.value = tx'.deadline
      /\ timer' = After(ccp'.tx.value, ccp'.tx.late)
      /\ (ccp'.tx.mode = "CLEAR" <=> pin'.tx = 0)
  BY <1>4, TickAll
<1>6. h \in Nat /\ c \in Nat /\ n \in Nat
  BY TxFacts, RingParts, LenProperties DEF TxRing
<1>7. n = h + 0 + 1 + c
  BY <1>1, <1>4 DEF TxRing
<1>8. h + 1 = n - c /\ h + 1 \in 1 .. n
  <2> HIDE DEF n, h, c
  <2>1. QED
    BY <1>6, <1>7
<1>9. Cur' = written[h + 1] /\ Cur' \in 0 .. 255
  BY <1>1, <1>3, <1>5, <1>8, ElementOfSeq DEF Cur
<1>10. TxRing'
  <2>1. n = h + 1 + 0 + c
    <3> HIDE DEF n, h, c
    <3>1. QED
      BY <1>6, <1>7
  <2>2. QED
    BY <1>1, <1>3, <1>4, <1>5, <2>1 DEF TxRing
<1>11. TxMain'
  <2>1. tx.state = "TX_DATA"
    BY <1>4 DEF Waiting
  <2>2. QED
    BY <1>4, <1>5, <2>1 DEF TxMain
<1>12. TxClock'
  BY <1>3, <1>4, <1>5 DEF TxClock
<1>13. TxLine'
  <2>1. Slots(Cur', 1)[1] = 0
    BY <1>9, HalvedIs
  <2>2. Len(peer'.bits) = 0 /\ Len(peer'.bits) <= 9 /\ \A j \in 1 .. Len(peer'.bits) : FALSE
    BY <1>3
  <2>3. Bit \div 2 \in 1 .. Bit - 1 /\ Bit \in Nat
    BY Times, Constants
  <2>4. 0 * Bit <= 0 /\ 0 < (0 + 1) * Bit /\ 0 * Bit + (Bit \div 2) - Bit <= 0
        /\ 0 < 0 * Bit + (Bit \div 2)
    BY <2>3
  <2>5. QED
    BY <1>3, <1>4, <1>5, <2>1, <2>2, <2>4 DEF TxLine
<1>14. TxShift'
  <2>1. tx.bits = 0 /\ tx.state = "TX_DATA"
    BY <1>4 DEF Waiting
  <2>2. tx.shift = written[n - c]
    BY <1>1, <1>4, <2>1 DEF TxShift
  <2>3. Halved(Cur', 0) = Cur'
    BY <1>9, HalvedIs
  <2>4. QED
    BY <1>4, <1>5, <1>8, <1>9, <2>1, <2>2, <2>3 DEF TxShift
<1>15. QED
  BY <1>5, <1>10, <1>11, <1>12, <1>13, <1>14 DEF TxInv

\* What a tick of a frame samples.
LEMMA TickSamples ==
  ASSUME TInv, use = "tx", InTime, Tick, InFrame
  PROVE  /\ Sampled(TxLevel) \in Seq({0, 1})
         /\ Len(Sampled(TxLevel)) <= 10
         /\ \A j \in 1 .. Len(Sampled(TxLevel)) : Sampled(TxLevel)[j] = Slots(Cur, 1)[j]
         /\ Len(Sampled(TxLevel)) * Bit + (Bit \div 2) - Bit <= peer.age + 1
         /\ peer.age + 1 < Len(Sampled(TxLevel)) * Bit + (Bit \div 2)
         /\ (Len(Sampled(TxLevel)) = 10 => Cell' = 9)
<1> DEFINE a == peer.age
           m == Len(peer.bits)
           h == Bit \div 2
           s == Sampled(TxLevel)
<1>1. /\ a \in Int /\ peer.bits \in Seq({0, 1}) /\ m \in Nat /\ m <= 9 /\ h \in 1 .. Bit - 1
      /\ Bit \in Nat /\ m * Bit + h - Bit <= a /\ a < m * Bit + h
      /\ \A j \in 1 .. m : peer.bits[j] = Slots(Cur, 1)[j]
  BY TxFacts, Times, Constants, LenProperties DEF TxLine
<1>2. /\ Cell' \in 0 .. 9 /\ Cell' * Bit <= a + 1 /\ a + 1 < (Cell' + 1) * Bit
      /\ TxLevel = Slots(Cur, 1)[Cell' + 1]
  BY TickFrame
<1>3. TxLevel \in {0, 1}
  BY TickModule
<1>4. (m + 1) * Bit = m * Bit + Bit /\ m * Bit \in Int
  BY <1>1, Times
<1>5. CASE a + 1 = m * Bit + h
  <2>1. s = Append(peer.bits, TxLevel)
    BY <1>5 DEF Sampled
  <2>2. Cell' = m
    <3>1. \A c, n, p \in Int :
             c * Bit <= p /\ p < (c + 1) * Bit /\ p = n * Bit + (Bit \div 2) => c = n
      BY Sampling
    <3> DEFINE c == Cell'
               p == a + 1
    <3>2. c \in Int /\ m \in Int /\ p \in Int
      <4>1. c \in 0 .. 9
        BY <1>2
      <4>2. a \in Int /\ m \in Nat
        BY <1>1
      <4> HIDE DEF a, m, c
      <4>3. QED
        BY <4>1, <4>2
    <3>3. c * Bit <= p /\ p < (c + 1) * Bit /\ p = m * Bit + (Bit \div 2)
      BY <1>2, <1>5
    <3> HIDE DEF c, p, m
    <3>4. c = m
      BY <3>1, <3>2, <3>3
    <3>5. QED
      BY <3>4 DEF c
  <2>3. /\ s \in Seq({0, 1}) /\ Len(s) = m + 1 /\ s[m + 1] = TxLevel
        /\ \A j \in 1 .. m : s[j] = peer.bits[j]
    BY <1>1, <1>3, <2>1, AppendProperties
  <2> HIDE DEF a, m, h, s
  <2>4. \A j \in 1 .. Len(s) : s[j] = Slots(Cur, 1)[j]
    <3> SUFFICES ASSUME NEW j \in 1 .. m + 1 PROVE s[j] = Slots(Cur, 1)[j]
      BY <2>3
    <3>1. j \in 1 .. m \/ j = m + 1
      BY <1>1
    <3>2. QED
      BY <1>1, <1>2, <2>2, <2>3, <3>1
  <2>5. (m + 1) * Bit + h - Bit <= a + 1 /\ a + 1 < (m + 1) * Bit + h /\ m + 1 <= 10
        /\ (m + 1 = 10 => Cell' = 9)
    <3> DEFINE x == m * Bit
    <3>1. (m + 1) * Bit = x + Bit /\ x \in Int /\ a + 1 = x + h
      BY <1>4, <1>5
    <3> HIDE DEF x
    <3>2. QED
      BY <1>1, <2>2, <3>1
  <2>6. QED
    BY <2>3, <2>4, <2>5 DEF a, m, h, s
<1>6. CASE a + 1 # m * Bit + h
  <2>1. s = peer.bits
    BY <1>6 DEF Sampled
  <2> DEFINE x == m * Bit
  <2>2. x + h - Bit <= a /\ a < x + h /\ a + 1 # x + h /\ x \in Int
    BY <1>1, <1>4, <1>6
  <2>3. x + h - Bit <= a + 1 /\ a + 1 < x + h
    <3> HIDE DEF x, h, a
    <3>1. QED
      BY <1>1, <2>2
  <2>4. Len(s) = m /\ m <= 10 /\ m # 10
    <3>1. Len(s) = m
      BY <2>1
    <3> HIDE DEF m
    <3>2. m <= 10 /\ m # 10
      BY <1>1
    <3>3. QED
      BY <3>1, <3>2
  <2>5. QED
    BY <1>1, <2>1, <2>3, <2>4
<1>7. QED
  BY <1>5, <1>6

\* A tick within a frame.
LEMMA TickInFrame ==
  ASSUME TInv, use = "tx", InTime, Tick, InFrame, Len(Sampled(TxLevel)) < 10
  PROVE  TxInv'
<1> DEFINE s == Sampled(TxLevel)
<1>1. SwTyped /\ TxRing /\ TxOnOff /\ TxMain /\ TxClock /\ TxLine /\ TxShift /\ peer.age \in Int
  BY TxFacts
<1>2. peer'.age = peer.age + 1 /\ peer'.bits = s /\ heard' = heard
  <2>1. peer.age # -1
    BY <1>1 DEF InFrame
  <2>2. /\ heard' = heard
        /\ peer' = [age |-> peer.age + 1, bits |-> s, frame |-> peer.frame, quiet |-> peer.quiet]
    BY <1>1, <2>1, TickAll, ReceivesDoes
  <2>3. QED
    BY <2>2
<1>3. InFrame' /\ Slot' = Slot /\ (Off <=> Off') /\ ccp'.tx.mode = ccp.tx.mode
      /\ TxLevel \in {0, 1}
  <2>1. peer'.age >= 0
    BY <1>1, <1>2 DEF InFrame
  <2>2. QED
    BY <2>1, TickModule DEF InFrame
<1>4. /\ Cell' \in 0 .. 9 /\ (Waiting <=> Waiting') /\ (~Off => Pos' = Pos + 1)
      /\ Cell' * Bit <= peer.age + 1 /\ peer.age + 1 < (Cell' + 1) * Bit
      /\ TxLevel = Slots(Cur, 1)[Cell' + 1]
  BY TickFrame
<1>5. /\ UNCHANGED <<use, tx, written>> /\ pin'.tx = TxLevel /\ TxOnOff'
      /\ (main.pc \in {"pop", "deadline", "arm"} => Off)
      /\ main'.pc = main.pc /\ main'.wrote = main.wrote
      /\ (main.pc = "push" /\ tx.state # "TX_IDLE" => Pos' - main'.since <= 6 * Bit + Latency)
      /\ (main.pc = "arm" => Away(tx'.deadline, timer') = Lead - main'.since)
      /\ (~Off => /\ ccp'.tx.value = tx'.deadline
                  /\ (ccp'.tx.due => timer' = After(ccp'.tx.value, ccp'.tx.late)
                                     /\ (ccp'.tx.mode = "CLEAR" <=> pin'.tx = 0))
                  /\ (~ccp'.tx.due => ~ccp.tx.due /\ Ahead' >= 1 /\ Ahead' <= Bit))
  BY TickAll
<1>6. Cur' = Cur
  BY <1>2, <1>5 DEF Cur
<1>7. TxRing'
  BY <1>1, <1>2, <1>3, <1>4, <1>5 DEF TxRing
<1>8. TxMain'
  BY <1>1, <1>3, <1>5 DEF TxMain
<1>9. TxClock'
  <2>1. ~Off => peer'.age = IF Waiting' THEN Pos' + 10 * Bit ELSE Pos'
    <3> SUFFICES ASSUME ~Off PROVE peer'.age = IF Waiting' THEN Pos' + 10 * Bit ELSE Pos'
      OBVIOUS
    <3>1. peer.age = IF Waiting THEN Pos + 10 * Bit ELSE Pos
      BY <1>1 DEF TxClock
    <3>2. Pos \in Int /\ 10 * Bit \in Int
      BY PosTyped, Constants
    <3>3. QED
      BY <1>2, <1>4, <3>1, <3>2
  <2>2. ~Off /\ ~ccp'.tx.due /\ ~Waiting' => ccp'.tx.mode = Level(Slots(Cur', 1)[Slot' + 1])
    BY <1>1, <1>3, <1>4, <1>5, <1>6 DEF TxClock
  <2>3. ~Off /\ Waiting' => ccp'.tx.mode = "CLEAR"
    BY <1>1, <1>3, <1>4 DEF TxClock
  <2>4. QED
    BY <1>3, <1>5, <2>1, <2>2, <2>3 DEF TxClock
<1>10. TxLine'
  <2>1. /\ Len(s) <= 9 /\ \A j \in 1 .. Len(s) : s[j] = Slots(Cur, 1)[j]
        /\ Len(s) * Bit + (Bit \div 2) - Bit <= peer.age + 1
        /\ peer.age + 1 < Len(s) * Bit + (Bit \div 2)
    <3>1. Len(s) \in Nat
      BY TickSamples, LenProperties
    <3>2. QED
      BY <3>1, TickSamples
  <2>2. peer'.age >= -1
    BY <1>1, <1>2 DEF InFrame
  <2> HIDE DEF s
  <2>3. QED
    BY <1>2, <1>3, <1>4, <1>5, <1>6, <2>1, <2>2 DEF TxLine
<1>11. TxShift'
  BY <1>1, <1>4, <1>5, <1>6 DEF TxShift
<1>12. QED
  BY <1>5, <1>7, <1>8, <1>9, <1>10, <1>11 DEF TxInv

\* The tick of the last sample: the peer has heard the byte that was written.
LEMMA TickHeard ==
  ASSUME TInv, use = "tx", InTime, Tick, InFrame, ~(Len(Sampled(TxLevel)) < 10)
  PROVE  TxInv'
<1> DEFINE s == Sampled(TxLevel)
           h == Len(heard)
           n == Len(written)
           c == tx.ring.count
           w == IF Waiting THEN 1 ELSE 0
<1>1. SwTyped /\ TxRing /\ TxOnOff /\ TxMain /\ TxClock /\ TxLine /\ TxShift /\ peer.age \in Int
      /\ heard \in Seq(-1 .. 255) /\ tx.bits \in 0 .. 8 /\ (tx.state = "TX_DATA" => tx.bits <= 7)
      /\ tx.state \in TxStates
  BY TxFacts
<1>2. Len(s) = 10 /\ Cell' = 9 /\ \A j \in 1 .. 10 : s[j] = Slots(Cur, 1)[j]
  <2>1. Len(s) \in Nat
    <3>1. s \in Seq({0, 1})
      BY TickSamples
    <3>2. \A q \in Seq({0, 1}) : Len(q) \in Nat
      BY LenProperties
    <3> HIDE DEF s
    <3>3. QED
      BY <3>1, <3>2
  <2>2. Len(s) = 10
    <3>1. Len(s) <= 10 /\ ~(Len(s) < 10)
      BY TickSamples
    <3>2. \A x \in Nat : x <= 10 /\ ~(x < 10) => x = 10
      OBVIOUS
    <3> HIDE DEF s
    <3>3. QED
      BY <2>1, <3>1, <3>2
  <2>3. QED
    BY <2>2, TickSamples
<1>3. Cur \in 0 .. 255 /\ h + 1 \in 1 .. n - c
  BY CurIs
<1>4. Decode(s) = Cur
  BY <1>2, <1>3, DecodeIs
<1>5. peer'.age = -1 /\ peer'.bits = <<>> /\ heard' = Append(heard, Cur)
  <2>1. peer.age # -1
    BY <1>1 DEF InFrame
  <2>2. /\ heard' = Append(heard, Decode(s))
        /\ peer' = [age |-> -1, bits |-> <<>>, frame |-> peer.frame, quiet |-> peer.quiet]
    BY <1>1, <2>1, TickAll, ReceivesDoes
  <2>3. QED
    BY <1>4, <2>2
<1>6. /\ ~InFrame' /\ (Waiting <=> Waiting') /\ (Off <=> Off') /\ Slot' = Slot
      /\ ccp'.tx.mode = ccp.tx.mode
  <2>1. ~(peer'.age >= 0)
    BY <1>5
  <2>2. QED
    BY <2>1, TickFrame, TickModule DEF InFrame
<1>7. pin'.tx = 1
  <2>1. TxLevel = Slots(Cur, 1)[9 + 1]
    BY <1>2, TickFrame
  <2>2. Slots(Cur, 1)[10] = 1
    BY <1>3, HalvedIs
  <2>3. QED
    BY <2>1, <2>2, TickAll
<1>8. Off \/ Waiting' \/ (ccp'.tx.due /\ Slot' = 9)
  <2>1. Slot' \in 0 .. 9
    BY <1>1, <1>6 DEF Slot, TxStates
  <2>2. QED
    BY <1>2, <1>6, <2>1 DEF Cell
<1>9. /\ UNCHANGED <<use, tx, written>> /\ TxOnOff'
      /\ (main.pc \in {"pop", "deadline", "arm"} => Off)
      /\ main'.pc = main.pc /\ main'.wrote = main.wrote
      /\ (main.pc = "push" /\ tx.state # "TX_IDLE" => Pos' - main'.since <= 6 * Bit + Latency)
      /\ (main.pc = "arm" => Away(tx'.deadline, timer') = Lead - main'.since)
      /\ (~Off => /\ ccp'.tx.value = tx'.deadline
                  /\ (ccp'.tx.due => timer' = After(ccp'.tx.value, ccp'.tx.late)
                                     /\ (ccp'.tx.mode = "CLEAR" <=> pin'.tx = 0))
                  /\ (~ccp'.tx.due => ~ccp.tx.due /\ Ahead' >= 1))
  BY TickAll
<1>10. TxRing'
  <2>1. h \in Nat /\ c \in Nat /\ n \in Nat /\ w \in {0, 1} /\ n = h + 1 + w + c
    <3>1. h \in Nat /\ c \in Nat /\ n \in Nat /\ w \in {0, 1}
      <4>1. TxRing /\ written \in Seq(0 .. 255) /\ heard \in Seq(-1 .. 255)
        BY TxFacts
      <4>2. h \in Nat /\ n \in Nat
        BY <4>1, LenProperties
      <4>3. c \in Nat
        BY <4>1, RingParts DEF TxRing
      <4>4. w \in {0, 1}
        OBVIOUS
      <4>5. QED
        BY <4>2, <4>3, <4>4
    <3>2. QED
      BY <1>1, <3>1 DEF TxRing
  <2>2. Len(heard') = h + 1 /\ heard'[h + 1] = Cur /\ \A i \in 1 .. h : heard'[i] = heard[i]
    BY <1>1, <1>3, <1>5, AppendProperties
  <2>3. \A i \in 1 .. h : heard[i] = written[i]
    BY <1>1 DEF TxRing
  <2>4. Cur = written[h + 1]
    BY DEF Cur
  <2> HIDE DEF h, n, c, w
  <2>5. ASSUME NEW i \in 1 .. h + 1 PROVE heard'[i] = written[i]
    <3>1. i \in 1 .. h \/ i = h + 1
      BY <2>1
    <3>2. QED
      BY <2>2, <2>3, <2>4, <3>1
  <2>6. n = (h + 1) + 0 + w + c
    BY <2>1
  <2>7. Len(written') = Len(heard') + (IF InFrame' THEN 1 ELSE 0) + (IF Waiting' THEN 1 ELSE 0)
                        + tx'.ring.count
    BY <1>6, <1>9, <2>2, <2>6 DEF n, w, c
  <2>8. \A i \in 1 .. Len(heard') : heard'[i] = written'[i]
    BY <1>9, <2>2, <2>5
  <2>9. QED
    BY <1>1, <1>9, <2>7, <2>8 DEF TxRing
<1>11. TxMain'
  BY <1>1, <1>6, <1>9 DEF TxMain
<1>12. TxClock'
  BY <1>1, <1>6, <1>7, <1>8, <1>9 DEF TxClock
<1>13. TxLine'
  BY <1>5, <1>6 DEF TxLine
<1>14. TxShift'
  <2>1. tx.state = "TX_DATA" => Waiting
    <3>1. tx.state = "TX_DATA" => Slot # 9
      BY <1>1 DEF Slot
    <3>2. tx.state = "TX_DATA" /\ Off => Waiting
      BY FrameUnderWay
    <3>3. QED
      BY <1>6, <1>8, <3>1, <3>2
  <2>2. QED
    BY <1>1, <1>6, <1>9, <2>1 DEF TxShift
<1>15. QED
  BY <1>9, <1>10, <1>11, <1>12, <1>13, <1>14 DEF TxInv

LEMMA TickKeepsTx ==
  ASSUME TInv, use = "tx", InTime, Tick
  PROVE  TxInv'
<1>1. TxLevel \in {0, 1}
  BY TickModule
<1>2. CASE ~InFrame
  BY <1>1, <1>2, TickAtMark, TickStart
<1>3. CASE InFrame
  BY <1>3, TickInFrame, TickHeard
<1>4. QED
  BY <1>2, <1>3
-----------------------------------------------------------------------------
LEMMA SwInvInit ==
  ASSUME Init
  PROVE  SwInv
<1>1. /\ ccp.tx.mode = "OFF" /\ ~ccp.tx.due /\ tx.state = "TX_IDLE" /\ main.pc = "idle"
      /\ pin.tx = 1 /\ peer.age = -1 /\ peer.bits = <<>> /\ written = <<>> /\ heard = <<>>
      /\ tx.ring = EmptyRing
  BY DEF Init, Returned
<1>2. Off /\ ~Waiting /\ ~InFrame
  BY <1>1 DEF Off, Waiting, InFrame
<1>3. EmptyRing \in Rings /\ EmptyRing.count = 0 /\ EmptyRing.head = 0 /\ EmptyRing.tail = 0
  BY Constants DEF EmptyRing, Rings
<1>4. RingOK(EmptyRing)
  <2>1. (0 + 0) % SZ = 0 /\ 0 <= SZ
    BY Constants
  <2>2. QED
    BY <1>3, <2>1 DEF RingOK
<1>5. TxRing
  BY <1>1, <1>2, <1>3, <1>4 DEF TxRing
<1>6. TxOnOff /\ TxMain /\ TxClock /\ TxLine /\ TxShift
  BY <1>1, <1>2 DEF TxOnOff, TxMain, TxClock, TxLine, TxShift
<1>7. QED
  BY <1>1, <1>5, <1>6 DEF SwInv, TxInv

\* The receiving half leaves the transmitter and the line alone.
LEMMA RxKeepsTx ==
  ASSUME TInv, use = "tx", RxHandler \/ Read
  PROVE  TxInv'
<1>1. SwTyped
  BY DEF TInv
<1>2. CASE RxEdge
  <2>1. ccp'.tx = ccp.tx /\ UNCHANGED <<timer, tx, main, pin, peer, written, heard>>
    BY <1>1, <1>2, RxEdgeDoes
  <2>2. QED
    BY <2>1, TxUntouched
<1>3. CASE RxConfirm
  <2>1. ccp'.tx = ccp.tx /\ UNCHANGED <<timer, tx, main, pin, peer, written, heard>>
    BY <1>1, <1>3, RxConfirmDoes
  <2>2. QED
    BY <2>1, TxUntouched
<1>4. CASE RxBit
  <2>1. ccp'.tx = ccp.tx /\ UNCHANGED <<timer, tx, main, pin, peer, written, heard>>
    BY <1>1, <1>4, RxBitDoes
  <2>2. QED
    BY <2>1, TxUntouched
<1>5. CASE RxStop
  <2>1. ccp'.tx = ccp.tx /\ UNCHANGED <<timer, tx, main, pin, peer, written, heard>>
    BY <1>1, <1>5, RxStopDoes
  <2>2. QED
    BY <2>1, TxUntouched
<1>6. CASE Read
  <2>1. ccp'.tx = ccp.tx /\ UNCHANGED <<timer, tx, main, pin, peer, written, heard>>
    BY <1>6 DEF Read
  <2>2. QED
    BY <2>1, TxUntouched
<1>7. QED
  BY <1>2, <1>3, <1>4, <1>5, <1>6 DEF RxHandler

LEMMA SwInvNext ==
  ASSUME TInv, InTime, [Next]_vars
  PROVE  SwInv'
<1>1. use' = use
  BY DEF Next, vars, Write, Main, TxHandler, RxHandler, Peer, BeginWrite, Push, TestIdle, Pop,
         ReadTimer, ArmStart, TxOff, TxNext, TxBit, TxStop, RxEdge, RxConfirm, RxBit, RxStop,
         Read, PeerSendsByte, PeerSendsBadStop, PeerSpike, PeerSends, Tick
<1>2. ASSUME use = "tx" PROVE TxInv'
  <2>1. CASE Write
    <3>1. CASE \E n \in 1 .. SZ + 1 : BeginWrite(n)
      <4>1. PICK n \in 1 .. SZ + 1 : BeginWrite(n)
        BY <3>1
      <4>2. n \in Int
        OBVIOUS
      <4>3. QED
        BY <1>2, <4>1, <4>2, BeginWriteKeepsTx
    <3>2. CASE \E byte \in Values : Push(byte)
      <4>1. PICK b \in Values : Push(b)
        BY <3>2
      <4>2. b \in 0 .. 255
        BY Constants
      <4>3. QED
        BY <1>2, <4>1, <4>2, PushKeepsTx
    <3>3. QED
      BY <2>1, <3>1, <3>2 DEF Write
  <2>2. CASE Main
    BY <1>2, <2>2, TestIdleKeepsTx, PopKeepsTx, ReadTimerKeepsTx, ArmStartKeepsTx DEF Main
  <2>3. CASE TxHandler
    BY <1>2, <2>3, TxOffKeepsTx, TxNextKeepsTx, TxBitKeepsTx, TxStopKeepsTx DEF TxHandler
  <2>4. CASE RxHandler \/ Read
    BY <1>2, <2>4, RxKeepsTx
  <2>5. CASE Peer
    <3>1. use = "rx"
      BY <2>5 DEF Peer, PeerSendsByte, PeerSendsBadStop, PeerSpike, PeerSends
    <3>2. QED
      BY <1>2, <3>1
  <2>6. CASE Tick
    BY <1>2, <2>6, TickKeepsTx
  <2>7. CASE UNCHANGED vars
    BY <1>2, <2>7, TxUntouched DEF vars
  <2>8. QED
    BY <2>1, <2>2, <2>3, <2>4, <2>5, <2>6, <2>7 DEF Next
<1>3. ASSUME use = "rx" PROVE heard' = heard
  BY <1>3 DEF Next, vars, Write, Main, TxHandler, RxHandler, Peer, BeginWrite, Push, TestIdle, Pop,
         ReadTimer, ArmStart, TxOff, TxNext, TxBit, TxStop, RxEdge, RxConfirm, RxBit, RxStop,
         Read, PeerSendsByte, PeerSendsBadStop, PeerSpike, PeerSends, Tick, Transmits
<1>4. QED
  BY <1>1, <1>2, <1>3 DEF TInv, SwInv

\* What was heard is a prefix of what was written.
LEMMA HeardPrefix ==
  ASSUME TInv, use # "tx_any"
  PROVE  HeardIsWritten
<1>1. heard \in Seq(-1 .. 255) /\ written \in Seq(0 .. 255) /\ use \in {"tx", "rx"}
  BY SwuartAssumption DEF TInv, SwTyped, SwuartAssumption
<1>2. Len(heard) \in Nat /\ Len(written) \in Nat
  BY <1>1, LenProperties
<1>3. Len(heard) <= Len(written) /\ \A i \in 1 .. Len(heard) : heard[i] = written[i]
  <2>1. CASE use = "rx"
    BY <1>2, <2>1 DEF TInv, SwInv
  <2>2. CASE use = "tx"
    <3> DEFINE k == IF InFrame THEN 1 ELSE 0
               w == IF Waiting THEN 1 ELSE 0
               h == Len(heard)
               n == Len(written)
               c == tx.ring.count
    <3>1. /\ n = h + k + w + c /\ k \in Nat /\ w \in Nat /\ c \in Nat /\ h \in Nat /\ n \in Nat
          /\ \A i \in 1 .. h : heard[i] = written[i]
      <4>1. TxRing
        BY <2>2, TxFacts
      <4>2. k \in Nat /\ w \in Nat
        OBVIOUS
      <4>3. c \in Nat
        BY <4>1, RingParts DEF TxRing
      <4>4. QED
        BY <1>2, <4>1, <4>2, <4>3 DEF TxRing
    <3> HIDE DEF k, w, h, n, c
    <3>2. h <= n
      BY <3>1
    <3>3. Len(heard) <= Len(written)
      BY <3>2 DEF h, n
    <3>4. \A i \in 1 .. Len(heard) : heard[i] = written[i]
      BY <3>1 DEF h
    <3>5. QED
      BY <3>3, <3>4
  <2>3. QED
    BY <1>1, <2>1, <2>2
<1> DEFINE m == Len(heard)
<1>4. SubSeq(heard, 1, m) = SubSeq(written, 1, m)
  <2>1. m <= Len(written) /\ m \in Nat /\ Len(written) \in Nat
    BY <1>2, <1>3
  <2>2. m <= Len(heard)
    BY <1>2
  <2>3. SubSeq(heard, 1, m) = [i \in 1 .. m |-> heard[i]]
    BY <1>1, <2>1, <2>2
  <2>4. SubSeq(written, 1, m) = [i \in 1 .. m |-> written[i]]
    BY <1>1, <2>1, <2>2
  <2>5. QED
    BY <1>3, <2>3, <2>4
<1>5. QED
  BY <1>3, <1>4 DEF HeardIsWritten, IsPrefix

\* With handlers that run within a bit time, and a main program that arms the
\* start bit before its moment: the far receiver hears the bytes written, in
\* order, unless the client writes outside of frame and idle line.
THEOREM HeardUnlessAny == InTime => (Spec => [](use # "tx_any" => HeardIsWritten))
<1> SUFFICES ASSUME InTime PROVE Spec => [](use # "tx_any" => HeardIsWritten)
  OBVIOUS
<1>1. Init => TInv
  BY InitTyped, SwInvInit DEF TInv
<1>2. TInv /\ [Next]_vars => TInv'
  <2> SUFFICES ASSUME TInv, [Next]_vars PROVE TInv'
    OBVIOUS
  <2>1. SwTyped'
    BY NextTyped DEF TInv
  <2>2. SwInv'
    BY SwInvNext
  <2>3. QED
    BY <2>1, <2>2 DEF TInv
<1>3. TInv => (use # "tx_any" => HeardIsWritten)
  BY HeardPrefix
<1>4. QED
  BY <1>1, <1>2, <1>3, PTL DEF Spec

\* The same in a system whose client only writes in a frame or on an idle line.
THEOREM Heard == InTime /\ Uses \subseteq {"tx", "rx"} => (Spec => []HeardIsWritten)
<1> SUFFICES ASSUME InTime, Uses \subseteq {"tx", "rx"} PROVE Spec => []HeardIsWritten
  OBVIOUS
<1>1. SwTyped => use # "tx_any"
  BY DEF SwTyped
<1>2. Spec => []SwTyped
  BY Typed
<1>3. Spec => [](use # "tx_any" => HeardIsWritten)
  BY HeardUnlessAny
<1>4. QED
  BY <1>1, <1>2, <1>3, PTL
-----------------------------------------------------------------------------
\* The receiver and the peer's transmitter.

\* rx_capture_event runs within half a bit of its sampling point, before the
\* slot it samples is over.
RxInTime == Latency < Bit \div 2

\* What the peer may put on the line, and what it means.
Kinds == {"none", "noise", "byte", "bad"}
Waves == [kind : Kinds, byte : 0 .. 255]
Levels(f) ==
  IF f.kind = "byte" THEN Frame(f.byte, 1) ELSE IF f.kind = "bad" THEN BadStop(f.byte)
  ELSE IF f.kind = "noise" THEN Noise ELSE <<>>
Length(f) ==
  IF f.kind = "byte" THEN 10 * Bit ELSE IF f.kind = "bad" THEN 11 * Bit
  ELSE IF f.kind = "noise" THEN Bit ELSE 0
Counts(f) == IF f.kind \in {"byte", "bad"} THEN 1 ELSE 0
Says(f) == IF f.kind = "byte" THEN f.byte ELSE Bad

\* Ticks since the edge of the wave the receiver is at.
RxBusy == rx.state # "RX_IDLE" \/ ccp.rx.due
RxSlot == IF rx.state = "RX_CONFIRM_START" THEN 0 ELSE rx.bits + 1
RxAhead == Away(ccp.rx.value, timer)
Since ==
  IF rx.state = "RX_IDLE" THEN ccp.rx.late
  ELSE IF ccp.rx.due THEN RxSlot * Bit + (Bit \div 2) + ccp.rx.late
  ELSE RxSlot * Bit + (Bit \div 2) - RxAhead
RxClock ==
  /\ (rx.state = "RX_IDLE") <=> (ccp.rx.mode = "CAPTURE")
  /\ rx.state = "RX_STOP" => rx.bits = 8
  /\ rx.state # "RX_IDLE" => ccp.rx.value = rx.deadline
  /\ ccp.rx.due => timer = After(ccp.rx.value, ccp.rx.late)
  /\ rx.state # "RX_IDLE" /\ ~ccp.rx.due => RxAhead >= 1

\* No edge to mark-to-space is left in what the peer sends, and the line ends at mark.
Calm ==
  /\ peer.frame = <<>> => pin.rx = 1
  /\ peer.frame # <<>> => peer.frame[Len(peer.frame)] = 1
  /\ \A i \in 1 .. Len(peer.frame) :
        pin.rx <= peer.frame[i] /\ \A j \in 1 .. i : peer.frame[j] <= peer.frame[i]
RxLine(cur, next) ==
  /\ (cur.kind = "none") <=> ~RxBusy
  /\ rx.state \in {"RX_DATA", "RX_STOP"} => cur.kind # "noise"
  /\ RxBusy => Since >= 0 /\ Since < Length(cur) /\ pin.rx = Levels(cur)[Since + 1]
  /\ next.kind # "none" =>
       peer.frame = Levels(next) /\ pin.rx = 1 /\ (RxBusy => Since + 1 = Length(cur))
  /\ next.kind = "none" /\ ~RxBusy => Calm
  /\ next.kind = "none" /\ RxBusy =>
       /\ Len(peer.frame) = Length(cur) - (Since + 1)
       /\ \A i \in 1 .. Len(peer.frame) : peer.frame[i] = Levels(cur)[(Since + 1) + i]
  /\ RxBusy \/ peer.frame # <<>> => peer.quiet = 0

\* The low k bits of b, shifted in from the top.
Shifted(b, k) ==
  <<0, 128 * (b % 2), 64 * (b % 4), 32 * (b % 8), 16 * (b % 16), 8 * (b % 32), 4 * (b % 64),
    2 * (b % 128), b>>[k + 1]
RxShift(cur) ==
  rx.state \in {"RX_DATA", "RX_STOP"} => rx.shift = Shifted(cur.byte, rx.bits)

\* Every frame sent was delivered or counted as an error, but for the one the
\* receiver is at and the one it has not met.
RxCounts(cur, next) ==
  /\ Len(Delivered) + rx.errors + Counts(cur) + Counts(next) = Len(sent)
  /\ Counts(next) = 1 => sent[Len(sent)] = Says(next)
  /\ Counts(cur) = 1 => sent[Len(sent) - Counts(next)] = Says(cur)
RxChosen ==
  \E at \in [1 .. Len(Delivered) -> 1 .. Len(Delivered) + rx.errors] :
    /\ \A i \in 1 .. Len(Delivered) : Delivered[i] = sent[at[i]] /\ sent[at[i]] # Bad
    /\ \A i, j \in 1 .. Len(Delivered) : i < j => at[i] < at[j]
RxInv ==
  /\ RingOK(rx.ring) /\ RxClock /\ RxChosen
  /\ \E cur, next \in Waves : RxLine(cur, next) /\ RxShift(cur) /\ RxCounts(cur, next)

\* In the other uses nothing comes in.
NoRx ==
  /\ rx.state = "RX_IDLE" /\ ccp.rx.mode = "CAPTURE" /\ ~ccp.rx.due /\ pin.rx = 1
  /\ peer.frame = <<>> /\ RingOK(rx.ring) /\ rx.ring.count = 0 /\ rx.errors = 0
  /\ sent = <<>> /\ got = <<>>
RxPart == (use = "rx" => RxInv) /\ (use # "rx" => NoRx)
RInv == SwTyped /\ RxPart
-----------------------------------------------------------------------------
\* The levels of what the peer sends, slot by slot.
LEMMA SlotOf ==
  ASSUME NEW s \in 0 .. 9, NEW d \in 0 .. Bit - 1
  PROVE  /\ (s * Bit + d) + 1 \in 1 .. 10 * Bit
         /\ (s * Bit + d) \div Bit = s
<1>1. Bit \in Nat \ {0, 1} /\ s * Bit \in Nat /\ (s + 1) * Bit = s * Bit + Bit
  BY Times, Constants
<1>2. (s + 1) * Bit <= 10 * Bit
  <2>1. s < 10 /\ s \in Int /\ 10 \in Int
    OBVIOUS
  <2>2. QED
    BY <2>1, Times
<1> DEFINE x == s * Bit
           t == 10 * Bit
           q == (x + d) \div Bit
<1>3. (x + d) + 1 \in 1 .. t
  <2>1. x \in Nat /\ x + Bit <= t /\ t \in Int /\ d \in 0 .. Bit - 1 /\ Bit \in Nat
    BY <1>1, <1>2
  <2> HIDE DEF x, t
  <2>2. QED
    BY <2>1
<1>4. q = s
  <2>1. \A n \in Nat \ {0} : \A z \in Nat :
           /\ z \div n \in Int
           /\ n * (z \div n) <= z /\ z < n * (z \div n) + n
    BY Z3
  <2>2. x + d \in Nat /\ Bit \in Nat \ {0}
    BY <1>1
  <2>3. q \in Int /\ Bit * q <= x + d /\ x + d < Bit * q + Bit
    BY <2>1, <2>2
  <2> HIDE DEF q
  <2>4. Bit * q = q * Bit /\ q * Bit \in Int
    BY <1>1, <2>3
  <2>5. (q < s => (q + 1) * Bit <= s * Bit) /\ (s < q => (s + 1) * Bit <= q * Bit)
        /\ (q + 1) * Bit = q * Bit + Bit
    BY <2>3, Times
  <2> DEFINE y == q * Bit
  <2>6. /\ y <= x + d /\ x + d < y + Bit /\ (q < s => y + Bit <= x) /\ (s < q => x + Bit <= y)
        /\ x \in Int /\ y \in Int /\ d \in 0 .. Bit - 1 /\ Bit \in Nat
    BY <1>1, <2>3, <2>4, <2>5
  <2> HIDE DEF x, y
  <2>7. QED
    BY <2>3, <2>6
<1>5. QED
  BY <1>3, <1>4 DEF x, t, q

\* The level of the stop bit.
StopOf(f) == IF f.kind = "byte" THEN 1 ELSE 0

LEMMA WaveShape ==
  ASSUME NEW f \in Waves
  PROVE  /\ f.kind \in Kinds /\ f.byte \in 0 .. 255
         /\ Levels(f) \in Seq({0, 1}) /\ Len(Levels(f)) = Length(f) /\ Length(f) \in Nat
         /\ (f.kind = "none") => Length(f) = 0
         /\ f.kind = "noise" => Length(f) = Bit
         /\ f.kind = "byte" => Length(f) = 10 * Bit
         /\ f.kind = "bad" => Length(f) = 11 * Bit
<1>1. f.kind \in Kinds /\ f.byte \in 0 .. 255
  BY DEF Waves
<1>2. Bit \in Nat /\ 10 * Bit \in Nat /\ 11 * Bit \in Nat
  BY Constants
<1>3. ASSUME f.kind = "byte" PROVE Levels(f) \in Seq({0, 1}) /\ Len(Levels(f)) = 10 * Bit
  <2>1. Levels(f) = Frame(f.byte, 1)
    BY <1>3 DEF Levels
  <2>2. Frame(f.byte, 1) \in Seq({0, 1})
    BY <1>1, FramesTyped
  <2>3. DOMAIN Frame(f.byte, 1) = 1 .. 10 * Bit
    BY DEF Frame
  <2>4. QED
    BY <1>2, <2>1, <2>2, <2>3, LenProperties
<1>4. ASSUME f.kind = "bad" PROVE Levels(f) \in Seq({0, 1}) /\ Len(Levels(f)) = 11 * Bit
  <2>1. Levels(f) = BadStop(f.byte)
    BY <1>4 DEF Levels
  <2>2. BadStop(f.byte) \in Seq({0, 1})
    BY <1>1, FramesTyped
  <2>3. DOMAIN BadStop(f.byte) = 1 .. 11 * Bit
    BY DEF BadStop
  <2>4. QED
    BY <1>2, <2>1, <2>2, <2>3, LenProperties
<1>5. ASSUME f.kind = "noise" PROVE Levels(f) \in Seq({0, 1}) /\ Len(Levels(f)) = Bit
  <2>1. Levels(f) = Noise
    BY <1>5 DEF Levels
  <2>2. Noise \in Seq({0, 1})
    BY FramesTyped
  <2>3. DOMAIN Noise = 1 .. Bit
    BY DEF Noise
  <2>4. QED
    BY <1>2, <2>1, <2>2, <2>3, LenProperties
<1>6. ASSUME f.kind = "none" PROVE Levels(f) \in Seq({0, 1}) /\ Len(Levels(f)) = 0
  BY <1>6 DEF Levels
<1>7. QED
  BY <1>1, <1>2, <1>3, <1>4, <1>5, <1>6 DEF Kinds, Length

LEMMA WaveLevels ==
  ASSUME NEW f \in Waves
  PROVE  /\ f.kind = "noise" => Levels(f)[1] = 0 /\ \A i \in 2 .. Bit : Levels(f)[i] = 1
         /\ f.kind \in {"byte", "bad"} =>
              \A s \in 0 .. 9 : \A d \in 0 .. Bit - 1 :
                 Levels(f)[(s * Bit + d) + 1] = Slots(f.byte, StopOf(f))[s + 1]
         /\ f.kind = "bad" => \A i \in (10 * Bit) + 1 .. 11 * Bit : Levels(f)[i] = 1
<1>1. f.byte \in 0 .. 255 /\ Bit \in Nat \ {0, 1}
  BY WaveShape, Constants
<1>2. ASSUME f.kind = "noise" PROVE Levels(f)[1] = 0 /\ \A i \in 2 .. Bit : Levels(f)[i] = 1
  <2>1. Levels(f) = Noise
    BY <1>2 DEF Levels
  <2>2. QED
    BY <1>1, <2>1 DEF Noise
<1>3. ASSUME f.kind \in {"byte", "bad"}, NEW s \in 0 .. 9, NEW d \in 0 .. Bit - 1
      PROVE Levels(f)[(s * Bit + d) + 1] = Slots(f.byte, StopOf(f))[s + 1]
  <2> DEFINE x == s * Bit + d
  <2>1. x + 1 \in 1 .. 10 * Bit /\ x \div Bit = s
    BY SlotOf
  <2>a. x \in Int
    BY Times, Constants
  <2> HIDE DEF x
  <2>b. (x + 1) - 1 = x /\ 1 + s = s + 1
    BY <2>a
  <2>2. ASSUME NEW stop PROVE Frame(f.byte, stop)[x + 1] = Slots(f.byte, stop)[s + 1]
    <3>1. Frame(f.byte, stop)[x + 1] = Slots(f.byte, stop)[1 + ((x + 1) - 1) \div Bit]
      BY <2>1 DEF Frame
    <3>2. QED
      BY <2>1, <2>b, <3>1
  <2>3. CASE f.kind = "byte"
    BY <2>2, <2>3 DEF Levels, StopOf, x
  <2>4. CASE f.kind = "bad"
    <3>1. x + 1 \in 1 .. 11 * Bit /\ x + 1 <= 10 * Bit
      BY <1>1, <2>1
    <3>2. BadStop(f.byte)[x + 1] = Frame(f.byte, 0)[x + 1]
      BY <3>1 DEF BadStop
    <3>3. QED
      BY <2>2, <2>4, <3>2 DEF Levels, StopOf, x
  <2>5. QED
    BY <1>3, <2>3, <2>4
<1>4. ASSUME f.kind = "bad", NEW i \in (10 * Bit) + 1 .. 11 * Bit PROVE Levels(f)[i] = 1
  <2>1. i \in 1 .. 11 * Bit /\ ~(i <= 10 * Bit)
    BY <1>1
  <2>2. Levels(f) = BadStop(f.byte)
    BY <1>4 DEF Levels
  <2>3. QED
    BY <2>1, <2>2 DEF BadStop
<1>5. QED
  BY <1>2, <1>3, <1>4

\* A wave begins with a falling edge and ends at mark; past the sampling of its
\* last bit it does not fall again.
LEMMA WaveEnds ==
  ASSUME NEW f \in Waves, f.kind # "none"
  PROVE  /\ Length(f) \in Nat /\ Length(f) >= Bit
         /\ Levels(f)[1] = 0 /\ Levels(f)[Length(f)] = 1
<1>1. Bit \in Nat \ {0, 1} /\ f.byte \in 0 .. 255
  BY WaveShape, Constants
<1>2. CASE f.kind = "noise"
  <2>1. Length(f) = Bit /\ Bit \in 2 .. Bit
    BY <1>1, <1>2, WaveShape
  <2>2. Levels(f)[1] = 0 /\ Levels(f)[Bit] = 1
    BY <1>2, <2>1, WaveLevels
  <2>3. QED
    BY <1>1, <2>1, <2>2
<1>3. CASE f.kind \in {"byte", "bad"}
  <2>1. Levels(f)[1] = 0
    <3>1. 0 * Bit + 0 + 1 = 1 /\ 0 \in 0 .. 9 /\ 0 \in 0 .. Bit - 1
      BY <1>1
    <3>2. Levels(f)[(0 * Bit + 0) + 1] = Slots(f.byte, StopOf(f))[0 + 1]
      BY <1>3, <3>1, WaveLevels
    <3>3. Slots(f.byte, StopOf(f))[0 + 1] = 0
      BY DEF Slots
    <3>4. QED
      BY <3>1, <3>2, <3>3
  <2>2. CASE f.kind = "byte"
    <3>1. Length(f) = 10 * Bit /\ 9 * Bit + (Bit - 1) + 1 = 10 * Bit /\ 10 * Bit \in Nat
          /\ 10 * Bit >= Bit /\ 9 \in 0 .. 9 /\ Bit - 1 \in 0 .. Bit - 1
      BY <1>1, <2>2, WaveShape
    <3>2. Levels(f)[(9 * Bit + (Bit - 1)) + 1] = Slots(f.byte, StopOf(f))[9 + 1]
      BY <1>3, <3>1, WaveLevels
    <3>3. Slots(f.byte, StopOf(f))[9 + 1] = 1
      BY <2>2 DEF Slots, StopOf
    <3>4. QED
      BY <2>1, <3>1, <3>2, <3>3
  <2>3. CASE f.kind = "bad"
    <3>1. Length(f) = 11 * Bit /\ 11 * Bit \in (10 * Bit) + 1 .. 11 * Bit /\ 11 * Bit \in Nat
          /\ 11 * Bit >= Bit
      BY <1>1, <2>3, WaveShape
    <3>2. Levels(f)[11 * Bit] = 1
      BY <2>3, <3>1, WaveLevels
    <3>3. QED
      BY <2>1, <3>1, <3>2
  <2>4. QED
    BY <1>3, <2>2, <2>3
<1>4. QED
  BY <1>2, <1>3, WaveShape DEF Kinds

LEMMA WaveRises ==
  ASSUME NEW f \in Waves, NEW i \in Int, NEW j \in Int, i <= j, j <= Length(f),
         \/ f.kind = "noise" /\ 1 < i
         \/ f.kind \in {"byte", "bad"} /\ 9 * Bit < i
  PROVE  Levels(f)[i] <= Levels(f)[j]
<1>1. Bit \in Nat \ {0, 1} /\ f.byte \in 0 .. 255
  BY WaveShape, Constants
<1>2. CASE f.kind = "noise" /\ 1 < i
  <2>1. i \in 2 .. Bit /\ j \in 2 .. Bit
    BY <1>2, WaveShape
  <2>2. Levels(f)[i] = 1 /\ Levels(f)[j] = 1
    BY <1>2, <2>1, WaveLevels
  <2>3. QED
    BY <2>2
<1>3. CASE f.kind \in {"byte", "bad"} /\ 9 * Bit < i
  <2>1. ASSUME NEW k \in Int, 9 * Bit < k, k <= 10 * Bit PROVE Levels(f)[k] = StopOf(f)
    <3> DEFINE d == (k - 1) - 9 * Bit
    <3>1. d \in 0 .. Bit - 1 /\ (9 * Bit + d) + 1 = k
      BY <1>1, <2>1
    <3> HIDE DEF d
    <3>2. Levels(f)[(9 * Bit + d) + 1] = Slots(f.byte, StopOf(f))[9 + 1]
      <4>1. 9 \in 0 .. 9
        OBVIOUS
      <4>2. QED
        BY <1>3, <3>1, <4>1, WaveLevels
    <3>3. Slots(f.byte, StopOf(f))[9 + 1] = StopOf(f)
      BY DEF Slots
    <3>4. QED
      BY <3>1, <3>2, <3>3
  <2>2. CASE f.kind = "byte"
    <3>1. j <= 10 * Bit /\ i <= 10 * Bit /\ 9 * Bit < j
      BY <1>1, <1>3, <2>2, WaveShape
    <3>2. Levels(f)[i] = 1 /\ Levels(f)[j] = 1
      BY <1>3, <2>1, <2>2, <3>1 DEF StopOf
    <3>3. QED
      BY <3>2
  <2>3. CASE f.kind = "bad"
    <3>1. StopOf(f) = 0 /\ j <= 11 * Bit /\ 9 * Bit < j
      BY <1>1, <1>3, <2>3, WaveShape DEF StopOf
    <3>2. ASSUME NEW k \in Int, 9 * Bit < k, k <= 11 * Bit
          PROVE  Levels(f)[k] = IF k <= 10 * Bit THEN 0 ELSE 1
      <4>1. CASE k <= 10 * Bit
        BY <2>1, <3>1, <3>2, <4>1
      <4>2. CASE ~(k <= 10 * Bit)
        <5>1. k \in (10 * Bit) + 1 .. 11 * Bit
          BY <1>1, <3>2, <4>2
        <5>2. QED
          BY <2>3, <4>2, <5>1, WaveLevels
      <4>3. QED
        BY <4>1, <4>2
    <3>3. /\ Levels(f)[i] = IF i <= 10 * Bit THEN 0 ELSE 1
          /\ Levels(f)[j] = IF j <= 10 * Bit THEN 0 ELSE 1
      <4>1. i <= 11 * Bit /\ 9 * Bit < i
        BY <1>1, <1>3, <3>1
      <4>2. QED
        BY <3>1, <3>2, <4>1
    <3>4. QED
      BY <1>1, <3>3
  <2>4. QED
    BY <1>3, <2>2, <2>3
<1>4. QED
  BY <1>2, <1>3

\* What the receiver's shift register holds, bit by bit.
LEMMA ShiftedEnds ==
  ASSUME NEW b \in 0 .. 255
  PROVE  Shifted(b, 0) = 0 /\ Shifted(b, 8) = b
BY DEF Shifted

LEMMA ShiftedNext ==
  ASSUME NEW b \in 0 .. 255, NEW stop, NEW k \in 0 .. 7
  PROVE  (Shifted(b, k) \div 2) + 128 * Slots(b, stop)[k + 2] = Shifted(b, k + 1)
<1>1. Shifted(b, 0) = 0 /\ Shifted(b, 8) = b
  BY DEF Shifted
<1>2. /\ Shifted(b, 1) = 128 * (b % 2) /\ Shifted(b, 2) = 64 * (b % 4)
      /\ Shifted(b, 3) = 32 * (b % 8) /\ Shifted(b, 4) = 16 * (b % 16)
      /\ Shifted(b, 5) = 8 * (b % 32) /\ Shifted(b, 6) = 4 * (b % 64)
      /\ Shifted(b, 7) = 2 * (b % 128)
  BY DEF Shifted
<1>3. /\ Slots(b, stop)[2] = b % 2 /\ Slots(b, stop)[3] = (b \div 2) % 2
      /\ Slots(b, stop)[4] = (b \div 4) % 2 /\ Slots(b, stop)[5] = (b \div 8) % 2
      /\ Slots(b, stop)[6] = (b \div 16) % 2 /\ Slots(b, stop)[7] = (b \div 32) % 2
      /\ Slots(b, stop)[8] = (b \div 64) % 2 /\ Slots(b, stop)[9] = (b \div 128) % 2
  BY DEF Slots
<1>4. /\ (0 \div 2) + 128 * (b % 2) = 128 * (b % 2)
      /\ ((128 * (b % 2)) \div 2) + 128 * ((b \div 2) % 2) = 64 * (b % 4)
      /\ ((64 * (b % 4)) \div 2) + 128 * ((b \div 4) % 2) = 32 * (b % 8)
      /\ ((32 * (b % 8)) \div 2) + 128 * ((b \div 8) % 2) = 16 * (b % 16)
  BY Z3
<1>5. /\ ((16 * (b % 16)) \div 2) + 128 * ((b \div 16) % 2) = 8 * (b % 32)
      /\ ((8 * (b % 32)) \div 2) + 128 * ((b \div 32) % 2) = 4 * (b % 64)
      /\ ((4 * (b % 64)) \div 2) + 128 * ((b \div 64) % 2) = 2 * (b % 128)
      /\ ((2 * (b % 128)) \div 2) + 128 * ((b \div 128) % 2) = b
  BY Z3
<1>6. /\ (Shifted(b, 0) \div 2) + 128 * Slots(b, stop)[2] = Shifted(b, 1)
      /\ (Shifted(b, 1) \div 2) + 128 * Slots(b, stop)[3] = Shifted(b, 2)
      /\ (Shifted(b, 2) \div 2) + 128 * Slots(b, stop)[4] = Shifted(b, 3)
      /\ (Shifted(b, 3) \div 2) + 128 * Slots(b, stop)[5] = Shifted(b, 4)
  BY <1>1, <1>2, <1>3, <1>4
<1>7. /\ (Shifted(b, 4) \div 2) + 128 * Slots(b, stop)[6] = Shifted(b, 5)
      /\ (Shifted(b, 5) \div 2) + 128 * Slots(b, stop)[7] = Shifted(b, 6)
      /\ (Shifted(b, 6) \div 2) + 128 * Slots(b, stop)[8] = Shifted(b, 7)
      /\ (Shifted(b, 7) \div 2) + 128 * Slots(b, stop)[9] = Shifted(b, 8)
  BY <1>1, <1>2, <1>3, <1>5
<1>8. k = 0 \/ k = 1 \/ k = 2 \/ k = 3 \/ k = 4 \/ k = 5 \/ k = 6 \/ k = 7
  OBVIOUS
<1>9. QED
  BY <1>6, <1>7, <1>8
-----------------------------------------------------------------------------
\* The types of the receiver, field by field.
LEMMA RxFacts ==
  ASSUME SwTyped
  PROVE  /\ rx.state \in RxStates /\ rx.bits \in 0 .. 8 /\ rx.shift \in 0 .. 255
         /\ rx.deadline \in 0 .. CycleMod - 1 /\ timer \in 0 .. CycleMod - 1
         /\ (rx.state = "RX_DATA" => rx.bits <= 7) /\ rx.errors \in Nat
         /\ ccp.rx.value \in 0 .. CycleMod - 1 /\ ccp.rx.due \in BOOLEAN
         /\ ccp.rx.late \in 0 .. Latency /\ ccp.rx.mode \in {"CAPTURE", "COMPARE"}
         /\ pin.rx \in {0, 1} /\ peer.frame \in Seq({0, 1}) /\ peer.quiet \in 0 .. Bit
         /\ sent \in Seq(-1 .. 255) /\ got \in Seq(0 .. 255)
<1>1. ccp.rx \in RxModule
  BY TypedParts
<1>2. /\ ccp.rx.value \in 0 .. CycleMod - 1 /\ ccp.rx.due \in BOOLEAN
      /\ ccp.rx.late \in 0 .. Latency /\ ccp.rx.mode \in {"CAPTURE", "COMPARE"}
  BY <1>1 DEF RxModule, Module
<1>3. QED
  BY <1>2, TypedParts DEF SwTyped

\* A handler in time runs in the slot of its event.
LEMMA Halves ==
  ASSUME RxInTime
  PROVE  /\ Bit \div 2 \in 1 .. Bit - 1 /\ Latency \in Nat /\ Latency < Bit \div 2
         /\ (Bit \div 2) + Latency < Bit /\ Bit \in Nat \ {0, 1}
<1>1. Bit \in Nat \ {0, 1} /\ Latency \in Nat
  BY Constants
<1>2. Bit \div 2 \in Int /\ 2 * (Bit \div 2) <= Bit
  BY <1>1
<1>3. Bit \div 2 \in 1 .. Bit - 1
  BY Times
<1> DEFINE h == Bit \div 2
<1>4. h \in 1 .. Bit - 1 /\ 2 * h <= Bit /\ Latency < h
  BY <1>2, <1>3 DEF RxInTime
<1> HIDE DEF h
<1>5. h + Latency < Bit
  BY <1>1, <1>4
<1>6. QED
  BY <1>1, <1>4, <1>5 DEF h

LEMMA SlotTyped ==
  ASSUME SwTyped
  PROVE  /\ RxSlot \in 0 .. 9 /\ RxSlot * Bit \in Int /\ RxSlot * Bit <= 9 * Bit
         /\ RxAhead \in Nat /\ (RxSlot + 1) * Bit = RxSlot * Bit + Bit
<1>1. RxSlot \in 0 .. 9
  <2>1. rx.bits \in 0 .. 8
    BY RxFacts
  <2>2. QED
    BY <2>1 DEF RxSlot
<1>2. RxSlot * Bit \in Int /\ (RxSlot + 1) * Bit = RxSlot * Bit + Bit
  BY <1>1, Times
<1>3. RxSlot * Bit <= 9 * Bit
  <2>1. RxSlot < 9 => (RxSlot + 1) * Bit <= 9 * Bit
    BY <1>1, Times
  <2>2. RxSlot < 9 \/ RxSlot = 9
    BY <1>1
  <2> DEFINE x == RxSlot * Bit
             y == 9 * Bit
  <2>3. x \in Int /\ y \in Int /\ Bit \in Nat /\ (RxSlot < 9 => x + Bit <= y)
        /\ (RxSlot = 9 => x = y)
    BY <1>2, <2>1, Constants
  <2> HIDE DEF x, y
  <2>4. x <= y
    BY <2>2, <2>3
  <2>5. QED
    BY <2>4 DEF x, y
<1>4. RxAhead \in Nat
  <2>1. ccp.rx.value \in 0 .. CycleMod - 1 /\ timer \in 0 .. CycleMod - 1
    BY RxFacts
  <2>2. RxAhead \in 0 .. CycleMod - 1
    BY <2>1, Deadlines DEF RxAhead
  <2>3. QED
    BY <2>2
<1>5. QED
  BY <1>1, <1>2, <1>3, <1>4

LEMMA RxTimes ==
  ASSUME SwTyped, RxInTime
  PROVE  /\ Bit \div 2 \in 1 .. Bit - 1 /\ Bit \div 2 \in Int /\ Bit \in Nat /\ Bit \in Int
         /\ Latency \in Nat /\ Latency < Bit \div 2 /\ (Bit \div 2) + Latency < Bit
         /\ RxSlot * Bit \in Int /\ RxSlot * Bit <= 9 * Bit
         /\ (RxSlot + 1) * Bit = RxSlot * Bit + Bit
         /\ RxAhead \in Nat /\ ccp.rx.late \in Nat /\ ccp.rx.due \in BOOLEAN
<1>1. /\ Bit \div 2 \in 1 .. Bit - 1 /\ Bit \div 2 \in Int /\ Bit \in Nat /\ Bit \in Int
      /\ Latency \in Nat /\ Latency < Bit \div 2 /\ (Bit \div 2) + Latency < Bit
  BY Halves
<1>2. /\ RxSlot * Bit \in Int /\ RxSlot * Bit <= 9 * Bit
      /\ (RxSlot + 1) * Bit = RxSlot * Bit + Bit /\ RxAhead \in Nat
  BY SlotTyped
<1>3. ccp.rx.late \in 0 .. Latency /\ ccp.rx.due \in BOOLEAN
  BY RxFacts
<1>4. ccp.rx.late \in Nat
  BY <1>3
<1>5. QED
  BY <1>1, <1>2, <1>3, <1>4

\* Where the receiver is in a wave, state by state.
LEMMA SinceIs ==
  ASSUME SwTyped, RxInTime, RxClock, RxBusy
  PROVE  /\ Since \in Int
         /\ rx.state = "RX_IDLE" => ccp.rx.due /\ Since = ccp.rx.late
         /\ rx.state = "RX_CONFIRM_START" =>
              Since = IF ccp.rx.due THEN (Bit \div 2) + ccp.rx.late ELSE (Bit \div 2) - RxAhead
         /\ rx.state # "RX_IDLE" =>
              Since = IF ccp.rx.due THEN RxSlot * Bit + ((Bit \div 2) + ccp.rx.late)
                      ELSE RxSlot * Bit + (Bit \div 2) - RxAhead
<1>1. /\ Bit \div 2 \in Int /\ RxSlot * Bit \in Int /\ RxAhead \in Nat /\ ccp.rx.late \in Nat
      /\ Bit \in Nat
  BY RxTimes
<1>2. rx.state = "RX_IDLE" => ccp.rx.due /\ Since = ccp.rx.late
  BY DEF RxBusy, Since
<1>3. rx.state # "RX_IDLE" =>
              Since = IF ccp.rx.due THEN RxSlot * Bit + ((Bit \div 2) + ccp.rx.late)
                      ELSE RxSlot * Bit + (Bit \div 2) - RxAhead
  <2> DEFINE x == RxSlot * Bit
             h == Bit \div 2
  <2>1. rx.state # "RX_IDLE" =>
              Since = IF ccp.rx.due THEN x + h + ccp.rx.late ELSE x + h - RxAhead
    BY DEF Since
  <2>2. x \in Int /\ h \in Int
    BY <1>1
  <2> HIDE DEF x, h
  <2>3. rx.state # "RX_IDLE" =>
              Since = IF ccp.rx.due THEN x + (h + ccp.rx.late) ELSE x + h - RxAhead
    BY <1>1, <2>1, <2>2
  <2>4. QED
    BY <2>3 DEF x, h
<1>4. rx.state = "RX_CONFIRM_START" => RxSlot * Bit = 0
  <2>1. rx.state = "RX_CONFIRM_START" => RxSlot = 0
    BY DEF RxSlot
  <2>2. 0 * Bit = 0
    BY <1>1
  <2>3. QED
    BY <2>1, <2>2
<1>5. rx.state = "RX_CONFIRM_START" =>
              Since = IF ccp.rx.due THEN (Bit \div 2) + ccp.rx.late ELSE (Bit \div 2) - RxAhead
  <2> DEFINE x == RxSlot * Bit
             h == Bit \div 2
  <2>1. rx.state = "RX_CONFIRM_START" => /\ x = 0
              /\ Since = IF ccp.rx.due THEN x + (h + ccp.rx.late) ELSE x + h - RxAhead
    BY <1>3, <1>4
  <2>2. h \in Int
    BY <1>1
  <2> HIDE DEF x, h
  <2>3. rx.state = "RX_CONFIRM_START" =>
              Since = IF ccp.rx.due THEN h + ccp.rx.late ELSE h - RxAhead
    BY <1>1, <2>1, <2>2
  <2>4. QED
    BY <2>3 DEF h
<1>6. Since \in Int
  <2>1. CASE rx.state = "RX_IDLE"
    BY <1>1, <1>2, <2>1
  <2>2. CASE rx.state # "RX_IDLE"
    <3> DEFINE x == RxSlot * Bit
               h == Bit \div 2
    <3>1. Since = (IF ccp.rx.due THEN x + (h + ccp.rx.late) ELSE x + h - RxAhead)
          /\ x \in Int /\ h \in Int
      BY <1>1, <1>3, <2>2
    <3> HIDE DEF x, h
    <3>2. QED
      BY <1>1, <3>1
  <2>3. QED
    BY <2>1, <2>2
<1>7. QED
  BY <1>2, <1>3, <1>5, <1>6

\* A handler in time is done before the wave is: nothing else is on the line yet.
LEMMA SinceRoom ==
  ASSUME SwTyped, RxInTime, RxClock, RxBusy, NEW cur \in Waves, NEW next \in Waves,
         RxLine(cur, next), ccp.rx.due => ccp.rx.late < Latency
  PROVE  Since + 1 < Length(cur) /\ next.kind = "none"
<1>1. cur.kind # "none" /\ Length(cur) \in Nat /\ Length(cur) >= Bit
  BY WaveEnds DEF RxLine
<1> DEFINE h == Bit \div 2
           l == ccp.rx.late
           x == RxSlot * Bit
           n == Length(cur)
<1>2. /\ h \in 1 .. Bit - 1 /\ Latency \in Nat /\ h + Latency < Bit /\ Bit \in Nat
      /\ l \in Nat /\ RxAhead \in Nat /\ x \in Int /\ x <= 9 * Bit /\ Since \in Int
      /\ (ccp.rx.due => l < Latency) /\ ccp.rx.due \in BOOLEAN /\ Latency < h
  <2>1. Since \in Int
    BY SinceIs
  <2>2. QED
    BY <2>1, RxTimes
<1>3. n >= Bit /\ n \in Nat
  BY <1>1
<1>4. Since + 1 < n
  <2>1. CASE rx.state = "RX_IDLE"
    <3>1. Since = l /\ ccp.rx.due
      BY <2>1, SinceIs
    <3> HIDE DEF h, l, x, n
    <3>2. QED
      BY <1>2, <1>3, <3>1
  <2>2. CASE rx.state = "RX_CONFIRM_START"
    <3>1. Since = IF ccp.rx.due THEN h + l ELSE h - RxAhead
      BY <2>2, SinceIs
    <3>2. ~ccp.rx.due => RxAhead >= 1
      BY <2>2 DEF RxClock
    <3> HIDE DEF h, l, x, n
    <3>3. QED
      BY <1>2, <1>3, <3>1, <3>2
  <2>3. CASE rx.state \in {"RX_DATA", "RX_STOP"}
    <3>1. Since = IF ccp.rx.due THEN x + (h + l) ELSE x + h - RxAhead
      BY <2>3, SinceIs
    <3>2. ~ccp.rx.due => RxAhead >= 1
      BY <2>3 DEF RxClock
    <3>3. n >= 10 * Bit
      <4>1. cur.kind \in {"byte", "bad"}
        BY <1>1, <2>3, WaveShape DEF RxLine, Kinds
      <4>2. 11 * Bit >= 10 * Bit /\ 10 * Bit >= 10 * Bit
        BY <1>2
      <4>3. QED
        BY <4>1, <4>2, WaveShape
    <3> HIDE DEF h, l, x, n
    <3>4. QED
      BY <1>2, <1>3, <3>1, <3>2, <3>3
  <2>4. QED
    BY <2>1, <2>2, <2>3, RxFacts DEF RxStates
<1> HIDE DEF n
<1>5. next.kind # "none" => Since + 1 = n
  BY DEF RxLine, n
<1>6. QED
  BY <1>2, <1>3, <1>4, <1>5 DEF n
-----------------------------------------------------------------------------
\* One tick: what it does to the receiver's module.
LEMMA TickRxModule ==
  ASSUME SwTyped, RxInTime, RxClock, Tick
  PROVE  /\ UNCHANGED <<use, rx, sent, got>> /\ RxSlot' = RxSlot /\ pin'.rx = RxLevel
         /\ timer' = Now /\ ccp'.rx.mode = ccp.rx.mode
         /\ (ccp.rx.due => ccp.rx.late < Latency)
         /\ (Captured => ccp'.rx.due /\ ccp'.rx.value = Now /\ (~ccp.rx.due => ccp'.rx.late = 0))
         /\ (~Captured => ccp'.rx.value = ccp.rx.value)
         /\ (ccp.rx.due => /\ ccp'.rx.due /\ ccp'.rx.late = ccp.rx.late + 1
                           /\ (~Captured => timer' = After(ccp'.rx.value, ccp'.rx.late)))
         /\ (rx.state = "RX_IDLE" /\ ~ccp.rx.due /\ ~Captured => ~ccp'.rx.due)
         /\ (rx.state # "RX_IDLE" => ~Captured)
         /\ (rx.state # "RX_IDLE" /\ ~ccp.rx.due => IF RxAhead > 1
               THEN ~ccp'.rx.due /\ RxAhead' = RxAhead - 1
               ELSE /\ RxAhead = 1 /\ ccp'.rx.due /\ ccp'.rx.late = 0
                    /\ timer' = After(ccp'.rx.value, 0))
<1>1. /\ ccp.rx.value \in 0 .. CycleMod - 1 /\ timer \in 0 .. CycleMod - 1
      /\ ccp.rx.late \in 0 .. Latency /\ ccp.rx.mode \in {"CAPTURE", "COMPARE"}
      /\ ccp.rx.due \in BOOLEAN
  BY RxFacts
<1>2. /\ (ccp.rx.due => ccp.rx.late < Latency)
      /\ timer' = Now /\ UNCHANGED <<use, rx, sent, got>> /\ pin'.rx = RxLevel
      /\ ccp'.rx = [mode |-> ccp.rx.mode, value |-> IF Captured THEN Now ELSE ccp.rx.value,
                    due |-> (ccp.rx.due \/ Event(ccp.rx, Now) \/ Captured),
                    late |-> IF ccp.rx.due THEN ccp.rx.late + 1 ELSE 0]
  <2>1. /\ ccp.rx.due => ccp.rx.late < Latency
        /\ timer' = Now /\ UNCHANGED <<use, rx, sent, got>>
        /\ pin' = [tx |-> TxLevel, rx |-> RxLevel]
        /\ ccp' = [tx |-> [mode |-> ccp.tx.mode, value |-> ccp.tx.value,
                           due |-> (ccp.tx.due \/ Event(ccp.tx, Now)),
                           late |-> IF ccp.tx.due THEN ccp.tx.late + 1 ELSE 0],
                   rx |-> [mode |-> ccp.rx.mode,
                           value |-> IF Captured THEN Now ELSE ccp.rx.value,
                           due |-> (ccp.rx.due \/ Event(ccp.rx, Now) \/ Captured),
                           late |-> IF ccp.rx.due THEN ccp.rx.late + 1 ELSE 0]]
    BY TickDoes
  <2>2. QED
    BY <2>1
<1> DEFINE e == Event(ccp.rx, Now)
           p == Captured
<1>3. /\ ccp'.rx.mode = ccp.rx.mode /\ ccp'.rx.value = (IF p THEN Now ELSE ccp.rx.value)
      /\ ccp'.rx.late = IF ccp.rx.due THEN ccp.rx.late + 1 ELSE 0
      /\ (e => ccp'.rx.due) /\ (p => ccp'.rx.due) /\ (ccp.rx.due => ccp'.rx.due)
      /\ (~e /\ ~p /\ ~ccp.rx.due => ~ccp'.rx.due)
  <2> DEFINE o == ccp.rx.due \/ e \/ p
  <2>1. (e => o) /\ (p => o) /\ (ccp.rx.due => o) /\ (~e /\ ~p /\ ~ccp.rx.due => ~o)
    OBVIOUS
  <2>2. ccp'.rx = [mode |-> ccp.rx.mode, value |-> IF p THEN Now ELSE ccp.rx.value, due |-> o,
                   late |-> IF ccp.rx.due THEN ccp.rx.late + 1 ELSE 0]
    BY <1>2
  <2> HIDE DEF e, o, p
  <2>3. /\ ccp'.rx.mode = ccp.rx.mode /\ ccp'.rx.value = (IF p THEN Now ELSE ccp.rx.value)
        /\ ccp'.rx.due = o /\ ccp'.rx.late = IF ccp.rx.due THEN ccp.rx.late + 1 ELSE 0
    BY <2>2
  <2>4. QED
    BY <2>1, <2>3
<1>4. (p => ccp.rx.mode = "CAPTURE") /\ (e => ccp.rx.value = Now /\ ccp.rx.mode = "COMPARE")
      /\ (ccp.rx.value = Now /\ ccp.rx.mode = "COMPARE" => e)
  BY <1>1 DEF Captured, Event
<1>5. (rx.state = "RX_IDLE") <=> (ccp.rx.mode = "CAPTURE")
  BY DEF RxClock
<1> HIDE DEF e, p
<1>6. RxSlot' = RxSlot
  BY <1>2 DEF RxSlot
<1>7. ASSUME ccp.rx.due, ~p PROVE timer' = After(ccp'.rx.value, ccp'.rx.late)
  <2> DEFINE l == ccp.rx.late
  <2>1. l < Latency /\ l \in 0 .. Latency /\ timer = After(ccp.rx.value, l)
    BY <1>1, <1>2, <1>7 DEF RxClock
  <2>2. l \in 0 .. CycleMod - 2
    <3>1. Latency < Bit /\ Bit \in Nat /\ CycleMod > Bit /\ CycleMod \in Nat /\ Latency \in Nat
      BY Halves, Constants
    <3> HIDE DEF l
    <3>2. QED
      BY <2>1, <3>1
  <2>3. \A v, t \in 0 .. CycleMod - 1 : \A i \in 0 .. CycleMod - 2 :
           t = After(v, i) => After(t, 1) = After(v, i + 1)
    BY Deadlines
  <2>4. Now = After(ccp.rx.value, l + 1)
    <3> HIDE DEF l
    <3>1. QED
      BY <1>1, <2>1, <2>2, <2>3 DEF Now
  <2>5. ccp'.rx.value = ccp.rx.value /\ ccp'.rx.late = l + 1
    BY <1>3, <1>7
  <2>6. QED
    BY <1>2, <2>4, <2>5
<1>8. ASSUME rx.state # "RX_IDLE", ~ccp.rx.due
      PROVE  IF RxAhead > 1
             THEN ~ccp'.rx.due /\ RxAhead' = RxAhead - 1
             ELSE /\ RxAhead = 1 /\ ccp'.rx.due /\ ccp'.rx.late = 0
                  /\ timer' = After(ccp'.rx.value, 0)
  <2>1. RxAhead >= 1 /\ RxAhead \in Nat /\ ~p /\ ccp.rx.mode = "COMPARE"
    BY <1>1, <1>4, <1>5, <1>8, SlotTyped DEF RxClock
  <2>2. \A v, t \in 0 .. CycleMod - 1 :
           /\ Away(v, t) > 0 => Away(v, After(t, 1)) = Away(v, t) - 1
           /\ Away(v, t) > 0 => (v = After(t, 1) <=> Away(v, t) = 1)
           /\ v = After(v, 0)
    BY Deadlines
  <2>3. /\ Away(ccp.rx.value, Now) = RxAhead - 1 /\ (ccp.rx.value = Now <=> RxAhead = 1)
        /\ ccp.rx.value = After(ccp.rx.value, 0)
    BY <1>1, <2>1, <2>2 DEF RxAhead, Now
  <2>4. ccp'.rx.value = ccp.rx.value
    BY <1>3, <2>1
  <2>5. RxAhead' = RxAhead - 1
    BY <1>2, <2>3, <2>4 DEF RxAhead
  <2>6. e <=> RxAhead = 1
    BY <1>4, <2>1, <2>3
  <2>7. CASE RxAhead > 1
    <3>1. ~e
      BY <2>1, <2>6, <2>7
    <3>2. QED
      BY <1>8, <1>3, <2>1, <2>5, <2>7, <3>1
  <2>8. CASE RxAhead = 1
    <3>1. e /\ ~(RxAhead > 1)
      BY <2>6, <2>8
    <3>2. timer' = After(ccp'.rx.value, 0)
      BY <1>2, <2>3, <2>4, <2>8
    <3>3. QED
      BY <1>8, <1>3, <2>8, <3>1, <3>2
  <2>9. QED
    BY <2>1, <2>7, <2>8
<1>9. (rx.state = "RX_IDLE" /\ ~ccp.rx.due /\ ~p => ~ccp'.rx.due) /\ (rx.state # "RX_IDLE" => ~p)
      /\ (p => ccp'.rx.due /\ ccp'.rx.value = Now /\ (~ccp.rx.due => ccp'.rx.late = 0))
      /\ (~p => ccp'.rx.value = ccp.rx.value)
      /\ (ccp.rx.due => ccp'.rx.due /\ ccp'.rx.late = ccp.rx.late + 1)
  BY <1>3, <1>4, <1>5
<1>10. QED
  BY <1>2, <1>3, <1>6, <1>7, <1>8, <1>9 DEF p

\* In a wave, a tick takes the receiver one level on.
LEMMA TickSince ==
  ASSUME SwTyped, SwTyped', RxInTime, RxClock, RxBusy, ~Captured, Tick
  PROVE  RxBusy' /\ Since' = Since + 1 /\ RxClock'
<1> DEFINE h == Bit \div 2
           x == RxSlot * Bit
           a == RxAhead
           l == ccp.rx.late
<1>1. /\ UNCHANGED rx /\ RxSlot' = RxSlot /\ ccp'.rx.mode = ccp.rx.mode
      /\ ccp'.rx.value = ccp.rx.value
      /\ (ccp.rx.due => /\ ccp'.rx.due /\ ccp'.rx.late = ccp.rx.late + 1
                        /\ timer' = After(ccp'.rx.value, ccp'.rx.late))
      /\ (rx.state # "RX_IDLE" /\ ~ccp.rx.due => IF RxAhead > 1
            THEN ~ccp'.rx.due /\ RxAhead' = RxAhead - 1
            ELSE /\ RxAhead = 1 /\ ccp'.rx.due /\ ccp'.rx.late = 0
                 /\ timer' = After(ccp'.rx.value, 0))
  BY TickRxModule
<1>2. RxBusy'
  BY <1>1 DEF RxBusy
<1>3. /\ h \in Int /\ x \in Int /\ a \in Nat /\ l \in Nat /\ ccp.rx.due \in BOOLEAN
  BY RxTimes
<1>4. RxClock'
  <2>1. CASE ccp.rx.due
    BY <1>1, <2>1 DEF RxClock
  <2>2. CASE ~ccp.rx.due
    <3>1. rx.state # "RX_IDLE"
      BY <2>2 DEF RxBusy
    <3>2. CASE RxAhead > 1
      <4>1. ~ccp'.rx.due /\ RxAhead' >= 1
        BY <1>1, <1>3, <2>2, <3>1, <3>2
      <4>2. QED
        BY <1>1, <4>1 DEF RxClock
    <3>3. CASE ~(RxAhead > 1)
      <4>1. ccp'.rx.due /\ timer' = After(ccp'.rx.value, ccp'.rx.late)
        BY <1>1, <2>2, <3>1, <3>3
      <4>2. QED
        BY <1>1, <4>1 DEF RxClock
    <3>4. QED
      BY <3>2, <3>3
  <2>3. QED
    BY <2>1, <2>2
<1>5. Since' = Since + 1
  <2>1. CASE rx.state = "RX_IDLE"
    <3>1. ccp.rx.due /\ Since = l
      BY <2>1, SinceIs
    <3>2. Since' = l + 1
      BY <1>1, <2>1, <3>1 DEF Since
    <3>3. QED
      BY <3>1, <3>2
  <2>2. CASE rx.state # "RX_IDLE"
    <3>1. Since = IF ccp.rx.due THEN x + (h + l) ELSE x + h - a
      BY <2>2, SinceIs
    <3>2. rx'.state # "RX_IDLE"
      BY <1>1, <2>2
    <3>3. Since' = IF ccp'.rx.due THEN (RxSlot * Bit + (Bit \div 2) + ccp.rx.late)' ELSE
                     (RxSlot * Bit + (Bit \div 2) - RxAhead)'
      BY <3>2 DEF Since
    <3>4. Since' = IF ccp'.rx.due THEN x + h + ccp'.rx.late ELSE x + h - RxAhead'
      BY <1>1, <3>3
    <3> HIDE DEF h, x, a, l
    <3>5. /\ ccp.rx.due => ccp'.rx.due /\ ccp'.rx.late = l + 1
          /\ ~ccp.rx.due => IF a > 1 THEN ~ccp'.rx.due /\ RxAhead' = a - 1
                            ELSE a = 1 /\ ccp'.rx.due /\ ccp'.rx.late = 0
      BY <1>1, <2>2 DEF a, l
    <3>6. CASE ccp.rx.due
      BY <1>3, <3>1, <3>4, <3>5, <3>6
    <3>7. CASE ~ccp.rx.due /\ a > 1
      BY <1>3, <3>1, <3>4, <3>5, <3>7
    <3>8. CASE ~ccp.rx.due /\ ~(a > 1)
      BY <1>3, <3>1, <3>4, <3>5, <3>8
    <3>9. QED
      BY <3>6, <3>7, <3>8
  <2>3. QED
    BY <2>1, <2>2
<1>6. QED
  BY <1>2, <1>4, <1>5
-----------------------------------------------------------------------------
\* One tick: the line.
LEMMA FrameTick ==
  ASSUME SwTyped, use = "rx", Tick
  PROVE  /\ peer.frame = <<>> => peer'.frame = <<>> /\ RxLevel = 1
         /\ peer.frame # <<>> =>
              /\ RxLevel = peer.frame[1] /\ Len(peer.frame) \in Nat \ {0}
              /\ peer'.frame \in Seq({0, 1}) /\ Len(peer'.frame) = Len(peer.frame) - 1
              /\ \A i \in 1 .. Len(peer.frame) - 1 : peer'.frame[i] = peer.frame[i + 1]
              /\ peer'.quiet = peer.quiet
<1>1. Transmits
  BY TickDoes
<1>2. CASE peer.frame = <<>>
  <2>1. peer' = [age |-> peer.age, bits |-> peer.bits, frame |-> peer.frame, quiet |-> Quieter]
    BY <1>1, <1>2, TransmitsDoes
  <2>2. peer'.frame = peer.frame
    BY <2>1
  <2>3. QED
    BY <1>2, <2>2 DEF RxLevel
<1>3. CASE peer.frame # <<>>
  <2> DEFINE f == peer.frame
  <2>1. peer' = [age |-> peer.age, bits |-> peer.bits, frame |-> Tail(f), quiet |-> peer.quiet]
    BY <1>1, <1>3, TransmitsDoes
  <2>2. f \in Seq({0, 1}) /\ f # <<>> /\ RxLevel = Head(f)
    BY <1>3, RxFacts DEF RxLevel
  <2>3. peer'.frame = Tail(f) /\ peer'.quiet = peer.quiet
    BY <2>1
  <2> HIDE DEF f
  <2>4. /\ Tail(f) \in Seq({0, 1}) /\ Len(Tail(f)) = Len(f) - 1 /\ Head(f) = f[1]
        /\ \A i \in 1 .. Len(f) - 1 : Tail(f)[i] = f[i + 1]
    BY <2>2, HeadTailProperties
  <2>5. Len(f) \in Nat \ {0}
    BY <2>2, LenProperties
  <2>6. QED
    BY <1>3, <2>2, <2>3, <2>4, <2>5 DEF f
<1>4. QED
  BY <1>2, <1>3

\* A wave under way goes on; nothing in it is taken for another start.
LEMMA TickBusy ==
  ASSUME SwTyped, SwTyped', RxInTime, RxClock, RxBusy, use = "rx", Tick,
         NEW cur \in Waves, NEW next \in Waves, RxLine(cur, next)
  PROVE  RxClock' /\ RxLine(cur, next)'
<1> DEFINE n == Length(cur)
           f == peer.frame
           s == Since
<1>1. s + 1 < n /\ next.kind = "none"
  <2>1. ccp.rx.due => ccp.rx.late < Latency
    BY TickRxModule
  <2>2. QED
    BY <2>1, SinceRoom
<1>2. s \in Int /\ s >= 0 /\ n \in Nat /\ cur.kind # "none"
  BY SinceIs, WaveShape DEF RxLine
<1>3. /\ Len(f) = n - (s + 1) /\ pin.rx = Levels(cur)[s + 1]
      /\ \A i \in 1 .. Len(f) : f[i] = Levels(cur)[(s + 1) + i]
  BY <1>1 DEF RxLine
<1>4. f # <<>>
  <2>1. n - (s + 1) # 0
    BY <1>1, <1>2
  <2>2. QED
    BY <1>3, <2>1
<1>5. /\ RxLevel = f[1] /\ Len(f) \in Nat \ {0}
      /\ peer'.frame \in Seq({0, 1}) /\ Len(peer'.frame) = Len(f) - 1
      /\ \A i \in 1 .. Len(f) - 1 : peer'.frame[i] = f[i + 1]
      /\ peer'.quiet = peer.quiet
  BY <1>4, FrameTick
<1>6. RxLevel = Levels(cur)[(s + 1) + 1]
  <2>1. 1 \in 1 .. Len(f)
    BY <1>5
  <2>2. QED
    BY <1>3, <1>5, <2>1
<1>7. ~Captured
  <2> SUFFICES ASSUME ccp.rx.mode = "CAPTURE", pin.rx = 1, RxLevel = 0 PROVE FALSE
    BY DEF Captured
  <2>1. rx.state = "RX_IDLE"
    BY DEF RxClock
  <2>2. ccp.rx.due /\ s = ccp.rx.late
    BY <2>1, SinceIs
  <2>3. s \in 0 .. Bit - 1 /\ Bit \in Nat \ {0, 1}
    <3>1. ccp.rx.late \in 0 .. Latency /\ Latency < Bit /\ Bit \in Nat \ {0, 1} /\ Latency \in Nat
      BY RxFacts, Halves
    <3>2. QED
      BY <2>2, <3>1
  <2>4. CASE cur.kind = "noise"
    <3>1. (s + 1) + 1 \in 2 .. Bit
      BY <1>1, <1>2, <2>4, WaveShape
    <3>2. Levels(cur)[(s + 1) + 1] = 1
      BY <2>4, <3>1, WaveLevels
    <3>3. QED
      BY <1>6, <3>2
  <2>5. CASE cur.kind \in {"byte", "bad"}
    <3>1. (0 * Bit + s) + 1 = s + 1 /\ 0 \in 0 .. 9
      BY <2>3
    <3>2. Levels(cur)[(0 * Bit + s) + 1] = Slots(cur.byte, StopOf(cur))[0 + 1]
      <4> HIDE DEF s
      <4>1. QED
        BY <2>3, <2>5, <3>1, WaveLevels
    <3>3. Slots(cur.byte, StopOf(cur))[0 + 1] = 0
      BY DEF Slots
    <3>4. QED
      BY <1>3, <3>1, <3>2, <3>3
  <2>6. QED
    BY <1>2, <2>4, <2>5, WaveShape DEF Kinds
<1>8. RxBusy' /\ Since' = s + 1 /\ RxClock'
  BY <1>7, TickSince
<1>9. UNCHANGED rx /\ pin'.rx = RxLevel
  BY TickRxModule
<1>10. Since' >= 0 /\ Since' < n /\ pin'.rx = Levels(cur)[Since' + 1]
  <2>1. s + 1 >= 0
    BY <1>2
  <2>2. QED
    BY <1>1, <1>6, <1>8, <1>9, <2>1
<1>11. /\ Len(peer'.frame) = n - (Since' + 1)
       /\ \A i \in 1 .. Len(peer'.frame) : peer'.frame[i] = Levels(cur)[(Since' + 1) + i]
  <2>1. Len(peer'.frame) = n - (Since' + 1)
    BY <1>2, <1>3, <1>5, <1>8
  <2>2. ASSUME NEW i \in 1 .. Len(peer'.frame)
        PROVE  peer'.frame[i] = Levels(cur)[(Since' + 1) + i]
    <3>1. i \in 1 .. Len(f) - 1 /\ i + 1 \in 1 .. Len(f) /\ (s + 1) + (i + 1) = ((s + 1) + 1) + i
      BY <1>2, <1>5
    <3>2. peer'.frame[i] = Levels(cur)[(s + 1) + (i + 1)]
      <4> HIDE DEF s, f
      <4>1. QED
        BY <1>3, <1>5, <3>1
    <3>3. QED
      BY <1>8, <3>1, <3>2
  <2>3. QED
    BY <2>1, <2>2
<1>12. peer'.quiet = 0
  BY <1>5 DEF RxLine
<1> HIDE DEF n, f, s
<1>13. RxLine(cur, next)'
  <2>1. (cur.kind = "none") <=> ~RxBusy'
    BY <1>2, <1>8
  <2>2. rx'.state \in {"RX_DATA", "RX_STOP"} => cur.kind # "noise"
    BY <1>9 DEF RxLine
  <2>3. QED
    BY <1>1, <1>8, <1>10, <1>11, <1>12, <2>1, <2>2 DEF RxLine, n
<1>14. QED
  BY <1>8, <1>13

\* With nothing to come, no edge is left to capture.
LEMMA TickCalm ==
  ASSUME SwTyped, SwTyped', RxInTime, RxClock, ~RxBusy, use = "rx", Tick,
         NEW cur \in Waves, NEW next \in Waves, RxLine(cur, next), next.kind = "none"
  PROVE  RxClock' /\ RxLine(cur, next)'
<1> DEFINE f == peer.frame
<1>1. Calm /\ cur.kind = "none" /\ rx.state = "RX_IDLE" /\ ~ccp.rx.due
  BY DEF RxLine, RxBusy
<1>2. f \in Seq({0, 1}) /\ Len(f) \in Nat /\ (f = <<>> \/ Len(f) > 0) /\ pin.rx \in {0, 1}
      /\ \A i \in 1 .. Len(f) : f[i] \in {0, 1}
  BY RxFacts, LenProperties, ElementOfSeq
<1>3. ~Captured
  <2> SUFFICES ASSUME pin.rx = 1, RxLevel = 0 PROVE FALSE
    BY DEF Captured
  <2>1. f # <<>>
    BY FrameTick
  <2>2. RxLevel = f[1] /\ 1 \in 1 .. Len(f)
    BY <1>2, <2>1, FrameTick
  <2>3. pin.rx <= f[1]
    BY <1>1, <2>2 DEF Calm
  <2>4. QED
    BY <2>2, <2>3
<1>4. UNCHANGED rx /\ pin'.rx = RxLevel /\ ~ccp'.rx.due /\ ccp'.rx.mode = ccp.rx.mode
  BY <1>1, <1>3, TickRxModule
<1>5. RxClock' /\ ~RxBusy'
  BY <1>1, <1>4 DEF RxClock, RxBusy
<1>6. Calm' /\ (peer'.frame # <<>> => peer'.quiet = 0)
  <2>1. CASE f = <<>>
    <3>1. peer'.frame = <<>> /\ pin'.rx = 1
      BY <1>4, <2>1, FrameTick
    <3>2. QED
      BY <3>1 DEF Calm
  <2>2. CASE f # <<>>
    <3>1. /\ pin'.rx = f[1] /\ Len(f) \in Nat \ {0}
          /\ peer'.frame \in Seq({0, 1}) /\ Len(peer'.frame) = Len(f) - 1
          /\ \A i \in 1 .. Len(f) - 1 : peer'.frame[i] = f[i + 1]
          /\ peer'.quiet = peer.quiet
      BY <1>4, <2>2, FrameTick
    <3>2. /\ f[Len(f)] = 1
          /\ \A i \in 1 .. Len(f) : \A j \in 1 .. i : f[j] <= f[i]
      BY <1>1, <2>2 DEF Calm
    <3>3. peer'.frame = <<>> => pin'.rx = 1
      <4>1. peer'.frame = <<>> => Len(f) - 1 = 0
        BY <3>1
      <4>2. QED
        BY <3>1, <3>2, <4>1
    <3>4. peer'.frame # <<>> => peer'.frame[Len(peer'.frame)] = 1
      <4>1. peer'.frame # <<>> => Len(peer'.frame) \in 1 .. Len(f) - 1
        BY <3>1, LenProperties
      <4>2. peer'.frame # <<>> => peer'.frame[Len(peer'.frame)] = f[Len(peer'.frame) + 1]
        BY <3>1, <4>1
      <4>3. Len(peer'.frame) + 1 = Len(f)
        BY <3>1
      <4>4. QED
        BY <3>2, <4>2, <4>3
    <3>5. ASSUME NEW i \in 1 .. Len(peer'.frame)
          PROVE  pin'.rx <= peer'.frame[i] /\ \A j \in 1 .. i : peer'.frame[j] <= peer'.frame[i]
      <4>1. i + 1 \in 1 .. Len(f) /\ i \in 1 .. Len(f) - 1 /\ 1 \in 1 .. i + 1
        BY <3>1
      <4>2. peer'.frame[i] = f[i + 1] /\ f[1] <= f[i + 1]
        BY <3>1, <3>2, <4>1
      <4>3. ASSUME NEW j \in 1 .. i PROVE peer'.frame[j] <= peer'.frame[i]
        <5>1. j + 1 \in 1 .. i + 1 /\ j \in 1 .. Len(f) - 1
          BY <3>1, <4>1
        <5>2. peer'.frame[j] = f[j + 1] /\ f[j + 1] <= f[i + 1]
          BY <3>1, <3>2, <4>1, <5>1
        <5>3. QED
          BY <4>2, <5>2
      <4>4. QED
        BY <3>1, <4>2, <4>3
    <3>6. Calm'
      BY <3>3, <3>4, <3>5 DEF Calm
    <3>7. peer'.quiet = 0
      BY <2>2, <3>1 DEF RxLine
    <3>8. QED
      BY <3>6, <3>7
  <2>3. QED
    BY <2>1, <2>2
<1>7. RxLine(cur, next)'
  <2>1. rx'.state = "RX_IDLE"
    BY <1>1, <1>4
  <2>2. QED
    BY <1>1, <1>5, <1>6, <2>1 DEF RxLine
<1>8. QED
  BY <1>5, <1>7

\* The first level of a wave is captured, in the tick it appears.
NoWave == [kind |-> "none", byte |-> 0]

LEMMA TickStarts ==
  ASSUME SwTyped, SwTyped', RxInTime, RxClock, ~RxBusy, use = "rx", Tick,
         NEW cur \in Waves, NEW next \in Waves, RxLine(cur, next), next.kind # "none"
  PROVE  RxClock' /\ RxLine(next, NoWave)'
<1> DEFINE f == peer.frame
           n == Length(next)
<1>1. f = Levels(next) /\ pin.rx = 1 /\ rx.state = "RX_IDLE" /\ ~ccp.rx.due
      /\ ccp.rx.mode = "CAPTURE"
  BY DEF RxLine, RxBusy, RxClock
<1>2. n \in Nat /\ n >= 2 /\ Len(f) = n /\ f[1] = 0
  <2>1. n \in Nat /\ n >= Bit /\ Levels(next)[1] = 0 /\ Bit \in Nat \ {0, 1}
    BY WaveEnds, Constants
  <2>2. Len(Levels(next)) = n
    BY WaveShape
  <2> HIDE DEF n
  <2>3. n >= 2
    BY <2>1
  <2>4. QED
    BY <1>1, <2>1, <2>2, <2>3
<1>3. f # <<>>
  BY <1>2
<1>4. /\ RxLevel = f[1] /\ Len(f) \in Nat \ {0}
      /\ peer'.frame \in Seq({0, 1}) /\ Len(peer'.frame) = Len(f) - 1
      /\ \A i \in 1 .. Len(f) - 1 : peer'.frame[i] = f[i + 1]
      /\ peer'.quiet = peer.quiet
  BY <1>3, FrameTick
<1>5. Captured
  BY <1>1, <1>2, <1>4 DEF Captured
<1>6. /\ UNCHANGED rx /\ pin'.rx = RxLevel /\ ccp'.rx.due /\ ccp'.rx.mode = ccp.rx.mode
      /\ ccp'.rx.late = 0 /\ ccp'.rx.value = Now /\ timer' = Now
  BY <1>1, <1>5, TickRxModule
<1>7. RxBusy' /\ Since' = 0
  BY <1>1, <1>6 DEF RxBusy, Since
<1>8. RxClock'
  <2>1. timer' = After(ccp'.rx.value, 0)
    <3>1. Now \in 0 .. CycleMod - 1
      BY LevelsTyped
    <3>2. Now = After(Now, 0)
      BY <3>1, Deadlines
    <3>3. QED
      BY <1>6, <3>2
  <2>2. QED
    BY <1>1, <1>6, <2>1 DEF RxClock
<1>9. NoWave.kind = "none"
  BY DEF NoWave
<1>10. RxLine(next, NoWave)'
  <2>1. (next.kind = "none") <=> ~RxBusy'
    BY <1>7
  <2>2. Since' >= 0 /\ Since' < n /\ pin'.rx = Levels(next)[Since' + 1]
    <3>1. Since' + 1 = 1
      BY <1>7
    <3>2. QED
      BY <1>1, <1>2, <1>4, <1>6, <1>7, <3>1
  <2>3. /\ Len(peer'.frame) = n - (Since' + 1)
        /\ \A i \in 1 .. Len(peer'.frame) : peer'.frame[i] = Levels(next)[(Since' + 1) + i]
    <3>1. Since' + 1 = 1 /\ Len(peer'.frame) = n - 1 /\ Len(f) = n
      BY <1>2, <1>4, <1>7
    <3>2. ASSUME NEW i \in 1 .. n - 1 PROVE peer'.frame[i] = Levels(next)[1 + i]
      <4>1. peer'.frame[i] = f[i + 1] /\ 1 + i = i + 1
        BY <1>2, <1>4, <3>1
      <4>2. QED
        BY <1>1, <4>1
    <3>3. QED
      BY <3>1, <3>2
  <2>4. peer'.quiet = 0
    BY <1>3, <1>4 DEF RxLine
  <2>5. rx'.state = "RX_IDLE"
    BY <1>1, <1>6
  <2> HIDE DEF n, f
  <2>6. QED
    BY <1>7, <1>9, <2>1, <2>2, <2>3, <2>4, <2>5 DEF RxLine, n
<1>11. QED
  BY <1>8, <1>10
-----------------------------------------------------------------------------
\* The handlers: they move neither the line nor the receiver's place in a wave.
LEMMA LineSame ==
  ASSUME NEW cur, NEW next, RxLine(cur, next), RxBusy, RxBusy', Since' = Since,
         pin'.rx = pin.rx, peer' = peer,
         rx'.state \in {"RX_DATA", "RX_STOP"} => cur.kind # "noise"
  PROVE  RxLine(cur, next)'
<1>1. (cur.kind = "none") <=> ~RxBusy'
  BY DEF RxLine
<1>2. Since' >= 0 /\ Since' < Length(cur) /\ pin'.rx = Levels(cur)[Since' + 1]
  BY DEF RxLine
<1>3. next.kind # "none" =>
        peer'.frame = Levels(next) /\ pin'.rx = 1 /\ Since' + 1 = Length(cur)
  BY DEF RxLine
<1>4. next.kind = "none" =>
        /\ Len(peer'.frame) = Length(cur) - (Since' + 1)
        /\ \A i \in 1 .. Len(peer'.frame) : peer'.frame[i] = Levels(cur)[(Since' + 1) + i]
  BY DEF RxLine
<1>5. peer'.quiet = 0
  BY DEF RxLine
<1>6. QED
  BY <1>1, <1>2, <1>3, <1>4, <1>5 DEF RxLine

\* The receiver may go back to waiting for an edge once nothing but a rise is left.
LEMMA LineEnds ==
  ASSUME SwTyped, RxInTime, RxClock, NEW cur \in Waves, NEW next \in Waves, RxLine(cur, next),
         RxBusy, ~RxBusy', rx'.state = "RX_IDLE", pin'.rx = pin.rx, peer' = peer,
         \/ cur.kind = "noise" /\ 1 <= Since
         \/ cur.kind \in {"byte", "bad"} /\ 9 * Bit <= Since
  PROVE  RxLine(NoWave, next)'
<1> DEFINE n == Length(cur)
           f == peer.frame
           s == Since
<1>1. s \in Int /\ n \in Nat /\ s < n /\ pin.rx = Levels(cur)[s + 1] /\ Levels(cur)[n] = 1
  BY SinceIs, WaveEnds DEF RxLine
<1>2. NoWave.kind = "none"
  BY DEF NoWave
<1>3. peer'.quiet = 0
  BY DEF RxLine
<1>4. next.kind # "none" => peer'.frame = Levels(next) /\ pin'.rx = 1
  BY DEF RxLine
<1>5. ASSUME next.kind = "none" PROVE Calm'
  <2>1. /\ Len(f) = n - (s + 1) /\ Len(f) \in Nat /\ (f # <<>> => Len(f) > 0)
        /\ \A i \in 1 .. Len(f) : f[i] = Levels(cur)[(s + 1) + i]
    BY <1>5, RxFacts, LenProperties DEF RxLine
  <2>2. ASSUME NEW i \in Int, NEW j \in Int, s < i, i <= j, j <= n
        PROVE  Levels(cur)[i] <= Levels(cur)[j]
    <3>1. \/ cur.kind = "noise" /\ 1 < i
          \/ cur.kind \in {"byte", "bad"} /\ 9 * Bit < i
      <4>1. 9 * Bit \in Int
        BY Constants
      <4> HIDE DEF n
      <4>2. QED
        BY <1>1, <2>2, <4>1
    <3>2. QED
      BY <2>2, <3>1, WaveRises
  <2>3. f = <<>> => pin.rx = 1
    <3>1. f = <<>> => s + 1 = n
      <4>1. f = <<>> => Len(f) = 0
        OBVIOUS
      <4> HIDE DEF f, n, s
      <4>2. QED
        BY <1>1, <2>1, <4>1
    <3>2. QED
      BY <1>1, <3>1
  <2>4. f # <<>> => f[Len(f)] = 1
    <3>1. (s + 1) + Len(f) = n /\ (f # <<>> => Len(f) \in 1 .. Len(f))
      <4> HIDE DEF n, s
      <4>1. QED
        BY <1>1, <2>1
    <3>2. QED
      BY <1>1, <2>1, <3>1
  <2>5. ASSUME NEW i \in 1 .. Len(f)
        PROVE  pin.rx <= f[i] /\ \A j \in 1 .. i : f[j] <= f[i]
    <3>1. (s + 1) + i \in Int /\ s + 1 <= (s + 1) + i /\ (s + 1) + i <= n /\ s + 1 \in Int
          /\ s < s + 1
      <4> HIDE DEF n, s
      <4>1. QED
        BY <1>1, <2>1
    <3>2. Levels(cur)[s + 1] <= Levels(cur)[(s + 1) + i]
      BY <2>2, <3>1
    <3>3. ASSUME NEW j \in 1 .. i PROVE f[j] <= f[i]
      <4>1. (s + 1) + j \in Int /\ s < (s + 1) + j /\ (s + 1) + j <= (s + 1) + i
            /\ j \in 1 .. Len(f)
        <5> HIDE DEF n, s
        <5>1. QED
          BY <1>1, <2>1
      <4>2. Levels(cur)[(s + 1) + j] <= Levels(cur)[(s + 1) + i]
        BY <2>2, <3>1, <4>1
      <4>3. QED
        BY <2>1, <4>1, <4>2
    <3>4. QED
      BY <1>1, <2>1, <3>2, <3>3
  <2>6. Calm
    BY <2>3, <2>4, <2>5 DEF Calm
  <2>7. QED
    BY <2>6 DEF Calm
<1>6. QED
  BY <1>2, <1>3, <1>4, <1>5 DEF RxLine

\* The next sampling point is armed in time.
LEMMA RxArmed ==
  ASSUME SwTyped, RxInTime, RxClock, ccp.rx.due
  PROVE  /\ Away(After(ccp.rx.value, Bit), timer) = Bit - ccp.rx.late
         /\ Away(After(ccp.rx.value, Bit \div 2), timer) = (Bit \div 2) - ccp.rx.late
         /\ Bit - ccp.rx.late >= 1 /\ (Bit \div 2) - ccp.rx.late >= 1
<1> DEFINE l == ccp.rx.late
           h == Bit \div 2
<1>1. /\ h \in 1 .. Bit - 1 /\ Latency \in Nat /\ Latency < h /\ Bit \in Nat \ {0, 1}
      /\ l \in 0 .. Latency /\ Bit < CycleMod /\ CycleMod \in Nat
      /\ ccp.rx.value \in 0 .. CycleMod - 1 /\ timer \in 0 .. CycleMod - 1
      /\ timer = After(ccp.rx.value, l)
  BY Halves, RxFacts, Constants DEF RxClock
<1> HIDE DEF l, h
<1>2. l \in 0 .. CycleMod - 1 /\ h \in 0 .. CycleMod - 1 /\ Bit \in 0 .. CycleMod - 1
      /\ l < h /\ l < Bit /\ Bit - l >= 1 /\ h - l >= 1
  BY <1>1
<1>3. \A v, t, i, k \in 0 .. CycleMod - 1 :
           i < k /\ t = After(v, i) => Away(After(v, k), t) = k - i
  BY Deadlines
<1>4. Away(After(ccp.rx.value, Bit), timer) = Bit - l
      /\ Away(After(ccp.rx.value, h), timer) = h - l
  BY <1>1, <1>2, <1>3
<1>5. QED
  BY <1>2, <1>4 DEF l, h

LEMMA RearmKeeps ==
  ASSUME SwTyped, RxInTime, RxClock, ccp.rx.due, rx.state # "RX_IDLE",
         rx'.state \in {"RX_DATA", "RX_STOP"}, rx'.bits = RxSlot,
         rx'.state = "RX_STOP" => rx'.bits = 8,
         rx'.deadline = After(rx.deadline, Bit), timer' = timer,
         ccp'.rx = [mode |-> ccp.rx.mode, value |-> After(rx.deadline, Bit), due |-> FALSE,
                    late |-> 0]
  PROVE  RxBusy' /\ Since' = Since /\ RxClock'
<1> DEFINE h == Bit \div 2
           x == RxSlot * Bit
           l == ccp.rx.late
<1>1. rx.deadline = ccp.rx.value /\ ccp.rx.mode # "CAPTURE"
  BY DEF RxClock
<1>2. RxAhead' = Bit - l /\ RxAhead' >= 1
  BY <1>1, RxArmed DEF RxAhead
<1>3. RxBusy'
  BY DEF RxBusy
<1>4. RxClock'
  BY <1>1, <1>2 DEF RxClock
<1>5. RxSlot' = RxSlot + 1
  BY DEF RxSlot
<1>6. Since' = (RxSlot + 1) * Bit + h - (Bit - l)
  BY <1>2, <1>5 DEF Since
<1>7. (RxSlot + 1) * Bit = x + Bit /\ x \in Int /\ h \in Int /\ Bit \in Int /\ l \in Nat
  BY RxTimes
<1>8. Since = x + (h + l)
  BY <1>3, SinceIs DEF RxBusy
<1> HIDE DEF h, x, l
<1>9. Since' = Since
  BY <1>6, <1>7, <1>8
<1>10. QED
  BY <1>3, <1>4, <1>9

\* The level sampled is the one of the slot the receiver counts.
LEMMA SampleIs ==
  ASSUME SwTyped, RxInTime, RxClock, ccp.rx.due, rx.state # "RX_IDLE",
         NEW cur \in Waves, NEW next \in Waves, RxLine(cur, next)
  PROVE  /\ RxBusy /\ RxSlot * Bit < Since
         /\ cur.kind \in {"noise", "byte", "bad"}
         /\ cur.kind \in {"byte", "bad"} => pin.rx = Slots(cur.byte, StopOf(cur))[RxSlot + 1]
         /\ cur.kind = "noise" => rx.state = "RX_CONFIRM_START" /\ pin.rx = 1 /\ 1 <= Since
<1> DEFINE d == (Bit \div 2) + ccp.rx.late
           x == RxSlot * Bit
<1>1. RxBusy
  BY DEF RxBusy
<1>2. Since = x + d
  BY <1>1, SinceIs
<1>3. d \in 1 .. Bit - 1 /\ x \in Int /\ RxSlot \in 0 .. 9 /\ Bit \in Nat
  <2> DEFINE h == Bit \div 2
             l == ccp.rx.late
  <2>1. h \in 1 .. Bit - 1 /\ Latency \in Nat /\ h + Latency < Bit /\ l \in 0 .. Latency
        /\ Bit \in Nat
    BY Halves, RxFacts
  <2> HIDE DEF h, l
  <2>2. h + l \in 1 .. Bit - 1
    BY <2>1
  <2>3. QED
    BY <2>1, <2>2, SlotTyped DEF h, l
<1>4. cur.kind \in {"noise", "byte", "bad"} /\ pin.rx = Levels(cur)[Since + 1]
      /\ Since < Length(cur)
  BY <1>1, WaveShape DEF RxLine, Kinds
<1>5. ASSUME cur.kind \in {"byte", "bad"}
      PROVE  pin.rx = Slots(cur.byte, StopOf(cur))[RxSlot + 1]
  <2>1. d \in 0 .. Bit - 1
    BY <1>3
  <2> HIDE DEF d
  <2>2. Levels(cur)[(RxSlot * Bit + d) + 1] = Slots(cur.byte, StopOf(cur))[RxSlot + 1]
    <3>1. \A s \in 0 .. 9 : \A e \in 0 .. Bit - 1 :
             Levels(cur)[(s * Bit + e) + 1] = Slots(cur.byte, StopOf(cur))[s + 1]
      BY <1>5, WaveLevels
    <3>2. QED
      BY <1>3, <2>1, <3>1
  <2>3. QED
    BY <1>2, <1>4, <2>2
<1>6. ASSUME cur.kind = "noise"
      PROVE  rx.state = "RX_CONFIRM_START" /\ pin.rx = 1 /\ 1 <= Since
  <2>1. rx.state = "RX_CONFIRM_START"
    BY <1>6, RxFacts DEF RxLine, RxStates
  <2>2. Since = d
    BY <1>1, <2>1, SinceIs
  <2>3. d + 1 \in 2 .. Bit
    BY <1>3
  <2>4. Levels(cur)[d + 1] = 1
    BY <1>6, <2>3, WaveLevels
  <2>5. QED
    BY <1>3, <1>4, <2>1, <2>2, <2>4
<1> HIDE DEF d, x
<1>7. x < Since
  BY <1>2, <1>3
<1>8. QED
  BY <1>1, <1>4, <1>5, <1>6, <1>7 DEF x
-----------------------------------------------------------------------------
\* What was delivered, byte by byte.
LEMMA DeliveredShape ==
  ASSUME SwTyped, RingOK(rx.ring)
  PROVE  /\ Delivered \in Seq(0 .. 255) /\ Len(Delivered) \in Nat
         /\ Len(got) \in Nat /\ rx.ring.count \in Nat
         /\ Len(Delivered) = Len(got) + rx.ring.count
         /\ \A i \in 1 .. Len(got) : Delivered[i] = got[i]
         /\ \A i \in 1 .. rx.ring.count : Delivered[Len(got) + i] = Content(rx.ring)[i]
<1> DEFINE c == Content(rx.ring)
           n == rx.ring.count
<1>1. got \in Seq(0 .. 255) /\ rx.ring \in Rings
  BY RxFacts, TypedParts
<1>2. c \in Seq(0 .. 255) /\ Len(c) = n /\ n \in Nat
  BY <1>1, ContentShape, RingFields
<1>3. Delivered = got \o c
  BY DEF Delivered
<1> HIDE DEF c, n
<1>4. Len(got) \in Nat
  BY <1>1, LenProperties
<1>5. /\ got \o c \in Seq(0 .. 255) /\ Len(got \o c) = Len(got) + Len(c)
      /\ \A i \in 1 .. Len(got) + Len(c) :
           (got \o c)[i] = IF i <= Len(got) THEN got[i] ELSE c[i - Len(got)]
  <2>1. c \in Seq(0 .. 255)
    BY <1>2
  <2>2. got \in Seq(0 .. 255)
    BY <1>1
  <2>3. QED
    BY <2>1, <2>2, ConcatProperties
<1>6. \A i \in 1 .. Len(got) : (got \o c)[i] = got[i]
  BY <1>2, <1>4, <1>5
<1>7. ASSUME NEW i \in 1 .. n PROVE (got \o c)[Len(got) + i] = c[i]
  <2>1. Len(got) + i \in 1 .. Len(got) + Len(c) /\ ~(Len(got) + i <= Len(got))
        /\ (Len(got) + i) - Len(got) = i
    BY <1>2, <1>4
  <2>2. QED
    BY <1>5, <2>1
<1>8. Len(Delivered) \in Nat
  BY <1>2, <1>3, <1>4, <1>5
<1>9. QED
  BY <1>2, <1>3, <1>4, <1>5, <1>6, <1>7, <1>8 DEF c, n

LEMMA DeliveredNext ==
  ASSUME SwTyped', RingOK(rx'.ring)
  PROVE  /\ Delivered' \in Seq(0 .. 255) /\ Len(Delivered') \in Nat
         /\ Len(got') \in Nat /\ rx'.ring.count \in Nat
         /\ Len(Delivered') = Len(got') + rx'.ring.count
         /\ \A i \in 1 .. Len(got') : Delivered'[i] = got'[i]
         /\ \A i \in 1 .. rx'.ring.count : Delivered'[Len(got') + i] = Content(rx'.ring)[i]
<1>1. (SwTyped /\ RingOK(rx.ring) =>
         /\ Delivered \in Seq(0 .. 255) /\ Len(Delivered) \in Nat
         /\ Len(got) \in Nat /\ rx.ring.count \in Nat
         /\ Len(Delivered) = Len(got) + rx.ring.count
         /\ \A i \in 1 .. Len(got) : Delivered[i] = got[i]
         /\ \A i \in 1 .. rx.ring.count : Delivered[Len(got) + i] = Content(rx.ring)[i])'
  BY DeliveredShape, PTL
<1>2. QED
  BY <1>1
-----------------------------------------------------------------------------
\* The steps of the receiver but the last of a frame deliver nothing.
LEMMA CountsSame ==
  ASSUME rx'.ring = rx.ring, rx'.errors = rx.errors, got' = got, sent' = sent
  PROVE  /\ Delivered' = Delivered
         /\ RingOK(rx.ring) => RingOK(rx'.ring)
         /\ RxChosen => RxChosen'
         /\ \A cur, next : RxCounts(cur, next) => RxCounts(cur, next)'
<1>1. Delivered' = Delivered
  BY DEF Delivered
<1>2. RxChosen => RxChosen'
  BY <1>1 DEF RxChosen
<1>3. ASSUME NEW cur, NEW next, RxCounts(cur, next) PROVE RxCounts(cur, next)'
  BY <1>1, <1>3 DEF RxCounts
<1>4. QED
  BY <1>1, <1>2, <1>3

LEMMA RxKeeps ==
  ASSUME RxInv, rx'.ring = rx.ring, rx'.errors = rx.errors, got' = got, sent' = sent, RxClock',
         NEW cur \in Waves, NEW next \in Waves, RxCounts(cur, next),
         RxLine(cur, next)', RxShift(cur)'
  PROVE  RxInv'
<1>1. RingOK(rx.ring) /\ RxChosen
  BY DEF RxInv
<1>2. RingOK(rx'.ring) /\ RxChosen' /\ RxCounts(cur, next)'
  BY <1>1, CountsSame
<1>3. QED
  BY <1>2 DEF RxInv

LEMMA TickKeepsRx ==
  ASSUME SwTyped, SwTyped', RxInTime, RxInv, use = "rx", Tick
  PROVE  RxInv'
<1>1. PICK cur \in Waves, next \in Waves :
         RxLine(cur, next) /\ RxShift(cur) /\ RxCounts(cur, next)
  BY DEF RxInv
<1>2. RxClock
  BY DEF RxInv
<1>3. UNCHANGED <<rx, sent, got>>
  BY <1>2, TickRxModule
<1>4. rx'.ring = rx.ring /\ rx'.errors = rx.errors /\ RxShift(cur)'
  BY <1>1, <1>3 DEF RxShift
<1>5. CASE RxBusy \/ next.kind = "none"
  <2>1. RxClock' /\ RxLine(cur, next)'
    BY <1>1, <1>2, <1>5, TickBusy, TickCalm
  <2>2. QED
    BY <1>1, <1>3, <1>4, <2>1, RxKeeps
<1>6. CASE ~RxBusy /\ next.kind # "none"
  <2>1. RxClock' /\ RxLine(next, NoWave)'
    BY <1>1, <1>2, <1>6, TickStarts
  <2>2. cur.kind = "none" /\ rx.state = "RX_IDLE"
    BY <1>1, <1>6 DEF RxLine, RxBusy
  <2>3. NoWave \in Waves /\ Counts(NoWave) = 0 /\ Counts(cur) = 0 /\ Counts(next) \in {0, 1}
    BY <2>2 DEF NoWave, Waves, Kinds, Counts
  <2>4. RxCounts(next, NoWave)
    <3> DEFINE n == Len(Delivered)
               e == rx.errors
               c == Counts(next)
               l == Len(sent)
    <3>1. n \in Nat /\ e \in Nat /\ c \in Nat /\ l \in Nat
      BY <2>3, DeliveredShape, RxFacts, LenProperties DEF RxInv
    <3>2. n + e + 0 + c = l /\ (c = 1 => sent[l] = Says(next))
      BY <1>1, <2>3 DEF RxCounts
    <3>3. Len(Delivered) + rx.errors + Counts(next) + 0 = Len(sent) /\ Len(sent) - 0 = Len(sent)
      <4> HIDE DEF n, e, c, l
      <4>1. n + e + c + 0 = l /\ l - 0 = l
        BY <3>1, <3>2
      <4>2. QED
        BY <4>1 DEF n, e, c, l
    <3>4. QED
      BY <2>3, <3>2, <3>3 DEF RxCounts
  <2>5. RxShift(next)'
    BY <1>3, <2>2 DEF RxShift
  <2>6. QED
    BY <1>3, <1>4, <2>1, <2>3, <2>4, <2>5, RxKeeps
<1>7. QED
  BY <1>5, <1>6

LEMMA RxEdgeKeeps ==
  ASSUME SwTyped, SwTyped', RxInTime, RxInv, RxEdge
  PROVE  RxInv'
<1>1. PICK cur \in Waves, next \in Waves :
         RxLine(cur, next) /\ RxShift(cur) /\ RxCounts(cur, next)
  BY DEF RxInv
<1>2. RxClock
  BY DEF RxInv
<1>3. /\ ccp.rx.due /\ rx.state = "RX_IDLE"
      /\ rx' = [state |-> "RX_CONFIRM_START", shift |-> rx.shift, bits |-> rx.bits,
                deadline |-> After(ccp.rx.value, Bit \div 2), ring |-> rx.ring,
                errors |-> rx.errors]
      /\ ccp' = [tx |-> ccp.tx, rx |-> [mode |-> "COMPARE",
                   value |-> After(ccp.rx.value, Bit \div 2), due |-> FALSE, late |-> 0]]
      /\ UNCHANGED <<use, timer, tx, main, pin, peer, written, heard, sent, got>>
  BY RxEdgeDoes
<1>4. /\ rx'.state = "RX_CONFIRM_START" /\ rx'.deadline = After(ccp.rx.value, Bit \div 2)
      /\ rx'.ring = rx.ring /\ rx'.errors = rx.errors /\ ccp'.rx.mode = "COMPARE"
      /\ ccp'.rx.value = After(ccp.rx.value, Bit \div 2) /\ ~ccp'.rx.due /\ pin'.rx = pin.rx
  BY <1>3
<1> DEFINE h == Bit \div 2
           l == ccp.rx.late
<1>5. RxAhead' = h - l /\ h - l >= 1
  BY <1>2, <1>3, <1>4, RxArmed DEF RxAhead
<1>6. RxClock'
  BY <1>4, <1>5 DEF RxClock
<1>7. RxBusy /\ RxBusy'
  BY <1>3, <1>4 DEF RxBusy
<1>8. Since' = Since
  <2>1. Since = l
    BY <1>3 DEF Since
  <2>2. Since' = 0 * Bit + h - (h - l)
    BY <1>4, <1>5 DEF Since, RxSlot
  <2>3. 0 * Bit = 0 /\ h \in Int /\ l \in Int
    BY Constants, Halves, RxFacts
  <2> HIDE DEF h, l
  <2>4. QED
    BY <2>1, <2>2, <2>3
<1>9. RxLine(cur, next)'
  BY <1>1, <1>3, <1>4, <1>7, <1>8, LineSame
<1>10. RxShift(cur)'
  BY <1>4 DEF RxShift
<1>11. QED
  BY <1>1, <1>3, <1>4, <1>6, <1>9, <1>10, RxKeeps
-----------------------------------------------------------------------------
\* The samples of the start bit and of the data bits.
LEMMA RxConfirmKeeps ==
  ASSUME SwTyped, SwTyped', RxInTime, RxInv, RxConfirm
  PROVE  RxInv'
<1>1. PICK cur \in Waves, next \in Waves :
         RxLine(cur, next) /\ RxShift(cur) /\ RxCounts(cur, next)
  BY DEF RxInv
<1>2. RxClock
  BY DEF RxInv
<1>3. /\ ccp.rx.due /\ rx.state = "RX_CONFIRM_START"
      /\ IF pin.rx # 0
         THEN /\ rx' = [state |-> "RX_IDLE", shift |-> rx.shift, bits |-> rx.bits,
                        deadline |-> rx.deadline, ring |-> rx.ring, errors |-> rx.errors]
              /\ ccp' = [tx |-> ccp.tx, rx |-> [mode |-> "CAPTURE", value |-> ccp.rx.value,
                                                due |-> FALSE, late |-> 0]]
         ELSE /\ rx' = [state |-> "RX_DATA", shift |-> 0, bits |-> 0,
                        deadline |-> After(rx.deadline, Bit), ring |-> rx.ring,
                        errors |-> rx.errors]
              /\ ccp' = [tx |-> ccp.tx, rx |-> [mode |-> ccp.rx.mode,
                           value |-> After(rx.deadline, Bit), due |-> FALSE, late |-> 0]]
      /\ UNCHANGED <<use, timer, tx, main, pin, peer, written, heard, sent, got>>
  BY RxConfirmDoes
<1>4. rx'.ring = rx.ring /\ rx'.errors = rx.errors /\ pin'.rx = pin.rx
  BY <1>3
<1>5. /\ RxBusy /\ cur.kind \in {"noise", "byte", "bad"} /\ cur.byte \in 0 .. 255
      /\ cur.kind \in {"byte", "bad"} => pin.rx = Slots(cur.byte, StopOf(cur))[0 + 1]
      /\ cur.kind = "noise" => pin.rx = 1 /\ 1 <= Since
  <2>1. RxSlot = 0
    BY <1>3 DEF RxSlot
  <2>2. QED
    BY <1>1, <1>2, <1>3, <2>1, SampleIs, WaveShape
<1>6. cur.kind \in {"byte", "bad"} => pin.rx = 0
  <2>1. Slots(cur.byte, StopOf(cur))[0 + 1] = 0
    BY DEF Slots
  <2>2. QED
    BY <1>5, <2>1
<1>7. CASE pin.rx # 0
  <2>1. rx'.state = "RX_IDLE" /\ ccp'.rx.mode = "CAPTURE" /\ ~ccp'.rx.due
    BY <1>3, <1>7
  <2>2. cur.kind = "noise" /\ 1 <= Since
    BY <1>5, <1>6, <1>7
  <2>3. ~RxBusy' /\ RxClock'
    BY <2>1 DEF RxBusy, RxClock
  <2>4. RxLine(NoWave, next)'
    BY <1>1, <1>2, <1>3, <1>4, <1>5, <2>1, <2>2, <2>3, LineEnds
  <2>5. NoWave \in Waves /\ Counts(NoWave) = 0 /\ Counts(cur) = 0
    BY <2>2 DEF NoWave, Waves, Kinds, Counts
  <2>6. RxCounts(NoWave, next)
    BY <1>1, <2>5 DEF RxCounts
  <2>7. RxShift(NoWave)'
    BY <2>1 DEF RxShift
  <2>8. QED
    BY <1>1, <1>3, <1>4, <2>3, <2>4, <2>5, <2>6, <2>7, RxKeeps
<1>8. CASE ~(pin.rx # 0)
  <2>1. /\ rx'.state = "RX_DATA" /\ rx'.bits = 0 /\ rx'.shift = 0
        /\ rx'.deadline = After(rx.deadline, Bit)
        /\ ccp'.rx = [mode |-> ccp.rx.mode, value |-> After(rx.deadline, Bit), due |-> FALSE,
                      late |-> 0]
    BY <1>3, <1>8
  <2>2. cur.kind # "noise"
    BY <1>5, <1>8
  <2>3. rx'.bits = RxSlot
    BY <1>3, <2>1 DEF RxSlot
  <2>4. RxBusy' /\ Since' = Since /\ RxClock'
    BY <1>2, <1>3, <2>1, <2>3, RearmKeeps
  <2>5. RxLine(cur, next)'
    BY <1>1, <1>3, <1>4, <1>5, <2>2, <2>4, LineSame
  <2>6. RxShift(cur)'
    <3>1. \A b \in 0 .. 255 : Shifted(b, 0) = 0
      BY ShiftedEnds
    <3>2. Shifted(cur.byte, 0) = 0
      BY <1>5, <3>1
    <3>3. QED
      BY <2>1, <3>2 DEF RxShift
  <2>7. QED
    BY <1>1, <1>3, <1>4, <2>4, <2>5, <2>6, RxKeeps
<1>9. QED
  BY <1>7, <1>8

LEMMA RxBitKeeps ==
  ASSUME SwTyped, SwTyped', RxInTime, RxInv, RxBit
  PROVE  RxInv'
<1>1. PICK cur \in Waves, next \in Waves :
         RxLine(cur, next) /\ RxShift(cur) /\ RxCounts(cur, next)
  BY DEF RxInv
<1>2. RxClock
  BY DEF RxInv
<1>3. /\ ccp.rx.due /\ rx.state = "RX_DATA" /\ rx.bits \in 0 .. 7
      /\ rx' = [state |-> IF rx.bits = 7 THEN "RX_STOP" ELSE "RX_DATA",
                shift |-> (rx.shift \div 2) + 128 * pin.rx, bits |-> rx.bits + 1,
                deadline |-> After(rx.deadline, Bit), ring |-> rx.ring,
                errors |-> rx.errors]
      /\ ccp' = [tx |-> ccp.tx, rx |-> [mode |-> ccp.rx.mode,
                   value |-> After(rx.deadline, Bit), due |-> FALSE, late |-> 0]]
      /\ UNCHANGED <<use, timer, tx, main, pin, peer, written, heard, sent, got>>
  BY RxBitDoes
<1>4. /\ rx'.ring = rx.ring /\ rx'.errors = rx.errors /\ pin'.rx = pin.rx
      /\ rx'.state \in {"RX_DATA", "RX_STOP"} /\ rx'.bits = rx.bits + 1
      /\ (rx'.state = "RX_STOP" => rx.bits = 7)
      /\ rx'.shift = (rx.shift \div 2) + 128 * pin.rx /\ rx'.deadline = After(rx.deadline, Bit)
      /\ ccp'.rx = [mode |-> ccp.rx.mode, value |-> After(rx.deadline, Bit), due |-> FALSE,
                    late |-> 0]
  BY <1>3
<1>5. RxSlot = rx.bits + 1 /\ cur.kind # "noise"
  BY <1>1, <1>3 DEF RxSlot, RxLine
<1>6. RxBusy /\ cur.byte \in 0 .. 255 /\ pin.rx = Slots(cur.byte, StopOf(cur))[rx.bits + 2]
  <2>1. RxBusy /\ cur.kind \in {"byte", "bad"}
        /\ pin.rx = Slots(cur.byte, StopOf(cur))[RxSlot + 1]
    BY <1>1, <1>2, <1>3, <1>5, SampleIs
  <2>2. RxSlot + 1 = rx.bits + 2
    BY <1>3, <1>5
  <2>3. QED
    BY <1>1, <2>1, <2>2, WaveShape
<1>7. rx'.state = "RX_STOP" => rx'.bits = 8
  BY <1>3, <1>4
<1>8. RxBusy' /\ Since' = Since /\ RxClock'
  BY <1>2, <1>3, <1>4, <1>5, <1>7, RearmKeeps
<1>9. RxLine(cur, next)'
  BY <1>1, <1>3, <1>4, <1>5, <1>6, <1>8, LineSame
<1>10. RxShift(cur)'
  <2>1. rx.shift = Shifted(cur.byte, rx.bits)
    BY <1>1, <1>3 DEF RxShift
  <2>2. (Shifted(cur.byte, rx.bits) \div 2) + 128 * Slots(cur.byte, StopOf(cur))[rx.bits + 2]
        = Shifted(cur.byte, rx.bits + 1)
    <3> DEFINE b == cur.byte
               stop == StopOf(cur)
               k == rx.bits
    <3>1. b \in 0 .. 255 /\ k \in 0 .. 7
      BY <1>3, <1>6
    <3> HIDE DEF b, stop, k
    <3>2. (Shifted(b, k) \div 2) + 128 * Slots(b, stop)[k + 2] = Shifted(b, k + 1)
      BY <3>1, ShiftedNext
    <3>3. QED
      BY <3>2 DEF b, stop, k
  <2>3. rx'.shift = Shifted(cur.byte, rx'.bits)
    BY <1>4, <1>6, <2>1, <2>2
  <2>4. QED
    BY <2>3 DEF RxShift
<1>11. QED
  BY <1>1, <1>3, <1>4, <1>8, <1>9, <1>10, RxKeeps
-----------------------------------------------------------------------------
\* The frames delivered are still some of those sent when more are sent, or
\* counted as errors, or one more is delivered.
LEMMA ChosenKept ==
  ASSUME RxChosen, Delivered' = Delivered, Len(Delivered) \in Nat,
         rx.errors \in Nat, rx'.errors \in Nat, rx.errors <= rx'.errors,
         \A i \in 1 .. Len(Delivered) + rx.errors : sent'[i] = sent[i]
  PROVE  RxChosen'
<1> DEFINE n == Len(Delivered)
           e == rx.errors
           e2 == rx'.errors
<1>1. PICK at \in [1 .. n -> 1 .. n + e] :
        /\ \A i \in 1 .. n : Delivered[i] = sent[at[i]] /\ sent[at[i]] # Bad
        /\ \A i, j \in 1 .. n : i < j => at[i] < at[j]
  BY DEF RxChosen
<1>2. n \in Nat /\ e \in Nat /\ e2 \in Nat /\ e <= e2
  OBVIOUS
<1>3. ASSUME NEW i \in 1 .. n PROVE sent'[at[i]] = sent[at[i]]
  BY <1>1
<1> HIDE DEF n, e, e2
<1>4. at \in [1 .. n -> 1 .. n + e2]
  <2>1. 1 .. n + e \subseteq 1 .. n + e2
    BY <1>2
  <2>2. QED
    BY <1>1, <2>1
<1>5. \A i \in 1 .. n : Delivered'[i] = sent'[at[i]] /\ sent'[at[i]] # Bad
  BY <1>1, <1>3
<1>6. n = Len(Delivered') /\ e2 = rx'.errors
  BY DEF n, e2
<1>7. QED
  BY <1>1, <1>4, <1>5, <1>6 DEF RxChosen

LEMMA ChosenMore ==
  ASSUME RxChosen, Len(Delivered) \in Nat, rx.errors \in Nat, rx'.errors = rx.errors,
         sent' = sent, Len(Delivered') = Len(Delivered) + 1,
         \A i \in 1 .. Len(Delivered) : Delivered'[i] = Delivered[i],
         Delivered'[Len(Delivered) + 1] = sent[Len(Delivered) + rx.errors + 1],
         sent[Len(Delivered) + rx.errors + 1] # Bad
  PROVE  RxChosen'
<1> DEFINE n == Len(Delivered)
           e == rx.errors
           D == Delivered
           E == Delivered'
<1>1. PICK at \in [1 .. n -> 1 .. n + e] :
        /\ \A i \in 1 .. n : D[i] = sent[at[i]] /\ sent[at[i]] # Bad
        /\ \A i, j \in 1 .. n : i < j => at[i] < at[j]
  BY DEF RxChosen
<1>2. /\ n \in Nat /\ e \in Nat /\ \A i \in 1 .. n : E[i] = D[i]
      /\ E[n + 1] = sent[n + e + 1] /\ sent[n + e + 1] # Bad
  OBVIOUS
<1>3. Len(E) = n + 1 /\ rx'.errors = e /\ sent' = sent
  OBVIOUS
<1> DEFINE to == [i \in 1 .. n + 1 |-> IF i = n + 1 THEN n + e + 1 ELSE at[i]]
<1> HIDE DEF n, e, D, E
<1>4. to \in [1 .. n + 1 -> 1 .. (n + 1) + e]
  <2>1. ASSUME NEW i \in 1 .. n + 1
        PROVE  (IF i = n + 1 THEN n + e + 1 ELSE at[i]) \in 1 .. (n + 1) + e
    <3>1. CASE i = n + 1
      BY <1>2, <3>1
    <3>2. CASE i # n + 1
      <4>1. i \in 1 .. n
        BY <1>2, <3>2
      <4>2. at[i] \in 1 .. n + e
        BY <1>1, <4>1
      <4>3. QED
        BY <1>2, <3>2, <4>2
    <3>3. QED
      BY <3>1, <3>2
  <2>2. QED
    BY <2>1
<1>5. to[n + 1] = n + e + 1 /\ \A i \in 1 .. n : to[i] = at[i] /\ at[i] < n + e + 1
  <2>1. n + 1 \in 1 .. n + 1
    BY <1>2
  <2>2. ASSUME NEW i \in 1 .. n PROVE to[i] = at[i] /\ at[i] < n + e + 1
    <3>1. i \in 1 .. n + 1 /\ i # n + 1
      BY <1>2
    <3>2. at[i] \in 1 .. n + e
      BY <1>1
    <3>3. QED
      BY <1>2, <3>1, <3>2
  <2>3. QED
    BY <2>1, <2>2
<1> HIDE DEF to
<1>6. ASSUME NEW i \in 1 .. n + 1 PROVE E[i] = sent[to[i]] /\ sent[to[i]] # Bad
  <2>1. CASE i = n + 1
    BY <1>2, <1>5, <2>1
  <2>2. CASE i # n + 1
    <3>1. i \in 1 .. n
      BY <1>2, <2>2
    <3>2. QED
      BY <1>1, <1>2, <1>5, <3>1
  <2>3. QED
    BY <2>1, <2>2
<1>7. ASSUME NEW i \in 1 .. n + 1, NEW j \in 1 .. n + 1, i < j PROVE to[i] < to[j]
  <2>1. i \in 1 .. n
    BY <1>2, <1>7
  <2>2. CASE j = n + 1
    BY <1>5, <2>1, <2>2
  <2>3. CASE j # n + 1
    <3>1. j \in 1 .. n
      BY <1>2, <2>3
    <3>2. QED
      BY <1>1, <1>5, <1>7, <2>1, <3>1
  <2>4. QED
    BY <2>2, <2>3
<1>8. to \in [1 .. Len(E) -> 1 .. Len(E) + rx'.errors]
  BY <1>3, <1>4
<1>9. \A i \in 1 .. Len(E) : E[i] = sent'[to[i]] /\ sent'[to[i]] # Bad
  BY <1>3, <1>6
<1>10. \A i, j \in 1 .. Len(E) : i < j => to[i] < to[j]
  BY <1>3, <1>7
<1>11. QED
  BY <1>8, <1>9, <1>10 DEF RxChosen, E
-----------------------------------------------------------------------------
\* The stop bit: the byte is delivered, or the frame counted as an error.
LEMMA RxStopSample ==
  ASSUME SwTyped, RxInTime, RxClock, RxStop, NEW cur \in Waves, NEW next \in Waves,
         RxLine(cur, next), RxShift(cur)
  PROVE  /\ cur.kind \in {"byte", "bad"} /\ 9 * Bit <= Since /\ RxBusy
         /\ rx.shift = cur.byte /\ cur.byte \in 0 .. 255
         /\ pin.rx # 0 => cur.kind = "byte"
<1>1. ccp.rx.due /\ rx.state = "RX_STOP"
  BY RxStopDoes
<1>2. rx.bits = 8 /\ RxSlot = 9
  BY <1>1 DEF RxClock, RxSlot
<1>3. cur.kind # "noise" /\ cur.byte \in 0 .. 255
  BY <1>1, WaveShape DEF RxLine
<1>4. /\ RxBusy /\ RxSlot * Bit < Since /\ cur.kind \in {"byte", "bad"}
      /\ pin.rx = Slots(cur.byte, StopOf(cur))[9 + 1]
  BY <1>1, <1>2, <1>3, SampleIs
<1>5. pin.rx = StopOf(cur)
  <2>1. Slots(cur.byte, StopOf(cur))[9 + 1] = StopOf(cur)
    BY DEF Slots
  <2>2. QED
    BY <1>4, <2>1
<1>6. pin.rx # 0 => cur.kind = "byte"
  BY <1>5 DEF StopOf
<1>7. rx.shift = cur.byte
  <2>1. rx.shift = Shifted(cur.byte, 8)
    BY <1>1, <1>2 DEF RxShift
  <2>2. \A b \in 0 .. 255 : Shifted(b, 8) = b
    BY ShiftedEnds
  <2>3. QED
    BY <1>3, <2>1, <2>2
<1>8. 9 * Bit <= Since
  <2>1. Since \in Int /\ 9 * Bit \in Int
    BY <1>4, SinceIs, Constants
  <2>2. QED
    BY <1>2, <1>4, <2>1
<1>9. QED
  BY <1>3, <1>4, <1>6, <1>7, <1>8

LEMMA RxStopKeeps ==
  ASSUME SwTyped, SwTyped', RxInTime, RxInv, RxStop
  PROVE  RxInv'
<1>1. PICK cur \in Waves, next \in Waves :
         RxLine(cur, next) /\ RxShift(cur) /\ RxCounts(cur, next)
  BY DEF RxInv
<1>2. RxClock /\ RingOK(rx.ring) /\ RxChosen
  BY DEF RxInv
<1>3. /\ rx' = [state |-> "RX_IDLE", shift |-> rx.shift, bits |-> rx.bits,
                deadline |-> rx.deadline,
                ring |-> IF pin.rx # 0 /\ rx.ring.count < SZ THEN Put(rx.ring, rx.shift)
                         ELSE rx.ring,
                errors |-> IF pin.rx # 0 /\ rx.ring.count < SZ THEN rx.errors
                           ELSE rx.errors + 1]
      /\ ccp' = [tx |-> ccp.tx, rx |-> [mode |-> "CAPTURE", value |-> ccp.rx.value,
                                        due |-> FALSE, late |-> 0]]
      /\ UNCHANGED <<use, timer, tx, main, pin, peer, written, heard, sent, got>>
  BY RxStopDoes
<1>4. /\ rx'.state = "RX_IDLE" /\ ccp'.rx.mode = "CAPTURE" /\ ~ccp'.rx.due /\ pin'.rx = pin.rx
      /\ peer' = peer /\ sent' = sent /\ got' = got
      /\ IF pin.rx # 0 /\ rx.ring.count < SZ
         THEN rx'.ring = Put(rx.ring, rx.shift) /\ rx'.errors = rx.errors
         ELSE rx'.ring = rx.ring /\ rx'.errors = rx.errors + 1
  BY <1>3
<1>5. /\ cur.kind \in {"byte", "bad"} /\ 9 * Bit <= Since /\ RxBusy
      /\ rx.shift = cur.byte /\ cur.byte \in 0 .. 255 /\ (pin.rx # 0 => cur.kind = "byte")
  BY <1>1, <1>2, RxStopSample
<1>6. ~RxBusy' /\ RxClock'
  BY <1>4 DEF RxBusy, RxClock
<1>7. RxLine(NoWave, next)'
  BY <1>1, <1>2, <1>4, <1>5, <1>6, LineEnds
<1>8. NoWave \in Waves /\ Counts(NoWave) = 0 /\ Counts(cur) = 1 /\ Counts(next) \in {0, 1}
      /\ RxShift(NoWave)'
  BY <1>4, <1>5 DEF NoWave, Waves, Kinds, Counts, RxShift
<1> DEFINE n == Len(Delivered)
           e == rx.errors
           c == Counts(next)
           l == Len(sent)
<1>9. n \in Nat /\ e \in Nat /\ c \in Nat /\ l \in Nat
  BY <1>2, <1>8, DeliveredShape, RxFacts, LenProperties
<1>10. /\ n + e + 1 + c = l /\ (c = 1 => sent[l] = Says(next))
       /\ sent[l - c] = Says(cur)
  BY <1>1, <1>8 DEF RxCounts
<1>11. SUFFICES RingOK(rx'.ring) /\ RxChosen' /\ Len(Delivered') + rx'.errors = n + e + 1
  <2>1. RxCounts(NoWave, next)'
    <3>1. Len(Delivered') + rx'.errors + 0 + c = l
      <4> DEFINE d == Len(Delivered') + rx'.errors
      <4>1. d = n + e + 1
        BY <1>11
      <4> HIDE DEF n, e, c, l, d
      <4>2. d + 0 + c = l
        BY <1>9, <1>10, <4>1
      <4>3. QED
        BY <4>2 DEF d
    <3>2. c = 1 => sent'[Len(sent')] = Says(next)
      BY <1>4, <1>10
    <3>3. QED
      BY <1>4, <1>8, <3>1, <3>2 DEF RxCounts
  <2>2. QED
    BY <1>1, <1>6, <1>7, <1>8, <1>11, <2>1 DEF RxInv
<1>12. CASE pin.rx # 0 /\ rx.ring.count < SZ
  <2>1. /\ rx'.ring = Put(rx.ring, rx.shift) /\ rx'.errors = rx.errors
        /\ cur.kind = "byte" /\ rx.shift \in 0 .. 255
    BY <1>4, <1>5, <1>12
  <2>2. /\ RingOK(rx'.ring) /\ rx'.ring.count = rx.ring.count + 1
        /\ \A i \in 1 .. rx.ring.count : Content(rx'.ring)[i] = Content(rx.ring)[i]
        /\ Content(rx'.ring)[rx.ring.count + 1] = rx.shift
    <3> DEFINE r == rx.ring
               b == rx.shift
    <3>1. RingOK(r) /\ r.count < SZ /\ b \in 0 .. 255 /\ rx'.ring = Put(r, b)
      BY <1>2, <1>12, <2>1
    <3> HIDE DEF r, b
    <3>2. /\ RingOK(Put(r, b)) /\ Put(r, b).count = r.count + 1
          /\ \A i \in 1 .. r.count : Content(Put(r, b))[i] = Content(r)[i]
          /\ Content(Put(r, b))[r.count + 1] = b
      BY <3>1, PutKeeps
    <3>3. QED
      BY <3>1, <3>2 DEF r, b
  <2>3. /\ Len(got) \in Nat /\ rx.ring.count \in Nat /\ n = Len(got) + rx.ring.count
        /\ \A i \in 1 .. Len(got) : Delivered[i] = got[i]
        /\ \A i \in 1 .. rx.ring.count : Delivered[Len(got) + i] = Content(rx.ring)[i]
    BY <1>2, DeliveredShape
  <2>4. /\ Len(Delivered') = Len(got') + rx'.ring.count
        /\ \A i \in 1 .. Len(got') : Delivered'[i] = got'[i]
        /\ \A i \in 1 .. rx'.ring.count : Delivered'[Len(got') + i] = Content(rx'.ring)[i]
    BY <2>2, DeliveredNext
  <2> DEFINE g == Len(got)
             k == rx.ring.count
             D == Delivered
             E == Delivered'
             X == Content(rx.ring)
             Y == Content(rx'.ring)
  <2>5. /\ g \in Nat /\ k \in Nat /\ n = g + k
        /\ \A i \in 1 .. g : D[i] = got[i]
        /\ \A i \in 1 .. k : D[g + i] = X[i]
    BY <2>3
  <2>6. /\ Len(E) = g + (k + 1)
        /\ \A i \in 1 .. g : E[i] = got[i]
        /\ \A i \in 1 .. k + 1 : E[g + i] = Y[i]
    BY <1>4, <2>2, <2>4
  <2>7. Y[k + 1] = rx.shift /\ \A i \in 1 .. k : Y[i] = X[i]
    BY <2>2
  <2> HIDE DEF g, k, D, E, X, Y, n
  <2>8. Len(E) = n + 1 /\ E[n + 1] = rx.shift
    <3>1. k + 1 \in 1 .. k + 1 /\ g + (k + 1) = n + 1
      BY <2>5
    <3>2. QED
      BY <2>6, <2>7, <3>1
  <2>9. ASSUME NEW i \in 1 .. n PROVE E[i] = D[i]
    <3>1. CASE i <= g
      <4>1. i \in 1 .. g
        BY <2>5, <3>1
      <4>2. QED
        BY <2>5, <2>6, <4>1
    <3>2. CASE g < i
      <4>1. i - g \in 1 .. k /\ i - g \in 1 .. k + 1 /\ g + (i - g) = i
        BY <2>5, <3>2
      <4>2. E[i] = Y[i - g] /\ D[i] = X[i - g]
        BY <2>5, <2>6, <4>1
      <4>3. QED
        BY <2>7, <4>1, <4>2
    <3>3. QED
      BY <2>5, <3>1, <3>2
  <2>10. sent[n + e + 1] = rx.shift /\ rx.shift # Bad
    <3>1. l - c = n + e + 1
      <4> HIDE DEF e, c, l
      <4>1. QED
        BY <1>9, <1>10
    <3>2. Says(cur) = rx.shift
      BY <1>5, <2>1 DEF Says
    <3>3. rx.shift # Bad
      BY <2>1 DEF Bad
    <3>4. QED
      BY <1>10, <3>1, <3>2, <3>3
  <2>11. RxChosen'
    BY <1>2, <1>4, <1>9, <2>1, <2>8, <2>9, <2>10, ChosenMore DEF n, D, E
  <2>12. Len(E) + rx'.errors = n + e + 1
    <3>1. (n + 1) + e = n + e + 1
      BY <1>9
    <3>2. QED
      BY <2>1, <2>8, <3>1
  <2>13. QED
    BY <2>2, <2>11, <2>12 DEF E
<1>13. CASE ~(pin.rx # 0 /\ rx.ring.count < SZ)
  <2>1. rx'.ring = rx.ring /\ rx'.errors = e + 1 /\ Delivered' = Delivered
    BY <1>4, <1>13 DEF Delivered
  <2>2. e <= e + 1 /\ e + 1 \in Nat /\ n + (e + 1) = n + e + 1
    BY <1>9
  <2>3. RxChosen'
    BY <1>2, <1>4, <1>9, <2>1, <2>2, ChosenKept
  <2>4. QED
    BY <1>2, <2>1, <2>2, <2>3
<1>14. QED
  BY <1>12, <1>13
-----------------------------------------------------------------------------
\* What EPIC_SWUART_Read returns leaves the ring: what was delivered stays.
LEMMA ReadKeeps ==
  ASSUME SwTyped, SwTyped', RxInv, Read
  PROVE  RxInv'
<1>1. PICK cur \in Waves, next \in Waves :
         RxLine(cur, next) /\ RxShift(cur) /\ RxCounts(cur, next)
  BY DEF RxInv
<1>2. RxClock /\ RingOK(rx.ring) /\ RxChosen
  BY DEF RxInv
<1>3. /\ rx.ring.count > 0
      /\ rx' = [state |-> rx.state, shift |-> rx.shift, bits |-> rx.bits,
                deadline |-> rx.deadline, ring |-> Drop(rx.ring), errors |-> rx.errors]
      /\ got' = Append(got, rx.ring.buf[rx.ring.tail])
      /\ UNCHANGED <<use, timer, tx, ccp, main, pin, peer, written, heard, sent>>
  BY ReadDoes
<1>4. /\ rx'.state = rx.state /\ rx'.shift = rx.shift /\ rx'.bits = rx.bits
      /\ rx'.deadline = rx.deadline /\ rx'.ring = Drop(rx.ring) /\ rx'.errors = rx.errors
      /\ UNCHANGED <<timer, ccp, pin, peer, sent>>
  BY <1>3
<1>5. /\ (RxBusy <=> RxBusy') /\ Since' = Since /\ (Calm <=> Calm')
  BY <1>4 DEF RxBusy, Since, RxSlot, RxAhead, Calm
<1>6. RxClock'
  BY <1>2, <1>4 DEF RxClock, RxAhead
<1>7. RxLine(cur, next)' /\ RxShift(cur)'
  BY <1>1, <1>4, <1>5 DEF RxLine, RxShift
<1>8. /\ RingOK(rx'.ring) /\ rx'.ring.count = rx.ring.count - 1
      /\ rx.ring.buf[rx.ring.tail] = Content(rx.ring)[1]
      /\ \A i \in 1 .. rx.ring.count - 1 : Content(rx'.ring)[i] = Content(rx.ring)[i + 1]
  <2> DEFINE r == rx.ring
  <2>1. RingOK(r) /\ r.count > 0 /\ rx'.ring = Drop(r)
    BY <1>2, <1>3, <1>4
  <2> HIDE DEF r
  <2>2. /\ RingOK(Drop(r)) /\ Drop(r).count = r.count - 1 /\ r.buf[r.tail] = Content(r)[1]
        /\ \A i \in 1 .. r.count - 1 : Content(Drop(r))[i] = Content(r)[i + 1]
    BY <2>1, TakeKeeps
  <2>3. QED
    BY <2>1, <2>2 DEF r
<1>9. got \in Seq(0 .. 255) /\ rx.ring.buf[rx.ring.tail] \in 0 .. 255
  BY RxFacts, TypedParts, RingFields
<1> DEFINE g == Len(got)
           k == rx.ring.count
           D == Delivered
           E == Delivered'
           X == Content(rx.ring)
           Y == Content(rx'.ring)
           b == rx.ring.buf[rx.ring.tail]
<1>10. /\ Len(got') = g + 1 /\ got'[g + 1] = b /\ \A i \in 1 .. g : got'[i] = got[i]
  <2> HIDE DEF b
  <2>1. got \in Seq(0 .. 255) /\ b \in 0 .. 255
    BY <1>9 DEF b
  <2>2. got' = Append(got, b)
    BY <1>3 DEF b
  <2>3. /\ Len(Append(got, b)) = Len(got) + 1
        /\ \A i \in 1 .. Len(got) : Append(got, b)[i] = got[i]
        /\ Append(got, b)[Len(got) + 1] = b
    BY <2>1, AppendProperties
  <2>4. QED
    BY <2>2, <2>3
<1>11. /\ g \in Nat /\ k \in Nat /\ Len(D) = g + k /\ D \in Seq(0 .. 255)
       /\ \A i \in 1 .. g : D[i] = got[i]
       /\ \A i \in 1 .. k : D[g + i] = X[i]
  BY <1>2, DeliveredShape
<1>12. /\ Len(E) = Len(got') + rx'.ring.count /\ E \in Seq(0 .. 255)
       /\ \A i \in 1 .. Len(got') : E[i] = got'[i]
       /\ \A i \in 1 .. rx'.ring.count : E[Len(got') + i] = Y[i]
  BY <1>8, DeliveredNext
<1>13. Len(got') = g + 1 /\ rx'.ring.count = k - 1 /\ k > 0 /\ b = X[1]
       /\ \A i \in 1 .. k - 1 : Y[i] = X[i + 1]
  BY <1>3, <1>8, <1>10
<1> HIDE DEF g, k, D, E, X, Y, b
<1>14. Len(E) = Len(D)
  BY <1>11, <1>12, <1>13
<1>15. ASSUME NEW i \in 1 .. Len(D) PROVE E[i] = D[i]
  <2>1. CASE i <= g
    <3>1. i \in 1 .. g /\ i \in 1 .. Len(got')
      BY <1>11, <1>13, <2>1
    <3>2. QED
      BY <1>10, <1>11, <1>12, <3>1
  <2>2. CASE i = g + 1
    <3>1. i \in 1 .. Len(got') /\ 1 \in 1 .. k
      BY <1>11, <1>13, <2>2
    <3>2. QED
      BY <1>10, <1>11, <1>12, <1>13, <2>2, <3>1
  <2>3. CASE i > g + 1
    <3> DEFINE j == i - (g + 1)
    <3>1. j \in 1 .. k - 1 /\ i = (g + 1) + j /\ i = g + (j + 1) /\ j + 1 \in 1 .. k
      BY <1>11, <1>13, <2>3
    <3> HIDE DEF j
    <3>2. E[(g + 1) + j] = Y[j]
      BY <1>12, <1>13, <3>1
    <3>3. D[g + (j + 1)] = X[j + 1]
      BY <1>11, <3>1
    <3>4. QED
      BY <1>13, <3>1, <3>2, <3>3
  <2>4. QED
    BY <1>11, <2>1, <2>2, <2>3
<1>16. E = D
  BY <1>11, <1>12, <1>14, <1>15, SeqEqual
<1>17. Delivered' = Delivered /\ Len(Delivered) \in Nat /\ rx.errors \in Nat /\ rx'.errors \in Nat
       /\ rx.errors <= rx'.errors
  BY <1>2, <1>4, <1>16, DeliveredShape, RxFacts DEF E, D
<1>18. RxChosen'
  BY <1>2, <1>4, <1>17, ChosenKept
<1>19. RxCounts(cur, next)'
  BY <1>1, <1>4, <1>17 DEF RxCounts
<1>20. QED
  BY <1>6, <1>7, <1>8, <1>18, <1>19 DEF RxInv
-----------------------------------------------------------------------------
\* The peer starts a frame, or a spike, when it has none on the line.
LEMMA PeerWaits ==
  ASSUME SwTyped, RxInTime, RxClock, NEW cur \in Waves, NEW next \in Waves, RxLine(cur, next),
         peer.frame = <<>>
  PROVE  /\ next.kind = "none" /\ pin.rx = 1
         /\ RxBusy => Since + 1 = Length(cur)
<1>1. next.kind = "none"
  <2> SUFFICES ASSUME next.kind # "none" PROVE FALSE
    OBVIOUS
  <2>1. Levels(next) = <<>>
    BY DEF RxLine
  <2>2. Levels(next) = <<>> => Len(Levels(next)) = 0
    OBVIOUS
  <2>3. Length(next) = 0
    BY <2>1, <2>2, WaveShape
  <2>4. Length(next) >= Bit /\ Bit \in Nat \ {0, 1}
    BY WaveEnds, Constants
  <2> DEFINE n == Length(next)
  <2>5. n = 0 /\ n >= Bit /\ Bit \in Nat \ {0, 1}
    BY <2>3, <2>4
  <2> HIDE DEF n
  <2>6. QED
    BY <2>5
<1>2. ASSUME RxBusy PROVE Since + 1 = Length(cur) /\ pin.rx = 1
  <2> DEFINE n == Length(cur)
             s == Since
  <2>1. s \in Int /\ n \in Nat /\ cur.kind # "none" /\ pin.rx = Levels(cur)[s + 1]
    BY <1>2, SinceIs, WaveShape DEF RxLine
  <2>2. Len(peer.frame) = n - (s + 1) /\ Len(peer.frame) = 0
    BY <1>1, <1>2 DEF RxLine
  <2>3. Levels(cur)[n] = 1
    BY <2>1, WaveEnds
  <2> HIDE DEF n, s
  <2>4. s + 1 = n
    BY <2>1, <2>2
  <2>5. QED
    BY <2>1, <2>3, <2>4 DEF n, s
<1>3. ASSUME ~RxBusy PROVE pin.rx = 1
  BY <1>1, <1>3 DEF RxLine, Calm
<1>4. QED
  BY <1>1, <1>2, <1>3

LEMMA PeerSendsKeeps ==
  ASSUME SwTyped, SwTyped', RxInTime, RxInv, NEW f \in Waves, f.kind # "none", NEW what,
         PeerSends(Levels(f), what),
         \/ Counts(f) = 1 /\ what = <<Says(f)>> /\ Says(f) \in -1 .. 255
         \/ Counts(f) = 0 /\ what = <<>>
  PROVE  RxInv'
<1>1. PICK cur \in Waves, next \in Waves :
         RxLine(cur, next) /\ RxShift(cur) /\ RxCounts(cur, next)
  BY DEF RxInv
<1>2. RxClock /\ RingOK(rx.ring) /\ RxChosen
  BY DEF RxInv
<1>3. /\ peer.frame = <<>> /\ sent' = sent \o what
      /\ peer' = [age |-> peer.age, bits |-> peer.bits, frame |-> Levels(f), quiet |-> 0]
      /\ UNCHANGED <<use, timer, tx, rx, ccp, main, pin, written, heard, got>>
  BY PeerSendsDoes
<1>4. peer'.frame = Levels(f) /\ peer'.quiet = 0 /\ UNCHANGED <<timer, rx, ccp, pin, got>>
  BY <1>3
<1>5. next.kind = "none" /\ pin.rx = 1 /\ (RxBusy => Since + 1 = Length(cur))
  BY <1>1, <1>2, <1>3, PeerWaits
<1>6. (RxBusy <=> RxBusy') /\ Since' = Since /\ RxClock' /\ Delivered' = Delivered
  BY <1>2, <1>4 DEF RxBusy, Since, RxSlot, RxAhead, RxClock, Delivered
<1>7. RxLine(cur, f)' /\ RxShift(cur)'
  BY <1>1, <1>4, <1>5, <1>6 DEF RxLine, RxShift
<1> DEFINE n == Len(Delivered)
           e == rx.errors
           l == Len(sent)
           c == Counts(cur)
           d == Counts(f)
<1>8. n \in Nat /\ e \in Nat /\ l \in Nat /\ c \in {0, 1} /\ d \in {0, 1} /\ sent \in Seq(-1 .. 255)
  BY <1>2, DeliveredShape, RxFacts, LenProperties DEF Counts
<1>9. n + e + c + 0 = l /\ (c = 1 => sent[l - 0] = Says(cur))
  <2>1. Counts(next) = 0
    BY <1>5 DEF Counts
  <2>2. QED
    BY <1>1, <2>1 DEF RxCounts
<1>10. /\ Len(sent') = l + d /\ \A i \in 1 .. l : sent'[i] = sent[i]
       /\ d = 1 => sent'[l + 1] = Says(f)
  <2>1. CASE d = 1
    <3> DEFINE x == Says(f)
    <3>0. what = <<x>> /\ x \in -1 .. 255
      <4>1. ~(d = 0)
        BY <2>1
      <4>2. QED
        BY <4>1
    <3>1. sent' = sent \o <<x>> /\ x \in -1 .. 255
      <4> HIDE DEF x
      <4>1. QED
        BY <1>3, <3>0
    <3> HIDE DEF x
    <3>2. sent' = Append(sent, x)
      BY <1>8, <3>1
    <3>3. /\ Len(Append(sent, x)) = Len(sent) + 1
          /\ \A i \in 1 .. Len(sent) : Append(sent, x)[i] = sent[i]
          /\ Append(sent, x)[Len(sent) + 1] = x
      BY <1>8, <3>1, AppendProperties
    <3>4. QED
      BY <2>1, <3>2, <3>3 DEF x
  <2>2. CASE d = 0
    <3>0. what = <<>>
      <4>1. ~(d = 1)
        BY <2>2
      <4>2. QED
        BY <4>1
    <3>1. sent' = sent \o <<>>
      BY <1>3, <3>0
    <3>2. sent' = sent
      BY <1>8, <3>1
    <3>3. l + d = l
      BY <1>8, <2>2
    <3>4. QED
      BY <2>2, <3>2, <3>3
  <2>3. QED
    BY <1>8, <2>1, <2>2
<1> HIDE DEF n, e, l, c, d
<1>11. n + e <= l /\ n + e + c + d = l + d /\ (l + d) - d = l /\ l - 0 = l
       /\ (c = 1 => l \in 1 .. l) /\ (d = 1 => l + d = l + 1)
  BY <1>8, <1>9
<1>12. RxChosen'
  <2>1. ASSUME NEW i \in 1 .. n + e PROVE sent'[i] = sent[i]
    <3>1. i \in 1 .. l
      BY <1>8, <1>11
    <3>2. QED
      BY <1>10, <3>1
  <2>2. rx'.errors = rx.errors /\ rx.errors \in Nat /\ Len(Delivered) \in Nat
        /\ rx.errors <= rx'.errors
    BY <1>4, <1>8 DEF e, n
  <2>3. \A i \in 1 .. Len(Delivered) + rx.errors : sent'[i] = sent[i]
    BY <2>1 DEF n, e
  <2>4. QED
    BY <1>2, <1>6, <2>2, <2>3, ChosenKept
<1>13. RxCounts(cur, f)'
  <2>1. Len(Delivered') + rx'.errors + c + d = Len(sent')
    BY <1>4, <1>6, <1>10, <1>11 DEF n, e
  <2>2. d = 1 => sent'[Len(sent')] = Says(f)
    BY <1>10, <1>11
  <2>3. c = 1 => sent'[Len(sent') - d] = Says(cur)
    BY <1>9, <1>10, <1>11
  <2>4. QED
    BY <2>1, <2>2, <2>3 DEF RxCounts, c, d
<1>14. RingOK(rx'.ring)
  BY <1>2, <1>4
<1>15. QED
  BY <1>1, <1>6, <1>7, <1>12, <1>13, <1>14 DEF RxInv

LEMMA PeerKeepsRx ==
  ASSUME SwTyped, SwTyped', RxInTime, RxInv, Peer
  PROVE  RxInv'
<1>1. ASSUME NEW b \in Values, PeerSendsByte(b) PROVE RxInv'
  <2> DEFINE f == [kind |-> "byte", byte |-> b]
  <2>1. b \in 0 .. 255
    BY Constants
  <2>2. f \in Waves /\ f.kind # "none" /\ Counts(f) = 1 /\ Says(f) = b
        /\ Levels(f) = Frame(b, 1)
    BY <2>1 DEF Waves, Kinds, Counts, Says, Levels
  <2>3. PeerSends(Frame(b, 1), <<b>>)
    BY <1>1 DEF PeerSendsByte
  <2>4. Says(f) \in -1 .. 255
    BY <2>1, <2>2
  <2> HIDE DEF f
  <2>5. PeerSends(Levels(f), <<Says(f)>>)
    BY <2>2, <2>3
  <2>6. QED
    BY <2>2, <2>4, <2>5, PeerSendsKeeps
<1>2. ASSUME NEW b \in Values, PeerSends(BadStop(b), <<Bad>>) PROVE RxInv'
  <2> DEFINE f == [kind |-> "bad", byte |-> b]
  <2>1. b \in 0 .. 255
    BY Constants
  <2>2. f \in Waves /\ f.kind # "none" /\ Counts(f) = 1 /\ Says(f) = Bad
        /\ Levels(f) = BadStop(b)
    BY <2>1 DEF Waves, Kinds, Counts, Says, Levels
  <2>3. Says(f) \in -1 .. 255
    BY <2>2 DEF Bad
  <2> HIDE DEF f
  <2>4. PeerSends(Levels(f), <<Says(f)>>)
    BY <1>2, <2>2
  <2>5. QED
    BY <2>2, <2>3, <2>4, PeerSendsKeeps
<1>3. ASSUME PeerSends(Noise, <<>>) PROVE RxInv'
  <2> DEFINE f == [kind |-> "noise", byte |-> 0]
  <2>1. f \in Waves /\ f.kind # "none" /\ Counts(f) = 0 /\ Levels(f) = Noise
    BY DEF Waves, Kinds, Counts, Levels
  <2> HIDE DEF f
  <2>2. PeerSends(Levels(f), <<>>)
    BY <1>3, <2>1
  <2>3. QED
    BY <2>1, <2>2, PeerSendsKeeps
<1>4. QED
  BY <1>1, <1>2, <1>3 DEF Peer, PeerSendsBadStop, PeerSpike
-----------------------------------------------------------------------------
\* The transmitting half leaves the receiver alone.
LEMMA RxUntouched ==
  ASSUME UNCHANGED <<use, timer, rx, sent, got>>, ccp'.rx = ccp.rx, pin'.rx = pin.rx,
         peer' = peer
  PROVE  (RxInv => RxInv') /\ (NoRx => NoRx')
<1>1. /\ (RxBusy <=> RxBusy') /\ Since' = Since /\ (Calm <=> Calm')
  BY DEF RxBusy, Since, RxSlot, RxAhead, Calm
<1>2. RxClock => RxClock'
  BY DEF RxClock, RxAhead
<1>3. ASSUME NEW cur, NEW next, RxLine(cur, next), RxShift(cur)
      PROVE  RxLine(cur, next)' /\ RxShift(cur)'
  BY <1>1, <1>3 DEF RxLine, RxShift
<1>4. /\ RingOK(rx.ring) => RingOK(rx'.ring)
      /\ RxChosen => RxChosen'
      /\ \A cur, next : RxCounts(cur, next) => RxCounts(cur, next)'
  <2>1. rx'.ring = rx.ring /\ rx'.errors = rx.errors /\ got' = got /\ sent' = sent
    OBVIOUS
  <2>2. QED
    BY <2>1, CountsSame
<1>5. ASSUME RxInv PROVE RxInv'
  <2>1. PICK cur \in Waves, next \in Waves :
           RxLine(cur, next) /\ RxShift(cur) /\ RxCounts(cur, next)
    BY <1>5 DEF RxInv
  <2>2. RxClock' /\ RxChosen' /\ RingOK(rx'.ring)
    BY <1>2, <1>4, <1>5 DEF RxInv
  <2>3. RxLine(cur, next)' /\ RxShift(cur)' /\ RxCounts(cur, next)'
    BY <1>3, <1>4, <2>1
  <2>4. QED
    BY <2>2, <2>3 DEF RxInv
<1>6. NoRx => NoRx'
  BY DEF NoRx
<1>7. QED
  BY <1>5, <1>6

LEMMA TxHalfKeepsRx ==
  ASSUME SwTyped, Write \/ Main \/ TxHandler \/ UNCHANGED vars
  PROVE  /\ UNCHANGED <<use, timer, rx, sent, got>> /\ ccp'.rx = ccp.rx /\ pin'.rx = pin.rx
         /\ peer' = peer
<1>1. CASE Write
  <2>1. ASSUME NEW n \in 1 .. SZ + 1, BeginWrite(n)
        PROVE  UNCHANGED <<use, timer, rx, sent, got, ccp, pin, peer>>
    BY <2>1 DEF BeginWrite
  <2>2. ASSUME NEW b \in Values, Push(b)
        PROVE  UNCHANGED <<use, timer, rx, sent, got, ccp, pin, peer>>
    BY <2>2 DEF Push
  <2>3. UNCHANGED <<use, timer, rx, sent, got, ccp, pin, peer>>
    BY <1>1, <2>1, <2>2 DEF Write
  <2>4. QED
    BY <2>3
<1>2. CASE Main
  <2>1. CASE TestIdle
    BY <2>1 DEF TestIdle
  <2>2. CASE Pop
    BY <2>2 DEF Pop
  <2>3. CASE ReadTimer
    BY <2>3 DEF ReadTimer
  <2>4. CASE ArmStart
    <3>1. /\ ccp' = [tx |-> [mode |-> "CLEAR", value |-> tx.deadline, due |-> ccp.tx.due,
                             late |-> ccp.tx.late], rx |-> ccp.rx]
          /\ UNCHANGED <<use, timer, rx, pin, peer, sent, got>>
      BY <2>4, ArmStartDoes
    <3>2. QED
      BY <3>1
  <2>5. QED
    BY <1>2, <2>1, <2>2, <2>3, <2>4 DEF Main
<1>3. CASE TxHandler
  <2>1. CASE TxOff
    <3>1. /\ ccp' = [tx |-> [mode |-> "OFF", value |-> ccp.tx.value, due |-> FALSE, late |-> 0],
                     rx |-> ccp.rx]
          /\ pin' = [tx |-> 1, rx |-> pin.rx]
          /\ UNCHANGED <<use, timer, rx, peer, sent, got>>
      BY <2>1, TxOffDoes
    <3>2. QED
      BY <3>1
  <2>2. CASE TxNext
    <3>1. /\ ccp' = [tx |-> [mode |-> "CLEAR", value |-> After(tx.deadline, Bit), due |-> FALSE,
                             late |-> 0], rx |-> ccp.rx]
          /\ UNCHANGED <<use, timer, rx, pin, peer, sent, got>>
      BY <2>2, TxNextDoes
    <3>2. QED
      BY <3>1
  <2>3. CASE TxBit
    <3>1. /\ ccp' = [tx |-> [mode |-> Level(tx.shift % 2), value |-> After(tx.deadline, Bit),
                             due |-> FALSE, late |-> 0], rx |-> ccp.rx]
          /\ UNCHANGED <<use, timer, rx, pin, peer, sent, got>>
      BY <2>3, TxBitDoes
    <3>2. QED
      BY <3>1
  <2>4. CASE TxStop
    <3>1. /\ ccp' = [tx |-> [mode |-> "SET", value |-> After(tx.deadline, Bit),
                             due |-> FALSE, late |-> 0], rx |-> ccp.rx]
          /\ UNCHANGED <<use, timer, rx, pin, peer, sent, got>>
      BY <2>4, TxStopDoes
    <3>2. QED
      BY <3>1
  <2>5. QED
    BY <1>3, <2>1, <2>2, <2>3, <2>4 DEF TxHandler
<1>4. CASE UNCHANGED vars
  BY <1>4 DEF vars
<1>5. QED
  BY <1>1, <1>2, <1>3, <1>4

\* In the other uses no step brings anything in.
LEMMA TickKeepsNoRx ==
  ASSUME SwTyped, use # "rx", NoRx, Tick
  PROVE  NoRx'
<1>1. Receives(TxLevel) /\ TxLevel \in {0, 1}
  BY TickDoes, LevelsTyped
<1>2. peer'.frame = peer.frame
  <2>1. CASE peer.age = -1
    <3>1. peer' = IF TxLevel = 0
                  THEN [age |-> 0, bits |-> peer.bits, frame |-> peer.frame, quiet |-> 0]
                  ELSE [age |-> peer.age, bits |-> peer.bits, frame |-> peer.frame,
                        quiet |-> Quieter]
      BY <1>1, <2>1, ReceivesDoes
    <3>2. QED
      BY <3>1
  <2>2. CASE peer.age # -1
    <3>1. \/ peer' = [age |-> peer.age + 1, bits |-> Sampled(TxLevel), frame |-> peer.frame,
                      quiet |-> peer.quiet]
          \/ peer' = [age |-> -1, bits |-> <<>>, frame |-> peer.frame, quiet |-> peer.quiet]
      BY <1>1, <2>2, ReceivesDoes
    <3>2. QED
      BY <3>1
  <2>3. QED
    BY <2>1, <2>2
<1>3. RxLevel = 1 /\ ~Captured /\ ~Event(ccp.rx, Now)
  BY DEF NoRx, RxLevel, Captured, Event
<1>4. /\ pin' = [tx |-> TxLevel, rx |-> RxLevel]
      /\ ccp' = [tx |-> [mode |-> ccp.tx.mode, value |-> ccp.tx.value,
                         due |-> (ccp.tx.due \/ Event(ccp.tx, Now)),
                         late |-> IF ccp.tx.due THEN ccp.tx.late + 1 ELSE 0],
                 rx |-> [mode |-> ccp.rx.mode,
                         value |-> IF Captured THEN Now ELSE ccp.rx.value,
                         due |-> (ccp.rx.due \/ Event(ccp.rx, Now) \/ Captured),
                         late |-> IF ccp.rx.due THEN ccp.rx.late + 1 ELSE 0]]
      /\ UNCHANGED <<use, tx, rx, written, sent, got>>
  BY TickDoes
<1> DEFINE o == ccp.rx.due \/ Event(ccp.rx, Now) \/ Captured
<1>5. pin'.rx = RxLevel /\ ccp'.rx.mode = ccp.rx.mode /\ ccp'.rx.due = o
  <2> HIDE DEF o
  <2>1. ccp'.rx = [mode |-> ccp.rx.mode, value |-> IF Captured THEN Now ELSE ccp.rx.value,
                   due |-> o, late |-> IF ccp.rx.due THEN ccp.rx.late + 1 ELSE 0]
    BY <1>4 DEF o
  <2>2. QED
    BY <1>4, <2>1
<1>6. ~o
  BY <1>3 DEF NoRx
<1> HIDE DEF o
<1>7. ~ccp'.rx.due
  BY <1>5, <1>6
<1>8. QED
  BY <1>2, <1>3, <1>4, <1>5, <1>7 DEF NoRx
-----------------------------------------------------------------------------
\* Nothing delivered is a choice from any frames.
LEMMA NoneChosen ==
  \A D, s : \E at \in [1 .. 0 -> 1 .. 0] :
    /\ \A i \in 1 .. 0 : D[i] = s[at[i]] /\ s[at[i]] # Bad
    /\ \A i, j \in 1 .. 0 : i < j => at[i] < at[j]
<1> DEFINE f == [i \in 1 .. 0 |-> i]
<1>1. f \in [1 .. 0 -> 1 .. 0]
  OBVIOUS
<1>2. \A i : i \notin 1 .. 0
  OBVIOUS
<1> HIDE DEF f
<1>3. QED
  BY <1>1, <1>2

LEMMA RxInit ==
  ASSUME Init
  PROVE  RxPart
<1>1. /\ rx.state = "RX_IDLE" /\ rx.ring = EmptyRing /\ rx.errors = 0
      /\ ccp.rx.mode = "CAPTURE" /\ ~ccp.rx.due /\ pin.rx = 1
      /\ peer.frame = <<>> /\ sent = <<>> /\ got = <<>>
  BY DEF Init
<1>2. RingOK(EmptyRing) /\ EmptyRing \in Rings /\ EmptyRing.count = 0
  <2>1. EmptyRing \in Rings /\ EmptyRing.count = 0 /\ EmptyRing.head = 0 /\ EmptyRing.tail = 0
    BY Constants DEF EmptyRing, Rings
  <2>2. (0 + 0) % SZ = 0 /\ 0 <= SZ
    BY Constants
  <2>3. QED
    BY <2>1, <2>2 DEF RingOK
<1>3. NoRx
  BY <1>1, <1>2 DEF NoRx
<1>4. RxInv
  <2>1. Len(Delivered) = 0
    <3>1. SwTyped /\ RingOK(rx.ring)
      BY <1>1, <1>2, InitTyped
    <3>2. Len(Delivered) = Len(got) + rx.ring.count /\ Len(got) \in Nat
      BY <3>1, DeliveredShape
    <3>3. Len(got) = 0 /\ rx.ring.count = 0
      BY <1>1, <1>2
    <3>4. QED
      BY <3>2, <3>3
  <2>2. ~RxBusy /\ RxClock
    BY <1>1 DEF RxBusy, RxClock
  <2>3. Calm
    BY <1>1 DEF Calm
  <2>4. NoWave \in Waves /\ NoWave.kind = "none" /\ Counts(NoWave) = 0
    BY DEF NoWave, Waves, Kinds, Counts
  <2>5. RxLine(NoWave, NoWave) /\ RxShift(NoWave)
    BY <1>1, <2>2, <2>3, <2>4 DEF RxLine, RxShift
  <2>6. RxCounts(NoWave, NoWave)
    <3>1. Len(sent) = 0
      BY <1>1
    <3>2. QED
      BY <1>1, <2>1, <2>4, <3>1 DEF RxCounts
  <2>7. RxChosen
    <3>1. \E at \in [1 .. 0 -> 1 .. 0] :
            /\ \A i \in 1 .. 0 : Delivered[i] = sent[at[i]] /\ sent[at[i]] # Bad
            /\ \A i, j \in 1 .. 0 : i < j => at[i] < at[j]
      BY NoneChosen
    <3>2. Len(Delivered) + rx.errors = 0
      BY <1>1, <2>1
    <3>3. QED
      BY <2>1, <3>1, <3>2 DEF RxChosen
  <2>8. QED
    BY <1>1, <1>2, <2>2, <2>4, <2>5, <2>6, <2>7 DEF RxInv
<1>5. QED
  BY <1>3, <1>4 DEF RxPart

LEMMA RxNext ==
  ASSUME RInv, SwTyped', RxInTime, [Next]_vars
  PROVE  RxPart'
<1>1. SwTyped /\ (use = "rx" => RxInv) /\ (use # "rx" => NoRx)
  BY DEF RInv, RxPart
<1>2. CASE Write \/ Main \/ TxHandler \/ UNCHANGED vars
  <2>1. /\ UNCHANGED <<use, timer, rx, sent, got>> /\ ccp'.rx = ccp.rx /\ pin'.rx = pin.rx
        /\ peer' = peer
    BY <1>1, <1>2, TxHalfKeepsRx
  <2>2. (RxInv => RxInv') /\ (NoRx => NoRx')
    BY <2>1, RxUntouched
  <2>3. QED
    BY <1>1, <2>1, <2>2 DEF RxPart
<1>3. CASE RxHandler
  <2>1. ccp.rx.due /\ use' = use
    BY <1>3 DEF RxHandler, RxEdge, RxConfirm, RxBit, RxStop, Handles
  <2>2. use = "rx"
    BY <1>1, <2>1 DEF NoRx
  <2>3. RxInv'
    BY <1>1, <1>3, <2>2, RxEdgeKeeps, RxConfirmKeeps, RxBitKeeps, RxStopKeeps DEF RxHandler
  <2>4. QED
    BY <2>1, <2>2, <2>3 DEF RxPart
<1>4. CASE Read
  <2>1. rx.ring.count > 0 /\ use' = use
    BY <1>4 DEF Read
  <2>2. rx.ring.count # 0
    BY <2>1
  <2>3. use = "rx"
    BY <1>1, <2>2 DEF NoRx
  <2>4. RxInv'
    BY <1>1, <1>4, <2>3, ReadKeeps
  <2>5. QED
    BY <2>1, <2>3, <2>4 DEF RxPart
<1>5. CASE Peer
  <2>1. use = "rx" /\ use' = use
    <3>1. \A levels, what : PeerSends(levels, what) => use = "rx" /\ use' = use
      BY DEF PeerSends
    <3>2. QED
      BY <1>5, <3>1 DEF Peer, PeerSendsByte, PeerSendsBadStop, PeerSpike
  <2>2. RxInv'
    BY <1>1, <1>5, <2>1, PeerKeepsRx
  <2>3. QED
    BY <2>1, <2>2 DEF RxPart
<1>6. CASE Tick
  <2>1. use' = use
    BY <1>1, <1>6, TickDoes
  <2>2. QED
    BY <1>1, <1>6, <2>1, TickKeepsRx, TickKeepsNoRx DEF RxPart
<1>7. QED
  BY <1>2, <1>3, <1>4, <1>5, <1>6 DEF Next

\* The frames delivered are frames sent; once the line has been quiet for a bit
\* time, the others were counted as errors.
LEMMA RxShows ==
  ASSUME RInv
  PROVE  RxFaithful
<1>1. SwTyped /\ (use = "rx" => RxInv) /\ (use # "rx" => NoRx)
  BY DEF RInv, RxPart
<1> DEFINE n == Len(Delivered)
           e == rx.errors
           l == Len(sent)
<1>2. RingOK(rx.ring)
  BY <1>1 DEF RxInv, NoRx
<1>3. n \in Nat /\ e \in Nat /\ l \in Nat /\ Delivered \in Seq(0 .. 255)
      /\ sent \in Seq(-1 .. 255)
  BY <1>1, <1>2, DeliveredShape, RxFacts, LenProperties
<1>4. DOMAIN Delivered = 1 .. n /\ DOMAIN sent = 1 .. l
  BY <1>3, LenProperties
<1>5. CASE use = "rx"
  <2>1. PICK cur \in Waves, next \in Waves : RxLine(cur, next) /\ RxCounts(cur, next)
    BY <1>1, <1>5 DEF RxInv
  <2> DEFINE c == Counts(cur)
             d == Counts(next)
  <2>2. n + e + c + d = l /\ c \in {0, 1} /\ d \in {0, 1}
    BY <2>1 DEF RxCounts, Counts
  <2>3. PICK at \in [1 .. n -> 1 .. n + e] :
          /\ \A i \in 1 .. n : Delivered[i] = sent[at[i]] /\ sent[at[i]] # Bad
          /\ \A i, j \in 1 .. n : i < j => at[i] < at[j]
    BY <1>1, <1>5 DEF RxInv, RxChosen
  <2>4. at \in [1 .. n -> 1 .. l]
    <3> HIDE DEF n, e, l, c, d
    <3>1. 1 .. n + e \subseteq 1 .. l
      BY <1>3, <2>2
    <3>2. QED
      BY <2>3, <3>1
  <2>5. at \in [DOMAIN Delivered -> DOMAIN sent]
    BY <1>4, <2>4
  <2>6. RxIsSent
    BY <1>4, <2>3, <2>5 DEF RxIsSent
  <2>7. ASSUME RxSettled PROVE n + e = l
    <3>1. peer.frame = <<>> /\ peer.quiet # 0
      BY <2>7, Constants DEF RxSettled
    <3>2. ~RxBusy
      BY <2>1, <3>1 DEF RxLine
    <3>3. cur.kind = "none"
      BY <2>1, <3>2 DEF RxLine
    <3>4. next.kind = "none"
      <4>1. next.kind # "none" => Levels(next) = <<>>
        BY <2>1, <3>1 DEF RxLine
      <4>2. Levels(next) = <<>> => Len(Levels(next)) = 0
        OBVIOUS
      <4>3. next.kind # "none" => Length(next) >= Bit /\ Length(next) \in Nat
        BY WaveEnds
      <4>4. Len(Levels(next)) = Length(next) /\ Bit \in Nat \ {0, 1}
        BY WaveShape, Constants
      <4> DEFINE k == Length(next)
      <4>5. next.kind # "none" => k = 0 /\ k >= Bit
        BY <4>1, <4>2, <4>3, <4>4
      <4> HIDE DEF k
      <4>6. QED
        BY <4>4, <4>5
    <3>5. c = 0 /\ d = 0
      BY <3>3, <3>4 DEF Counts
    <3> HIDE DEF n, e, l, c, d
    <3>6. QED
      BY <1>3, <2>2, <3>5
  <2>8. RxAccountedFor
    BY <2>7 DEF RxAccountedFor
  <2>9. QED
    BY <2>6, <2>8 DEF RxFaithful
<1>6. CASE use # "rx"
  <2>1. rx.ring.count = 0 /\ e = 0 /\ l = 0 /\ got = <<>> /\ sent = <<>>
    BY <1>1, <1>6 DEF NoRx
  <2>2. n = 0
    <3>1. n = Len(got) + rx.ring.count /\ Len(got) = 0
      BY <1>1, <1>2, <2>1, DeliveredShape
    <3>2. QED
      BY <2>1, <3>1
  <2>3. \E at \in [1 .. 0 -> 1 .. 0] :
          /\ \A i \in 1 .. 0 : Delivered[i] = sent[at[i]] /\ sent[at[i]] # Bad
          /\ \A i, j \in 1 .. 0 : i < j => at[i] < at[j]
    BY NoneChosen
  <2>4. DOMAIN Delivered = 1 .. 0 /\ DOMAIN sent = 1 .. 0
    BY <1>4, <2>1, <2>2
  <2>5. RxIsSent
    BY <2>3, <2>4 DEF RxIsSent
  <2>6. RxAccountedFor
    BY <2>1, <2>2 DEF RxAccountedFor
  <2>7. QED
    BY <2>5, <2>6 DEF RxFaithful
<1>7. QED
  BY <1>5, <1>6

\* With handlers that run within half a bit time of their event: what
\* EPIC_SWUART_Read returned and the ring holds are frames the peer sent, once
\* each and in order, and between frames every other frame is an error counted.
THEOREM ReceivedFaithfully == RxInTime => (Spec => []RxFaithful)
<1> SUFFICES ASSUME RxInTime PROVE Spec => []RxFaithful
  OBVIOUS
<1>1. Init => RInv
  BY InitTyped, RxInit DEF RInv
<1>2. RInv /\ [Next]_vars => RInv'
  <2> SUFFICES ASSUME RInv, [Next]_vars PROVE RInv'
    OBVIOUS
  <2>1. SwTyped'
    BY NextTyped DEF RInv
  <2>2. RxPart'
    BY <2>1, RxNext
  <2>3. QED
    BY <2>1, <2>2 DEF RInv
<1>3. RInv => RxFaithful
  BY RxShows
<1>4. QED
  BY <1>1, <1>2, <1>3, PTL DEF Spec
===============================================================================
