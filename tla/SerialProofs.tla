------------------------------ MODULE SerialProofs ------------------------------
(***************************************************************************)
(* For every ring size: nothing written is lost, repeated or swapped on    *)
(* its way to the wire, in the uses the library supports.                  *)
(***************************************************************************)
EXTENDS Serial, SequenceTheorems, FiniteSetTheorems, TLAPS

\* The uses the theorems are about: interrupts on and a client that does not
\* block, or interrupts off; on PIC18, where Restore sets GIE inside a handler,
\* only the latter.
SoundUses == /\ Uses \subseteq {"isr", "polled"}
             /\ Family = "pic16" \/ Uses \subseteq {"polled"}
-----------------------------------------------------------------------------
\* Positions of a ring, which run from its tail and wrap once.
LEMMA Wrap ==
  ASSUME NEW n \in Nat \ {0}, NEW x \in 0 .. 2 * n - 1
  PROVE  x % n = IF x < n THEN x ELSE x - n
<1>1. CASE x < n
  BY <1>1
<1>2. CASE x >= n
  <2>1. x - n \in 0 .. n - 1
    BY <1>2
  <2>2. (x - n) % n = x - n
    BY <2>1
  <2>3. QED
    BY <1>2, <2>2
<1>3. QED
  BY <1>1, <1>2

\* Where a put writes and where it leaves the head, in a ring with c bytes
\* from t on and room for one more.
LEMMA PutSlots ==
  ASSUME NEW n \in Nat \ {0}, NEW t \in 0 .. n - 1, NEW c \in 0 .. n - 1
  PROVE  /\ (((t + c) % n) + 1) % n = (t + (c + 1)) % n
         /\ \A i \in 1 .. c : (t + i - 1) % n # (t + c) % n
<1>0. \A x \in 0 .. 2 * n - 1 : x % n = IF x < n THEN x ELSE x - n
  BY Wrap
<1>1. (t + c) % n = IF t + c < n THEN t + c ELSE t + c - n
  <2>1. t + c \in 0 .. 2 * n - 1
    OBVIOUS
  <2>2. QED
    BY <1>0, <2>1
<1>2. (t + (c + 1)) % n = IF t + c + 1 < n THEN t + c + 1 ELSE t + c + 1 - n
  <2>1. t + (c + 1) \in 0 .. 2 * n - 1
    OBVIOUS
  <2>2. QED
    BY <1>0, <2>1
<1>3. ASSUME NEW h \in 0 .. n - 1 PROVE (h + 1) % n = IF h + 1 < n THEN h + 1 ELSE h + 1 - n
  <2>1. h + 1 \in 0 .. 2 * n - 1
    OBVIOUS
  <2>2. QED
    BY <1>0, <2>1
<1>4. (((t + c) % n) + 1) % n = (t + (c + 1)) % n
  <2> DEFINE h == (t + c) % n
  <2>1. h \in 0 .. n - 1 /\ h = IF t + c < n THEN t + c ELSE t + c - n
    BY <1>1
  <2> HIDE DEF h
  <2>2. (h + 1) % n = IF h + 1 < n THEN h + 1 ELSE h + 1 - n
    BY <1>3, <2>1
  <2>3. (h + 1) % n = (t + (c + 1)) % n
    BY <1>2, <2>1, <2>2
  <2>4. QED
    BY <2>3 DEF h
<1>5. ASSUME NEW i \in 1 .. c PROVE (t + i - 1) % n # (t + c) % n
  <2>1. (t + i - 1) % n = IF t + i - 1 < n THEN t + i - 1 ELSE t + i - 1 - n
    <3>1. t + i - 1 \in 0 .. 2 * n - 1
      OBVIOUS
    <3>2. QED
      BY <1>0, <3>1
  <2>2. QED
    BY <1>1, <2>1
<1>6. QED
  BY <1>4, <1>5

\* A take moves the tail to the next byte and leaves the others where they are.
LEMMA TakeSlots ==
  ASSUME NEW n \in Nat \ {0}, NEW t \in 0 .. n - 1, NEW c \in 1 .. n
  PROVE  /\ (t + c) % n = (((t + 1) % n) + (c - 1)) % n
         /\ \A i \in 1 .. c - 1 : (((t + 1) % n) + i - 1) % n = (t + (i + 1) - 1) % n
<1> DEFINE u == (t + 1) % n
<1>0. \A x \in 0 .. 2 * n - 1 : x % n = IF x < n THEN x ELSE x - n
  BY Wrap
<1>1. u \in 0 .. n - 1 /\ u = IF t + 1 < n THEN t + 1 ELSE t + 1 - n
  <2>1. t + 1 \in 0 .. 2 * n - 1
    OBVIOUS
  <2>2. QED
    BY <1>0, <2>1
<1> HIDE DEF u
<1>2. ASSUME NEW i \in 1 .. c PROVE (u + i - 1) % n = (t + i) % n
  <2>1. (t + i) % n = IF t + i < n THEN t + i ELSE t + i - n
    <3>1. t + i \in 0 .. 2 * n - 1
      OBVIOUS
    <3>2. QED
      BY <1>0, <3>1
  <2>2. (u + i - 1) % n = IF u + i - 1 < n THEN u + i - 1 ELSE u + i - 1 - n
    <3>1. ASSUME NEW v \in 0 .. n - 1
          PROVE  (v + i - 1) % n = IF v + i - 1 < n THEN v + i - 1 ELSE v + i - 1 - n
      <4>1. v + i - 1 \in 0 .. 2 * n - 1
        OBVIOUS
      <4>2. QED
        BY <1>0, <4>1
    <3>2. QED
      BY <1>1, <3>1
  <2>3. QED
    BY <1>1, <2>1, <2>2
<1>3. (t + c) % n = (u + (c - 1)) % n
  <2>1. (u + c - 1) % n = (t + c) % n
    BY <1>2
  <2>2. u + c - 1 = u + (c - 1)
    BY <1>1
  <2>3. QED
    BY <2>1, <2>2
<1>4. ASSUME NEW i \in 1 .. c - 1 PROVE (u + i - 1) % n = (t + (i + 1) - 1) % n
  <2>1. i \in 1 .. c /\ t + (i + 1) - 1 = t + i
    OBVIOUS
  <2>2. QED
    BY <1>2, <2>1
<1>5. QED
  BY <1>3, <1>4 DEF u

\* A ring whose counters fit together.
RingOK(r) ==
  /\ r \in Ring
  /\ r.count <= SZ
  /\ r.head = (r.tail + r.count) % SZ

LEMMA ContentShape ==
  ASSUME NEW r \in Ring
  PROVE  /\ Content(r) \in Seq(Bytes)
         /\ Len(Content(r)) = r.count
         /\ \A i \in 1 .. r.count : Content(r)[i] = r.buf[(r.tail + i - 1) % SZ]
<1>1. r.count \in Nat
  BY DEF Ring
<1>2. ASSUME NEW i \in 1 .. r.count PROVE r.buf[(r.tail + i - 1) % SZ] \in Bytes
  <2>1. (r.tail + i - 1) % SZ \in 0 .. SZ - 1
    BY <1>1, SerialAssumption DEF Ring, SerialAssumption
  <2>2. QED
    BY <2>1 DEF Ring
<1>3. QED
  BY <1>1, <1>2 DEF Content

\* The parts of a ring.
LEMMA RingParts ==
  ASSUME NEW r, RingOK(r)
  PROVE  /\ SZ \in Nat \ {0} /\ CountMod \in Nat /\ CountMod > SZ
         /\ r.buf \in [0 .. SZ - 1 -> Bytes] /\ r.head \in 0 .. SZ - 1
         /\ r.tail \in 0 .. SZ - 1 /\ r.count \in 0 .. SZ
         /\ r = [buf |-> r.buf, head |-> r.head, tail |-> r.tail, count |-> r.count]
  BY SerialAssumption DEF RingOK, Ring, SerialAssumption

\* What a put and a take leave in the ring.
LEMMA PutKeeps ==
  ASSUME NEW r, RingOK(r), r.count < SZ, NEW b \in Bytes
  PROVE  /\ RingOK(RingPut(r, b))
         /\ RingPut(r, b).count = r.count + 1
         /\ \A i \in 1 .. r.count : Content(RingPut(r, b))[i] = Content(r)[i]
         /\ Content(RingPut(r, b))[r.count + 1] = b
<1> DEFINE q == RingPut(r, b)
           slot(i) == (r.tail + i - 1) % SZ
<1>1. /\ r.count \in 0 .. SZ - 1 /\ r.count + 1 \in Nat /\ r.count + 1 <= SZ
      /\ r.count + 1 \in 0 .. CountMod - 1
  BY RingParts
<1>2. (r.count + 1) % CountMod = r.count + 1
  <2> DEFINE c == r.count + 1
  <2> HIDE DEF c
  <2>1. \A m \in Nat : c \in 0 .. m - 1 => c % m = c
    OBVIOUS
  <2>2. QED
    BY <1>1, <2>1, RingParts DEF c
<1>3. /\ q.buf = [r.buf EXCEPT ![r.head] = b]
      /\ q.head = (r.head + 1) % SZ
      /\ q.tail = r.tail
      /\ q.count = r.count + 1
      /\ q = [buf |-> q.buf, head |-> q.head, tail |-> q.tail, count |-> q.count]
  <2>1. q = [buf |-> [r.buf EXCEPT ![r.head] = b], head |-> (r.head + 1) % SZ, tail |-> r.tail,
             count |-> (r.count + 1) % CountMod]
    <3>1. q = [r EXCEPT !.buf = [r.buf EXCEPT ![r.head] = b], !.head = (r.head + 1) % SZ,
                        !.count = (r.count + 1) % CountMod]
      BY DEF RingPut
    <3> DEFINE buf == [r.buf EXCEPT ![r.head] = b]
               head == (r.head + 1) % SZ
               count == (r.count + 1) % CountMod
    <3> HIDE DEF q, buf, head, count
    <3>2. q = [r EXCEPT !.buf = buf, !.head = head, !.count = count]
      BY <3>1 DEF buf, head, count
    <3>3. q = [buf |-> buf, head |-> head, tail |-> r.tail, count |-> count]
      BY <3>2 DEF RingOK, Ring
    <3>4. QED
      BY <3>3 DEF buf, head, count
  <2> HIDE DEF q
  <2>2. QED
    BY <1>2, <2>1
<1> HIDE DEF q
<1>4. r.head = (r.tail + r.count) % SZ
  BY DEF RingOK
<1>5. RingOK(q)
  <2>1. q.head = (q.tail + q.count) % SZ
    BY <1>1, <1>3, <1>4, PutSlots, RingParts
  <2>2. q.head \in 0 .. SZ - 1
    BY <1>3, RingParts
  <2>3. q.buf \in [0 .. SZ - 1 -> Bytes]
    BY <1>3, RingParts
  <2>4. q \in Ring
    BY <1>1, <1>3, <2>2, <2>3, RingParts DEF Ring
  <2>5. QED
    BY <1>1, <1>3, <2>1, <2>4 DEF RingOK
<1>6. ASSUME NEW i \in 1 .. r.count PROVE Content(q)[i] = Content(r)[i]
  <2>1. slot(i) # r.head
    BY <1>1, <1>4, PutSlots, RingParts
  <2>2. slot(i) \in 0 .. SZ - 1
    BY RingParts
  <2>3. Content(r)[i] = r.buf[slot(i)]
    BY ContentShape DEF RingOK
  <2>4. i \in 1 .. q.count
    BY <1>1, <1>3
  <2>5. Content(q)[i] = q.buf[slot(i)]
    <3>1. Content(q)[i] = q.buf[(q.tail + i - 1) % SZ]
      BY <1>5, <2>4, ContentShape DEF RingOK
    <3>2. q.tail = r.tail
      BY <1>3
    <3>3. QED
      BY <3>1, <3>2
  <2> HIDE DEF slot
  <2>6. QED
    BY <1>3, <2>1, <2>2, <2>3, <2>5, RingParts
<1>7. Content(q)[r.count + 1] = b
  <2>1. r.count + 1 \in 1 .. q.count
    BY <1>1, <1>3
  <2>2. Content(q)[r.count + 1] = q.buf[(q.tail + (r.count + 1) - 1) % SZ]
    BY <1>5, <2>1, ContentShape DEF RingOK
  <2>3. q.tail + (r.count + 1) - 1 = r.tail + r.count
    BY <1>3, RingParts
  <2>4. QED
    BY <1>3, <1>4, <2>2, <2>3, RingParts
<1>8. QED
  BY <1>3, <1>5, <1>6, <1>7 DEF q

LEMMA TakeKeeps ==
  ASSUME NEW r, RingOK(r), r.count > 0
  PROVE  /\ RingOK(RingTake(r))
         /\ RingTake(r).count = r.count - 1
         /\ r.buf[r.tail] = Content(r)[1]
         /\ \A i \in 1 .. r.count - 1 : Content(RingTake(r))[i] = Content(r)[i + 1]
<1> DEFINE q == RingTake(r)
<1>1. /\ r.count \in 1 .. SZ /\ r.count - 1 \in 0 .. SZ - 1
      /\ r.count - 1 \in 0 .. CountMod - 1
  BY RingParts
<1>2. (r.count - 1) % CountMod = r.count - 1
  <2> DEFINE c == r.count - 1
  <2> HIDE DEF c
  <2>1. \A m \in Nat : c \in 0 .. m - 1 => c % m = c
    OBVIOUS
  <2>2. QED
    BY <1>1, <2>1, RingParts DEF c
<1>3. /\ q.buf = r.buf
      /\ q.head = r.head
      /\ q.tail = (r.tail + 1) % SZ
      /\ q.count = r.count - 1
      /\ q = [buf |-> q.buf, head |-> q.head, tail |-> q.tail, count |-> q.count]
  <2>1. q = [buf |-> r.buf, head |-> r.head, tail |-> (r.tail + 1) % SZ,
             count |-> (r.count - 1) % CountMod]
    <3> DEFINE tail == (r.tail + 1) % SZ
               count == (r.count - 1) % CountMod
    <3>1. q = [r EXCEPT !.tail = tail, !.count = count]
      BY DEF RingTake
    <3> HIDE DEF q, tail, count
    <3>2. q = [buf |-> r.buf, head |-> r.head, tail |-> tail, count |-> count]
      BY <3>1 DEF RingOK, Ring
    <3>3. QED
      BY <3>2 DEF tail, count
  <2> HIDE DEF q
  <2>2. QED
    BY <1>2, <2>1
<1> HIDE DEF q
<1>4. RingOK(q)
  <2>1. r.head = (r.tail + r.count) % SZ
    BY DEF RingOK
  <2>2. q.head = (q.tail + q.count) % SZ
    BY <1>1, <1>3, <2>1, TakeSlots, RingParts
  <2>3. q.tail \in 0 .. SZ - 1
    BY <1>3, RingParts
  <2>4. q \in Ring
    BY <1>1, <1>3, <2>3, RingParts DEF Ring
  <2>5. QED
    BY <1>1, <1>3, <2>2, <2>4, RingParts DEF RingOK
<1>5. r.buf[r.tail] = Content(r)[1]
  <2>1. Content(r)[1] = r.buf[(r.tail + 1 - 1) % SZ]
    BY <1>1, ContentShape DEF RingOK
  <2>2. (r.tail + 1 - 1) % SZ = r.tail
    <3>1. r.tail + 1 - 1 = r.tail /\ r.tail \in 0 .. SZ - 1 /\ SZ \in Nat \ {0}
      BY RingParts
    <3>2. \A t \in 0 .. SZ - 1 : t % SZ = t
      BY <3>1
    <3>3. QED
      BY <3>1, <3>2
  <2>3. QED
    BY <2>1, <2>2
<1>6. ASSUME NEW i \in 1 .. r.count - 1 PROVE Content(q)[i] = Content(r)[i + 1]
  <2>1. i \in 1 .. q.count /\ i + 1 \in 1 .. r.count
    BY <1>1, <1>3
  <2>2. Content(q)[i] = q.buf[(q.tail + i - 1) % SZ]
    BY <1>4, <2>1, ContentShape DEF RingOK
  <2>3. Content(r)[i + 1] = r.buf[(r.tail + (i + 1) - 1) % SZ]
    BY <2>1, ContentShape DEF RingOK
  <2>4. (q.tail + i - 1) % SZ = (r.tail + (i + 1) - 1) % SZ
    BY <1>1, <1>3, TakeSlots, RingParts
  <2>5. QED
    BY <1>3, <2>2, <2>3, <2>4
<1>7. QED
  BY <1>3, <1>4, <1>5, <1>6 DEF q
-----------------------------------------------------------------------------
\* Main, and above it at most one dispatch: of the vector, or called by main.
Shape ==
  /\ stack \in Seq(Activations)
  /\ Len(stack) \in 1 .. 2
  /\ stack[1].kind = "main" /\ stack[1].pc \in MainPoints
  /\ Len(stack) = 2 => /\ stack[2].kind = IF use = "isr" THEN "isr" ELSE "call"
                       /\ stack[2].pc \in HandlerPoints

\* Interrupts are on exactly while main runs and uses them.
Masters == use \in Uses /\ gie = (use = "isr" /\ Len(stack) = 1)

\* What main has found out and nothing above it makes untrue.
MainKnows ==
  /\ stack[1].pc = "push" => next <= TxBytes /\ (use = "isr" => tx.count < SZ)
  /\ stack[1].pc \in {"flush_ring", "flush_tsr"} => use # "isr"
  /\ stack[1].pc = "flush_tsr" => tx.count = 0

\* The bytes that have left the TX ring: the handler holds one between the pop
\* and the load, and then the holding register is free.
On(byte) == IF byte = 0 THEN 0 ELSE 1
InUsart == Len(wire) + On(tsr) + On(txreg)
Ahead == InUsart + IF At("tx_load") THEN 1 ELSE 0

TxInv ==
  /\ RingOK(tx) /\ txie \in BOOLEAN
  /\ wire \in Seq(Bytes) /\ tsr \in Bytes /\ txreg \in Bytes
  /\ \A i \in 1 .. Len(wire) : wire[i] = i
  /\ tsr # 0 => tsr = Len(wire) + 1
  /\ txreg # 0 => tsr # 0 /\ txreg = Len(wire) + 2
  /\ At("tx_check") \/ At("tx_pop") \/ At("tx_load") => txreg = 0
  /\ At("tx_pop") => tx.count > 0
  /\ At("tx_load") => Top.b = InUsart + 1
  /\ \A i \in 1 .. tx.count : Content(tx)[i] = Ahead + i
  /\ next \in 1 .. TxBytes + 1 /\ next = Ahead + tx.count + 1

RxTypes == rcreg \in Seq(Bytes) /\ lastRx \in Bytes /\ arrived \in 0 .. RxBytes

IInv == Shape /\ Masters /\ MainKnows /\ TxInv /\ RxTypes
-----------------------------------------------------------------------------
LEMMA TopFacts ==
  ASSUME Shape
  PROVE  /\ Top \in Activations
         /\ Top = stack[Len(stack)]
         /\ Len(stack) = 1 \/ Len(stack) = 2
         /\ Len(stack) = 1 => Top.kind = "main" /\ Top.pc \in MainPoints /\ Top = stack[1]
         /\ Len(stack) = 2 => /\ Top.kind = (IF use = "isr" THEN "isr" ELSE "call")
                              /\ Top.pc \in HandlerPoints
<1>1. Len(stack) = 1 \/ Len(stack) = 2
  BY DEF Shape
<1>2. Top = stack[Len(stack)]
  BY DEF Top
<1>3. stack[Len(stack)] \in Activations
  BY <1>1 DEF Shape
<1>4. QED
  BY <1>1, <1>2, <1>3 DEF Shape

\* A dispatch has no point in common with main.
LEMMA WhoseTop ==
  ASSUME Shape
  PROVE  /\ Top.pc \in MainPoints => Len(stack) = 1
         /\ Top.pc \in HandlerPoints => Len(stack) = 2
  BY TopFacts DEF MainPoints, HandlerPoints

\* The step of the activation on top.
LEMMA SetTop ==
  ASSUME Shape, use' = use, NEW f \in Activations, f.kind = Top.kind,
         f.pc \in IF Len(stack) = 1 THEN MainPoints ELSE HandlerPoints,
         stack' = [stack EXCEPT ![Len(stack)] = f]
  PROVE  /\ Shape' /\ Len(stack') = Len(stack) /\ Top' = f
         /\ Len(stack) = 2 => stack'[1] = stack[1]
         /\ Len(stack) = 1 => stack'[1] = f
<1> DEFINE n == Len(stack)
<1>1. stack \in Seq(Activations) /\ n \in 1 .. Len(stack) /\ n \in 1 .. 2
  BY DEF Shape
<1>2. stack' = [stack EXCEPT ![n] = f]
  OBVIOUS
<1> HIDE DEF n
<1>3. /\ stack' \in Seq(Activations) /\ Len(stack') = Len(stack)
      /\ \A j \in 1 .. Len(stack) : stack'[j] = IF j = n THEN f ELSE stack[j]
  BY <1>1, <1>2, ExceptSeq
<1>4. n = Len(stack)
  BY DEF n
<1>5. Top' = f
  BY <1>1, <1>3, <1>4 DEF Top
<1>6. CASE n = 1
  <2>1. stack'[1] = f /\ Len(stack') = 1
    BY <1>3, <1>4, <1>6
  <2>2. QED
    BY <1>3, <1>4, <1>5, <1>6, <2>1, TopFacts DEF Shape
<1>7. CASE n = 2
  <2>1. stack'[1] = stack[1] /\ stack'[2] = f /\ Len(stack') = 2
    BY <1>3, <1>4, <1>7
  <2>2. QED
    BY <1>3, <1>4, <1>5, <1>7, <2>1, TopFacts DEF Shape
<1>8. QED
  BY <1>1, <1>6, <1>7

\* A dispatch called by main, or by the vector.
LEMMA PushTop ==
  ASSUME Shape, use' = use, Len(stack) = 1,
         NEW kind, kind = (IF use = "isr" THEN "isr" ELSE "call"),
         stack' = Append(stack, Activation(kind, "entry"))
  PROVE  Shape' /\ Len(stack') = 2 /\ Top'.pc = "entry" /\ stack'[1] = stack[1]
<1> DEFINE f == Activation(kind, "entry")
<1>1. f \in Activations /\ f.kind = kind /\ f.pc = "entry"
  <2>1. 0 \in Bytes
    BY SerialAssumption DEF Bytes, SerialAssumption
  <2>2. QED
    BY <2>1 DEF Activation, Activations, HandlerPoints
<1> HIDE DEF f
<1>2. /\ stack' \in Seq(Activations) /\ Len(stack') = 2
      /\ stack'[1] = stack[1] /\ stack'[2] = f
  <2>1. stack' = Append(stack, f)
    BY DEF f
  <2>2. stack \in Seq(Activations)
    BY DEF Shape
  <2>3. \A s \in Seq(Activations), e \in Activations :
          /\ Append(s, e) \in Seq(Activations) /\ Len(Append(s, e)) = Len(s) + 1
          /\ \A i \in 1 .. Len(s) : Append(s, e)[i] = s[i]
          /\ Append(s, e)[Len(s) + 1] = e
    BY AppendProperties
  <2>4. f \in Activations
    BY <1>1
  <2>5. /\ Append(stack, f) \in Seq(Activations) /\ Len(Append(stack, f)) = Len(stack) + 1
        /\ \A i \in 1 .. Len(stack) : Append(stack, f)[i] = stack[i]
        /\ Append(stack, f)[Len(stack) + 1] = f
    BY <2>2, <2>3, <2>4, Zenon
  <2>6. Len(stack) = 1
    OBVIOUS
  <2>7. QED
    BY <2>1, <2>5, <2>6
<1>3. Top' = f
  BY <1>2 DEF Top
<1>4. QED
  BY <1>1, <1>2, <1>3 DEF Shape, HandlerPoints

\* Its return.
LEMMA PopTop ==
  ASSUME Shape, use' = use, Len(stack) = 2, stack' = SubSeq(stack, 1, Len(stack) - 1)
  PROVE  Shape' /\ Len(stack') = 1 /\ Top' = stack[1] /\ stack'[1] = stack[1]
<1>1. stack' \in Seq(Activations) /\ Len(stack') = 1 /\ stack'[1] = stack[1]
  BY DEF Shape
<1>2. Top' = stack[1]
  BY <1>1 DEF Top
<1>3. QED
  BY <1>1, <1>2 DEF Shape

\* What main knows stays true when nothing is added to the ring.
LEMMA KnowsKept ==
  ASSUME MainKnows, UNCHANGED <<use, next>>, stack'[1] = stack[1],
         tx.count \in Nat, tx'.count \in Nat, tx'.count <= tx.count
  PROVE  MainKnows'
  BY SerialAssumption DEF MainKnows, SerialAssumption

\* A step that leaves the bytes where they are.
LEMMA TxQuiet ==
  ASSUME TxInv, UNCHANGED <<tx, wire, tsr, txreg, next>>, txie' \in BOOLEAN,
         Top.pc # "tx_load", Top'.pc # "tx_load",
         Top'.pc \in {"tx_check", "tx_pop"} => txreg = 0,
         Top'.pc = "tx_pop" => tx.count > 0
  PROVE  TxInv'
<1>1. Ahead' = Ahead /\ InUsart' = InUsart
  BY DEF Ahead, InUsart, At
<1>2. QED
  BY <1>1 DEF TxInv, At, RingOK, Content

LEMMA MastersOff == ASSUME Masters, Len(stack) = 2 PROVE gie = FALSE
<1>1. Len(stack) # 1
  OBVIOUS
<1>2. QED
  BY <1>1, Zenon DEF Masters

\* A step of the activation on top that moves it to another point.
LEMMA MovedTop ==
  ASSUME Shape, use' = use, NEW pc, Goto(pc),
         pc \in IF Len(stack) = 1 THEN MainPoints ELSE HandlerPoints
  PROVE  /\ Shape' /\ Len(stack') = Len(stack)
         /\ Top'.pc = pc /\ Top'.b = Top.b
         /\ Len(stack) = 2 => stack'[1] = stack[1]
         /\ Len(stack) = 1 => stack'[1] = Top'
<1> DEFINE f == [Top EXCEPT !.pc = pc]
<1>1. f \in Activations /\ f.kind = Top.kind /\ f.pc = pc /\ f.b = Top.b
  BY TopFacts DEF Activations
<1>2. stack' = [stack EXCEPT ![Len(stack)] = f]
  BY DEF Goto, Top
<1> HIDE DEF f
<1>3. QED
  BY <1>1, <1>2, SetTop

\* The same, with a byte in hand.
LEMMA MovedWith ==
  ASSUME Shape, use' = use, Len(stack) = 2, NEW pc \in HandlerPoints, NEW byte \in Bytes,
         GotoWith(pc, byte)
  PROVE  /\ Shape' /\ Len(stack') = 2 /\ Top'.pc = pc /\ Top'.b = byte
         /\ stack'[1] = stack[1]
<1> DEFINE f == [Top EXCEPT !.pc = pc, !.b = byte]
<1>1. f \in Activations /\ f.kind = Top.kind /\ f.pc = pc /\ f.b = byte
  BY TopFacts DEF Activations
<1>2. stack' = [stack EXCEPT ![Len(stack)] = f]
  BY TopFacts DEF GotoWith, Top, Shape, Activations
<1> HIDE DEF f
<1>3. f.pc \in IF Len(stack) = 1 THEN MainPoints ELSE HandlerPoints
  BY <1>1
<1>4. QED
  BY <1>1, <1>2, <1>3, SetTop

LEMMA AheadNat ==
  ASSUME TxInv
  PROVE  Len(wire) \in Nat /\ InUsart \in Nat /\ Ahead \in Nat
<1>1. Len(wire) \in Nat
  BY LenProperties DEF TxInv
<1>2. \A x : On(x) \in 0 .. 1
  BY DEF On
<1>3. On(tsr) \in 0 .. 1 /\ On(txreg) \in 0 .. 1
  BY <1>2
<1>4. \A l \in Nat, x, y \in 0 .. 1 : l + x + y \in Nat
  OBVIOUS
<1>5. InUsart \in Nat
  BY <1>1, <1>3, <1>4 DEF InUsart
<1>6. QED
  BY <1>1, <1>5 DEF Ahead
-----------------------------------------------------------------------------
\* The invariant, action by action: the USART.
LEMMA ShiftOutKeeps == IInv /\ ShiftOut => IInv'
<1> SUFFICES ASSUME IInv, ShiftOut PROVE IInv'
  OBVIOUS
<1> USE DEF IInv
<1>1. UNCHANGED <<use, tx, txie, gie, stack, next, rcreg, lastRx, arrived>>
  BY DEF ShiftOut, rxSide
<1>2. Shape' /\ Masters' /\ MainKnows' /\ RxTypes'
  BY <1>1 DEF Shape, Masters, MainKnows, RxTypes
<1>3. /\ wire \in Seq(Bytes) /\ tsr \in Bytes /\ txreg \in Bytes
      /\ tsr = Len(wire) + 1 /\ (txreg # 0 => txreg = Len(wire) + 2)
      /\ wire' = Append(wire, tsr) /\ tsr' = txreg /\ txreg' = 0 /\ tsr # 0
  BY DEF TxInv, ShiftOut
<1>4. /\ wire' \in Seq(Bytes) /\ Len(wire') = Len(wire) + 1
      /\ \A i \in 1 .. Len(wire) : wire'[i] = wire[i]
      /\ wire'[Len(wire) + 1] = tsr
  BY <1>3, AppendProperties
<1>5. InUsart' = InUsart
  BY <1>3, <1>4 DEF InUsart, On
<1>6. Ahead' = Ahead
  BY <1>1, <1>5 DEF Ahead, At, Top
<1>7. tsr' \in Bytes /\ txreg' \in Bytes
  BY <1>3, SerialAssumption DEF Bytes, SerialAssumption
<1>8. \A i \in 1 .. Len(wire') : wire'[i] = i
  BY <1>3, <1>4 DEF TxInv
<1>9. RingOK(tx)' /\ txie' \in BOOLEAN
  BY <1>1 DEF TxInv, RingOK
<1>10. \A p : At(p)' <=> At(p)
  BY <1>1 DEF At, Top
<1>11. Top'.b = Top.b /\ Content(tx)' = Content(tx)
  BY <1>1 DEF Top, Content
<1>12. tsr' # 0 => tsr' = Len(wire') + 1
  BY <1>3, <1>4
<1>13. QED
  BY <1>1, <1>2, <1>3, <1>4, <1>5, <1>6, <1>7, <1>8, <1>9, <1>10, <1>11, <1>12 DEF TxInv

LEMMA ArriveKeeps == IInv /\ Arrive => IInv'
<1> SUFFICES ASSUME IInv, Arrive PROVE IInv'
  OBVIOUS
<1>1. UNCHANGED <<use, tx, txie, gie, stack, txreg, tsr, wire, next, lastRx>>
  BY DEF Arrive, txSide
<1>2. Shape' /\ Masters' /\ MainKnows'
  BY <1>1 DEF IInv, Shape, Masters, MainKnows
<1>3. TxInv'
  BY <1>1 DEF IInv, TxInv, RingOK, At, Top, Content, Ahead, InUsart
<1>4. arrived + 1 \in Bytes /\ arrived' \in 0 .. RxBytes
  BY SerialAssumption DEF Arrive, IInv, RxTypes, Bytes, SerialAssumption
<1>5. rcreg' \in Seq(Bytes)
  BY <1>4, AppendProperties DEF Arrive, IInv, RxTypes
<1>6. QED
  BY <1>1, <1>2, <1>3, <1>4, <1>5 DEF IInv, RxTypes

\* Main.
LEMMA BeginWriteKeeps == SoundUses /\ IInv /\ BeginWrite => IInv'
<1> SUFFICES ASSUME SoundUses, IInv, BeginWrite PROVE IInv'
  OBVIOUS
<1> USE DEF IInv
<1>1. UNCHANGED <<use, tx, txie, gie, txreg, tsr, wire, next, rcreg, lastRx, arrived>>
  BY DEF BeginWrite, txSide, rxSide
<1>2. Len(stack) = 1
  BY WhoseTop DEF BeginWrite, At, MainPoints
<1>3. Goto("push") /\ "push" \in MainPoints
  BY DEF BeginWrite, MainPoints
<1>4. Shape' /\ Len(stack') = 1 /\ Top'.pc = "push" /\ stack'[1] = Top'
  BY <1>1, <1>2, <1>3, MovedTop
<1>5. Masters' /\ RxTypes'
  BY <1>1, <1>2, <1>4 DEF Masters, RxTypes
<1>6. MainKnows'
  BY <1>1, <1>4 DEF BeginWrite, MainKnows, MayBlock
<1>7. TxInv'
  BY <1>1, <1>4, TxQuiet DEF TxInv, BeginWrite, At
<1>8. QED
  BY <1>4, <1>5, <1>6, <1>7

LEMMA PushByteKeeps == IInv /\ PushByte => IInv'
<1> SUFFICES ASSUME IInv, PushByte PROVE IInv'
  OBVIOUS
<1> USE DEF IInv
<1>1. UNCHANGED <<use, txie, gie, txreg, tsr, wire, rcreg, lastRx, arrived>>
  BY DEF PushByte, rxSide
<1>2. Len(stack) = 1 /\ Top.pc = "push" /\ Top = stack[1]
  BY WhoseTop, TopFacts DEF PushByte, At, MainPoints
<1>3. Goto("kick") /\ "kick" \in MainPoints
  BY DEF PushByte, MainPoints
<1>4. Shape' /\ Len(stack') = 1 /\ Top'.pc = "kick" /\ stack'[1] = Top'
  BY <1>1, <1>2, <1>3, MovedTop
<1>5. Masters' /\ RxTypes' /\ MainKnows'
  BY <1>1, <1>2, <1>4 DEF Masters, RxTypes, MainKnows
<1>6. next \in 1 .. TxBytes /\ next \in Bytes
  BY <1>2, SerialAssumption DEF MainKnows, TxInv, Bytes, SerialAssumption
<1>7. tx' = RingPut(tx, next) /\ tx.count < SZ /\ next' = next + 1
  BY DEF PushByte
<1>8. RingOK(tx)
  BY DEF TxInv
<1>9. /\ RingOK(tx') /\ tx'.count = tx.count + 1
      /\ \A i \in 1 .. tx.count : Content(tx')[i] = Content(tx)[i]
      /\ Content(tx')[tx.count + 1] = next
  BY <1>6, <1>7, <1>8, PutKeeps
<1>10. tx.count \in Nat
  BY <1>8, RingParts
<1>11. InUsart' = InUsart /\ Ahead' = Ahead /\ InUsart \in Nat /\ Ahead \in Nat
  <2>1. InUsart' = InUsart
    BY <1>1 DEF InUsart
  <2>2. QED
    BY <1>2, <1>4, <2>1, AheadNat DEF Ahead, At
<1>12. next = Ahead + tx.count + 1
  BY DEF TxInv
<1>13. \A i \in 1 .. tx'.count : Content(tx')[i] = Ahead + i
  <2>1. \A i \in 1 .. tx.count : Content(tx)[i] = Ahead + i
    BY DEF TxInv
  <2>2. QED
    BY <1>9, <1>10, <1>11, <1>12, <2>1
<1>14. next' \in 1 .. TxBytes + 1 /\ next' = Ahead + tx'.count + 1
  BY <1>6, <1>7, <1>9, <1>10, <1>11, <1>12, SerialAssumption DEF SerialAssumption
<1>15. TxInv'
  <2>1. Content(tx)' = Content(tx') /\ RingOK(tx)'
    BY <1>9 DEF Content, RingOK
  <2>2. QED
    BY <1>1, <1>4, <1>11, <1>13, <1>14, <2>1 DEF TxInv, At
<1>16. QED
  BY <1>4, <1>5, <1>15

LEMMA KickKeeps == IInv /\ Kick => IInv'
<1> SUFFICES ASSUME IInv, Kick PROVE IInv'
  OBVIOUS
<1> USE DEF IInv
<1>1. UNCHANGED <<use, tx, gie, txreg, tsr, wire, next, rcreg, lastRx, arrived>> /\ txie' = TRUE
  BY DEF Kick, rxSide
<1>2. Len(stack) = 1 /\ Top.pc = "kick"
  BY WhoseTop DEF Kick, At, MainPoints
<1>3. Goto("idle") /\ "idle" \in MainPoints
  BY DEF Kick, MainPoints
<1>4. Shape' /\ Len(stack') = 1 /\ Top'.pc = "idle" /\ stack'[1] = Top'
  BY <1>1, <1>2, <1>3, MovedTop
<1>5. Masters' /\ RxTypes' /\ MainKnows'
  BY <1>1, <1>2, <1>4 DEF Masters, RxTypes, MainKnows
<1>6. TxInv'
  BY <1>1, <1>2, <1>4, TxQuiet
<1>7. QED
  BY <1>4, <1>5, <1>6

LEMMA BeginFlushKeeps == IInv /\ BeginFlush => IInv'
<1> SUFFICES ASSUME IInv, BeginFlush PROVE IInv'
  OBVIOUS
<1> USE DEF IInv
<1>1. UNCHANGED <<use, tx, txie, gie, txreg, tsr, wire, next, rcreg, lastRx, arrived>>
  BY DEF BeginFlush, txSide, rxSide
<1>2. Len(stack) = 1 /\ Top.pc = "idle" /\ use # "isr"
  BY WhoseTop DEF BeginFlush, At, MainPoints, MayBlock
<1>3. Goto("flush_ring") /\ "flush_ring" \in MainPoints
  BY DEF BeginFlush, MainPoints
<1>4. Shape' /\ Len(stack') = 1 /\ Top'.pc = "flush_ring" /\ stack'[1] = Top'
  BY <1>1, <1>2, <1>3, MovedTop
<1>5. Masters' /\ RxTypes' /\ MainKnows'
  BY <1>1, <1>2, <1>4 DEF Masters, RxTypes, MainKnows
<1>6. TxInv'
  BY <1>1, <1>2, <1>4, TxQuiet DEF TxInv
<1>7. QED
  BY <1>4, <1>5, <1>6

\* Main calls the dispatcher, with interrupts off.
LEMMA CallKeeps ==
  ASSUME IInv, use # "isr", Len(stack) = 1,
         stack' = Append(stack, Activation("call", "entry")),
         UNCHANGED <<txSide, rxSide, gie>>
  PROVE  IInv'
<1> USE DEF IInv
<1>1. UNCHANGED <<use, tx, txie, gie, txreg, tsr, wire, next, rcreg, lastRx, arrived>>
  BY DEF txSide, rxSide
<1>2. Top.pc # "tx_load"
  BY TopFacts DEF MainPoints
<1>3. Shape' /\ Len(stack') = 2 /\ Top'.pc = "entry" /\ stack'[1] = stack[1]
  BY <1>1, PushTop
<1>4. Masters' /\ RxTypes'
  BY <1>1 DEF Masters, RxTypes
<1>5. MainKnows'
  BY <1>1, <1>3 DEF MainKnows
<1>6. TxInv'
  BY <1>1, <1>2, <1>3, TxQuiet DEF TxInv
<1>7. QED
  BY <1>3, <1>4, <1>5, <1>6

LEMMA PushBlockedKeeps == IInv /\ PushBlocked => IInv'
<1> SUFFICES ASSUME IInv, PushBlocked PROVE IInv'
  OBVIOUS
<1>1. Len(stack) = 1 /\ stack[1].pc = "push" /\ tx.count >= SZ
  BY WhoseTop, TopFacts DEF IInv, PushBlocked, At, MainPoints
<1>2. tx.count \in Nat /\ SZ \in Nat
  BY RingParts DEF IInv, TxInv
<1>3. use # "isr"
  BY <1>1, <1>2 DEF IInv, MainKnows
<1>4. QED
  BY <1>1, <1>3, CallKeeps DEF PushBlocked

LEMMA FlushRingKeeps == IInv /\ FlushRing => IInv'
<1> SUFFICES ASSUME IInv, FlushRing PROVE IInv'
  OBVIOUS
<1>1. Len(stack) = 1 /\ stack[1].pc = "flush_ring" /\ Top.pc = "flush_ring"
  BY WhoseTop, TopFacts DEF IInv, FlushRing, At, MainPoints
<1>2. use # "isr"
  BY <1>1 DEF IInv, MainKnows
<1>3. CASE tx.count > 0
  BY <1>1, <1>2, <1>3, CallKeeps DEF FlushRing
<1>4. CASE ~(tx.count > 0)
  <2> USE DEF IInv
  <2>1. UNCHANGED <<use, tx, txie, gie, txreg, tsr, wire, next, rcreg, lastRx, arrived>>
    BY DEF FlushRing, txSide, rxSide
  <2>2. tx.count = 0
    <3>1. tx.count \in Nat
      BY RingParts DEF TxInv
    <3>2. QED
      BY <1>4, <3>1
  <2>3. Goto("flush_tsr") /\ "flush_tsr" \in MainPoints
    BY <1>4 DEF FlushRing, MainPoints
  <2>4. Shape' /\ Len(stack') = 1 /\ Top'.pc = "flush_tsr" /\ stack'[1] = Top'
    BY <1>1, <2>1, <2>3, MovedTop
  <2>5. Masters' /\ RxTypes' /\ MainKnows'
    BY <1>1, <1>2, <2>1, <2>2, <2>4 DEF Masters, RxTypes, MainKnows
  <2>6. TxInv'
    BY <1>1, <2>1, <2>4, TxQuiet DEF TxInv
  <2>7. QED
    BY <2>4, <2>5, <2>6
<1>5. QED
  BY <1>3, <1>4

LEMMA FlushTsrKeeps == IInv /\ FlushTsr => IInv'
<1> SUFFICES ASSUME IInv, FlushTsr PROVE IInv'
  OBVIOUS
<1>1. Len(stack) = 1 /\ stack[1].pc = "flush_tsr" /\ Top.pc = "flush_tsr"
  BY WhoseTop, TopFacts DEF IInv, FlushTsr, At, MainPoints
<1>2. use # "isr"
  BY <1>1 DEF IInv, MainKnows
<1>3. CASE tsr # 0
  BY <1>1, <1>2, <1>3, CallKeeps DEF FlushTsr
<1>4. CASE tsr = 0
  <2> USE DEF IInv
  <2>1. UNCHANGED <<use, tx, txie, gie, txreg, tsr, wire, next, rcreg, lastRx, arrived>>
    BY DEF FlushTsr, txSide, rxSide
  <2>2. Goto("idle") /\ "idle" \in MainPoints
    BY <1>4 DEF FlushTsr, MainPoints
  <2>3. Shape' /\ Len(stack') = 1 /\ Top'.pc = "idle" /\ stack'[1] = Top'
    BY <1>1, <2>1, <2>2, MovedTop
  <2>4. Masters' /\ RxTypes' /\ MainKnows'
    BY <1>1, <2>1, <2>3 DEF Masters, RxTypes, MainKnows
  <2>5. TxInv'
    BY <1>1, <2>1, <2>3, TxQuiet DEF TxInv
  <2>6. QED
    BY <2>3, <2>4, <2>5
<1>5. QED
  BY <1>3, <1>4

LEMMA ReadKeeps == ASSUME IInv, NEW max, Read(max) PROVE IInv'
<1>1. UNCHANGED <<use, tx, txie, gie, stack, txreg, tsr, wire, next, rcreg, lastRx, arrived>>
  BY DEF Read, txSide
<1>2. Shape' /\ Masters' /\ MainKnows' /\ RxTypes'
  BY <1>1 DEF IInv, Shape, Masters, MainKnows, RxTypes
<1>3. TxInv'
  BY <1>1 DEF IInv, TxInv, RingOK, At, Top, Content, Ahead, InUsart
<1>4. QED
  BY <1>2, <1>3 DEF IInv

\* The dispatch: where it goes after a flag.
LEMMA DispatchPoints ==
  /\ {FirstHandler, AfterRx, AfterTx} \subseteq {"rx_flag", "tx_flag", "exit"}
  /\ {"rx_flag", "tx_flag", "exit"} \subseteq HandlerPoints
  BY DEF FirstHandler, AfterRx, AfterTx, HandlerPoints

LEMMA InterruptKeeps == IInv /\ Interrupt => IInv'
<1> SUFFICES ASSUME IInv, Interrupt PROVE IInv'
  OBVIOUS
<1> USE DEF IInv
<1>1. UNCHANGED <<use, tx, txie, txreg, tsr, wire, next, rcreg, lastRx, arrived>> /\ gie' = FALSE
  BY DEF Interrupt, txSide, rxSide
<1>2. use = "isr" /\ Len(stack) = 1
  BY DEF Masters, Interrupt
<1>3. Top.pc # "tx_load"
  BY <1>2, TopFacts DEF MainPoints
<1>4. stack' = Append(stack, Activation("isr", "entry"))
  BY DEF Interrupt
<1>5. Shape' /\ Len(stack') = 2 /\ Top'.pc = "entry" /\ stack'[1] = stack[1]
  BY <1>1, <1>2, <1>4, PushTop
<1>6. Masters' /\ RxTypes'
  <2>1. Len(stack') # 1 /\ gie' = FALSE /\ use' \in Uses
    BY <1>1, <1>5 DEF Masters
  <2>2. Masters'
    BY <2>1, Zenon DEF Masters
  <2>3. QED
    BY <1>1, <2>2 DEF RxTypes
<1>7. MainKnows'
  BY <1>1, <1>5 DEF MainKnows
<1>8. TxInv'
  BY <1>1, <1>3, <1>5, TxQuiet DEF TxInv
<1>9. QED
  BY <1>5, <1>6, <1>7, <1>8

LEMMA DispatchEntryKeeps == IInv /\ DispatchEntry => IInv'
<1> SUFFICES ASSUME IInv, DispatchEntry PROVE IInv'
  OBVIOUS
<1> USE DEF IInv
<1>1. UNCHANGED <<use, tx, txie, gie, txreg, tsr, wire, next, rcreg, lastRx, arrived>>
  BY DEF DispatchEntry, txSide, rxSide
<1>2. Len(stack) = 2 /\ Top.pc = "entry"
  BY WhoseTop DEF DispatchEntry, At, HandlerPoints
<1> DEFINE f == [Top EXCEPT !.pc = FirstHandler, !.seenTx = TXIF, !.seenRx = RCIF]
<1>3. f \in Activations /\ f.kind = Top.kind /\ f.pc = FirstHandler
  <2>1. TXIF \in BOOLEAN /\ RCIF \in BOOLEAN
    BY DEF TXIF, RCIF
  <2>2. FirstHandler \in HandlerPoints
    BY DispatchPoints
  <2>3. QED
    BY <2>1, <2>2, TopFacts DEF Activations
<1>4. stack' = [stack EXCEPT ![Len(stack)] = f]
  BY TopFacts DEF DispatchEntry, Top, Shape, Activations
<1> HIDE DEF f
<1>5. f.pc \in IF Len(stack) = 1 THEN MainPoints ELSE HandlerPoints
  BY <1>2, <1>3, DispatchPoints
<1>6. Shape' /\ Len(stack') = 2 /\ Top' = f /\ stack'[1] = stack[1]
  BY <1>1, <1>2, <1>3, <1>4, <1>5, SetTop
<1>7. Masters' /\ RxTypes' /\ MainKnows'
  BY <1>1, <1>2, <1>6 DEF Masters, RxTypes, MainKnows
<1>8. TxInv'
  <2>1. Top'.pc \in {"rx_flag", "tx_flag", "exit"}
    BY <1>3, <1>6, DispatchPoints
  <2>2. QED
    BY <1>1, <1>2, <2>1, TxQuiet DEF TxInv
<1>9. QED
  BY <1>6, <1>7, <1>8

LEMMA DispatchExitKeeps == IInv /\ DispatchExit => IInv'
<1> SUFFICES ASSUME IInv, DispatchExit PROVE IInv'
  OBVIOUS
<1> USE DEF IInv
<1>1. UNCHANGED <<use, tx, txie, txreg, tsr, wire, next, rcreg, lastRx, arrived>>
  BY DEF DispatchExit, txSide, rxSide
<1>2. Len(stack) = 2 /\ Top.pc = "exit"
  BY WhoseTop DEF DispatchExit, At, HandlerPoints
<1>3. stack' = SubSeq(stack, 1, Len(stack) - 1)
  BY DEF DispatchExit
<1>4. Shape' /\ Len(stack') = 1 /\ Top' = stack[1] /\ stack'[1] = stack[1]
  BY <1>1, <1>2, <1>3, PopTop
<1>5. Masters'
  <2>1. Top.kind = IF use = "isr" THEN "isr" ELSE "call"
    BY <1>2, TopFacts
  <2>2. gie = FALSE
    BY <1>2, MastersOff
  <2>3. gie' = IF use = "isr" THEN TRUE ELSE FALSE
    BY <2>1, <2>2 DEF DispatchExit
  <2>4. QED
    BY <1>1, <1>4, <2>3 DEF Masters
<1>6. RxTypes' /\ MainKnows'
  BY <1>1, <1>4 DEF RxTypes, MainKnows
<1>7. TxInv'
  <2>1. Top'.pc \in MainPoints
    BY <1>4 DEF Shape
  <2>2. QED
    BY <1>1, <1>2, <2>1, TxQuiet DEF TxInv, MainPoints
<1>8. QED
  BY <1>4, <1>5, <1>6, <1>7

\* A step of the handlers that moves no byte on its way out.
LEMMA HandlerMoved ==
  ASSUME IInv, Len(stack) = 2, NEW pc \in HandlerPoints, Goto(pc),
         UNCHANGED <<use, tx, gie, txreg, tsr, wire, next, rcreg, lastRx, arrived>>,
         txie' \in BOOLEAN, Top.pc # "tx_load", pc # "tx_load",
         pc \in {"tx_check", "tx_pop"} => txreg = 0, pc = "tx_pop" => tx.count > 0
  PROVE  IInv'
<1> USE DEF IInv
<1>1. Shape' /\ Len(stack') = 2 /\ Top'.pc = pc /\ stack'[1] = stack[1]
  BY MovedTop
<1>2. Masters' /\ RxTypes' /\ MainKnows'
  BY <1>1 DEF Masters, RxTypes, MainKnows
<1>3. TxInv'
  BY <1>1, TxQuiet
<1>4. QED
  BY <1>1, <1>2, <1>3

\* The TX handler.
LEMMA TxFlagKeeps == IInv /\ TxFlag => IInv'
<1> SUFFICES ASSUME IInv, TxFlag PROVE IInv'
  OBVIOUS
<1> DEFINE pc == IF Top.seenTx /\ TXIF THEN "tx_check" ELSE AfterTx
<1>1. Len(stack) = 2 /\ Top.pc = "tx_flag"
  BY WhoseTop DEF IInv, TxFlag, At, HandlerPoints
<1>2. Goto(pc) /\ UNCHANGED <<use, tx, txie, gie, txreg, tsr, wire, next, rcreg, lastRx, arrived>>
  BY DEF TxFlag, txSide, rxSide
<1>3. pc \in HandlerPoints /\ pc \notin {"tx_pop", "tx_load"} /\ (pc = "tx_check" => txreg = 0)
  BY DispatchPoints DEF TXIF, HandlerPoints
<1> HIDE DEF pc
<1>4. txie' \in BOOLEAN
  BY <1>2 DEF IInv, TxInv
<1>5. QED
  BY <1>1, <1>2, <1>3, <1>4, HandlerMoved

LEMMA TxCheckKeeps == IInv /\ TxCheck => IInv'
<1> SUFFICES ASSUME IInv, TxCheck PROVE IInv'
  OBVIOUS
<1> DEFINE pc == IF tx.count > 0 THEN "tx_pop" ELSE AfterTx
<1>1. Len(stack) = 2 /\ Top.pc = "tx_check" /\ txreg = 0
  BY WhoseTop DEF IInv, TxInv, TxCheck, At, HandlerPoints
<1>2. Goto(pc) /\ UNCHANGED <<use, tx, gie, txreg, tsr, wire, next, rcreg, lastRx, arrived>>
  BY DEF TxCheck, rxSide
<1>3. pc \in HandlerPoints /\ pc # "tx_load" /\ (pc = "tx_pop" => tx.count > 0)
  BY DispatchPoints DEF HandlerPoints
<1>4. txie' \in BOOLEAN
  BY DEF IInv, TxInv, TxCheck
<1> HIDE DEF pc
<1>5. QED
  BY <1>1, <1>2, <1>3, <1>4, HandlerMoved

LEMMA TxPopKeeps == SoundUses /\ IInv /\ TxPop => IInv'
<1> SUFFICES ASSUME SoundUses, IInv, TxPop PROVE IInv'
  OBVIOUS
<1> USE DEF IInv
<1>1. UNCHANGED <<use, txie, txreg, tsr, wire, next, rcreg, lastRx, arrived>>
  BY DEF TxPop, rxSide
<1>2. Len(stack) = 2 /\ Top.pc = "tx_pop" /\ txreg = 0 /\ tx.count > 0 /\ RingOK(tx)
  BY WhoseTop DEF TxInv, TxPop, At, HandlerPoints
<1>3. /\ tx' = RingTake(tx) /\ RingOK(tx') /\ tx'.count = tx.count - 1
      /\ tx.buf[tx.tail] = Content(tx)[1]
      /\ \A i \in 1 .. tx.count - 1 : Content(tx')[i] = Content(tx)[i + 1]
  BY <1>2, TakeKeeps DEF TxPop
<1>4. tx.count \in Nat
  BY <1>2, RingParts
<1> DEFINE b == tx.buf[tx.tail]
<1>5. b \in Bytes
  BY <1>2, RingParts
<1>6. GotoWith("tx_load", b)
  BY DEF TxPop
<1> HIDE DEF b
<1>7. "tx_load" \in HandlerPoints
  BY DEF HandlerPoints
<1>8. Shape' /\ Len(stack') = 2 /\ Top'.pc = "tx_load" /\ Top'.b = b /\ stack'[1] = stack[1]
  BY <1>1, <1>2, <1>5, <1>6, <1>7, MovedWith
<1>9. Masters' /\ RxTypes'
  <2>1. gie' = gie
    <3>1. gie = FALSE
      BY <1>2, MastersOff
    <3>2. CASE Family = "pic16"
      BY <3>2 DEF TxPop, GieAfterSection
    <3>3. CASE Uses \subseteq {"polled"}
      BY <3>1, <3>3 DEF TxPop, GieAfterSection, Preempt, Masters
    <3>4. QED
      BY <3>2, <3>3 DEF SoundUses
  <2>2. Len(stack') = Len(stack)
    BY <1>2, <1>8
  <2>3. QED
    BY <1>1, <2>1, <2>2 DEF Masters, RxTypes
<1>10. MainKnows'
  <2>1. tx'.count \in Nat /\ tx'.count <= tx.count
    BY <1>2, <1>3, <1>4
  <2>2. QED
    BY <1>1, <1>4, <1>8, <2>1, KnowsKept
<1>11. InUsart' = InUsart /\ InUsart \in Nat /\ Ahead = InUsart /\ Ahead' = InUsart + 1
  BY <1>1, <1>2, <1>8, AheadNat DEF InUsart, Ahead, At
<1>12. \A i \in 1 .. tx.count : Content(tx)[i] = InUsart + i
  BY <1>11 DEF TxInv
<1>13. b = InUsart + 1
  BY <1>2, <1>3, <1>4, <1>12 DEF b
<1>14. \A i \in 1 .. tx'.count : Content(tx')[i] = Ahead' + i
  <2>1. ASSUME NEW i \in 1 .. tx'.count PROVE Content(tx')[i] = Ahead' + i
    <3>1. i \in 1 .. tx.count - 1 /\ i + 1 \in 1 .. tx.count
      BY <1>3, <1>4
    <3>2. Content(tx')[i] = InUsart + (i + 1)
      BY <1>3, <1>12, <3>1
    <3>3. QED
      BY <1>11, <3>1, <3>2
  <2>2. QED
    BY <2>1
<1>15. next' \in 1 .. TxBytes + 1 /\ next' = Ahead' + tx'.count + 1
  <2>1. next = InUsart + tx.count + 1
    BY <1>11 DEF TxInv
  <2>2. QED
    BY <1>1, <1>3, <1>4, <1>11, <2>1 DEF TxInv
<1>16. TxInv'
  <2>1. Content(tx)' = Content(tx') /\ RingOK(tx)'
    BY <1>3 DEF Content, RingOK
  <2>2. QED
    BY <1>1, <1>2, <1>8, <1>11, <1>13, <1>14, <1>15, <2>1 DEF TxInv, At
<1>17. QED
  BY <1>8, <1>9, <1>10, <1>16

LEMMA TxLoadKeeps == IInv /\ TxLoad => IInv'
<1> SUFFICES ASSUME IInv, TxLoad PROVE IInv'
  OBVIOUS
<1> USE DEF IInv
<1>1. UNCHANGED <<use, tx, txie, gie, wire, next, rcreg, lastRx, arrived>>
  BY DEF TxLoad, rxSide
<1>2. Len(stack) = 2 /\ Top.pc = "tx_load" /\ txreg = 0
  BY WhoseTop DEF TxInv, TxLoad, At, HandlerPoints
<1>3. Goto(AfterTx)
  BY DEF TxLoad
<1>4. AfterTx \in HandlerPoints /\ AfterTx \in {"rx_flag", "tx_flag", "exit"}
  BY DispatchPoints
<1>5. Shape' /\ Len(stack') = 2 /\ Top'.pc = AfterTx /\ stack'[1] = stack[1]
  BY <1>1, <1>2, <1>3, <1>4, MovedTop
<1>6. Masters' /\ RxTypes' /\ MainKnows'
  BY <1>1, <1>2, <1>5 DEF Masters, RxTypes, MainKnows
<1>7. /\ Len(wire) \in Nat /\ InUsart \in Nat /\ Ahead = InUsart + 1 /\ Top.b = InUsart + 1
      /\ Top.b \in Bytes
  BY <1>2, AheadNat, TopFacts DEF Ahead, At, TxInv, Activations
<1>8. /\ tsr' \in Bytes /\ txreg' \in Bytes
      /\ tsr' # 0 => tsr' = Len(wire) + 1
      /\ txreg' # 0 => tsr' # 0 /\ txreg' = Len(wire) + 2
      /\ InUsart' = InUsart + 1
  <2> DEFINE b == Top.b
             l == Len(wire)
  <2>1. l \in Nat /\ wire' = wire /\ tsr \in Bytes /\ (tsr # 0 => tsr = l + 1)
    BY <1>1, <1>7 DEF TxInv
  <2>2. InUsart = l + On(tsr) + On(0) /\ InUsart' = l + On(tsr') + On(txreg')
    BY <1>2, <2>1 DEF InUsart
  <2>3. b \in Bytes /\ b = InUsart + 1
    BY <1>7
  <2>4. IF tsr = 0 THEN tsr' = b /\ txreg' = 0 ELSE tsr' = tsr /\ txreg' = b
    BY <1>2 DEF TxLoad
  <2> HIDE DEF b, l
  <2>5. 0 \in Bytes
    BY SerialAssumption DEF Bytes, SerialAssumption
  <2>6. On(0) = 0 /\ \A x \in Nat : On(x + 1) = 1
    BY DEF On
  <2>7. CASE tsr = 0
    <3>1. tsr' = b /\ txreg' = 0 /\ b = l + 1
      BY <2>1, <2>2, <2>3, <2>4, <2>6, <2>7
    <3>2. On(tsr') = 1 /\ On(txreg') = 0 /\ On(tsr) = 0
      BY <2>1, <2>6, <2>7, <3>1
    <3>3. InUsart = l /\ InUsart' = l + 1
      BY <2>1, <2>2, <2>6, <3>2
    <3>4. QED
      BY <2>1, <2>3, <2>5, <3>1, <3>3 DEF l
  <2>8. CASE tsr # 0
    <3>1. tsr' = l + 1 /\ tsr' = tsr /\ On(tsr') = 1
      BY <2>1, <2>4, <2>6, <2>8
    <3>2. InUsart = l + 1 /\ txreg' = b /\ b = l + 2
      BY <2>1, <2>2, <2>3, <2>4, <2>6, <2>8, <3>1
    <3>3. On(txreg') = 1
      <4>1. b = (l + 1) + 1 /\ l + 1 \in Nat
        BY <2>1, <3>2
      <4>2. QED
        BY <2>6, <3>2, <4>1
    <3>4. InUsart' = l + 2
      BY <2>1, <2>2, <3>1, <3>3
    <3>5. QED
      BY <2>1, <2>3, <3>1, <3>2, <3>4 DEF l
  <2>9. QED
    BY <2>7, <2>8
<1>9. Ahead' = Ahead
  BY <1>4, <1>5, <1>7, <1>8 DEF Ahead, At
<1>10. Content(tx)' = Content(tx) /\ RingOK(tx)'
  BY <1>1 DEF TxInv, Content, RingOK
<1>11. QED
  <2>1. ~At("tx_check")' /\ ~At("tx_pop")' /\ ~At("tx_load")'
    BY <1>4, <1>5 DEF At
  <2>2. TxInv'
    BY <1>1, <1>8, <1>9, <1>10, <2>1 DEF TxInv
  <2>3. QED
    BY <1>5, <1>6, <2>2

\* The RX handler, which leaves the bytes on their way out alone.
LEMMA RxFlagKeeps == IInv /\ RxFlag => IInv'
<1> SUFFICES ASSUME IInv, RxFlag PROVE IInv'
  OBVIOUS
<1> DEFINE pc == IF Top.seenRx /\ RCIF THEN "rx_read" ELSE AfterRx
<1>1. Len(stack) = 2 /\ Top.pc = "rx_flag"
  BY WhoseTop DEF IInv, RxFlag, At, HandlerPoints
<1>2. Goto(pc) /\ UNCHANGED <<use, tx, txie, gie, txreg, tsr, wire, next, rcreg, lastRx, arrived>>
  BY DEF RxFlag, txSide, rxSide
<1>3. pc \in HandlerPoints /\ pc \notin {"tx_check", "tx_pop", "tx_load"}
  BY DispatchPoints DEF HandlerPoints
<1> HIDE DEF pc
<1>4. txie' \in BOOLEAN
  BY <1>2 DEF IInv, TxInv
<1>5. QED
  BY <1>1, <1>2, <1>3, <1>4, HandlerMoved

LEMMA RxReadKeeps == IInv /\ RxRead => IInv'
<1> SUFFICES ASSUME IInv, RxRead PROVE IInv'
  OBVIOUS
<1> USE DEF IInv
<1>1. UNCHANGED <<use, tx, txie, gie, txreg, tsr, wire, next, arrived>>
  BY DEF RxRead, txSide
<1>2. Len(stack) = 2 /\ Top.pc = "rx_read"
  BY WhoseTop DEF RxRead, At, HandlerPoints
<1> DEFINE b == IF RCIF THEN Head(rcreg) ELSE lastRx
<1>3. b \in Bytes /\ rcreg' \in Seq(Bytes) /\ lastRx' \in Bytes
  BY HeadTailProperties DEF RxRead, RxTypes, RCIF
<1>4. GotoWith("rx_check", b) /\ "rx_check" \in HandlerPoints
  BY DEF RxRead, HandlerPoints
<1> HIDE DEF b
<1>5. Shape' /\ Len(stack') = 2 /\ Top'.pc = "rx_check" /\ stack'[1] = stack[1]
  BY <1>1, <1>2, <1>3, <1>4, MovedWith
<1>6. Masters' /\ RxTypes' /\ MainKnows'
  BY <1>1, <1>2, <1>3, <1>5 DEF Masters, RxTypes, MainKnows
<1>7. TxInv'
  BY <1>1, <1>2, <1>5, TxQuiet DEF TxInv
<1>8. QED
  BY <1>5, <1>6, <1>7

LEMMA RxStoresKeep == IInv /\ (RxCheck \/ RxStore \/ RxHead \/ RxCount) => IInv'
<1> SUFFICES ASSUME IInv, RxCheck \/ RxStore \/ RxHead \/ RxCount PROVE IInv'
  OBVIOUS
<1> DEFINE from == Top.pc
           to == IF At("rx_check") /\ rx.count < SZ THEN "rx_store"
                 ELSE IF At("rx_store") THEN "rx_head"
                 ELSE IF At("rx_head") THEN "rx_count" ELSE AfterRx
<1>1. from \in {"rx_check", "rx_store", "rx_head", "rx_count"}
  BY DEF RxCheck, RxStore, RxHead, RxCount, At
<1>2. Len(stack) = 2
  BY <1>1, WhoseTop DEF IInv, HandlerPoints
<1>3. UNCHANGED <<use, tx, txie, gie, txreg, tsr, wire, next, rcreg, lastRx, arrived>>
  BY DEF RxCheck, RxStore, RxHead, RxCount, txSide
<1>4. Goto(to)
  BY DEF RxCheck, RxStore, RxHead, RxCount, At
<1>5. to \in HandlerPoints /\ to \notin {"tx_check", "tx_pop", "tx_load"}
  BY DispatchPoints DEF HandlerPoints
<1>6. txie' \in BOOLEAN
  BY <1>3 DEF IInv, TxInv
<1> HIDE DEF to
<1>7. QED
  BY <1>1, <1>2, <1>3, <1>4, <1>5, <1>6, HandlerMoved
-----------------------------------------------------------------------------
LEMMA InitHolds == SoundUses /\ Init => IInv
<1> SUFFICES ASSUME SoundUses, Init PROVE IInv
  OBVIOUS
<1>1. 0 \in Bytes /\ SZ \in Nat \ {0} /\ TxBytes \in Nat /\ RxBytes \in Nat
  BY SerialAssumption DEF Bytes, SerialAssumption
<1> DEFINE f == Activation("main", "idle")
<1>2. f \in Activations /\ f.kind = "main" /\ f.pc = "idle"
  BY <1>1 DEF Activation, Activations, MainPoints
<1> HIDE DEF f
<1>3. stack = <<f>>
  BY DEF Init, f
<1>4. stack \in Seq(Activations) /\ Len(stack) = 1 /\ stack[1] = f /\ Top = f
  BY <1>2, <1>3 DEF Top
<1>5. Shape /\ MainKnows
  BY <1>2, <1>4 DEF Shape, MainKnows, MainPoints
<1>6. Masters
  BY <1>4 DEF SoundUses, Init, Masters, Preempt
<1>7. RxTypes
  BY <1>1, EmptySeq DEF Init, RxTypes
<1>8. RingOK(tx) /\ tx.count = 0
  <2>1. tx = EmptyRing
    BY DEF Init
  <2>2. EmptyRing.head = 0 /\ EmptyRing.tail = 0 /\ EmptyRing.count = 0
    BY DEF EmptyRing
  <2>3. EmptyRing \in Ring
    BY <1>1, SerialAssumption DEF EmptyRing, Ring, SerialAssumption
  <2>4. 0 % SZ = 0
    BY <1>1
  <2>5. QED
    BY <1>1, <2>1, <2>2, <2>3, <2>4 DEF RingOK
<1>9. wire = <<>> /\ wire \in Seq(Bytes) /\ Len(wire) = 0
  BY EmptySeq DEF Init
<1>10. InUsart = 0 /\ Ahead = 0
  BY <1>2, <1>4, <1>9 DEF Init, InUsart, On, Ahead, At
<1>11. TxInv
  <2>1. ~At("tx_check") /\ ~At("tx_pop") /\ ~At("tx_load")
    BY <1>2, <1>4 DEF At
  <2>2. txie \in BOOLEAN /\ tsr = 0 /\ txreg = 0 /\ next = 1
    BY DEF Init
  <2>3. /\ \A i \in 1 .. Len(wire) : wire[i] = i
        /\ \A i \in 1 .. tx.count : Content(tx)[i] = Ahead + i
    BY <1>8, <1>9
  <2>4. next \in 1 .. TxBytes + 1 /\ next = Ahead + tx.count + 1
    BY <1>1, <1>8, <1>10, <2>2
  <2>5. QED
    BY <1>1, <1>8, <1>9, <2>1, <2>2, <2>3, <2>4 DEF TxInv
<1>12. QED
  BY <1>5, <1>6, <1>7, <1>11 DEF IInv

LEMMA StepKeeps == SoundUses /\ IInv /\ [Next]_vars => IInv'
<1> SUFFICES ASSUME SoundUses, IInv, [Next]_vars PROVE IInv'
  OBVIOUS
<1>1. CASE ShiftOut \/ Arrive
  BY <1>1, ShiftOutKeeps, ArriveKeeps
<1>2. CASE Client
  BY <1>2, BeginWriteKeeps, BeginFlushKeeps, ReadKeeps DEF Client
<1>3. CASE Interrupt
  BY <1>3, InterruptKeeps
<1>4. CASE Running
  BY <1>4, PushByteKeeps, PushBlockedKeeps, KickKeeps, FlushRingKeeps, FlushTsrKeeps,
     DispatchEntryKeeps, DispatchExitKeeps, TxFlagKeeps, TxCheckKeeps, TxPopKeeps, TxLoadKeeps,
     RxFlagKeeps, RxReadKeeps, RxStoresKeep
     DEF Running, WriteSteps, FlushSteps, TxHandler, RxHandler
<1>5. CASE UNCHANGED vars
  <2>1. UNCHANGED <<use, tx, txie, gie, stack, txreg, tsr, wire, next, rcreg, lastRx, arrived>>
    BY <1>5 DEF vars
  <2>2. QED
    BY <2>1 DEF IInv, Shape, Masters, MainKnows, RxTypes, TxInv, RingOK, At, Top, Content, Ahead,
       InUsart
<1>6. QED
  BY <1>1, <1>2, <1>3, <1>4, <1>5 DEF Next, Processor
-----------------------------------------------------------------------------
\* Consecutive numbers, and how runs of them join.
Run(a, s) == s \in Seq(Nat) /\ \A i \in 1 .. Len(s) : s[i] = a + i

LEMMA RunsJoin ==
  ASSUME NEW a \in Nat, NEW s, NEW t, Run(a, s), Run(a + Len(s), t)
  PROVE  Run(a, s \o t) /\ Len(s \o t) = Len(s) + Len(t)
<1>1. s \in Seq(Nat) /\ t \in Seq(Nat) /\ Len(s) \in Nat /\ Len(t) \in Nat
  BY DEF Run
<1>2. /\ s \o t \in Seq(Nat) /\ Len(s \o t) = Len(s) + Len(t)
      /\ \A i \in 1 .. Len(s) + Len(t) :
           (s \o t)[i] = IF i <= Len(s) THEN s[i] ELSE t[i - Len(s)]
  BY <1>1, ConcatProperties
<1>3. ASSUME NEW i \in 1 .. Len(s \o t) PROVE (s \o t)[i] = a + i
  <2>1. CASE i <= Len(s)
    BY <1>1, <1>2, <2>1 DEF Run
  <2>2. CASE i > Len(s)
    <3>1. i - Len(s) \in 1 .. Len(t) /\ (s \o t)[i] = t[i - Len(s)]
      BY <1>1, <1>2, <2>2
    <3>2. t[i - Len(s)] = a + Len(s) + (i - Len(s))
      BY <3>1 DEF Run
    <3>3. QED
      BY <1>1, <3>1, <3>2
  <2>3. QED
    BY <1>1, <1>2, <2>1, <2>2
<1>4. QED
  BY <1>2, <1>3 DEF Run

\* What the activations hold: only the one on top can be at a point of a handler.
LEMMA HeldByTop ==
  ASSUME Shape, NEW points, points \subseteq HandlerPoints
  PROVE  HeldAt(points) = IF Top.pc \in points THEN <<Top.b>> ELSE <<>>
<1> DEFINE holders == {i \in DOMAIN stack : stack[i].pc \in points}
           nth(k) == CHOOSE i \in holders : Cardinality({j \in holders : j <= i}) = k
<1>1. HeldAt(points) = [k \in 1 .. Cardinality(holders) |-> stack[nth(k)].b]
  BY DEF HeldAt
<1>2. DOMAIN stack = 1 .. Len(stack) /\ stack[1].pc \notin points
  BY DEF Shape, MainPoints, HandlerPoints
<1>3. CASE Top.pc \in points
  <2>1. Len(stack) = 2 /\ Top = stack[2]
    BY <1>3, WhoseTop, TopFacts
  <2>2. holders = {2}
    BY <1>2, <1>3, <2>1
  <2>3. Cardinality({2}) = 1
    BY FS_Singleton
  <2>4. nth(1) = 2
    <3>1. {j \in holders : j <= 2} = {2}
      BY <2>2
    <3>2. QED
      BY <2>2, <2>3, <3>1
  <2> HIDE DEF holders, nth
  <2>5. HeldAt(points) = [k \in 1 .. 1 |-> stack[nth(k)].b]
    BY <1>1, <2>2, <2>3
  <2>6. [k \in 1 .. 1 |-> stack[nth(k)].b] = <<stack[nth(1)].b>>
    OBVIOUS
  <2>7. QED
    BY <1>3, <2>1, <2>4, <2>5, <2>6
<1>4. CASE Top.pc \notin points
  <2>1. holders = {}
    BY <1>2, <1>4, TopFacts
  <2>2. Cardinality({}) = 0
    BY FS_EmptySet
  <2> HIDE DEF holders, nth
  <2>3. HeldAt(points) = [k \in 1 .. 0 |-> stack[nth(k)].b]
    BY <1>1, <2>1, <2>2
  <2>4. [k \in 1 .. 0 |-> stack[nth(k)].b] = <<>>
    OBVIOUS
  <2>5. QED
    BY <1>4, <2>3, <2>4
<1>5. QED
  BY <1>3, <1>4

LEMMA HeldRun ==
  ASSUME NEW x \in Nat, NEW a, x # 0 => x = a + 1
  PROVE  Run(a, Held(x)) /\ Len(Held(x)) = On(x)
  BY DEF Run, Held, On

LEMMA ConservedIf == IInv => TxConserved
<1> SUFFICES ASSUME IInv PROVE TxConserved
  OBVIOUS
<1> USE DEF IInv
<1>1. /\ wire \in Seq(Bytes) /\ tsr \in Nat /\ txreg \in Nat /\ RingOK(tx)
      /\ \A b \in Bytes : b \in Nat
  BY SerialAssumption DEF TxInv, Bytes, SerialAssumption
<1>2. Len(wire) \in Nat /\ InUsart \in Nat /\ Ahead \in Nat
  BY AheadNat
<1> DEFINE l == Len(wire)
<1>3. Run(0, wire)
  <2>1. wire \in Seq(Nat)
    BY <1>1, SeqDef
  <2>2. QED
    BY <2>1 DEF Run, TxInv
<1>4. Run(l, Held(tsr)) /\ Len(Held(tsr)) = On(tsr)
  BY <1>1, <1>2, HeldRun DEF TxInv
<1>5. Run(l + On(tsr), Held(txreg)) /\ Len(Held(txreg)) = On(txreg)
  <2>1. txreg # 0 => txreg = (l + On(tsr)) + 1
    BY <1>1, <1>2 DEF TxInv, On
  <2>2. QED
    BY <1>1, <2>1, HeldRun
<1>6. Run(InUsart, Popped) /\ InUsart + Len(Popped) = Ahead
  <2>1. {"tx_load"} \subseteq HandlerPoints
    BY DEF HandlerPoints
  <2>2. Popped = IF Top.pc \in {"tx_load"} THEN <<Top.b>> ELSE <<>>
    BY <2>1, HeldByTop DEF Popped
  <2>3. CASE At("tx_load")
    <3>1. Popped = <<InUsart + 1>> /\ Ahead = InUsart + 1
      BY <2>2, <2>3 DEF At, TxInv, Ahead
    <3>2. QED
      BY <1>2, <3>1 DEF Run
  <2>4. CASE ~At("tx_load")
    <3>1. Popped = <<>> /\ Ahead = InUsart
      BY <1>2, <2>2, <2>4 DEF At, Ahead
    <3>2. QED
      BY <1>2, <3>1 DEF Run
  <2>5. QED
    BY <2>3, <2>4
<1>7. Run(Ahead, Content(tx)) /\ Len(Content(tx)) = tx.count /\ tx.count \in Nat
  <2>1. Content(tx) \in Seq(Bytes) /\ Len(Content(tx)) = tx.count /\ tx.count \in Nat
    BY <1>1, ContentShape, RingParts DEF RingOK
  <2>2. Content(tx) \in Seq(Nat)
    BY <1>1, <2>1, SeqDef
  <2>3. QED
    BY <2>1, <2>2 DEF Run, TxInv
<1> DEFINE s1 == wire \o Held(tsr)
           s2 == s1 \o Held(txreg)
           s3 == s2 \o Popped
           s4 == s3 \o Content(tx)
<1> HIDE DEF l
<1>8. Run(0, s1) /\ Len(s1) = l + On(tsr)
  <2>1. 0 \in Nat /\ 0 + Len(wire) = l
    BY <1>2 DEF l
  <2>2. QED
    BY <1>2, <1>3, <1>4, <2>1, RunsJoin DEF l
<1> HIDE DEF s1
<1>9. Run(0, s2) /\ Len(s2) = InUsart
  <2>1. On(tsr) \in Nat /\ On(txreg) \in Nat
    BY DEF On
  <2>2. 0 \in Nat /\ 0 + Len(s1) = l + On(tsr)
    BY <1>2, <1>8, <2>1 DEF l
  <2>3. Run(0, s2) /\ Len(s2) = Len(s1) + Len(Held(txreg))
    BY <1>5, <1>8, <2>2, RunsJoin
  <2>4. QED
    BY <1>5, <1>8, <2>3 DEF InUsart, l
<1> HIDE DEF s2
<1>10. Run(0, s3) /\ Len(s3) = Ahead
  <2>1. 0 \in Nat /\ 0 + Len(s2) = InUsart
    BY <1>2, <1>9
  <2>2. Run(0, s3) /\ Len(s3) = Len(s2) + Len(Popped)
    BY <1>6, <1>9, <2>1, RunsJoin
  <2>3. QED
    BY <1>6, <1>9, <2>2
<1> HIDE DEF s3
<1>11. Run(0, s4) /\ Len(s4) = Ahead + tx.count
  <2>1. 0 \in Nat /\ 0 + Len(s3) = Ahead
    BY <1>2, <1>10
  <2>2. Run(0, s4) /\ Len(s4) = Len(s3) + Len(Content(tx))
    BY <1>7, <1>10, <2>1, RunsJoin
  <2>3. QED
    BY <1>7, <1>10, <2>2
<1> HIDE DEF s4
<1>12. s4 = [i \in 1 .. next - 1 |-> i]
  <2>1. next - 1 = Ahead + tx.count /\ next - 1 \in Nat
    BY <1>2, <1>7 DEF TxInv
  <2>2. s4 \in Seq(Nat) /\ Len(s4) = next - 1 /\ \A i \in 1 .. next - 1 : s4[i] = i
    BY <1>11, <2>1 DEF Run
  <2>3. QED
    BY <2>1, <2>2
<1>13. QED
  BY <1>12 DEF TxConserved, s4, s3, s2, s1

\* In the uses the library supports the bytes written are, at any time and in the
\* order of writing, on the wire, in the USART, in the handler's hand or in the
\* ring, for every ring size, counter width and number of bytes: the pop outside
\* the test and the load outside the critical section lose nothing.
THEOREM Conserved ==
  ASSUME SoundUses
  PROVE  Spec => []TxConserved
<1>1. Init => IInv
  BY InitHolds
<1>2. IInv /\ [Next]_vars => IInv'
  BY StepKeeps
<1>3. IInv => TxConserved
  BY ConservedIf
<1>4. QED
  BY <1>1, <1>2, <1>3, PTL DEF Spec

\* The invariant behind it, which also fixes the types of the TX side, the shape
\* of the stack and when the master enable is set.
THEOREM Inductive ==
  ASSUME SoundUses
  PROVE  Spec => []IInv
<1>1. Init => IInv
  BY InitHolds
<1>2. IInv /\ [Next]_vars => IInv'
  BY StepKeeps
<1>3. QED
  BY <1>1, <1>2, PTL DEF Spec
-----------------------------------------------------------------------------
LEMMA FifoInit == Init => Link!LinkInit
  BY DEF Init, Link!LinkInit

\* Which steps write a byte and which put one on the wire.
LEMMA QuietSteps ==
  [Next]_vars /\ ~PushByte /\ ~ShiftOut => UNCHANGED <<next, wire>>
<1> SUFFICES ASSUME [Next]_vars, ~PushByte, ~ShiftOut PROVE UNCHANGED <<next, wire>>
  OBVIOUS
<1>1. CASE Arrive \/ Interrupt
  BY <1>1 DEF Arrive, Interrupt, txSide
<1>2. CASE Client
  BY <1>2 DEF Client, BeginWrite, BeginFlush, Read, txSide
<1>3. CASE PushBlocked \/ Kick \/ FlushSteps
  BY <1>3 DEF PushBlocked, Kick, FlushSteps, FlushRing, FlushTsr, txSide
<1>4. CASE DispatchEntry \/ DispatchExit
  BY <1>4 DEF DispatchEntry, DispatchExit, txSide
<1>5. CASE TxHandler
  BY <1>5 DEF TxHandler, TxFlag, TxCheck, TxPop, TxLoad, txSide
<1>6. CASE RxHandler
  BY <1>6 DEF RxHandler, RxFlag, RxRead, RxCheck, RxStore, RxHead, RxCount, txSide
<1>7. CASE UNCHANGED vars
  BY <1>7 DEF vars
<1>8. QED
  BY <1>1, <1>2, <1>3, <1>4, <1>5, <1>6, <1>7 DEF Next, Processor, Running, WriteSteps

LEMMA FifoStep == IInv /\ [Next]_vars => [Link!HandOver \/ Link!Deliver]_(Link!linkVars)
<1> SUFFICES ASSUME IInv, [Next]_vars
             PROVE  [Link!HandOver \/ Link!Deliver]_(Link!linkVars)
  OBVIOUS
<1> USE DEF IInv
<1>1. /\ Len(wire) \in Nat /\ Ahead \in Nat /\ tx.count \in Nat /\ next \in Nat
      /\ next = Ahead + tx.count + 1 /\ TxBytes \in Nat
  BY AheadNat, RingParts, SerialAssumption DEF TxInv, SerialAssumption
<1>2. CASE PushByte
  <2>1. stack[1].pc = "push"
    BY <1>2, WhoseTop, TopFacts DEF PushByte, At, MainPoints
  <2>2. next <= TxBytes /\ next' = next + 1 /\ wire' = wire
    BY <1>2, <2>1 DEF PushByte, MainKnows
  <2>3. Link!HandOver
    BY <1>1, <2>2 DEF Link!HandOver
  <2>4. QED
    BY <2>3
<1>3. CASE ShiftOut
  <2>1. tsr # 0 /\ tsr = Len(wire) + 1 /\ wire' = Append(wire, tsr) /\ next' = next
    BY <1>3 DEF ShiftOut, TxInv
  <2>2. Ahead >= Len(wire) + 1
    <3>1. On(tsr) = 1 /\ On(txreg) \in Nat
      BY <2>1 DEF On
    <3>2. InUsart >= Len(wire) + 1 /\ InUsart \in Nat
      BY <1>1, <3>1 DEF InUsart
    <3>3. QED
      BY <1>1, <3>2 DEF Ahead
  <2>3. Len(wire) < next - 1
    BY <1>1, <2>2
  <2>4. Link!Deliver
    BY <1>1, <2>1, <2>3 DEF Link!Deliver
  <2>5. QED
    BY <2>4
<1>4. CASE ~PushByte /\ ~ShiftOut
  BY <1>4, QuietSteps DEF Link!linkVars
<1>5. QED
  BY <1>2, <1>3, <1>4

\* Seen from outside, the transmitter is a FIFO: each byte handed to
\* epic_serial_write appears on the wire, once, after those written before it.
THEOREM Fifo ==
  ASSUME SoundUses
  PROVE  Spec => TransmitterIsFifo
<1>1. Init => IInv
  BY InitHolds
<1>2. IInv /\ [Next]_vars => IInv'
  BY StepKeeps
<1>3. Init => Link!LinkInit
  BY FifoInit
<1>4. IInv /\ [Next]_vars => [Link!HandOver \/ Link!Deliver]_(Link!linkVars)
  BY FifoStep
<1>5. QED
  BY <1>1, <1>2, <1>3, <1>4, PTL DEF Spec, TransmitterIsFifo, Link!LinkSpec
-----------------------------------------------------------------------------
LEMMA DrainedStep ==
  ASSUME IInv, [Next]_vars, At("flush_tsr"), Len(stack) = 1, stack'[1].pc = "idle"
  PROVE  tx.count = 0 /\ tsr = 0 /\ txreg = 0 /\ wire = [i \in 1 .. next - 1 |-> i]
<1> USE DEF IInv
<1>1. stack[1].pc = "flush_tsr" /\ Top.pc = "flush_tsr"
  BY TopFacts DEF At
<1>2. stack'[1] # stack[1] /\ stack' # stack
  BY <1>1
<1>3. ~gie /\ tx.count = 0
  <2>1. use # "isr" /\ tx.count = 0
    BY <1>1 DEF MainKnows
  <2>2. QED
    BY <2>1, Zenon DEF Masters
<1>4. FlushTsr
  <2>1. ~ShiftOut /\ ~Arrive /\ ~UNCHANGED vars
    BY <1>2 DEF ShiftOut, Arrive, vars
  <2>2. ~Client
    BY <1>1, <1>2 DEF Client, BeginWrite, BeginFlush, Read, At
  <2>3. ~Interrupt
    BY <1>3 DEF Interrupt
  <2>4. ~WriteSteps /\ ~FlushRing
    BY <1>1 DEF WriteSteps, PushByte, PushBlocked, Kick, FlushRing, At
  <2>5. ~DispatchEntry /\ ~DispatchExit
    BY <1>1 DEF DispatchEntry, DispatchExit, At
  <2>6. ~TxHandler /\ ~RxHandler
    BY <1>1 DEF TxHandler, RxHandler, TxFlag, TxCheck, TxPop, TxLoad, RxFlag, RxRead, RxCheck,
       RxStore, RxHead, RxCount, At
  <2>7. QED
    BY <2>1, <2>2, <2>3, <2>4, <2>5, <2>6 DEF Next, Processor, Running, FlushSteps
<1>5. tsr = 0
  <2>1. CASE tsr # 0
    <3>1. stack' = Append(stack, Activation("call", "entry"))
      BY <1>4, <2>1 DEF FlushTsr
    <3>2. UNCHANGED use
      BY <1>4 DEF FlushTsr, txSide
    <3>3. use # "isr"
      BY <1>1 DEF MainKnows
    <3>4. stack'[1] = stack[1]
      BY <3>1, <3>2, <3>3, PushTop
    <3>5. QED
      BY <1>2, <3>4
  <2>2. QED
    BY <2>1
<1>6. txreg = 0
  BY <1>5 DEF TxInv
<1>7. next - 1 = Len(wire) /\ Len(wire) \in Nat
  <2>1. Len(wire) \in Nat /\ On(tsr) = 0 /\ On(txreg) = 0
    BY <1>5, <1>6, AheadNat DEF On
  <2>2. InUsart = Len(wire)
    BY <2>1 DEF InUsart
  <2>3. Ahead = Len(wire)
    BY <1>1, <2>1, <2>2 DEF Ahead, At
  <2>4. next = Len(wire) + 0 + 1
    BY <1>3, <2>3 DEF TxInv
  <2>5. QED
    BY <2>1, <2>4
<1>8. wire = [i \in 1 .. next - 1 |-> i]
  <2>1. wire \in Seq(Bytes) /\ \A i \in 1 .. Len(wire) : wire[i] = i
    BY DEF TxInv
  <2>2. wire = [i \in 1 .. Len(wire) |-> i]
    BY <2>1
  <2>3. QED
    BY <1>7, <2>2
<1>9. QED
  BY <1>3, <1>5, <1>6, <1>8

\* epic_serial_flush returns only when everything written is on the wire: no byte
\* is left in the ring, in TXREG or in the shift register.
THEOREM Drains ==
  ASSUME SoundUses
  PROVE  Spec => FlushDrains
<1>1. Init => IInv
  BY InitHolds
<1>2. IInv /\ [Next]_vars => IInv'
  BY StepKeeps
<1>3. IInv /\ [Next]_vars =>
        [At("flush_tsr") /\ Len(stack) = 1 /\ stack'[1].pc = "idle"
           => tx.count = 0 /\ tsr = 0 /\ txreg = 0 /\ wire = [i \in 1 .. next - 1 |-> i]]_vars
  BY DrainedStep
<1>4. QED
  BY <1>1, <1>2, <1>3, PTL DEF Spec, FlushDrains
-----------------------------------------------------------------------------
(***************************************************************************)
(* The other direction: what arrives is read once each and in order, less  *)
(* the bytes counted as dropped, although epic_serial_on_rx updates the    *)
(* buffer, the head and the count in three steps outside any critical      *)
(* section.                                                                *)
(***************************************************************************)

\* The bytes on their way in: the RX handler holds one from the read of RCREG to
\* the count, and in between writes it behind the ring's last byte.
RxHolds == {"rx_check", "rx_store", "rx_head", "rx_count"}
Hand == IF Top.pc \in RxHolds THEN <<Top.b>> ELSE <<>>
Chain == got \o Content(rx) \o Hand \o rcreg

RxRing ==
  /\ rx \in Ring /\ rx.count <= SZ
  /\ rx.head = (rx.tail + (rx.count + IF At("rx_count") THEN 1 ELSE 0)) % SZ
  /\ At("rx_store") \/ At("rx_head") \/ At("rx_count") => rx.count < SZ
  /\ At("rx_head") \/ At("rx_count") => rx.buf[(rx.tail + rx.count) % SZ] = Top.b
RxChain ==
  /\ At("rx_read") => rcreg # <<>>
  /\ got \in Seq(Bytes) /\ missed \subseteq 1 .. arrived
  /\ Increasing(Chain) /\ ToSet(Chain) = (1 .. arrived) \ missed
RxInv == RxRing /\ RxChain
-----------------------------------------------------------------------------
\* Where n reads leave the tail of a ring with c bytes from t on.
LEMMA ReadSlots ==
  ASSUME NEW n \in Nat \ {0}, NEW t \in 0 .. n - 1, NEW c \in 0 .. n, NEW k \in 1 .. c
  PROVE  /\ (((t + k) % n) + (c - k)) % n = (t + c) % n
         /\ \A i \in 1 .. c - k : (((t + k) % n) + i - 1) % n = (t + (i + k) - 1) % n
<1> DEFINE u == (t + k) % n
<1>0. \A x \in 0 .. 2 * n - 1 : x % n = IF x < n THEN x ELSE x - n
  BY Wrap
<1>1. u \in 0 .. n - 1 /\ u = IF t + k < n THEN t + k ELSE t + k - n
  <2>1. t + k \in 0 .. 2 * n - 1
    OBVIOUS
  <2>2. QED
    BY <1>0, <2>1
<1> HIDE DEF u
<1>2. ASSUME NEW m \in 0 .. c - k PROVE (u + m) % n = IF u + m < n THEN u + m ELSE u + m - n
  <2>1. ASSUME NEW v \in 0 .. n - 1 PROVE (v + m) % n = IF v + m < n THEN v + m ELSE v + m - n
    <3>1. v + m \in 0 .. 2 * n - 1
      OBVIOUS
    <3>2. QED
      BY <1>0, <3>1
  <2>2. QED
    BY <1>1, <2>1
<1>3. ASSUME NEW m \in 0 .. c PROVE (t + m) % n = IF t + m < n THEN t + m ELSE t + m - n
  <2>1. CASE t + m \in 0 .. 2 * n - 1
    BY <1>0, <2>1
  <2>2. CASE t + m \notin 0 .. 2 * n - 1
    BY <2>2
  <2>3. QED
    BY <2>1, <2>2
<1>4. ASSUME NEW m \in 0 .. c - k PROVE (u + m) % n = (t + (m + k)) % n
  <2>1. m + k \in 0 .. c
    OBVIOUS
  <2>2. (t + (m + k)) % n = IF t + (m + k) < n THEN t + (m + k) ELSE t + (m + k) - n
    BY <1>3, <2>1
  <2>3. (u + m) % n = IF u + m < n THEN u + m ELSE u + m - n
    BY <1>2
  <2>4. QED
    BY <1>1, <2>1, <2>2, <2>3
<1>5. (u + (c - k)) % n = (t + c) % n
  <2>1. c - k \in 0 .. c - k /\ t + ((c - k) + k) = t + c
    OBVIOUS
  <2>2. QED
    BY <1>4, <2>1
<1>6. ASSUME NEW i \in 1 .. c - k PROVE (u + i - 1) % n = (t + (i + k) - 1) % n
  <2>1. i - 1 \in 0 .. c - k /\ t + ((i - 1) + k) = t + (i + k) - 1
    OBVIOUS
  <2>2. u + (i - 1) = u + i - 1
    BY <1>1
  <2>3. (u + (i - 1)) % n = (t + ((i - 1) + k)) % n
    BY <1>4, <2>1
  <2>4. QED
    BY <2>1, <2>2, <2>3
<1>7. QED
  BY <1>5, <1>6 DEF u

\* Increasing sequences: a later element at the end, and one taken out.
LEMMA IncreasingAppend ==
  ASSUME NEW s \in Seq(Nat), NEW e \in Nat, Increasing(s), \A x \in ToSet(s) : x < e
  PROVE  /\ Increasing(Append(s, e))
         /\ ToSet(Append(s, e)) = ToSet(s) \cup {e}
<1> DEFINE n == Len(s)
           t == Append(s, e)
<1>1. /\ n \in Nat /\ t \in Seq(Nat) /\ Len(t) = n + 1
      /\ \A i \in 1 .. n : t[i] = s[i] /\ s[i] \in ToSet(s)
      /\ t[n + 1] = e
  BY AppendProperties, LenProperties DEF ToSet
<1>2. DOMAIN s = 1 .. n /\ DOMAIN t = 1 .. n + 1
  BY <1>1, LenProperties
<1> HIDE DEF t
<1>3. Increasing(t)
  <2>1. ASSUME NEW i \in 1 .. n + 1, NEW j \in 1 .. n + 1, i < j PROVE t[i] < t[j]
    <3>1. CASE j <= n
      <4>1. i \in 1 .. Len(s) /\ j \in 1 .. Len(s)
        BY <1>1, <2>1, <3>1
      <4>2. s[i] < s[j]
        BY <2>1, <4>1 DEF Increasing
      <4>3. QED
        BY <1>1, <4>1, <4>2
    <3>2. CASE j = n + 1
      BY <1>1, <2>1, <3>2
    <3>3. QED
      BY <1>1, <3>1, <3>2
  <2>2. QED
    BY <1>1, <2>1 DEF Increasing
<1>4. ToSet(t) = ToSet(s) \cup {e}
  <2>1. \A x \in ToSet(t) : x \in ToSet(s) \cup {e}
    <3>1. \A i \in 1 .. n + 1 : t[i] \in ToSet(s) \cup {e}
      BY <1>1
    <3>2. QED
      BY <1>2, <3>1 DEF ToSet
  <2>2. \A x \in ToSet(s) : x \in ToSet(t)
    BY <1>1, <1>2 DEF ToSet
  <2>3. e \in ToSet(t)
    BY <1>1, <1>2 DEF ToSet
  <2>4. QED
    BY <2>1, <2>2, <2>3
<1>5. QED
  BY <1>3, <1>4 DEF t

LEMMA IncreasingDrop ==
  ASSUME NEW a \in Seq(Nat), NEW b \in Nat, NEW c \in Seq(Nat), Increasing((a \o <<b>>) \o c)
  PROVE  /\ Increasing(a \o c)
         /\ ToSet(a \o c) = ToSet((a \o <<b>>) \o c) \ {b}
         /\ b \in ToSet((a \o <<b>>) \o c)
<1> DEFINE n == Len(a)
           m == Len(c)
           s == (a \o <<b>>) \o c
           t == a \o c
           skip(i) == IF i <= n THEN i ELSE i + 1
<1>1. n \in Nat /\ m \in Nat
  BY LenProperties
<1>2. /\ t \in Seq(Nat) /\ Len(t) = n + m
      /\ \A i \in 1 .. n + m : t[i] = IF i <= n THEN a[i] ELSE c[i - n]
  BY ConcatProperties
<1>3. /\ s \in Seq(Nat) /\ Len(s) = n + 1 + m
      /\ \A i \in 1 .. n + 1 + m : s[i] = IF i <= n THEN a[i] ELSE IF i = n + 1 THEN b ELSE c[i - n - 1]
  <2> DEFINE p == a \o <<b>>
  <2>1. <<b>> \in Seq(Nat) /\ Len(<<b>>) = 1 /\ <<b>>[1] = b
    OBVIOUS
  <2>2. /\ p \in Seq(Nat) /\ Len(p) = n + 1
        /\ \A i \in 1 .. n + 1 : p[i] = IF i <= n THEN a[i] ELSE <<b>>[i - n]
    BY <2>1, ConcatProperties
  <2> HIDE DEF p
  <2>3. /\ p \o c \in Seq(Nat) /\ Len(p \o c) = Len(p) + m
        /\ \A i \in 1 .. Len(p) + m : (p \o c)[i] = IF i <= Len(p) THEN p[i] ELSE c[i - Len(p)]
    <3>1. p \in Seq(Nat) /\ c \in Seq(Nat) /\ m = Len(c)
      BY <2>2
    <3> HIDE DEF m, n
    <3>2. \A u, v \in Seq(Nat) :
            /\ u \o v \in Seq(Nat) /\ Len(u \o v) = Len(u) + Len(v)
            /\ \A i \in 1 .. Len(u) + Len(v) : (u \o v)[i] = IF i <= Len(u) THEN u[i] ELSE v[i - Len(u)]
      BY ConcatProperties
    <3>3. QED
      BY <3>1, <3>2
  <2> DEFINE q == p \o c
  <2>4. s = q
    BY DEF p
  <2> HIDE DEF q, s
  <2>5. ASSUME NEW i \in 1 .. n + 1 + m
        PROVE  q[i] = IF i <= n THEN a[i] ELSE IF i = n + 1 THEN b ELSE c[i - n - 1]
    <3>1. CASE i <= n
      BY <1>1, <2>2, <2>3, <3>1 DEF q
    <3>2. CASE i = n + 1
      <4>1. i - n = 1 /\ i \in 1 .. n + 1
        BY <1>1, <3>2
      <4>2. p[i] = b
        BY <1>1, <2>1, <2>2, <3>2, <4>1
      <4>3. QED
        BY <1>1, <2>2, <2>3, <3>2, <4>1, <4>2 DEF q
    <3>3. CASE i > n + 1
      <4>1. i - Len(p) = i - n - 1 /\ ~(i <= Len(p)) /\ i \in 1 .. Len(p) + m
        BY <1>1, <2>2, <3>3
      <4>2. q[i] = c[i - n - 1]
        BY <2>3, <4>1 DEF q
      <4>3. QED
        BY <1>1, <3>3, <4>2
    <3>4. QED
      BY <1>1, <3>1, <3>2, <3>3
  <2>6. QED
    BY <1>1, <2>2, <2>3, <2>4, <2>5 DEF q
<1>4. Increasing(s)
  OBVIOUS
<1> HIDE DEF s, t
<1>5. DOMAIN s = 1 .. n + 1 + m /\ DOMAIN t = 1 .. n + m
  BY <1>1, <1>2, <1>3, LenProperties
<1>6. ASSUME NEW i \in 1 .. n + m
      PROVE  skip(i) \in 1 .. n + 1 + m /\ t[i] = s[skip(i)] /\ skip(i) # n + 1
  <2>1. CASE i <= n
    <3>1. skip(i) = i /\ i \in 1 .. n + 1 + m /\ i # n + 1
      BY <1>1, <2>1
    <3>2. t[i] = a[i] /\ s[i] = a[i]
      BY <1>1, <1>2, <1>3, <2>1, <3>1
    <3>3. QED
      BY <3>1, <3>2
  <2>2. CASE i > n
    <3>1. i + 1 \in 1 .. n + 1 + m /\ (i + 1) - n - 1 = i - n /\ skip(i) = i + 1 /\ i + 1 > n + 1
      BY <1>1, <2>2
    <3>2. s[i + 1] = c[i - n]
      BY <1>1, <1>3, <3>1
    <3>3. t[i] = c[i - n]
      BY <1>1, <1>2, <2>2
    <3>4. QED
      BY <1>1, <3>1, <3>2, <3>3
  <2>3. QED
    BY <1>1, <2>1, <2>2
<1>7. \A i, j \in 1 .. n + m : i < j => skip(i) < skip(j)
  BY <1>1
<1>8. \A i \in 1 .. n + 1 + m : i # n + 1 => \E j \in 1 .. n + m : i = skip(j)
  <2>1. ASSUME NEW i \in 1 .. n + 1 + m, i # n + 1 PROVE \E j \in 1 .. n + m : i = skip(j)
    <3>1. CASE i <= n
      BY <1>1, <3>1
    <3>2. CASE i > n + 1
      <4>1. i - 1 \in 1 .. n + m /\ skip(i - 1) = i
        BY <1>1, <3>2
      <4>2. QED
        BY <4>1
    <3>3. QED
      BY <1>1, <2>1, <3>1, <3>2
  <2>2. QED
    BY <2>1
<1> HIDE DEF skip
<1>9. Increasing(t)
  <2>1. ASSUME NEW i \in 1 .. n + m, NEW j \in 1 .. n + m, i < j PROVE t[i] < t[j]
    <3>1. s[skip(i)] < s[skip(j)]
      BY <1>3, <1>4, <1>6, <1>7, <2>1 DEF Increasing
    <3>2. QED
      BY <1>6, <3>1
  <2>2. QED
    BY <1>2, <2>1 DEF Increasing
<1>10. s[n + 1] = b /\ n + 1 \in 1 .. n + 1 + m
  BY <1>1, <1>3
<1>11. \A i \in 1 .. n + 1 + m : i # n + 1 => s[i] # b
  <2>1. ASSUME NEW i \in 1 .. n + 1 + m, i # n + 1 PROVE s[i] # b
    <3>1. s[i] \in Nat /\ s[n + 1] \in Nat
      BY <1>3, <1>10, ElementOfSeq
    <3>2. s[i] < s[n + 1] \/ s[n + 1] < s[i]
      <4>1. i \in 1 .. Len(s) /\ n + 1 \in 1 .. Len(s)
        BY <1>3, <1>10
      <4>2. i < n + 1 \/ n + 1 < i
        BY <1>1, <2>1
      <4>3. \A j, k \in 1 .. Len(s) : j < k => s[j] < s[k]
        BY <1>4 DEF Increasing
      <4>4. QED
        BY <4>1, <4>2, <4>3
    <3>3. QED
      BY <1>10, <3>1, <3>2
  <2>2. QED
    BY <2>1
<1>12. ToSet(t) = ToSet(s) \ {b} /\ b \in ToSet(s)
  <2>1. \A i \in 1 .. n + m : t[i] \in ToSet(s) \ {b}
    BY <1>5, <1>6, <1>11 DEF ToSet
  <2>2. \A i \in 1 .. n + 1 + m : s[i] # b => s[i] \in ToSet(t)
    <3> TAKE i \in 1 .. n + 1 + m
    <3> HAVE s[i] # b
    <3>1. PICK j \in 1 .. n + m : i = skip(j)
      BY <1>8, <1>10
    <3>2. t[j] = s[i]
      BY <1>6, <3>1
    <3>3. t[j] \in ToSet(t)
      BY <1>5 DEF ToSet
    <3>4. QED
      BY <3>2, <3>3
  <2>3. QED
    BY <1>5, <1>10, <2>1, <2>2 DEF ToSet
<1>13. QED
  BY <1>9, <1>12 DEF s, t

\* How the bytes move along the chain.
LEMMA ChainAppend ==
  ASSUME NEW S, NEW x \in Seq(S), NEW r \in Seq(S), NEW e \in S
  PROVE  x \o Append(r, e) = Append(x \o r, e)
<1>1. <<e>> \in Seq(S) /\ x \o r \in Seq(S)
  BY ConcatProperties
<1>2. Append(r, e) = r \o <<e>> /\ Append(x \o r, e) = (x \o r) \o <<e>>
  BY <1>1, AppendIsConcat
<1>3. QED
  BY <1>1, <1>2, ConcatAssociative

LEMMA ChainHead ==
  ASSUME NEW S, NEW x \in Seq(S), NEW r \in Seq(S), r # <<>>
  PROVE  (x \o <<>>) \o r = (x \o <<Head(r)>>) \o Tail(r)
<1>1. /\ Head(r) \in S /\ Tail(r) \in Seq(S) /\ Len(Tail(r)) = Len(r) - 1
      /\ \A i \in 1 .. Len(Tail(r)) : Tail(r)[i] = r[i + 1]
  BY HeadTailProperties
<1> DEFINE h == <<Head(r)>>
<1>2. h \in Seq(S) /\ Len(h) = 1 /\ h[1] = r[1]
  BY <1>1
<1> HIDE DEF h
<1>3. h \o Tail(r) = r
  <2>1. /\ h \o Tail(r) \in Seq(S) /\ Len(h \o Tail(r)) = Len(h) + Len(Tail(r))
        /\ \A i \in 1 .. Len(h) + Len(Tail(r)) :
             (h \o Tail(r))[i] = IF i <= Len(h) THEN h[i] ELSE Tail(r)[i - Len(h)]
    <3>1. h \in Seq(S) /\ Tail(r) \in Seq(S)
      BY <1>1, <1>2
    <3>2. QED
      BY <3>1, ConcatProperties
  <2>2. Len(r) \in Nat /\ Len(h \o Tail(r)) = Len(r)
    BY <1>1, <1>2, <2>1, LenProperties
  <2>3. ASSUME NEW i \in 1 .. Len(r) PROVE (h \o Tail(r))[i] = r[i]
    <3>1. CASE i = 1
      BY <1>1, <1>2, <2>1, <2>2, <3>1
    <3>2. CASE i > 1
      <4>1. i - 1 \in 1 .. Len(Tail(r)) /\ (i - 1) + 1 = i
        BY <1>1, <2>2, <3>2
      <4>2. QED
        BY <1>1, <1>2, <2>1, <2>2, <3>2, <4>1
    <3>3. QED
      BY <2>2, <3>1, <3>2
  <2>4. QED
    BY <2>1, <2>2, <2>3, SeqEqual
<1>4. (x \o h) \o Tail(r) = x \o (h \o Tail(r))
  BY <1>1, <1>2, ConcatAssociative, SMTT(30)
<1>5. x \o <<>> = x
  BY ConcatEmptySeq
<1>6. QED
  BY <1>3, <1>4, <1>5 DEF h
-----------------------------------------------------------------------------
LEMMA RxParts ==
  ASSUME IInv, RxInv
  PROVE  /\ SZ \in Nat \ {0} /\ CountMod \in Nat /\ CountMod > SZ
         /\ rx.buf \in [0 .. SZ - 1 -> Bytes] /\ rx.head \in 0 .. SZ - 1
         /\ rx.tail \in 0 .. SZ - 1 /\ rx.count \in 0 .. SZ
         /\ rx = [buf |-> rx.buf, head |-> rx.head, tail |-> rx.tail, count |-> rx.count]
         /\ Content(rx) \in Seq(Bytes) /\ Len(Content(rx)) = rx.count
         /\ got \in Seq(Bytes) /\ rcreg \in Seq(Bytes) /\ Top.b \in Bytes
         /\ got \o Content(rx) \in Seq(Bytes)
         /\ Bytes \subseteq Nat
<1>1. rx \in Ring /\ rx.count <= SZ
  BY DEF RxInv, RxRing
<1>2. Content(rx) \in Seq(Bytes) /\ Len(Content(rx)) = rx.count
  BY <1>1, ContentShape
<1>3. got \in Seq(Bytes) /\ rcreg \in Seq(Bytes) /\ Top.b \in Bytes
  BY TopFacts DEF RxInv, RxChain, IInv, RxTypes, Activations
<1>4. got \o Content(rx) \in Seq(Bytes)
  BY <1>2, <1>3, ConcatProperties
<1>5. Bytes \subseteq Nat
  BY SerialAssumption DEF Bytes, SerialAssumption
<1>6. QED
  BY <1>1, <1>2, <1>3, <1>4, <1>5, SerialAssumption DEF Ring, SerialAssumption

\* A step that leaves the bytes on their way in where they are.
LEMMA RxQuiet ==
  ASSUME RxInv, UNCHANGED <<rx, rcreg, got, missed, arrived>>,
         Top.pc \notin RxHolds, Top'.pc \notin RxHolds, Top'.pc = "rx_read" => rcreg # <<>>
  PROVE  RxInv'
<1>1. Hand = <<>> /\ Hand' = <<>>
  BY DEF Hand
<1>2. Chain' = Chain
  BY <1>1 DEF Chain, Content
<1>3. RxRing'
  <2>1. /\ ~At("rx_count") /\ ~At("rx_count")' /\ ~At("rx_store")' /\ ~At("rx_head")'
    BY DEF At, RxHolds
  <2>2. QED
    BY <2>1 DEF RxInv, RxRing
<1>4. RxChain'
  BY <1>2 DEF RxInv, RxChain, At
<1>5. QED
  BY <1>3, <1>4 DEF RxInv

LEMMA EntryOnTop ==
  ASSUME Shape, NEW kind \in {"call", "isr"}, stack' = Append(stack, Activation(kind, "entry"))
  PROVE  Top'.pc = "entry"
<1> DEFINE f == Activation(kind, "entry")
<1>1. f \in Activations /\ f.pc = "entry"
  <2>1. 0 \in Bytes
    BY SerialAssumption DEF Bytes, SerialAssumption
  <2>2. QED
    BY <2>1 DEF Activation, Activations, HandlerPoints
<1> HIDE DEF f
<1>2. stack \in Seq(Activations) /\ stack' = Append(stack, f)
  BY DEF Shape, f
<1>3. Len(stack') = Len(stack) + 1 /\ stack'[Len(stack) + 1] = f
  BY <1>1, <1>2, AppendProperties
<1>4. QED
  BY <1>1, <1>3 DEF Top

\* Main's other steps are the client's and those of write and flush.
MainSteps == BeginWrite \/ PushByte \/ PushBlocked \/ Kick \/ BeginFlush \/ FlushRing \/ FlushTsr

LEMMA MainQuiet == IInv /\ RxInv /\ MainSteps => RxInv'
<1> SUFFICES ASSUME IInv, RxInv, MainSteps PROVE RxInv'
  OBVIOUS
<1>1. UNCHANGED <<use, rx, rcreg, got, missed, arrived>>
  BY DEF MainSteps, BeginWrite, PushByte, PushBlocked, Kick, BeginFlush, FlushRing, FlushTsr,
         rxSide, txSide
<1>2. Top.pc \in MainPoints
  BY DEF MainSteps, BeginWrite, PushByte, PushBlocked, Kick, BeginFlush, FlushRing, FlushTsr,
         At, MainPoints
<1>3. Len(stack) = 1
  BY <1>2, WhoseTop DEF IInv
<1>4. \/ \E pc \in MainPoints : Goto(pc)
      \/ stack' = Append(stack, Activation("call", "entry"))
  BY DEF MainSteps, BeginWrite, PushByte, PushBlocked, Kick, BeginFlush, FlushRing, FlushTsr,
         MainPoints
<1>5. Top'.pc \in MainPoints \cup {"entry"}
  <2>1. CASE \E pc \in MainPoints : Goto(pc)
    <3>1. PICK pc \in MainPoints : Goto(pc)
      BY <2>1
    <3>2. Top'.pc = pc
      BY <1>1, <1>3, <3>1, MovedTop DEF IInv
    <3>3. QED
      BY <3>2
  <2>2. CASE stack' = Append(stack, Activation("call", "entry"))
    BY <2>2, EntryOnTop DEF IInv
  <2>3. QED
    BY <1>4, <2>1, <2>2
<1>6. QED
  BY <1>1, <1>2, <1>5, RxQuiet DEF MainPoints, RxHolds

\* The dispatcher and the TX handler.
LEMMA DispatchQuiet ==
  IInv /\ RxInv /\ (Interrupt \/ DispatchEntry \/ DispatchExit) => RxInv'
<1> SUFFICES ASSUME IInv, RxInv, Interrupt \/ DispatchEntry \/ DispatchExit PROVE RxInv'
  OBVIOUS
<1>1. UNCHANGED <<use, rx, rcreg, got, missed, arrived>>
  BY DEF Interrupt, DispatchEntry, DispatchExit, rxSide, txSide
<1>2. CASE Interrupt
  <2>1. Top.pc \in MainPoints
    BY <1>2, TopFacts DEF IInv, Masters, Interrupt
  <2>2. Top'.pc = "entry"
    BY <1>2, EntryOnTop DEF IInv, Interrupt
  <2>3. QED
    BY <1>1, <2>1, <2>2, RxQuiet DEF MainPoints, RxHolds
<1>3. CASE DispatchEntry
  <2> DEFINE f == [Top EXCEPT !.pc = FirstHandler, !.seenTx = TXIF, !.seenRx = RCIF]
  <2>1. Len(stack) = 2 /\ Top.pc = "entry"
    BY <1>3, WhoseTop DEF IInv, DispatchEntry, At, HandlerPoints
  <2>2. f \in Activations /\ f.kind = Top.kind /\ f.pc = FirstHandler
    <3>1. TXIF \in BOOLEAN /\ RCIF \in BOOLEAN
      BY DEF TXIF, RCIF
    <3>2. FirstHandler \in HandlerPoints
      BY DispatchPoints
    <3>3. QED
      BY <3>1, <3>2, TopFacts DEF Activations, IInv
  <2>3. stack' = [stack EXCEPT ![Len(stack)] = f]
    BY <1>3, TopFacts DEF IInv, DispatchEntry, Top, Shape, Activations
  <2> HIDE DEF f
  <2>4. f.pc \in IF Len(stack) = 1 THEN MainPoints ELSE HandlerPoints
    BY <2>1, <2>2, DispatchPoints
  <2>5. Top' = f
    BY <1>1, <2>2, <2>3, <2>4, SetTop DEF IInv
  <2>6. Top'.pc \in {"rx_flag", "tx_flag", "exit"}
    BY <2>2, <2>5, DispatchPoints
  <2>7. QED
    BY <1>1, <2>1, <2>6, RxQuiet DEF RxHolds
<1>4. CASE DispatchExit
  <2>1. Len(stack) = 2 /\ Top.pc = "exit"
    BY <1>4, WhoseTop DEF IInv, DispatchExit, At, HandlerPoints
  <2>2. Top' = stack[1]
    BY <1>1, <1>4, <2>1, PopTop DEF IInv, DispatchExit
  <2>3. Top'.pc \in MainPoints
    BY <2>2 DEF IInv, Shape
  <2>4. QED
    BY <1>1, <2>1, <2>3, RxQuiet DEF RxHolds, MainPoints
<1>5. QED
  BY <1>2, <1>3, <1>4

LEMMA TxQuietForRx == IInv /\ RxInv /\ TxHandler => RxInv'
<1> SUFFICES ASSUME IInv, RxInv, TxHandler PROVE RxInv'
  OBVIOUS
<1>1. UNCHANGED <<use, rx, rcreg, got, missed, arrived>>
  BY DEF TxHandler, TxFlag, TxCheck, TxPop, TxLoad, rxSide, txSide
<1>2. Top.pc \in {"tx_flag", "tx_check", "tx_pop", "tx_load"}
  BY DEF TxHandler, TxFlag, TxCheck, TxPop, TxLoad, At
<1>3. Len(stack) = 2
  BY <1>2, WhoseTop DEF IInv, HandlerPoints
<1> DEFINE after == {"tx_check", "tx_pop", "tx_load", "rx_flag", "tx_flag", "exit"}
<1>4. Top'.pc \in after
  <2>1. CASE TxPop
    <3>1. GotoWith("tx_load", tx.buf[tx.tail])
      BY <2>1 DEF TxPop
    <3>2. tx.buf[tx.tail] \in Bytes
      BY RingParts DEF IInv, TxInv
    <3>3. QED
      BY <1>1, <1>3, <3>1, <3>2, MovedWith DEF IInv, HandlerPoints
  <2>2. CASE ~TxPop
    <3>1. \E pc \in after : Goto(pc)
      BY <2>2, DispatchPoints DEF TxHandler, TxFlag, TxCheck, TxLoad
    <3>2. PICK pc \in after : Goto(pc)
      BY <3>1
    <3>3. pc \in HandlerPoints
      BY DEF HandlerPoints
    <3>4. QED
      BY <1>1, <1>3, <3>2, <3>3, MovedTop DEF IInv
  <2>3. QED
    BY <2>1, <2>2
<1>5. QED
  BY <1>1, <1>2, <1>4, RxQuiet DEF RxHolds

\* The USART: the shift register, and a byte that arrives.
LEMMA ShiftOutRx == RxInv /\ ShiftOut => RxInv'
<1> SUFFICES ASSUME RxInv, ShiftOut PROVE RxInv'
  OBVIOUS
<1>1. UNCHANGED <<stack, rx, rcreg, got, missed, arrived>>
  BY DEF ShiftOut, rxSide
<1>2. QED
  BY <1>1 DEF RxInv, RxRing, RxChain, Chain, Hand, At, Top, Content

LEMMA ArriveRx == IInv /\ RxInv /\ Arrive => RxInv'
<1> SUFFICES ASSUME IInv, RxInv, Arrive PROVE RxInv'
  OBVIOUS
<1>1. UNCHANGED <<stack, rx, got>> /\ arrived' = arrived + 1
  BY DEF Arrive
<1>2. RxRing'
  BY <1>1 DEF RxInv, RxRing, At, Top
<1>3. arrived \in Nat /\ arrived + 1 \in Bytes /\ missed \subseteq 1 .. arrived
  BY SerialAssumption DEF Arrive, IInv, RxTypes, Bytes, SerialAssumption, RxInv, RxChain
<1>4. Hand' = Hand /\ Content(rx)' = Content(rx)
  BY <1>1 DEF Hand, Top, Content
<1>5. CASE rcreg' = rcreg /\ missed' = missed \cup {arrived + 1}
  <2>1. Chain' = Chain
    BY <1>1, <1>4, <1>5 DEF Chain
  <2>2. ToSet(Chain) = (1 .. arrived + 1) \ missed'
    BY <1>3, <1>5 DEF RxInv, RxChain
  <2>3. RxChain'
    BY <1>1, <1>3, <1>5, <2>1, <2>2 DEF RxInv, RxChain, At, Top
  <2>4. QED
    BY <1>2, <2>3 DEF RxInv
<1>6. CASE rcreg' = Append(rcreg, arrived + 1) /\ missed' = missed
  <2> DEFINE x == (got \o Content(rx)) \o Hand
             e == arrived + 1
  <2>1. x \in Seq(Bytes)
    <3>1. Hand \in Seq(Bytes)
      BY RxParts DEF Hand
    <3>2. got \o Content(rx) \in Seq(Bytes)
      BY RxParts
    <3>3. QED
      BY <3>1, <3>2, ConcatProperties
  <2>2. Chain = x \o rcreg /\ Chain' = x \o Append(rcreg, e)
    BY <1>1, <1>4, <1>6 DEF Chain
  <2> HIDE DEF x
  <2>3. rcreg \in Seq(Bytes) /\ e \in Bytes /\ Bytes \subseteq Nat
    BY <1>3, RxParts
  <2>4. Chain' = Append(Chain, e)
    BY <2>1, <2>2, <2>3, ChainAppend
  <2>5. Chain \in Seq(Nat)
    <3>1. Chain \in Seq(Bytes)
      BY <2>1, <2>2, <2>3, ConcatProperties
    <3>2. QED
      BY <2>3, <3>1, SeqMonotonic
  <2>6. \A y \in ToSet(Chain) : y < e
    BY <1>3 DEF RxInv, RxChain
  <2>7. Increasing(Chain') /\ ToSet(Chain') = ToSet(Chain) \cup {e}
    <3>1. Increasing(Chain) /\ e \in Nat
      BY <1>3 DEF RxInv, RxChain
    <3>2. Increasing(Append(Chain, e)) /\ ToSet(Append(Chain, e)) = ToSet(Chain) \cup {e}
      BY <2>5, <2>6, <3>1, IncreasingAppend
    <3>3. QED
      BY <2>4, <3>2
  <2>8. ToSet(Chain') = (1 .. arrived + 1) \ missed
    BY <1>3, <2>7 DEF RxInv, RxChain
  <2>9. rcreg # <<>> => rcreg' # <<>>
    BY <1>6, <2>3, AppendProperties, EmptySeq
  <2>10. RxChain'
    BY <1>1, <1>3, <1>6, <2>7, <2>8, <2>9 DEF RxInv, RxChain, At, Top, Increasing
  <2>11. QED
    BY <1>2, <2>10 DEF RxInv
<1>7. QED
  BY <1>5, <1>6 DEF Arrive
-----------------------------------------------------------------------------
\* epic_serial_read moves the ring's first bytes to the client.
LEMMA ReadRx == ASSUME IInv, RxInv, NEW max \in 1 .. SZ, Read(max) PROVE RxInv'
<1> DEFINE k == IF rx.count < max THEN rx.count ELSE max
           c == Content(rx)
           n == rx.count
<1>1. /\ UNCHANGED <<stack, rcreg, missed, arrived>> /\ Top.pc = "idle"
      /\ got' = got \o SubSeq(c, 1, k)
      /\ rx' = [rx EXCEPT !.tail = (rx.tail + k) % SZ, !.count = rx.count - k]
      /\ k > 0
  BY DEF Read, At
<1>2. /\ SZ \in Nat \ {0} /\ n \in 0 .. SZ /\ rx.tail \in 0 .. SZ - 1
      /\ k \in 1 .. n /\ c \in Seq(Bytes) /\ Len(c) = n
  BY <1>1, RxParts
<1> HIDE DEF k
<1>3. /\ rx'.buf = rx.buf /\ rx'.head = rx.head
      /\ rx'.tail = (rx.tail + k) % SZ /\ rx'.count = n - k
      /\ rx' = [buf |-> rx'.buf, head |-> rx'.head, tail |-> rx'.tail, count |-> rx'.count]
  <2> DEFINE tail == (rx.tail + k) % SZ
             count == rx.count - k
  <2>1. rx' = [rx EXCEPT !.tail = tail, !.count = count]
    BY <1>1
  <2> HIDE DEF tail, count
  <2>2. rx \in Ring
    BY DEF RxInv, RxRing
  <2>3. rx' = [buf |-> rx.buf, head |-> rx.head, tail |-> tail, count |-> count]
    BY <2>1, <2>2 DEF Ring
  <2>4. QED
    BY <2>3 DEF tail, count
<1> HIDE DEF c, n
<1>4. rx' \in Ring /\ rx'.count <= SZ
  <2>1. rx'.tail \in 0 .. SZ - 1
    BY <1>2, <1>3, SMTT(30)
  <2>2. n - k \in 0 .. CountMod - 1 /\ n - k <= SZ
    BY <1>2, RxParts, SMTT(30)
  <2>3. QED
    BY <1>3, <2>1, <2>2, RxParts DEF Ring
<1>5. /\ ((rx'.tail) + (n - k)) % SZ = (rx.tail + n) % SZ
      /\ \A i \in 1 .. n - k : (rx'.tail + i - 1) % SZ = (rx.tail + (i + k) - 1) % SZ
  BY <1>2, <1>3, ReadSlots
<1>6. RxRing'
  <2>1. rx.head = (rx.tail + n) % SZ
    <3>1. n + 0 = n
      BY <1>2
    <3>2. QED
      BY <1>1, <3>1 DEF RxInv, RxRing, At, n
  <2>2. n - k = rx'.count /\ rx'.count + 0 = rx'.count
    BY <1>2, <1>3
  <2>3. rx'.head = (rx'.tail + (rx'.count + 0)) % SZ
    BY <1>3, <1>5, <2>1, <2>2
  <2>4. Top'.pc = "idle"
    BY <1>1 DEF Top
  <2>5. QED
    BY <1>4, <2>3, <2>4 DEF RxRing, At
<1>7. Content(rx') = SubSeq(c, k + 1, n)
  <2>1. /\ Content(rx') \in Seq(Bytes) /\ Len(Content(rx')) = n - k
        /\ \A i \in 1 .. n - k : Content(rx')[i] = rx'.buf[(rx'.tail + i - 1) % SZ]
    BY <1>3, <1>4, ContentShape
  <2>2. \A i \in 1 .. n : c[i] = rx.buf[(rx.tail + i - 1) % SZ]
    BY ContentShape DEF RxInv, RxRing, c, n
  <2>3. \A i \in k + 1 .. n : c[i] \in Bytes
    <3>1. \A i \in k + 1 .. n : i \in 1 .. Len(c)
      BY <1>2
    <3>2. QED
      BY <1>2, <3>1, ElementOfSeq
  <2>4. /\ SubSeq(c, k + 1, n) \in Seq(Bytes)
        /\ Len(SubSeq(c, k + 1, n)) = IF k + 1 <= n THEN n - (k + 1) + 1 ELSE 0
        /\ \A i \in 1 .. n - (k + 1) + 1 : SubSeq(c, k + 1, n)[i] = c[(k + 1) + i - 1]
    <3>1. k + 1 \in Int /\ n \in Int
      BY <1>2
    <3>2. QED
      BY <2>3, <3>1, SubSeqProperties
  <2>5. Len(SubSeq(c, k + 1, n)) = n - k
    BY <1>2, <2>4
  <2>6. ASSUME NEW i \in 1 .. n - k PROVE Content(rx')[i] = SubSeq(c, k + 1, n)[i]
    <3>1. i \in 1 .. n - (k + 1) + 1 /\ (k + 1) + i - 1 = i + k /\ i + k \in 1 .. n
      BY <1>2
    <3>2. SubSeq(c, k + 1, n)[i] = c[i + k]
      BY <2>4, <3>1
    <3>3. c[i + k] = rx.buf[(rx.tail + (i + k) - 1) % SZ]
      BY <2>2, <3>1
    <3>4. Content(rx')[i] = rx.buf[(rx.tail + (i + k) - 1) % SZ]
      BY <1>3, <1>5, <2>1
    <3>5. QED
      BY <3>2, <3>3, <3>4
  <2>7. QED
    BY <2>1, <2>4, <2>5, <2>6, SeqEqual
<1>8. SubSeq(c, 1, k) \in Seq(Bytes) /\ SubSeq(c, k + 1, n) \in Seq(Bytes)
      /\ SubSeq(c, 1, k) \o SubSeq(c, k + 1, n) = c
  <2>1. \A i \in 1 .. n : c[i] \in Bytes
    BY <1>2, ElementOfSeq
  <2>2. SubSeq(c, 1, k) \in Seq(Bytes)
    <3>1. \A i \in 1 .. k : c[i] \in Bytes
      BY <1>2, <2>1
    <3>2. 1 \in Int /\ k \in Int
      BY <1>2
    <3>3. QED
      BY <3>1, <3>2, SubSeqProperties
  <2>3. SubSeq(c, k + 1, n) \in Seq(Bytes)
    <3>1. \A i \in k + 1 .. n : c[i] \in Bytes
      BY <1>2, <2>1
    <3>2. k + 1 \in Int /\ n \in Int
      BY <1>2
    <3>3. QED
      BY <3>1, <3>2, SubSeqProperties
  <2>4. SubSeq(c, 1, k) \o SubSeq(c, k + 1, n) = SubSeq(c, 1, n)
    <3>1. 1 \in 1 .. Len(c) + 1 /\ k \in 1 - 1 .. Len(c) /\ n \in k .. Len(c)
      BY <1>2
    <3>2. QED
      BY <1>2, <3>1, ConcatAdjacentSubSeq
  <2>5. SubSeq(c, 1, n) = c
    BY <1>2, SubSeqFull
  <2>6. QED
    BY <2>2, <2>3, <2>4, <2>5
<1>9. got' \o Content(rx') = got \o c /\ got' \in Seq(Bytes)
  <2>1. got \in Seq(Bytes)
    BY RxParts
  <2> DEFINE p == SubSeq(c, 1, k)
             q == SubSeq(c, k + 1, n)
  <2>2. (got \o p) \o q = got \o (p \o q)
    <3>1. p \in Seq(Bytes) /\ q \in Seq(Bytes)
      BY <1>8
    <3> HIDE DEF p, q
    <3>2. \A x, y, z \in Seq(Bytes) : (x \o y) \o z = x \o (y \o z)
      BY ConcatAssociative
    <3>3. QED
      BY <2>1, <3>1, <3>2, Zenon
  <2>3. got \o SubSeq(c, 1, k) \in Seq(Bytes)
    BY <1>8, <2>1, ConcatProperties
  <2>4. QED
    BY <1>1, <1>7, <1>8, <2>2, <2>3
<1>10. Chain' = Chain
  <2>1. Hand' = Hand /\ Content(rx)' = Content(rx')
    BY <1>1 DEF Hand, Top, Content
  <2>2. QED
    BY <1>1, <1>9, <2>1 DEF Chain, c
<1>11. RxChain'
  BY <1>1, <1>9, <1>10 DEF RxInv, RxChain, At, Top
<1>12. QED
  BY <1>6, <1>11 DEF RxInv
-----------------------------------------------------------------------------
\* The RX handler, step by step.
LEMMA RxFlagRx == IInv /\ RxInv /\ RxFlag => RxInv'
<1> SUFFICES ASSUME IInv, RxInv, RxFlag PROVE RxInv'
  OBVIOUS
<1> DEFINE pc == IF Top.seenRx /\ RCIF THEN "rx_read" ELSE AfterRx
<1>1. Len(stack) = 2 /\ Top.pc = "rx_flag"
  BY WhoseTop DEF IInv, RxFlag, At, HandlerPoints
<1>2. Goto(pc) /\ UNCHANGED <<use, rx, rcreg, got, missed, arrived>>
  BY DEF RxFlag, txSide, rxSide
<1>3. pc \in HandlerPoints /\ pc \notin RxHolds /\ (pc = "rx_read" => rcreg # <<>>)
  BY DispatchPoints DEF RCIF, HandlerPoints, RxHolds
<1> HIDE DEF pc
<1>4. Top'.pc = pc
  BY <1>1, <1>2, <1>3, MovedTop DEF IInv
<1>5. QED
  BY <1>1, <1>2, <1>3, <1>4, RxQuiet DEF RxHolds

LEMMA RxReadRx == IInv /\ RxInv /\ RxRead => RxInv'
<1> SUFFICES ASSUME IInv, RxInv, RxRead PROVE RxInv'
  OBVIOUS
<1>1. UNCHANGED <<use, rx, missed, arrived, got>>
  BY DEF RxRead, txSide
<1>2. Len(stack) = 2 /\ Top.pc = "rx_read" /\ rcreg # <<>>
  BY WhoseTop DEF IInv, RxInv, RxChain, RxRead, At, HandlerPoints
<1>3. GotoWith("rx_check", Head(rcreg)) /\ rcreg' = Tail(rcreg)
  BY <1>2 DEF RxRead, RCIF
<1>4. rcreg \in Seq(Bytes) /\ Head(rcreg) \in Bytes /\ "rx_check" \in HandlerPoints
  BY <1>2, HeadTailProperties, RxParts DEF HandlerPoints
<1>5. Top'.pc = "rx_check" /\ Top'.b = Head(rcreg)
  BY <1>1, <1>2, <1>3, <1>4, MovedWith DEF IInv
<1>6. RxRing'
  BY <1>1, <1>2, <1>5 DEF RxInv, RxRing, At
<1>7. Chain' = Chain
  <2>1. Hand = <<>> /\ Hand' = <<Head(rcreg)>> /\ Content(rx)' = Content(rx)
    BY <1>1, <1>2, <1>5 DEF Hand, RxHolds, Content
  <2> DEFINE x == got \o Content(rx)
  <2>2. Chain = (x \o <<>>) \o rcreg /\ Chain' = (x \o <<Head(rcreg)>>) \o Tail(rcreg)
    BY <1>1, <1>3, <2>1 DEF Chain
  <2>3. x \in Seq(Bytes)
    BY RxParts
  <2> HIDE DEF x
  <2>4. QED
    BY <1>2, <1>4, <2>2, <2>3, ChainHead
<1>8. RxChain'
  BY <1>1, <1>5, <1>7 DEF RxInv, RxChain, At
<1>9. QED
  BY <1>6, <1>8 DEF RxInv

LEMMA RxCheckRx == IInv /\ RxInv /\ RxCheck => RxInv'
<1> SUFFICES ASSUME IInv, RxInv, RxCheck PROVE RxInv'
  OBVIOUS
<1>1. UNCHANGED <<use, rx, rcreg, got, arrived>>
  BY DEF RxCheck, txSide
<1>2. Len(stack) = 2 /\ Top.pc = "rx_check"
  BY WhoseTop DEF IInv, RxCheck, At, HandlerPoints
<1>3. CASE rx.count < SZ
  <2>1. Goto("rx_store") /\ missed' = missed /\ "rx_store" \in HandlerPoints
    BY <1>3 DEF RxCheck, HandlerPoints
  <2>2. Top'.pc = "rx_store" /\ Top'.b = Top.b
    BY <1>1, <1>2, <2>1, MovedTop DEF IInv
  <2>3. Chain' = Chain
    BY <1>1, <1>2, <2>2 DEF Chain, Hand, RxHolds, Content
  <2>4. RxRing'
    BY <1>1, <1>2, <1>3, <2>2 DEF RxInv, RxRing, At
  <2>5. RxChain'
    BY <1>1, <2>1, <2>2, <2>3 DEF RxInv, RxChain, At
  <2>6. QED
    BY <2>4, <2>5 DEF RxInv
<1>4. CASE ~(rx.count < SZ)
  <2>1. Goto(AfterRx) /\ missed' = missed \cup {Top.b} /\ AfterRx \in HandlerPoints
    BY <1>4, DispatchPoints DEF RxCheck
  <2>2. Top'.pc = AfterRx /\ AfterRx \in {"rx_flag", "tx_flag", "exit"}
    BY <1>1, <1>2, <2>1, MovedTop, DispatchPoints DEF IInv
  <2>3. Hand = <<Top.b>> /\ Hand' = <<>> /\ Content(rx)' = Content(rx)
    BY <1>1, <1>2, <2>2 DEF Hand, RxHolds, Content
  <2> DEFINE x == got \o Content(rx)
             b == Top.b
  <2>4. x \in Seq(Bytes) /\ rcreg \in Seq(Bytes) /\ b \in Bytes /\ Bytes \subseteq Nat
    BY RxParts
  <2>5. Chain = (x \o <<b>>) \o rcreg /\ Chain' = x \o rcreg
    BY <1>1, <2>3, <2>4, ConcatEmptySeq DEF Chain
  <2> HIDE DEF x
  <2>6. x \in Seq(Nat) /\ rcreg \in Seq(Nat) /\ b \in Nat
    BY <2>4, SeqMonotonic
  <2>7. Increasing((x \o <<b>>) \o rcreg)
    BY <2>5 DEF RxInv, RxChain
  <2>8. Increasing(Chain') /\ ToSet(Chain') = ToSet(Chain) \ {b} /\ b \in ToSet(Chain)
    BY <2>5, <2>6, <2>7, IncreasingDrop
  <2>9. ToSet(Chain') = (1 .. arrived) \ missed' /\ missed' \subseteq 1 .. arrived
    BY <2>1, <2>8 DEF RxInv, RxChain
  <2>10. RxRing'
    BY <1>1, <1>2, <2>2 DEF RxInv, RxRing, At
  <2>11. RxChain'
    BY <1>1, <2>2, <2>8, <2>9 DEF RxInv, RxChain, At, Increasing
  <2>12. QED
    BY <2>10, <2>11 DEF RxInv
<1>5. QED
  BY <1>3, <1>4

LEMMA RxStoreRx == IInv /\ RxInv /\ RxStore => RxInv'
<1> SUFFICES ASSUME IInv, RxInv, RxStore PROVE RxInv'
  OBVIOUS
<1> DEFINE b == Top.b
<1>1. UNCHANGED <<use, rcreg, got, missed, arrived>> /\ rx' = [rx EXCEPT !.buf[rx.head] = b]
  BY DEF RxStore, txSide
<1>2. Len(stack) = 2 /\ Top.pc = "rx_store" /\ rx.count < SZ
  BY WhoseTop DEF IInv, RxStore, At, HandlerPoints, RxInv, RxRing
<1>3. Goto("rx_head") /\ "rx_head" \in HandlerPoints
  BY DEF RxStore, HandlerPoints
<1>4. Top'.pc = "rx_head" /\ Top'.b = b
  BY <1>1, <1>2, <1>3, MovedTop DEF IInv
<1> HIDE DEF b
<1>5. /\ rx'.buf = [rx.buf EXCEPT ![rx.head] = b] /\ rx'.head = rx.head
      /\ rx'.tail = rx.tail /\ rx'.count = rx.count
      /\ rx' = [buf |-> rx'.buf, head |-> rx'.head, tail |-> rx'.tail, count |-> rx'.count]
  <2> DEFINE buf == [rx.buf EXCEPT ![rx.head] = b]
  <2>1. rx' = [rx EXCEPT !.buf = buf]
    BY <1>1
  <2> HIDE DEF buf
  <2>2. rx \in Ring
    BY DEF RxInv, RxRing
  <2>3. rx' = [buf |-> buf, head |-> rx.head, tail |-> rx.tail, count |-> rx.count]
    BY <2>1, <2>2 DEF Ring
  <2>4. QED
    BY <2>3 DEF buf
<1>6. b \in Bytes /\ rx.count \in 0 .. SZ - 1 /\ SZ \in Nat \ {0} /\ rx.tail \in 0 .. SZ - 1
  BY <1>2, RxParts DEF b
<1>7. rx.head = (rx.tail + rx.count) % SZ /\ rx.head \in 0 .. SZ - 1
  <2>1. rx.count + 0 = rx.count
    BY <1>6
  <2>2. QED
    BY <1>2, <2>1, RxParts DEF RxInv, RxRing, At
<1>8. rx' \in Ring
  <2>1. [rx.buf EXCEPT ![rx.head] = b] \in [0 .. SZ - 1 -> Bytes]
    BY <1>6, RxParts
  <2>2. rx.count \in 0 .. CountMod - 1
    BY RxParts
  <2>3. QED
    BY <1>5, <1>6, <1>7, <2>1, <2>2 DEF Ring
<1>9. Content(rx') = Content(rx)
  <2>1. /\ Content(rx') \in Seq(Bytes) /\ Len(Content(rx')) = rx.count
        /\ \A i \in 1 .. rx.count : Content(rx')[i] = rx'.buf[(rx.tail + i - 1) % SZ]
    BY <1>5, <1>8, ContentShape
  <2>2. /\ Content(rx) \in Seq(Bytes) /\ Len(Content(rx)) = rx.count
        /\ \A i \in 1 .. rx.count : Content(rx)[i] = rx.buf[(rx.tail + i - 1) % SZ]
    BY ContentShape DEF RxInv, RxRing
  <2>3. ASSUME NEW i \in 1 .. rx.count PROVE Content(rx')[i] = Content(rx)[i]
    <3> DEFINE slot == (rx.tail + i - 1) % SZ
    <3>1. slot # rx.head
      <4>1. \A j \in 1 .. rx.count : (rx.tail + j - 1) % SZ # (rx.tail + rx.count) % SZ
        BY <1>6, PutSlots
      <4>2. QED
        BY <1>7, <4>1
    <3>2. slot \in 0 .. SZ - 1
      BY <1>6
    <3>3. Content(rx')[i] = rx'.buf[slot] /\ Content(rx)[i] = rx.buf[slot]
      BY <2>1, <2>2
    <3> HIDE DEF slot
    <3>4. QED
      BY <1>5, <3>1, <3>2, <3>3, RxParts
  <2>4. QED
    BY <2>1, <2>2, <2>3, SeqEqual
<1>10. Chain' = Chain
  <2>1. Content(rx)' = Content(rx')
    BY DEF Content
  <2>2. QED
    BY <1>1, <1>2, <1>4, <1>9, <2>1 DEF Chain, Hand, RxHolds, b
<1>11. RxRing'
  <2>1. rx'.buf[rx.head] = b
    BY <1>5, <1>7, RxParts
  <2>2. rx'.buf[(rx'.tail + rx'.count) % SZ] = b
    BY <1>5, <1>7, <2>1
  <2>3. rx'.count + 0 = rx'.count
    BY <1>5, <1>6
  <2>4. rx'.head = (rx'.tail + (rx'.count + 0)) % SZ
    BY <1>5, <1>7, <2>3
  <2>5. rx'.count <= SZ /\ rx'.count < SZ
    BY <1>5, <1>6
  <2>6. QED
    BY <1>4, <1>8, <2>2, <2>4, <2>5 DEF RxRing, At
<1>12. RxChain'
  BY <1>1, <1>4, <1>10 DEF RxInv, RxChain, At
<1>13. QED
  BY <1>11, <1>12 DEF RxInv

LEMMA RxHeadRx == IInv /\ RxInv /\ RxHead => RxInv'
<1> SUFFICES ASSUME IInv, RxInv, RxHead PROVE RxInv'
  OBVIOUS
<1>1. /\ UNCHANGED <<use, rcreg, got, missed, arrived>>
      /\ rx' = [rx EXCEPT !.head = (rx.head + 1) % SZ]
  BY DEF RxHead, txSide
<1>2. Len(stack) = 2 /\ Top.pc = "rx_head" /\ rx.count < SZ
  BY WhoseTop DEF IInv, RxHead, At, HandlerPoints, RxInv, RxRing
<1>3. Goto("rx_count") /\ "rx_count" \in HandlerPoints
  BY DEF RxHead, HandlerPoints
<1>4. Top'.pc = "rx_count" /\ Top'.b = Top.b
  BY <1>1, <1>2, <1>3, MovedTop DEF IInv
<1>5. /\ rx'.buf = rx.buf /\ rx'.head = (rx.head + 1) % SZ
      /\ rx'.tail = rx.tail /\ rx'.count = rx.count
      /\ rx' = [buf |-> rx'.buf, head |-> rx'.head, tail |-> rx'.tail, count |-> rx'.count]
  <2> DEFINE head == (rx.head + 1) % SZ
  <2>1. rx' = [rx EXCEPT !.head = head]
    BY <1>1
  <2> HIDE DEF head
  <2>2. rx \in Ring
    BY DEF RxInv, RxRing
  <2>3. rx' = [buf |-> rx.buf, head |-> head, tail |-> rx.tail, count |-> rx.count]
    BY <2>1, <2>2 DEF Ring
  <2>4. QED
    BY <2>3 DEF head
<1>6. rx.count \in 0 .. SZ - 1 /\ SZ \in Nat \ {0} /\ rx.tail \in 0 .. SZ - 1
  BY <1>2, RxParts
<1>7. rx'.head = (rx.tail + (rx.count + 1)) % SZ /\ rx'.head \in 0 .. SZ - 1
  <2>1. rx.head = (rx.tail + rx.count) % SZ /\ rx.head \in 0 .. SZ - 1
    <3>1. rx.count + 0 = rx.count
      BY <1>6
    <3>2. QED
      BY <1>2, <3>1, RxParts DEF RxInv, RxRing, At
  <2>2. (((rx.tail + rx.count) % SZ) + 1) % SZ = (rx.tail + (rx.count + 1)) % SZ
    BY <1>6, PutSlots
  <2>3. (rx.head + 1) % SZ \in 0 .. SZ - 1
    BY <1>6, <2>1
  <2>4. QED
    BY <1>5, <2>1, <2>2, <2>3
<1>8. rx' \in Ring
  <2>1. rx.count \in 0 .. CountMod - 1 /\ rx.buf \in [0 .. SZ - 1 -> Bytes]
    BY RxParts
  <2>2. QED
    BY <1>5, <1>6, <1>7, <2>1 DEF Ring
<1>9. Content(rx)' = Content(rx)
  BY <1>5 DEF Content
<1>10. Chain' = Chain
  BY <1>1, <1>2, <1>4, <1>9 DEF Chain, Hand, RxHolds
<1>11. RxRing'
  <2>1. rx.buf[(rx.tail + rx.count) % SZ] = Top.b
    BY <1>2 DEF RxInv, RxRing, At
  <2>2. rx'.buf[(rx'.tail + rx'.count) % SZ] = Top'.b
    BY <1>4, <1>5, <2>1
  <2>3. rx'.head = (rx'.tail + (rx'.count + 1)) % SZ
    BY <1>5, <1>7
  <2>4. rx'.count <= SZ /\ rx'.count < SZ
    BY <1>5, <1>6
  <2>5. QED
    BY <1>4, <1>8, <2>2, <2>3, <2>4 DEF RxRing, At
<1>12. RxChain'
  BY <1>1, <1>4, <1>10 DEF RxInv, RxChain, At
<1>13. QED
  BY <1>11, <1>12 DEF RxInv

LEMMA RxCountRx == IInv /\ RxInv /\ RxCount => RxInv'
<1> SUFFICES ASSUME IInv, RxInv, RxCount PROVE RxInv'
  OBVIOUS
<1> DEFINE b == Top.b
           n == rx.count
<1>1. /\ UNCHANGED <<use, rcreg, got, missed, arrived>>
      /\ rx' = [rx EXCEPT !.count = (n + 1) % CountMod]
  BY DEF RxCount, txSide
<1>2. Len(stack) = 2 /\ Top.pc = "rx_count" /\ n < SZ
  BY WhoseTop DEF IInv, RxCount, At, HandlerPoints, RxInv, RxRing
<1>3. Goto(AfterRx) /\ AfterRx \in HandlerPoints
  BY DispatchPoints DEF RxCount
<1>4. Top'.pc = AfterRx /\ AfterRx \in {"rx_flag", "tx_flag", "exit"}
  BY <1>1, <1>2, <1>3, MovedTop, DispatchPoints DEF IInv
<1>5. /\ n \in 0 .. SZ - 1 /\ SZ \in Nat \ {0} /\ rx.tail \in 0 .. SZ - 1 /\ b \in Bytes
      /\ n + 1 \in 0 .. CountMod - 1 /\ n + 1 <= SZ /\ rx.head \in 0 .. SZ - 1
      /\ rx.buf \in [0 .. SZ - 1 -> Bytes]
  BY <1>2, RxParts
<1>6. (n + 1) % CountMod = n + 1
  <2> DEFINE c == n + 1
  <2> HIDE DEF c
  <2>1. \A m \in Nat : c \in 0 .. m - 1 => c % m = c
    OBVIOUS
  <2>2. QED
    BY <1>5, <2>1, RxParts DEF c
<1> HIDE DEF b
<1>7. /\ rx'.buf = rx.buf /\ rx'.head = rx.head
      /\ rx'.tail = rx.tail /\ rx'.count = n + 1
      /\ rx' = [buf |-> rx'.buf, head |-> rx'.head, tail |-> rx'.tail, count |-> rx'.count]
  <2> DEFINE count == n + 1
  <2>1. rx' = [rx EXCEPT !.count = count]
    BY <1>1, <1>6
  <2> HIDE DEF count
  <2>2. rx \in Ring
    BY DEF RxInv, RxRing
  <2>3. rx' = [buf |-> rx.buf, head |-> rx.head, tail |-> rx.tail, count |-> count]
    BY <2>1, <2>2 DEF Ring
  <2>4. QED
    BY <2>3 DEF count
<1>8. rx' \in Ring
  BY <1>5, <1>7 DEF Ring
<1>9. Content(rx') = Append(Content(rx), b)
  <2>1. /\ Content(rx') \in Seq(Bytes) /\ Len(Content(rx')) = n + 1
        /\ \A i \in 1 .. n + 1 : Content(rx')[i] = rx.buf[(rx.tail + i - 1) % SZ]
    BY <1>7, <1>8, ContentShape
  <2>2. /\ Content(rx) \in Seq(Bytes) /\ Len(Content(rx)) = n
        /\ \A i \in 1 .. n : Content(rx)[i] = rx.buf[(rx.tail + i - 1) % SZ]
    BY ContentShape DEF RxInv, RxRing
  <2>3. rx.buf[(rx.tail + n) % SZ] = b
    BY <1>2 DEF RxInv, RxRing, At, b
  <2> DEFINE c == Content(rx)
             d == Content(rx')
             slot(i) == (rx.tail + i - 1) % SZ
  <2>4. slot(n + 1) = (rx.tail + n) % SZ
    <3>1. rx.tail + (n + 1) - 1 = rx.tail + n
      BY <1>5
    <3>2. QED
      BY <3>1
  <2>5. /\ d \in Seq(Bytes) /\ Len(d) = n + 1 /\ \A i \in 1 .. n + 1 : d[i] = rx.buf[slot(i)]
        /\ c \in Seq(Bytes) /\ Len(c) = n /\ \A i \in 1 .. n : c[i] = rx.buf[slot(i)]
    BY <2>1, <2>2
  <2> HIDE DEF c, d, slot, n
  <2>6. /\ Append(c, b) \in Seq(Bytes) /\ Len(Append(c, b)) = n + 1
        /\ \A i \in 1 .. n : Append(c, b)[i] = c[i]
        /\ Append(c, b)[n + 1] = b
    BY <1>5, <2>5, AppendProperties
  <2>7. ASSUME NEW i \in 1 .. n + 1 PROVE d[i] = Append(c, b)[i]
    <3>1. CASE i = n + 1
      BY <2>3, <2>4, <2>5, <2>6, <3>1
    <3>2. CASE i # n + 1
      <4>1. i \in 1 .. n
        BY <1>5, <3>2
      <4>2. QED
        BY <2>5, <2>6, <4>1
    <3>3. QED
      BY <3>1, <3>2
  <2>8. d = Append(c, b)
    BY <2>5, <2>6, <2>7, SeqEqual
  <2>9. QED
    BY <2>8 DEF c, d
<1>10. Chain' = Chain
  <2>1. Hand = <<b>> /\ Hand' = <<>> /\ Content(rx)' = Content(rx')
    BY <1>2, <1>4 DEF Hand, RxHolds, Content, b
  <2>2. got \in Seq(Bytes) /\ Content(rx) \in Seq(Bytes) /\ got \o Content(rx) \in Seq(Bytes)
    BY RxParts
  <2> DEFINE x == got \o Content(rx)
             y == got \o Append(Content(rx), b)
  <2>3. y = Append(x, b)
    BY <1>5, <2>2, ChainAppend, SMTT(30)
  <2>4. y = x \o <<b>> /\ y \in Seq(Bytes)
    BY <1>5, <2>2, <2>3, AppendIsConcat, AppendProperties
  <2>5. Chain = (x \o <<b>>) \o rcreg /\ Chain' = (y \o <<>>) \o rcreg
    BY <1>1, <1>9, <2>1 DEF Chain
  <2> HIDE DEF x, y
  <2>6. y \o <<>> = y
    BY <2>4, ConcatEmptySeq
  <2>7. QED
    BY <2>4, <2>5, <2>6
<1>11. RxRing'
  <2>1. rx.head = (rx.tail + (n + 1)) % SZ
    BY <1>2 DEF RxInv, RxRing, At
  <2>2. (n + 1) + 0 = n + 1
    BY <1>5
  <2>3. rx'.head = (rx'.tail + (rx'.count + 0)) % SZ
    BY <1>7, <2>1, <2>2
  <2>4. rx'.count <= SZ
    BY <1>5, <1>7
  <2>5. QED
    BY <1>4, <1>8, <2>3, <2>4 DEF RxRing, At
<1>12. RxChain'
  BY <1>1, <1>4, <1>10 DEF RxInv, RxChain, At
<1>13. QED
  BY <1>11, <1>12 DEF RxInv
-----------------------------------------------------------------------------
LEMMA RxInitHolds == SoundUses /\ Init => RxInv
<1> SUFFICES ASSUME SoundUses, Init PROVE RxInv
  OBVIOUS
<1>1. 0 \in Bytes /\ SZ \in Nat \ {0}
  BY SerialAssumption DEF Bytes, SerialAssumption
<1>2. Top.pc = "idle"
  <2>1. IInv /\ Len(stack) = 1 /\ stack[1] = Activation("main", "idle")
    BY InitHolds DEF Init
  <2>2. QED
    BY <2>1, TopFacts DEF IInv, Activation
<1>3. /\ rx \in Ring /\ rx.head = 0 /\ rx.tail = 0 /\ rx.count = 0
  <2>1. rx = EmptyRing
    BY DEF Init
  <2>2. EmptyRing.head = 0 /\ EmptyRing.tail = 0 /\ EmptyRing.count = 0
    BY DEF EmptyRing
  <2>3. EmptyRing \in Ring
    BY <1>1, SerialAssumption DEF EmptyRing, Ring, SerialAssumption
  <2>4. QED
    BY <2>1, <2>2, <2>3
<1>4. RxRing
  <2>1. (0 + (0 + 0)) % SZ = 0
    BY <1>1
  <2>2. QED
    BY <1>1, <1>2, <1>3, <2>1 DEF RxRing, At
<1>5. Chain = <<>>
  <2>1. Content(rx) = <<>>
    <3>1. Content(rx) \in Seq(Bytes) /\ Len(Content(rx)) = 0
      BY <1>3, ContentShape
    <3>2. QED
      BY <3>1, EmptySeq
  <2>2. got = <<>> /\ Hand = <<>> /\ rcreg = <<>>
    BY <1>2 DEF Init, Hand, RxHolds
  <2>3. <<>> \in Seq(Bytes)
    BY EmptySeq
  <2>4. <<>> \o <<>> = <<>>
    BY <2>3, ConcatEmptySeq
  <2>5. QED
    BY <2>1, <2>2, <2>4 DEF Chain
<1>6. RxChain
  <2>1. Increasing(<<>>) /\ ToSet(<<>>) = {}
    BY DEF Increasing, ToSet
  <2>2. got = <<>> /\ missed = {} /\ arrived = 0 /\ got \in Seq(Bytes)
    BY EmptySeq DEF Init
  <2>3. QED
    BY <1>2, <1>5, <2>1, <2>2 DEF RxChain, At
<1>7. QED
  BY <1>4, <1>6 DEF RxInv

LEMMA RxStepKeeps == IInv /\ RxInv /\ [Next]_vars => RxInv'
<1> SUFFICES ASSUME IInv, RxInv, [Next]_vars PROVE RxInv'
  OBVIOUS
<1>1. CASE ShiftOut \/ Arrive
  BY <1>1, ShiftOutRx, ArriveRx
<1>2. CASE Client
  BY <1>2, MainQuiet, ReadRx DEF Client, MainSteps
<1>3. CASE WriteSteps \/ FlushSteps
  BY <1>3, MainQuiet DEF WriteSteps, FlushSteps, MainSteps
<1>4. CASE Interrupt \/ DispatchEntry \/ DispatchExit
  BY <1>4, DispatchQuiet
<1>5. CASE TxHandler
  BY <1>5, TxQuietForRx
<1>6. CASE RxHandler
  BY <1>6, RxFlagRx, RxReadRx, RxCheckRx, RxStoreRx, RxHeadRx, RxCountRx DEF RxHandler
<1>7. CASE UNCHANGED vars
  <2>1. UNCHANGED <<stack, rx, rcreg, got, missed, arrived>>
    BY <1>7 DEF vars
  <2>2. QED
    BY <2>1 DEF RxInv, RxRing, RxChain, Chain, Hand, At, Top, Content
<1>8. QED
  BY <1>1, <1>2, <1>3, <1>4, <1>5, <1>6, <1>7 DEF Next, Processor, Running

\* Outside the two steps that publish a byte the chain is what the property names.
LEMMA RxConservedIf == IInv /\ RxInv => RxConserved
<1> SUFFICES ASSUME IInv, RxInv, RxSettled PROVE RxConserved
  BY DEF RxConserved
<1>1. Top.pc \notin {"rx_head", "rx_count"}
  <2>1. Len(stack) \in DOMAIN stack
    BY TopFacts, LenProperties DEF IInv, Shape
  <2>2. QED
    BY <2>1 DEF RxSettled, Top
<1>2. InRxHandler = IF Top.pc \in {"rx_check", "rx_store"} THEN <<Top.b>> ELSE <<>>
  <2>1. {"rx_check", "rx_store"} \subseteq HandlerPoints
    BY DEF HandlerPoints
  <2>2. QED
    BY <2>1, HeldByTop DEF IInv, InRxHandler
<1>3. InRxHandler = Hand
  BY <1>1, <1>2 DEF Hand, RxHolds
<1>4. QED
  BY <1>3 DEF RxConserved, Chain, RxInv, RxChain

\* In the uses the library supports the bytes that arrived are, at any time and in
\* the order of arrival, read, in the ring, in the handler's hand or in RCREG, less
\* those dropped and counted: the reader never sees a byte twice, out of order or
\* before it is stored, although the handler stores, moves the head and counts in
\* steps of their own.
THEOREM Received ==
  ASSUME SoundUses
  PROVE  Spec => []RxConserved
<1>1. Init => IInv /\ RxInv
  BY InitHolds, RxInitHolds
<1>2. IInv /\ RxInv /\ [Next]_vars => IInv' /\ RxInv'
  BY StepKeeps, RxStepKeeps
<1>3. IInv /\ RxInv => RxConserved
  BY RxConservedIf
<1>4. QED
  BY <1>1, <1>2, <1>3, PTL DEF Spec
=============================================================================
