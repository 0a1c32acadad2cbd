------------------------------ MODULE ModbusProofs ------------------------------
(***************************************************************************)
(* For every register map, every set of well-formed frames and every       *)
(* timing of line and polls: frames are executed once and in order, what   *)
(* the master reads is what it wrote, and a refused request changes        *)
(* nothing.                                                                *)
(***************************************************************************)
EXTENDS Modbus, SequenceTheorems, TLAPS

Tables == /\ coils \in [0 .. NumCoils - 1 -> {0, 1}]
          /\ holding \in [0 .. NumHolding - 1 -> Words]

\* The table a function code reads.
Table(fc) == IF fc = 1 THEN coils ELSE holding
Size(fc) == IF fc = 1 THEN NumCoils ELSE NumHolding

\* A multiple write that is as long as it says and within its table.
Fits(f, n, limit, bytes) ==
  /\ f.len >= 9 /\ f.qty \in 1 .. limit /\ f.bytes = bytes
  /\ 7 + f.bytes + 2 = f.len /\ f.start + f.qty <= n

\* The writes the slave accepts, from the frame alone.
Accepts(f) ==
  \/ f.fc = 5 /\ f.len = 8 /\ f.qty \in {65280, 0} /\ f.start < NumCoils
  \/ f.fc = 6 /\ f.len = 8 /\ f.start < NumHolding
  \/ f.fc = 15 /\ Fits(f, NumCoils, 1968, CeilDiv(f.qty, 8))
  \/ f.fc = 16 /\ Fits(f, NumHolding, 123, 2 * f.qty)
Written(f, fc) ==
  [a \in 0 .. Size(fc) - 1 |-> IF WritesTo(f, fc, a) THEN Given(f, a) ELSE Table(fc)[a]]

\* No answer, or an exception.
Refusal(pdu) == pdu = <<>> \/ (pdu \in Seq(Nat) /\ Len(pdu) = 2 /\ pdu[1] >= 128)
-----------------------------------------------------------------------------
LEMMA FrameParts ==
  ASSUME NEW f \in Requests
  PROVE  /\ f.addr \in 0 .. 255 /\ f.fc \in 0 .. 255 /\ f.start \in Words /\ f.qty \in Words
         /\ f.bytes \in 0 .. 255 /\ f.data \in Seq(Words) /\ f.len \in Nat \ {0}
         /\ f.crc \in BOOLEAN
         /\ f.start \in Nat /\ f.qty \in Nat /\ f.fc \in Nat
         /\ NumCoils \in Nat \ {0} /\ NumHolding \in Nat \ {0}
<1>1. f \in Frames
  BY RequestsAssumption
<1>2. /\ f.addr \in 0 .. 255 /\ f.fc \in 0 .. 255 /\ f.start \in Words /\ f.qty \in Words
      /\ f.bytes \in 0 .. 255 /\ f.data \in Seq(Words) /\ f.len \in Nat \ {0}
      /\ f.crc \in BOOLEAN
  BY <1>1 DEF Frames
<1>3. (\A w \in 0 .. 255 : w \in Nat) /\ (\A w \in Words : w \in Nat)
  BY DEF Words
<1>4. f.start \in Nat /\ f.qty \in Nat /\ f.fc \in Nat
  BY <1>2, <1>3
<1>5. QED
  BY <1>2, <1>4, ModbusAssumption

LEMMA ExceptionParts ==
  ASSUME NEW f \in Requests, NEW code \in Nat
  PROVE  /\ Exception(f, code).coils = coils /\ Exception(f, code).holding = holding
         /\ Refusal(Exception(f, code).pdu)
<1> DEFINE x == IF f.fc < 128 THEN f.fc + 128 ELSE f.fc
<1>1. x \in Nat /\ x >= 128
  BY FrameParts
<1> HIDE DEF x
<1>2. Exception(f, code) = [pdu |-> <<x, code>>, coils |-> coils, holding |-> holding]
  BY DEF Exception, Unchanged, Outcome, x
<1>3. <<x, code>> \in Seq(Nat) /\ Len(<<x, code>>) = 2 /\ <<x, code>>[1] = x
  BY <1>1
<1>4. QED
  BY <1>1, <1>2, <1>3, FrameParts DEF Refusal

LEMMA DroppedParts ==
  Dropped.coils = coils /\ Dropped.holding = holding /\ Dropped.pdu = <<>>
  BY DEF Dropped, Unchanged, Outcome

LEMMA EchoParts ==
  ASSUME NEW f \in Requests
  PROVE  /\ Echo(f) \in Seq(Nat) /\ Len(Echo(f)) = 3 /\ Echo(f)[1] = f.fc /\ Echo(f) # <<>>
         /\ \A pdu : Refusal(pdu) => pdu # Echo(f)
<1>1. f.fc \in Nat /\ f.start \in Nat /\ f.qty \in Nat
  BY FrameParts
<1>2. \A a, b, c \in Nat : <<a, b, c>> \in Seq(Nat) /\ Len(<<a, b, c>>) = 3 /\ <<a, b, c>>[1] = a
  OBVIOUS
<1>3. Echo(f) \in Seq(Nat) /\ Len(Echo(f)) = 3 /\ Echo(f)[1] = f.fc
  BY <1>1, <1>2 DEF Echo
<1>4. Echo(f) # <<>>
  <2>1. Len(<<>>) = 0 /\ 3 # 0
    OBVIOUS
  <2>2. QED
    BY <1>3, <2>1, Zenon
<1>5. ASSUME NEW pdu, Refusal(pdu) PROVE pdu # Echo(f)
  <2>1. CASE pdu = <<>>
    BY <1>4, <2>1
  <2>2. CASE pdu # <<>>
    <3>1. Len(pdu) = 2
      BY <1>5, <2>2 DEF Refusal
    <3>2. 2 # 3
      OBVIOUS
    <3>3. QED
      BY <1>3, <3>1, <3>2, Zenon
  <2>3. QED
    BY <2>1, <2>2
<1>6. QED
  BY <1>3, <1>4, <1>5

\* A frame leaves alone the table it does not write.
LEMMA Untouched ==
  ASSUME Tables, NEW f
  PROVE  /\ (\A a : ~WritesTo(f, 1, a)) => coils = Written(f, 1)
         /\ (\A a : ~WritesTo(f, 3, a)) => holding = Written(f, 3)
<1>1. /\ coils = [a \in 0 .. NumCoils - 1 |-> coils[a]]
      /\ holding = [a \in 0 .. NumHolding - 1 |-> holding[a]]
  BY DEF Tables
<1>2. QED
  BY <1>1 DEF Written, Table, Size

\* What the handlers of the writes do.
LEMMA SingleCoil ==
  ASSUME Tables, NEW f \in Requests, f.fc = 5
  PROVE  LET o == WriteSingleCoil(f)
         IN IF Accepts(f)
            THEN o.pdu = Echo(f) /\ o.coils = Written(f, 1) /\ o.holding = Written(f, 3)
            ELSE o.coils = coils /\ o.holding = holding /\ Refusal(o.pdu)
<1> DEFINE o == WriteSingleCoil(f)
<1>1. CASE f.len = 8 /\ f.qty \in {65280, 0} /\ f.start < NumCoils
  <2>1. o = Outcome(Echo(f), [coils EXCEPT ![f.start] = IF f.qty = 0 THEN 0 ELSE 1], holding)
    BY <1>1, FrameParts DEF WriteSingleCoil
  <2>2. [coils EXCEPT ![f.start] = IF f.qty = 0 THEN 0 ELSE 1] = Written(f, 1)
    <3>1. coils = [a \in 0 .. NumCoils - 1 |-> coils[a]]
      BY DEF Tables
    <3>2. \A a \in 0 .. NumCoils - 1 : WritesTo(f, 1, a) <=> a = f.start
      BY DEF WritesTo
    <3>3. \A a : Given(f, a) = IF f.qty = 0 THEN 0 ELSE 1
      BY <1>1 DEF Given
    <3>4. QED
      BY <3>1, <3>2, <3>3 DEF Written, Table, Size
  <2>3. holding = Written(f, 3)
    BY Untouched DEF WritesTo
  <2>4. Accepts(f)
    BY <1>1 DEF Accepts
  <2>5. QED
    BY <2>1, <2>2, <2>3, <2>4 DEF Outcome
<1>2. CASE ~(f.len = 8 /\ f.qty \in {65280, 0} /\ f.start < NumCoils)
  <2>1. ~Accepts(f)
    BY <1>2 DEF Accepts
  <2>2. \/ o = Dropped
        \/ o = Exception(f, ILLEGAL_DATA_VALUE)
        \/ o = Exception(f, ILLEGAL_DATA_ADDRESS)
    BY <1>2, FrameParts DEF WriteSingleCoil
  <2>3. ILLEGAL_DATA_VALUE \in Nat /\ ILLEGAL_DATA_ADDRESS \in Nat
    BY DEF ILLEGAL_DATA_VALUE, ILLEGAL_DATA_ADDRESS
  <2> HIDE DEF o
  <2>4. o.coils = coils /\ o.holding = holding /\ Refusal(o.pdu)
    BY <2>2, <2>3, DroppedParts, ExceptionParts DEF Refusal
  <2>5. QED
    BY <2>1, <2>4 DEF o
<1>3. QED
  BY <1>1, <1>2

LEMMA SingleReg ==
  ASSUME Tables, NEW f \in Requests, f.fc = 6
  PROVE  LET o == WriteSingleReg(f)
         IN IF Accepts(f)
            THEN o.pdu = Echo(f) /\ o.coils = Written(f, 1) /\ o.holding = Written(f, 3)
            ELSE o.coils = coils /\ o.holding = holding /\ Refusal(o.pdu)
<1> DEFINE o == WriteSingleReg(f)
<1>1. CASE f.len = 8 /\ f.start < NumHolding
  <2>1. o = Outcome(Echo(f), coils, [holding EXCEPT ![f.start] = f.qty])
    BY <1>1, FrameParts DEF WriteSingleReg
  <2>2. [holding EXCEPT ![f.start] = f.qty] = Written(f, 3)
    <3>1. holding = [a \in 0 .. NumHolding - 1 |-> holding[a]]
      BY DEF Tables
    <3>2. \A a \in 0 .. NumHolding - 1 : WritesTo(f, 3, a) <=> a = f.start
      BY DEF WritesTo
    <3>3. \A a : Given(f, a) = f.qty
      BY DEF Given
    <3>4. Written(f, 3) =
            [a \in 0 .. NumHolding - 1 |-> IF WritesTo(f, 3, a) THEN Given(f, a) ELSE holding[a]]
      BY DEF Written, Table, Size
    <3>5. QED
      BY <3>1, <3>2, <3>3, <3>4
  <2>3. coils = Written(f, 1)
    BY Untouched DEF WritesTo
  <2>4. Accepts(f)
    BY <1>1 DEF Accepts
  <2>5. QED
    BY <2>1, <2>2, <2>3, <2>4 DEF Outcome
<1>2. CASE ~(f.len = 8 /\ f.start < NumHolding)
  <2>1. ~Accepts(f)
    BY <1>2 DEF Accepts
  <2>2. o = Dropped \/ o = Exception(f, ILLEGAL_DATA_ADDRESS)
    BY <1>2, FrameParts DEF WriteSingleReg
  <2>3. ILLEGAL_DATA_ADDRESS \in Nat
    BY DEF ILLEGAL_DATA_ADDRESS
  <2> HIDE DEF o
  <2>4. o.coils = coils /\ o.holding = holding /\ Refusal(o.pdu)
    BY <2>2, <2>3, DroppedParts, ExceptionParts DEF Refusal
  <2>5. QED
    BY <2>1, <2>4 DEF o
<1>3. QED
  BY <1>1, <1>2

LEMMA MultipleParts ==
  ASSUME NEW f \in Requests, NEW n \in Nat, NEW limit \in Nat, NEW bytes, NEW written
  PROVE  LET o == Multiple(f, n, limit, bytes, written)
         IN IF Fits(f, n, limit, bytes) THEN o = written
            ELSE o.coils = coils /\ o.holding = holding /\ Refusal(o.pdu)
<1> DEFINE o == Multiple(f, n, limit, bytes, written)
           good == Fits(f, n, limit, bytes)
<1>1. CASE good
  BY <1>1, FrameParts DEF Multiple, Fits
<1>2. CASE ~good
  <2>1. \/ o = Dropped
        \/ o = Exception(f, ILLEGAL_DATA_VALUE)
        \/ o = Exception(f, ILLEGAL_DATA_ADDRESS)
    BY <1>2, FrameParts DEF Multiple, Fits
  <2>2. ILLEGAL_DATA_VALUE \in Nat /\ ILLEGAL_DATA_ADDRESS \in Nat
    BY DEF ILLEGAL_DATA_VALUE, ILLEGAL_DATA_ADDRESS
  <2> HIDE DEF o
  <2>3. o.coils = coils /\ o.holding = holding /\ Refusal(o.pdu)
    BY <2>1, <2>2, DroppedParts, ExceptionParts DEF Refusal
  <2>4. QED
    BY <1>2, <2>3 DEF o
<1>3. QED
  BY <1>1, <1>2

LEMMA CountOfBytes ==
  ASSUME NEW n \in Nat
  PROVE  CeilDiv(n, 8) \in Nat /\ CeilDiv(n, 8) = (n + 7) \div 8
  BY DEF CeilDiv

\* The values of an accepted multiple write.
LEMMA DataParts ==
  ASSUME NEW f \in Requests, Accepts(f), f.fc \in {15, 16}, NEW a \in Span(f)
  PROVE  f.data[a - f.start + 1] \in IF f.fc = 15 THEN {0, 1} ELSE Words
<1>1. f.start \in Nat /\ f.qty \in Nat /\ f.data \in Seq(Words)
  BY FrameParts
<1>2. Len(f.data) = f.qty
  <2>1. CASE f.fc = 15
    <3>1. f.len >= 9 /\ f.bytes = CeilDiv(f.qty, 8)
      BY <2>1 DEF Accepts, Fits
    <3>2. CeilDiv(f.qty, 8) = (f.qty + 7) \div 8
      BY <1>1, CountOfBytes
    <3>3. QED
      BY <2>1, <3>1, <3>2, RequestsAssumption
  <2>2. CASE f.fc = 16
    <3>1. f.len >= 9 /\ f.bytes = 2 * f.qty
      BY <2>2 DEF Accepts, Fits
    <3>2. QED
      BY <2>2, <3>1, RequestsAssumption
  <2>3. QED
    BY <2>1, <2>2
<1>3. a - f.start + 1 \in 1 .. f.qty
  BY <1>1 DEF Span
<1>4. CASE f.fc = 15
  <2>1. f.data \in Seq({0, 1})
    BY <1>4, RequestsAssumption
  <2>2. QED
    BY <1>2, <1>3, <1>4, <2>1, ElementOfSeq
<1>5. CASE f.fc = 16
  BY <1>1, <1>2, <1>3, <1>5, ElementOfSeq
<1>6. QED
  BY <1>4, <1>5

LEMMA MultipleCoils ==
  ASSUME Tables, NEW f \in Requests, f.fc = 15
  PROVE  LET o == WriteMultipleCoils(f)
         IN IF Accepts(f)
            THEN o.pdu = Echo(f) /\ o.coils = Written(f, 1) /\ o.holding = Written(f, 3)
            ELSE o.coils = coils /\ o.holding = holding /\ Refusal(o.pdu)
<1> DEFINE written == Outcome(Echo(f), Overlaid(coils, f), holding)
           o == WriteMultipleCoils(f)
<1>1. Overlaid(coils, f) = Written(f, 1)
  <2>1. Written(f, 1) =
          [a \in 0 .. NumCoils - 1 |-> IF WritesTo(f, 1, a) THEN Given(f, a) ELSE coils[a]]
    BY DEF Written, Table, Size
  <2>2. DOMAIN coils = 0 .. NumCoils - 1
    BY DEF Tables
  <2>3. \A a : (WritesTo(f, 1, a) <=> a \in Span(f)) /\ Given(f, a) = f.data[a - f.start + 1]
    BY DEF WritesTo, Given
  <2>4. QED
    BY <2>1, <2>2, <2>3 DEF Overlaid
<1>2. holding = Written(f, 3)
  BY Untouched DEF WritesTo
<1> DEFINE limit == 1968
           bytes == CeilDiv(f.qty, 8)
<1>3. o = Multiple(f, NumCoils, limit, bytes, written)
  BY DEF WriteMultipleCoils
<1>4. written.pdu = Echo(f) /\ written.coils = Overlaid(coils, f) /\ written.holding = holding
  BY DEF Outcome
<1>5. Accepts(f) <=> Fits(f, NumCoils, limit, bytes)
  BY DEF Accepts
<1>6. limit \in Nat /\ NumCoils \in Nat
  BY FrameParts
<1> HIDE DEF written, o, limit, bytes
<1>7. IF Fits(f, NumCoils, limit, bytes) THEN o = written
      ELSE o.coils = coils /\ o.holding = holding /\ Refusal(o.pdu)
  BY <1>3, <1>6, MultipleParts
<1>8. QED
  BY <1>1, <1>2, <1>4, <1>5, <1>7 DEF o

LEMMA MultipleRegs ==
  ASSUME Tables, NEW f \in Requests, f.fc = 16
  PROVE  LET o == WriteMultipleRegs(f)
         IN IF Accepts(f)
            THEN o.pdu = Echo(f) /\ o.coils = Written(f, 1) /\ o.holding = Written(f, 3)
            ELSE o.coils = coils /\ o.holding = holding /\ Refusal(o.pdu)
<1> DEFINE written == Outcome(Echo(f), coils, Overlaid(holding, f))
           o == WriteMultipleRegs(f)
<1>1. Overlaid(holding, f) = Written(f, 3)
  <2>1. Written(f, 3) =
          [a \in 0 .. NumHolding - 1 |-> IF WritesTo(f, 3, a) THEN Given(f, a) ELSE holding[a]]
    BY DEF Written, Table, Size
  <2>2. DOMAIN holding = 0 .. NumHolding - 1
    BY DEF Tables
  <2>3. \A a : (WritesTo(f, 3, a) <=> a \in Span(f)) /\ Given(f, a) = f.data[a - f.start + 1]
    BY DEF WritesTo, Given
  <2>4. QED
    BY <2>1, <2>2, <2>3 DEF Overlaid
<1>2. coils = Written(f, 1)
  BY Untouched DEF WritesTo
<1> DEFINE limit == 123
           bytes == 2 * f.qty
<1>3. o = Multiple(f, NumHolding, limit, bytes, written)
  BY DEF WriteMultipleRegs
<1>4. written.pdu = Echo(f) /\ written.coils = coils /\ written.holding = Overlaid(holding, f)
  BY DEF Outcome
<1>5. Accepts(f) <=> Fits(f, NumHolding, limit, bytes)
  BY DEF Accepts
<1>6. limit \in Nat /\ NumHolding \in Nat
  BY FrameParts
<1> HIDE DEF written, o, limit, bytes
<1>7. IF Fits(f, NumHolding, limit, bytes) THEN o = written
      ELSE o.coils = coils /\ o.holding = holding /\ Refusal(o.pdu)
  BY <1>3, <1>6, MultipleParts
<1>8. QED
  BY <1>1, <1>2, <1>4, <1>5, <1>7 DEF o

NatTable(table, n) == \A a \in 0 .. n - 1 : table[a] \in Nat
ReadOutcome(o, f, n, table) ==
  /\ o.coils = coils /\ o.holding = holding
  /\ \/ Refusal(o.pdu)
     \/ /\ Span(f) \subseteq 0 .. n - 1 /\ o.pdu \in Seq(Nat) /\ o.pdu[1] = f.fc
        /\ \A a \in Span(f) : o.pdu[a - f.start + 3] = table[a]

\* What the handlers of the reads do: they leave the tables alone, and answer with
\* the elements asked for.
LEMMA ReadParts ==
  ASSUME NEW f \in Requests, NEW n \in Nat, NEW table, NEW limit \in Nat, NEW bytes \in Nat,
         NatTable(table, n)
  PROVE  ReadOutcome(Read(f, table, n, limit, bytes), f, n, table)
<1> DEFINE o == Read(f, table, n, limit, bytes)
           slice == [i \in 1 .. f.qty |-> table[f.start + i - 1]]
           good == f.len = 8 /\ f.qty \in 1 .. limit /\ f.start + f.qty <= n
<1> USE DEF ReadOutcome, NatTable
<1>1. CASE good /\ bytes + 5 <= MaxAdu
  <2>2. o = Unchanged(<<f.fc, bytes>> \o slice)
    BY <1>1, FrameParts, ModbusAssumption DEF Read, Slice
  <2>3. f.qty \in Nat /\ f.start \in Nat /\ f.fc \in Nat
    BY FrameParts
  <2>4. slice \in Seq(Nat) /\ Len(slice) = f.qty
    <3>1. \A i \in 1 .. f.qty : f.start + i - 1 \in 0 .. n - 1
      BY <1>1, <2>3
    <3>2. slice \in [1 .. f.qty -> Nat]
      BY <3>1
    <3>3. \A q \in Nat : \A t \in [1 .. q -> Nat] : t \in Seq(Nat) /\ Len(t) = q
      OBVIOUS
    <3> HIDE DEF slice
    <3>4. QED
      BY <2>3, <3>2, <3>3
  <2>5. <<f.fc, bytes>> \in Seq(Nat) /\ Len(<<f.fc, bytes>>) = 2 /\ <<f.fc, bytes>>[1] = f.fc
    BY <2>3
  <2> DEFINE pdu == <<f.fc, bytes>> \o slice
  <2>6. \A i \in 1 .. f.qty : slice[i] = table[f.start + i - 1]
    OBVIOUS
  <2> HIDE DEF slice
  <2>7. /\ pdu \in Seq(Nat)
        /\ \A i \in 1 .. 2 + f.qty : pdu[i] = IF i <= 2 THEN <<f.fc, bytes>>[i] ELSE slice[i - 2]
    <3>1. /\ pdu \in Seq(Nat)
          /\ \A i \in 1 .. Len(<<f.fc, bytes>>) + Len(slice) :
               pdu[i] = IF i <= Len(<<f.fc, bytes>>) THEN <<f.fc, bytes>>[i]
                        ELSE slice[i - Len(<<f.fc, bytes>>)]
      BY <2>4, <2>5, ConcatProperties
    <3>2. QED
      BY <3>1, <2>4, <2>5
  <2> HIDE DEF pdu
  <2>8. pdu[1] = f.fc
    BY <2>3, <2>5, <2>7
  <2>9. \A a \in Span(f) : pdu[a - f.start + 3] = table[a] /\ a \in 0 .. n - 1
    <3>1. TAKE a \in Span(f)
    <3>2. /\ a \in Int /\ a - f.start + 3 \in 1 .. 2 + f.qty /\ ~(a - f.start + 3 <= 2)
          /\ (a - f.start + 3) - 2 \in 1 .. f.qty
          /\ f.start + ((a - f.start + 3) - 2) - 1 = a /\ a \in 0 .. n - 1
      BY <1>1, <2>3 DEF Span
    <3>3. QED
      BY <2>6, <2>7, <3>2
  <2>10. o.coils = coils /\ o.holding = holding /\ o.pdu = pdu
    BY <2>2 DEF Unchanged, Outcome, pdu
  <2>11. QED
    BY <2>7, <2>8, <2>9, <2>10
<1>2. CASE ~(good /\ bytes + 5 <= MaxAdu)
  <2>1. \/ o = Dropped
        \/ o = Exception(f, ILLEGAL_DATA_VALUE)
        \/ o = Exception(f, ILLEGAL_DATA_ADDRESS)
    <3>1. /\ f.len \in Nat /\ f.qty \in Nat /\ f.start \in Nat /\ MaxAdu \in Nat
      BY FrameParts, ModbusAssumption
    <3>2. CASE f.len # 8
      BY <3>2 DEF Read
    <3>3. CASE f.len = 8 /\ (f.qty = 0 \/ f.qty > limit)
      BY <3>3 DEF Read
    <3>4. CASE f.len = 8 /\ f.qty \in 1 .. limit /\ f.start + f.qty > n
      BY <3>4, <3>1 DEF Read
    <3>5. CASE good /\ bytes + 5 > MaxAdu
      <4>1. /\ ~(f.len # 8) /\ ~(f.qty = 0 \/ f.qty > limit) /\ ~(f.start + f.qty > n)
            /\ f.len = 8 /\ f.qty \in 1 .. limit /\ f.start + f.qty <= n /\ bytes + 5 > MaxAdu
        BY <3>5, <3>1
      <4> HIDE DEF good
      <4>2. o = IF bytes + 5 > MaxAdu THEN Exception(f, ILLEGAL_DATA_VALUE)
                ELSE Unchanged(<<f.fc, bytes>> \o Slice(table, f))
        BY <4>1 DEF Read
      <4> HIDE DEF o
      <4>3. QED
        BY <4>1, <4>2
    <3> HIDE DEF o
    <3>6. \/ f.len # 8
          \/ f.len = 8 /\ (f.qty = 0 \/ f.qty > limit)
          \/ f.len = 8 /\ f.qty \in 1 .. limit /\ f.start + f.qty > n
          \/ good /\ bytes + 5 > MaxAdu
      BY <1>2, <3>1
    <3>7. QED
      BY <3>2, <3>3, <3>4, <3>5, <3>6
  <2>2. ILLEGAL_DATA_VALUE \in Nat /\ ILLEGAL_DATA_ADDRESS \in Nat
    BY DEF ILLEGAL_DATA_VALUE, ILLEGAL_DATA_ADDRESS
  <2> HIDE DEF o
  <2>3. o.coils = coils /\ o.holding = holding /\ Refusal(o.pdu)
    BY <2>1, <2>2, DroppedParts, ExceptionParts DEF Refusal
  <2>4. QED
    BY <2>3 DEF o
<1>3. QED
  BY <1>1, <1>2

\* What is written is of the types of the tables.
LEMMA WrittenTypes ==
  ASSUME Tables, NEW f \in Requests, Accepts(f)
  PROVE  /\ Written(f, 1) \in [0 .. NumCoils - 1 -> {0, 1}]
         /\ Written(f, 3) \in [0 .. NumHolding - 1 -> Words]
<1>1. ASSUME NEW a \in 0 .. NumCoils - 1, WritesTo(f, 1, a) PROVE Given(f, a) \in {0, 1}
  <2>1. CASE f.fc = 5
    BY <2>1 DEF Given
  <2>2. CASE f.fc = 15 /\ a \in Span(f)
    BY <2>2, DataParts DEF Given
  <2>3. QED
    BY <1>1, <2>1, <2>2 DEF WritesTo
<1>2. ASSUME NEW a \in 0 .. NumHolding - 1, WritesTo(f, 3, a) PROVE Given(f, a) \in Words
  <2>1. CASE f.fc = 6
    BY <2>1, FrameParts DEF Given
  <2>2. CASE f.fc = 16 /\ a \in Span(f)
    BY <2>2, DataParts DEF Given
  <2>3. QED
    BY <1>2, <2>1, <2>2 DEF WritesTo
<1>3. QED
  BY <1>1, <1>2 DEF Written, Table, Size, Tables

\* A refusal is no answer to a read, and no echo.
LEMMA RefusalParts ==
  ASSUME NEW f \in Requests, NEW pdu, Refusal(pdu)
  PROVE  /\ pdu \in Seq(Nat) /\ pdu # Echo(f)
         /\ pdu # <<>> /\ f.fc < 128 => pdu[1] # f.fc
<1>1. <<>> \in Seq(Nat)
  OBVIOUS
<1>2. pdu \in Seq(Nat) /\ pdu # Echo(f)
  BY <1>1, EchoParts DEF Refusal
<1>3. f.fc \in Nat
  BY FrameParts
<1>4. QED
  BY <1>2, <1>3 DEF Refusal

\* What the execution of a frame does: an accepted write is answered with its echo
\* and written; whatever else leaves the tables alone.
LEMMA Execution ==
  ASSUME Tables, NEW f \in Requests
  PROVE  LET o == Handled(f)
         IN /\ o.pdu \in Seq(Nat)
            /\ IF Accepts(f)
               THEN o.pdu = Echo(f) /\ o.coils = Written(f, 1) /\ o.holding = Written(f, 3)
               ELSE o.coils = coils /\ o.holding = holding
            /\ f.fc \in {5, 6, 15, 16} /\ ~Accepts(f) => o.pdu # Echo(f)
            /\ f.fc \in {1, 3} /\ o.pdu # <<>> /\ o.pdu[1] = f.fc =>
                 /\ Span(f) \subseteq 0 .. Size(f.fc) - 1
                 /\ \A a \in Span(f) : o.pdu[a - f.start + 3] = Table(f.fc)[a]
<1> DEFINE o == Handled(f)
           Writing == IF Accepts(f)
                      THEN o.pdu = Echo(f) /\ o.coils = Written(f, 1) /\ o.holding = Written(f, 3)
                      ELSE o.coils = coils /\ o.holding = holding /\ Refusal(o.pdu)
           Reading(n, table) == ReadOutcome(o, f, n, table)
<1>1. CeilDiv(f.qty, 8) \in Nat /\ 2 * f.qty \in Nat
  <2>1. f.qty \in Nat
    BY FrameParts
  <2>2. QED
    BY <2>1, CountOfBytes
<1>2. Echo(f) \in Seq(Nat)
  BY EchoParts
<1>3. ASSUME f.fc \in {5, 6, 15, 16} PROVE Writing
  <2>1. CASE f.fc = 5
    <3>1. o = WriteSingleCoil(f)
      BY <2>1 DEF Handled
    <3>2. QED
      BY <2>1, <3>1, SingleCoil
  <2>2. CASE f.fc = 6
    <3>1. o = WriteSingleReg(f)
      BY <2>2 DEF Handled
    <3>2. QED
      BY <2>2, <3>1, SingleReg
  <2>3. CASE f.fc = 15
    <3>1. o = WriteMultipleCoils(f)
      BY <2>3 DEF Handled
    <3>2. QED
      BY <2>3, <3>1, MultipleCoils
  <2>4. CASE f.fc = 16
    <3>1. o = WriteMultipleRegs(f)
      BY <2>4 DEF Handled
    <3>2. QED
      BY <2>4, <3>1, MultipleRegs
  <2>5. QED
    BY <1>3, <2>1, <2>2, <2>3, <2>4
<1>4. ASSUME f.fc \notin {5, 6, 15, 16}
      PROVE  \/ f.fc = 1 /\ Reading(NumCoils, coils)
             \/ f.fc = 3 /\ Reading(NumHolding, holding)
             \/ f.fc \notin {1, 3} /\ \E n, table : Reading(n, table)
  <2> DEFINE bits == CeilDiv(f.qty, 8)  double == 2 * f.qty  long == 2000
  <2>0. bits \in Nat /\ double \in Nat /\ long \in Nat /\ 125 \in Nat /\ 0 \in Nat
         /\ NumCoils \in Nat /\ NumHolding \in Nat /\ NumInputs \in Nat
    BY <1>1, ModbusAssumption
  <2>1. CASE f.fc = 1
    <3>1. o = Read(f, coils, NumCoils, long, bits)
      BY <2>1 DEF Handled, ReadBits
    <3>2. NatTable(coils, NumCoils)
      BY DEF Tables, NatTable
    <3>3. Reading(NumCoils, coils)
      <4> HIDE DEF o, bits, double, long
      <4>1. QED
        BY <2>0, <3>1, <3>2, ReadParts
    <3>4. QED
      BY <2>1, <3>3
  <2>2. CASE f.fc = 3
    <3>1. o = Read(f, holding, NumHolding, 125, double)
      BY <2>2 DEF Handled, ReadRegs
    <3>2. NatTable(holding, NumHolding)
      <4>1. \A w \in Words : w \in Nat
        <5> DEFINE top == 65535
        <5>1. top \in Int
          OBVIOUS
        <5> HIDE DEF top
        <5>2. \A w \in 0 .. top : w \in Nat
          BY <5>1
        <5>3. Words = 0 .. top
          BY DEF top, Words
        <5>4. QED
          BY <5>2, <5>3
      <4>2. QED
        BY <4>1 DEF Tables, NatTable
    <3>3. Reading(NumHolding, holding)
      <4> HIDE DEF o, bits, double, long
      <4>1. QED
        BY <2>0, <3>1, <3>2, ReadParts
    <3>4. QED
      BY <2>2, <3>3
  <2>3. CASE f.fc = 2
    <3>1. o = Read(f, <<>>, 0, long, bits)
      BY <2>3 DEF Handled, ReadBits
    <3>2. NatTable(<<>>, 0)
      BY DEF NatTable
    <3>3. Reading(0, <<>>)
      <4> HIDE DEF o, bits, double, long
      <4>1. QED
        BY <2>0, <3>1, <3>2, ReadParts
    <3>4. QED
      BY <2>3, <3>3
  <2>4. CASE f.fc = 4
    <3> DEFINE inputs == [a \in 0 .. NumInputs - 1 |-> InputAt(a)]
    <3>1. o = Read(f, inputs, NumInputs, 125, double)
      BY <2>4 DEF Handled, ReadRegs
    <3>2. NatTable(inputs, NumInputs)
      BY DEF InputAt, NatTable
    <3> HIDE DEF inputs
    <3>3. Reading(NumInputs, inputs)
      <4> HIDE DEF o, bits, double, long
      <4>1. QED
        BY <2>0, <3>1, <3>2, ReadParts
    <3>4. QED
      BY <2>4, <3>3
  <2>5. CASE f.fc \notin {1, 2, 3, 4}
    <3>1. o = Exception(f, ILLEGAL_FUNCTION)
      BY <1>4, <2>5 DEF Handled
    <3>2. ILLEGAL_FUNCTION \in Nat
      BY DEF ILLEGAL_FUNCTION
    <3>3. o.coils = coils /\ o.holding = holding /\ Refusal(o.pdu)
      BY <3>1, <3>2, ExceptionParts
    <3>4. Reading(0, <<>>)
      BY <3>3 DEF ReadOutcome
    <3>5. QED
      BY <2>5, <3>4
  <2>6. QED
    BY <2>1, <2>2, <2>3, <2>4, <2>5
<1>5. Accepts(f) => f.fc \in {5, 6, 15, 16}
  BY DEF Accepts
<1>6. Refusal(o.pdu) => o.pdu \in Seq(Nat) /\ o.pdu # Echo(f)
                        /\ (o.pdu # <<>> /\ f.fc < 128 => o.pdu[1] # f.fc)
  BY RefusalParts
<1> HIDE DEF o
<1>7. CASE f.fc \in {5, 6, 15, 16}
  BY <1>2, <1>3, <1>6, <1>7 DEF o
<1>8. CASE f.fc \notin {5, 6, 15, 16}
  <2>1. o.pdu \in Seq(Nat) /\ o.coils = coils /\ o.holding = holding
    BY <1>4, <1>6, <1>8 DEF ReadOutcome
  <2>2. ASSUME f.fc \in {1, 3}, o.pdu # <<>>, o.pdu[1] = f.fc
        PROVE  /\ Span(f) \subseteq 0 .. Size(f.fc) - 1
               /\ \A a \in Span(f) : o.pdu[a - f.start + 3] = Table(f.fc)[a]
    <3>1. ~Refusal(o.pdu)
      BY <1>6, <2>2
    <3>2. QED
      BY <1>4, <1>8, <2>2, <3>1 DEF Size, Table, ReadOutcome
  <2>3. QED
    BY <1>5, <1>8, <2>1, <2>2 DEF o
<1>9. QED
  BY <1>7, <1>8
-----------------------------------------------------------------------------
\* Bytes the slave has still to judge: of frames later than all it has executed, and
\* none that the line has not brought.
Fresh ==
  {b \in Nat \X Nat :
     /\ b[1] \in 1 .. Len(sent)
     /\ b[1] = Len(sent) /\ line.sending => b[2] <= line.landed
     /\ \A j \in DOMAIN done : done[j] < b[1]}

Lines == [sending : BOOLEAN, landed : Nat, left : Int, quiet : Int]
Types ==
  /\ line \in Lines
  /\ sent \in Seq(Requests) /\ done \in Seq(Nat) /\ replies \in Seq([to : Nat, pdu : Seq(Nat)])
  /\ Tables
OnLine == line.sending => Len(sent) > 0 /\ line.landed < sent[Len(sent)].len
Unjudged == s_frame \in Seq(Fresh) /\ ring \in Seq(Fresh)
Executed ==
  /\ \A j \in DOMAIN done : /\ done[j] \in 1 .. Len(sent)
                            /\ done[j] = Len(sent) => ~line.sending
  /\ \A i, j \in DOMAIN done : i < j => done[i] < done[j]
Answered ==
  /\ \A r \in DOMAIN replies : /\ \E j \in DOMAIN done : done[j] = replies[r].to
                               /\ sent[replies[r].to].addr = Slave
  /\ \A r, q \in DOMAIN replies : r # q => replies[r].to # replies[q].to

\* Frames are executed once and in order: inductive.
OrderInv == Types /\ OnLine /\ Unjudged /\ Executed /\ Answered

\* The accepted writes among the executed frames, as answered.
Effective(fc, a, k) ==
  {i \in DOMAIN done : done[i] < k /\ WritesTo(sent[done[i]], fc, a) /\ Accepts(sent[done[i]])}
\* v is what they gave to address a, last.
Holds(v, fc, a, k) ==
  \/ Effective(fc, a, k) = {} /\ v = 0
  \/ \E m \in Effective(fc, a, k) : /\ \A i \in Effective(fc, a, k) : i <= m
                                    /\ v = Given(sent[done[m]], a)
AcceptedAnswered ==
  /\ \A i \in DOMAIN done :
       /\ sent[done[i]].addr \in {0, Slave}
       /\ sent[done[i]].addr # 0 /\ Accepts(sent[done[i]]) =>
            \E r \in DOMAIN replies : /\ replies[r].to = done[i]
                                      /\ replies[r].pdu = Echo(sent[done[i]])
  /\ \A r \in DOMAIN replies :
       LET f == sent[replies[r].to]
       IN f.fc \in {5, 6, 15, 16} /\ replies[r].pdu = Echo(f) => Accepts(f)
TablesHold ==
  \A fc \in {1, 3} : \A a \in 0 .. Size(fc) - 1 : Holds(Table(fc)[a], fc, a, Len(sent) + 1)
RepliesHeld ==
  \A r \in DOMAIN replies :
    LET f == sent[replies[r].to]
    IN f.fc \in {1, 3} /\ replies[r].pdu[1] = f.fc =>
         \A a \in Span(f) : Holds(replies[r].pdu[a - f.start + 3], f.fc, a, replies[r].to)

\* Reads return what was written: inductive on top of OrderInv.
ValueInv == AcceptedAnswered /\ TablesHold /\ RepliesHeld
-----------------------------------------------------------------------------
LEMMA Constants ==
  /\ Char \in Int /\ Pause \in Int /\ Silence \in Int
  /\ NumCoils \in Nat /\ NumHolding \in Nat /\ Slave \in Nat /\ Slave # 0
<1>1. \A n \in Nat : CeilDiv(n, 2) \in Int /\ CeilDiv(n, 4) \in Int
  BY DEF CeilDiv
<1>2. 7 * TickLen \in Nat /\ 7 * Char \in Nat
  BY ModbusAssumption
<1>3. Silence \in Int
  BY <1>1, <1>2 DEF Silence
<1>4. QED
  BY <1>3, ModbusAssumption

LEMMA InitOrder == Init => OrderInv
<1> SUFFICES ASSUME Init PROVE OrderInv
  OBVIOUS
<1>1. line = [sending |-> FALSE, landed |-> 0, left |-> 0, quiet |-> Silence]
  BY DEF Init
<1>2. \A S : <<>> \in Seq(S)
  BY EmptySeq
<1>3. Tables
  BY DEF Init, Tables, Words
<1>4. sent = <<>> /\ done = <<>> /\ replies = <<>> /\ ring = <<>> /\ s_frame = <<>>
  BY DEF Init
<1>5. DOMAIN <<>> = {}
  OBVIOUS
<1>6. Types
  BY <1>1, <1>2, <1>3, <1>4, Constants DEF Types, Lines
<1>7. OnLine /\ Unjudged /\ Executed /\ Answered
  BY <1>1, <1>2, <1>4, <1>5 DEF OnLine, Unjudged, Executed, Answered
<1>8. QED
  BY <1>6, <1>7 DEF OrderInv

\* The lengths and elements of the sequences.
LEMMA Shapes ==
  ASSUME Types
  PROVE  /\ Len(sent) \in Nat /\ Len(done) \in Nat /\ Len(replies) \in Nat
         /\ DOMAIN sent = 1 .. Len(sent) /\ DOMAIN done = 1 .. Len(done)
         /\ DOMAIN replies = 1 .. Len(replies)
         /\ \A k \in 1 .. Len(sent) : sent[k] \in Requests /\ sent[k].len \in Nat \ {0}
         /\ \A j \in DOMAIN done : done[j] \in Nat
<1>1. \A k \in 1 .. Len(sent) : sent[k] \in Requests
  BY ElementOfSeq DEF Types
<1>2. QED
  BY <1>1, LenProperties, FrameParts DEF Types

LEMMA SendOrder == ASSUME OrderInv, NEW f \in Requests, Send(f) PROVE OrderInv'
<1> USE DEF OrderInv
<1>1. UNCHANGED <<ring, s_frame, coils, holding, done, replies>>
  BY DEF Send, tables
<1>2. line' = [sending |-> TRUE, landed |-> 0, left |-> Char, quiet |-> 0]
  BY DEF Send
<1>3. sent' = Append(sent, f)
  BY DEF Send
<1>4. /\ sent' \in Seq(Requests) /\ Len(sent') = Len(sent) + 1
      /\ \A k \in 1 .. Len(sent) : sent'[k] = sent[k]
      /\ sent'[Len(sent) + 1] = f
  BY <1>3, AppendProperties DEF Types
<1>5. Types'
  BY <1>1, <1>2, <1>4, Constants DEF Types, Tables, Lines
<1>6. OnLine'
  <2>1. f.len \in Nat \ {0} /\ Len(sent) \in Nat
    BY FrameParts, Shapes
  <2>2. QED
    BY <1>2, <1>4, <2>1 DEF OnLine
<1>7. Fresh \subseteq Fresh'
  BY <1>1, <1>2, <1>4, Shapes DEF Fresh
<1>8. Unjudged'
  BY <1>1, <1>7, SeqMonotonic DEF Unjudged
<1>9. Executed'
  BY <1>1, <1>2, <1>4, Shapes DEF Executed
<1>10. Answered'
  BY <1>1, <1>4, Shapes DEF Answered, Executed
<1>11. QED
  BY <1>5, <1>6, <1>8, <1>9, <1>10

LEMMA LineWaits ==
  ASSUME NEW r \in Lines, NEW x \in Int, NEW m, m = [r EXCEPT !.quiet = x] \/ m = [r EXCEPT !.left = x]
  PROVE  m \in Lines /\ m.sending = r.sending /\ m.landed = r.landed
  BY DEF Lines

LEMMA LineEnds ==
  ASSUME NEW r \in Lines, NEW m, m = [r EXCEPT !.sending = FALSE, !.landed = 0, !.left = 0]
  PROVE  m \in Lines /\ m.sending = FALSE
<1>1. m = [sending |-> FALSE, landed |-> 0, left |-> 0, quiet |-> r.quiet]
  BY DEF Lines
<1>2. r.quiet \in Int
  BY DEF Lines
<1>3. FALSE \in BOOLEAN /\ 0 \in Nat /\ 0 \in Int
  OBVIOUS
<1>4. \A q \in Int : LET w == [sending |-> FALSE, landed |-> 0, left |-> 0, quiet |-> q]
                     IN w \in Lines /\ w.sending = FALSE
  BY <1>3, Zenon DEF Lines
<1>5. QED
  BY <1>1, <1>2, <1>4, Zenon

LEMMA QuietOrder ==
  ASSUME OrderInv, Quiet \/ Shifting, UNCHANGED <<s_frame, coils, holding, sent, done, replies>>
  PROVE  OrderInv'
<1> USE DEF OrderInv
<1>1. /\ line' \in Lines
      /\ line'.sending = line.sending /\ line'.landed = line.landed /\ ring' = ring
  <2>1. line \in Lines
    BY DEF Types
  <2>2. CASE Quiet
    <3> DEFINE q == IF line.quiet < Silence THEN line.quiet + 1 ELSE line.quiet
    <3>1. q \in Int
      BY <2>1, Constants DEF Lines
    <3>2. line' = [line EXCEPT !.quiet = q] /\ ring' = ring
      BY <2>2 DEF Quiet
    <3> HIDE DEF q
    <3>3. QED
      BY <2>1, <3>1, <3>2, LineWaits
  <2>3. CASE Shifting
    <3> DEFINE t == line.left - 1
    <3>1. t \in Int
      BY <2>1 DEF Lines
    <3>2. line' = [line EXCEPT !.left = t] /\ ring' = ring
      BY <2>3 DEF Shifting
    <3> HIDE DEF t
    <3>3. QED
      BY <2>1, <3>1, <3>2, LineWaits
  <2>4. QED
    BY <2>2, <2>3
<1>2. Types'
  BY <1>1 DEF Types, Tables
<1>3. Fresh' = Fresh
  BY <1>1 DEF Fresh
<1>4. OnLine' /\ Unjudged' /\ Executed' /\ Answered'
  BY <1>1, <1>3 DEF OnLine, Unjudged, Executed, Answered
<1>5. QED
  BY <1>2, <1>4

LEMMA LandsOrder ==
  ASSUME OrderInv, Lands, UNCHANGED <<s_frame, coils, holding, sent, done, replies>>
  PROVE  OrderInv'
<1> USE DEF OrderInv
<1> DEFINE n == Len(sent)
           b == <<n, line.landed + 1>>
<1>1. /\ line \in Lines
      /\ line.sending /\ n \in Nat /\ n > 0 /\ line.landed \in Nat
      /\ line.landed < sent[n].len /\ sent[n].len \in Nat
  <2>1. line \in Lines /\ line.sending /\ line.landed \in Nat
    BY DEF Types, Lines, Lands
  <2>2. n \in Nat /\ n > 0 /\ line.landed < sent[n].len
    BY <2>1, Shapes DEF OnLine
  <2>3. sent[n].len \in Nat
    BY <2>2, Shapes
  <2>4. QED
    BY <2>1, <2>2, <2>3
<1>2. ring' = Append(ring, b)
  BY DEF Lands
<1>3. Last(sent) = sent[n]
  BY DEF Last
<1>4. /\ line' \in Lines
      /\ \/ ~line'.sending
         \/ /\ line'.sending /\ line'.landed = line.landed + 1
            /\ line.landed + 1 # sent[n].len
  <2> DEFINE y == line.landed + 1
  <2>1. y \in Nat
    BY <1>1
  <2>2. \/ /\ y = sent[n].len
           /\ line' = [line EXCEPT !.sending = FALSE, !.landed = 0, !.left = 0]
        \/ /\ y # sent[n].len
           /\ \E t \in Int : line' = [line EXCEPT !.landed = y, !.left = t]
    <3>1. CASE y = sent[n].len
      BY <1>3, <3>1 DEF Lands
    <3>2. CASE y # sent[n].len
      <4>1. PICK p \in {0, Pause} : line' = [line EXCEPT !.landed = line.landed + 1, !.left = Char + p]
        BY <1>3, <3>2 DEF Lands
      <4>2. Char + p \in Int
        BY Constants
      <4>3. QED
        BY <3>2, <4>1, <4>2
    <3>3. QED
      BY <3>1, <3>2
  <2> HIDE DEF y
  <2>3. \/ line' \in Lines /\ ~line'.sending
        \/ line' \in Lines /\ line'.sending /\ line'.landed = y /\ y # sent[n].len
    <3>1. CASE y = sent[n].len
      <4>1. line' = [line EXCEPT !.sending = FALSE, !.landed = 0, !.left = 0]
        BY <2>2, <3>1
      <4>2. QED
        BY <1>1, <4>1, LineEnds
    <3>2. CASE y # sent[n].len
      <4>1. PICK t \in Int : line' = [line EXCEPT !.landed = y, !.left = t]
        BY <2>2, <3>2
      <4>2. t \in Int
        OBVIOUS
      <4>3. line' \in Lines /\ line'.sending = line.sending /\ line'.landed = y
        <5>1. line' = [sending |-> line.sending, landed |-> y, left |-> t, quiet |-> line.quiet]
          BY <1>1, <4>1 DEF Lines
        <5>2. line.sending \in BOOLEAN /\ line.quiet \in Int
          BY <1>1 DEF Lines
        <5>3. QED
          BY <2>1, <4>2, <5>1, <5>2 DEF Lines
      <4>4. QED
        BY <1>1, <3>2, <4>3
    <3>3. QED
      BY <3>1, <3>2
  <2>4. QED
    BY <2>3 DEF y
<1>5. Types'
  BY <1>4 DEF Types, Tables
<1>6. OnLine'
  BY <1>1, <1>4 DEF OnLine
<1>7. Fresh \subseteq Fresh'
  BY <1>1, <1>4 DEF Fresh
<1>8. b \in Fresh'
  <2>1. \A j \in DOMAIN done : done[j] < n
    BY <1>1, Shapes DEF Executed
  <2>2. b \in Nat \X Nat /\ b[1] = n /\ b[2] = line.landed + 1
    BY <1>1
  <2>3. QED
    BY <1>1, <1>4, <2>1, <2>2 DEF Fresh
<1>9. Unjudged'
  <2>1. s_frame \in Seq(Fresh') /\ ring \in Seq(Fresh')
    BY <1>7, SeqMonotonic DEF Unjudged
  <2>2. Append(ring, b) \in Seq(Fresh')
    BY <1>8, <2>1, AppendProperties
  <2>3. QED
    BY <1>2, <2>1, <2>2 DEF Unjudged
<1>10. Executed' /\ Answered'
  BY <1>1, <1>4, Shapes DEF Executed, Answered
<1>11. QED
  BY <1>5, <1>6, <1>9, <1>10

LEMMA PollBytesOrder ==
  ASSUME OrderInv, PollBytes
  PROVE  OrderInv'
<1> USE DEF OrderInv
<1>1. UNCHANGED <<line, coils, holding, sent, done, replies>> /\ ring' = <<>> /\ s_frame' = Gathered
  BY DEF PollBytes, tables
<1>2. Types' /\ OnLine' /\ Executed' /\ Answered' /\ Fresh' = Fresh
  BY <1>1 DEF Types, Tables, OnLine, Executed, Answered, Fresh
<1>3. Gathered \in Seq(Fresh)
  <2> DEFINE n == Lesser(Len(ring), MaxAdu - Len(s_frame))
             part == SubSeq(ring, 1, n)
  <2>1. /\ Len(ring) \in Nat /\ Len(s_frame) \in Nat /\ s_frame \in Seq(Fresh)
        /\ \A i \in 1 .. Len(ring) : ring[i] \in Fresh
    BY LenProperties, ElementOfSeq DEF Unjudged
  <2>2. n \in Int /\ n <= Len(ring)
    BY <2>1, ModbusAssumption DEF Lesser
  <2> HIDE DEF n
  <2>3. \A i \in 1 .. n : ring[i] \in Fresh
    BY <2>1, <2>2
  <2>4. part \in Seq(Fresh)
    BY <2>2, <2>3, SubSeqProperties
  <2> HIDE DEF part
  <2>5. s_frame \o part \in Seq(Fresh)
    BY <2>1, <2>4, ConcatProperties
  <2>6. QED
    BY <2>5 DEF Gathered, part, n
<1>4. Unjudged'
  BY <1>1, <1>2, <1>3, EmptySeq DEF Unjudged
<1>5. QED
  BY <1>2, <1>4

\* The execution of frame k.
Execute(k) ==
  /\ k \in 1 .. Len(sent) /\ sent[k].addr \in {0, Slave}
  /\ \A j \in DOMAIN done : done[j] < k
  /\ k = Len(sent) => ~line.sending
  /\ done' = Append(done, k)
  /\ coils' = Handled(sent[k]).coils /\ holding' = Handled(sent[k]).holding
  /\ replies' = IF Answers(sent[k], Handled(sent[k]))
                THEN Append(replies, [to |-> k, pdu |-> Handled(sent[k]).pdu]) ELSE replies

\* A frame is executed only when the slave holds the whole of it: none of it is still
\* to come, and none of it has been executed.
LEMMA Executes ==
  ASSUME OrderInv, ProcessFrame
  PROVE  UNCHANGED <<coils, holding, done, replies>> \/ \E k \in 1 .. Len(sent) : Execute(k)
<1> USE DEF OrderInv
<1>1. CASE UNCHANGED <<tables, done, replies>>
  BY <1>1 DEF tables
<1>2. CASE ~UNCHANGED <<tables, done, replies>>
  <2>1. PICK k \in DOMAIN sent :
          /\ Len(s_frame) >= 4 /\ IsWhole(k) /\ Mine(sent[k])
          /\ coils' = Handled(sent[k]).coils /\ holding' = Handled(sent[k]).holding
          /\ done' = Append(done, k)
          /\ replies' = IF Answers(sent[k], Handled(sent[k]))
                        THEN Append(replies, [to |-> k, pdu |-> Handled(sent[k]).pdu]) ELSE replies
    BY <1>2 DEF ProcessFrame
  <2> DEFINE n == sent[k].len
  <2>2. k \in 1 .. Len(sent) /\ n \in Nat \ {0} /\ Len(sent) \in Nat
    BY Shapes
  <2>3. s_frame = [i \in 1 .. n |-> <<k, i>>]
    BY <2>1 DEF IsWhole
  <2>4. <<k, n>> \in Fresh
    <3>1. DOMAIN s_frame = 1 .. Len(s_frame) /\ \A i \in 1 .. Len(s_frame) : s_frame[i] \in Fresh
      BY LenProperties, ElementOfSeq DEF Unjudged
    <3>2. DOMAIN s_frame = 1 .. n /\ n \in 1 .. n
      BY <2>2, <2>3
    <3>3. s_frame[n] = <<k, n>> /\ s_frame[n] \in Fresh
      BY <2>3, <3>1, <3>2
    <3>4. QED
      BY <3>3
  <2> HIDE DEF n
  <2>5. /\ \A j \in DOMAIN done : done[j] < k
        /\ k = Len(sent) /\ line.sending => n <= line.landed
    BY <2>4 DEF Fresh
  <2>6. k = Len(sent) => ~line.sending
    <3>1. ASSUME k = Len(sent), line.sending PROVE FALSE
      <4>1. n <= line.landed /\ line.landed < n
        BY <2>5, <3>1 DEF OnLine, n
      <4>2. line.landed \in Nat /\ n \in Nat
        BY <2>2 DEF Types, Lines
      <4>3. QED
        BY <4>1, <4>2
    <3>2. QED
      BY <3>1
  <2>7. sent[k].addr \in {0, Slave}
    BY <2>1 DEF Mine
  <2>8. Execute(k)
    BY <2>1, <2>2, <2>5, <2>6, <2>7 DEF Execute
  <2>9. QED
    BY <2>2, <2>8
<1>3. QED
  BY <1>1, <1>2

\* What an execution leaves.
LEMMA ExecuteParts ==
  ASSUME Types, NEW k \in 1 .. Len(sent), Execute(k)
  PROVE  LET f == sent[k]  o == Handled(f)
         IN /\ f \in Requests /\ o.pdu \in Seq(Nat) /\ Tables'
            /\ IF Accepts(f)
               THEN o.pdu = Echo(f) /\ coils' = Written(f, 1) /\ holding' = Written(f, 3)
               ELSE coils' = coils /\ holding' = holding
            /\ done' \in Seq(Nat) /\ Len(done') = Len(done) + 1 /\ done'[Len(done) + 1] = k
            /\ \A j \in 1 .. Len(done) : done'[j] = done[j]
            /\ DOMAIN done' = 1 .. Len(done) + 1
<1> DEFINE f == sent[k]
           o == Handled(f)
<1>1. f \in Requests /\ k \in Nat
  BY Shapes
<1>2. /\ o.pdu \in Seq(Nat)
      /\ IF Accepts(f)
         THEN o.pdu = Echo(f) /\ o.coils = Written(f, 1) /\ o.holding = Written(f, 3)
         ELSE o.coils = coils /\ o.holding = holding
  BY <1>1, Execution DEF Types
<1>3. coils' = o.coils /\ holding' = o.holding /\ done' = Append(done, k)
  BY DEF Execute
<1> HIDE DEF f, o
<1>4. Tables'
  <2>1. CASE Accepts(f)
    <3>1. /\ Written(f, 1) \in [0 .. NumCoils - 1 -> {0, 1}]
          /\ Written(f, 3) \in [0 .. NumHolding - 1 -> Words]
      BY <1>1, <2>1, WrittenTypes DEF Types
    <3>2. QED
      BY <1>2, <1>3, <2>1, <3>1 DEF Tables
  <2>2. CASE ~Accepts(f)
    BY <1>2, <1>3, <2>2 DEF Types, Tables
  <2>3. QED
    BY <2>1, <2>2
<1>5. /\ done' \in Seq(Nat) /\ Len(done') = Len(done) + 1 /\ done'[Len(done) + 1] = k
      /\ \A j \in 1 .. Len(done) : done'[j] = done[j]
  BY <1>1, <1>3, AppendProperties DEF Types
<1>6. DOMAIN done' = 1 .. Len(done) + 1
  BY <1>5, LenProperties
<1>7. QED
  BY <1>1, <1>2, <1>3, <1>4, <1>5, <1>6 DEF f, o

\* What it answers.
LEMMA ExecuteAnswers ==
  ASSUME Types, NEW k \in 1 .. Len(sent), Execute(k)
  PROVE  LET f == sent[k]  o == Handled(f)
         IN \/ (o.pdu = <<>> \/ f.addr = 0) /\ replies' = replies
            \/ /\ o.pdu # <<>> /\ f.addr = Slave
               /\ replies' \in Seq([to : Nat, pdu : Seq(Nat)])
               /\ Len(replies') = Len(replies) + 1 /\ DOMAIN replies' = 1 .. Len(replies) + 1
               /\ replies'[Len(replies) + 1].to = k /\ replies'[Len(replies) + 1].pdu = o.pdu
               /\ \A r \in 1 .. Len(replies) : replies'[r] = replies[r]
<1> DEFINE f == sent[k]
           o == Handled(f)
           answer == [to |-> k, pdu |-> o.pdu]
<1>1. k \in Nat /\ o.pdu \in Seq(Nat)
  BY Shapes, ExecuteParts
<1>2. f.addr = 0 \/ f.addr = Slave
  BY DEF Execute
<1>3. CASE Answers(f, o)
  <2>1. replies' = Append(replies, answer) /\ o.pdu # <<>> /\ f.addr = Slave
    BY <1>2, <1>3 DEF Execute, Answers
  <2>2. answer \in [to : Nat, pdu : Seq(Nat)] /\ answer.to = k /\ answer.pdu = o.pdu
    BY <1>1
  <2> HIDE DEF answer, o
  <2>3. /\ replies' \in Seq([to : Nat, pdu : Seq(Nat)])
        /\ Len(replies') = Len(replies) + 1 /\ replies'[Len(replies) + 1] = answer
        /\ \A r \in 1 .. Len(replies) : replies'[r] = replies[r]
    BY <2>1, <2>2, AppendProperties DEF Types
  <2>4. DOMAIN replies' = 1 .. Len(replies) + 1
    BY <2>3, LenProperties
  <2>5. QED
    BY <2>1, <2>2, <2>3, <2>4 DEF o
<1>4. CASE ~Answers(f, o)
  BY <1>4 DEF Execute, Answers
<1>5. QED
  BY <1>3, <1>4

LEMMA ExecuteOrder ==
  ASSUME OrderInv, NEW k \in 1 .. Len(sent), Execute(k),
         UNCHANGED <<line, sent>>, ring' = <<>>, s_frame' = <<>>
  PROVE  OrderInv'
<1> USE DEF OrderInv
<1>1. /\ done' \in Seq(Nat) /\ done'[Len(done) + 1] = k /\ DOMAIN done' = 1 .. Len(done) + 1
      /\ \A j \in 1 .. Len(done) : done'[j] = done[j]
      /\ Tables'
  BY ExecuteParts
<1>2. /\ \A j \in DOMAIN done : done[j] < k
      /\ k = Len(sent) => ~line.sending
  BY DEF Execute
<1>3. /\ Len(sent) \in Nat /\ Len(done) \in Nat /\ Len(replies) \in Nat
      /\ DOMAIN done = 1 .. Len(done) /\ DOMAIN replies = 1 .. Len(replies)
  BY Shapes
<1>4. \/ replies' = replies
      \/ /\ sent[k].addr = Slave
         /\ replies' \in Seq([to : Nat, pdu : Seq(Nat)])
         /\ DOMAIN replies' = 1 .. Len(replies) + 1
         /\ replies'[Len(replies) + 1].to = k
         /\ \A r \in 1 .. Len(replies) : replies'[r] = replies[r]
  BY ExecuteAnswers
<1>5. Types'
  BY <1>1, <1>4 DEF Types
<1>6. OnLine' /\ Unjudged'
  BY EmptySeq DEF OnLine, Unjudged
<1>7. Executed'
  <2>1. \A j \in DOMAIN done' : done'[j] \in 1 .. Len(sent) /\ (done'[j] = Len(sent) => ~line.sending)
    BY <1>1, <1>2, <1>3 DEF Executed
  <2>2. \A i, j \in DOMAIN done' : i < j => done'[i] < done'[j]
    BY <1>1, <1>2, <1>3 DEF Executed
  <2>3. QED
    BY <2>1, <2>2 DEF Executed
<1>8. Answered'
  <2>1. ASSUME NEW r \in DOMAIN replies
        PROVE  /\ replies[r].to \in Nat /\ replies[r].to < k
               /\ \E j \in DOMAIN done' : done'[j] = replies[r].to
               /\ sent[replies[r].to].addr = Slave
    <3>1. PICK j \in DOMAIN done : done[j] = replies[r].to
      BY DEF Answered
    <3>2. done[j] \in Nat /\ done[j] < k
      BY <1>2, Shapes
    <3>3. j \in DOMAIN done' /\ done'[j] = done[j]
      BY <1>1, <1>3
    <3>4. QED
      BY <3>1, <3>2, <3>3 DEF Answered
  <2>2. CASE replies' = replies
    BY <2>1, <2>2 DEF Answered
  <2>3. CASE replies' # replies
    <3> DEFINE n == Len(replies) + 1
    <3>1. /\ DOMAIN replies' = 1 .. n /\ replies'[n].to = k /\ sent[k].addr = Slave
          /\ \A r \in 1 .. Len(replies) : replies'[r] = replies[r]
      BY <1>4, <2>3
    <3>2. \A r \in 1 .. n : r = n \/ r \in DOMAIN replies
      BY <1>3
    <3>3. \A r \in DOMAIN replies : r # n /\ replies'[r] = replies[r]
      BY <1>3, <3>1
    <3>4. Len(done) + 1 \in DOMAIN done'
      BY <1>1, <1>3
    <3> HIDE DEF n
    <3>5. \A r \in DOMAIN replies' : /\ \E j \in DOMAIN done' : done'[j] = replies'[r].to
                                     /\ sent[replies'[r].to].addr = Slave
      BY <1>1, <2>1, <3>1, <3>2, <3>3, <3>4, SMTT(30)
    <3>6. \A r, q \in DOMAIN replies' : r # q => replies'[r].to # replies'[q].to
      <4>1. \A r \in DOMAIN replies : replies[r].to # k
        BY <2>1
      <4>2. QED
        BY <3>1, <3>2, <3>3, <4>1 DEF Answered
    <3>7. QED
      BY <3>5, <3>6 DEF Answered
  <2>4. QED
    BY <2>2, <2>3
<1>9. QED
  BY <1>5, <1>6, <1>7, <1>8

LEMMA OrderKeeps == OrderInv /\ [Next]_vars => OrderInv'
<1> SUFFICES ASSUME OrderInv, [Next]_vars PROVE OrderInv'
  OBVIOUS
<1>1. ASSUME NEW f \in Requests, Send(f) PROVE OrderInv'
  BY <1>1, SendOrder
<1>2. CASE Unit
  <2>1. UNCHANGED <<s_frame, coils, holding, sent, done, replies>>
    BY <1>2 DEF Unit, tables
  <2>2. CASE Quiet \/ Shifting
    BY <2>1, <2>2, QuietOrder
  <2>3. CASE Lands
    BY <2>1, <2>3, LandsOrder
  <2>4. QED
    BY <1>2, <2>2, <2>3 DEF Unit
<1>3. CASE PollBytes
  BY <1>3, PollBytesOrder
<1>4. CASE PollSilence
  <2>1. /\ UNCHANGED <<line, ring, sent>> /\ ring = <<>> /\ ring' = <<>> /\ s_frame' = <<>>
        /\ ProcessFrame
    BY <1>4 DEF PollSilence
  <2>2. CASE UNCHANGED <<coils, holding, done, replies>>
    <3>1. Types' /\ OnLine' /\ Executed' /\ Answered'
      BY <2>1, <2>2 DEF OrderInv, Types, Tables, OnLine, Executed, Answered
    <3>2. Unjudged'
      BY <2>1, EmptySeq DEF Unjudged
    <3>3. QED
      BY <3>1, <3>2 DEF OrderInv
  <2>3. CASE \E k \in 1 .. Len(sent) : Execute(k)
    BY <2>1, <2>3, ExecuteOrder
  <2>4. QED
    BY <2>1, <2>2, <2>3, Executes
<1>5. CASE PollNothing \/ UNCHANGED vars
  <2>1. UNCHANGED <<line, ring, s_frame, coils, holding, sent, done, replies>>
    BY <1>5 DEF PollNothing, vars, tables
  <2>2. QED
    BY <2>1 DEF OrderInv, Types, Tables, OnLine, Unjudged, Fresh, Executed, Answered
<1>6. QED
  BY <1>1, <1>2, <1>3, <1>4, <1>5 DEF Next, Poll

\* Whatever the timing of line and polls, the slave executes each frame at most once,
\* in the order of the line, and answers it at most once, when it is its own.
THEOREM Ordered == Spec => []OnceInOrder
<1>1. OrderInv => OnceInOrder
  BY DEF OrderInv, Executed, Answered, OnceInOrder
<1>2. QED
  BY <1>1, InitOrder, OrderKeeps, PTL DEF Spec
-----------------------------------------------------------------------------
\* The tables change only when a frame is executed.
LEMMA Changes ==
  ASSUME OrderInv, [Next]_vars
  PROVE  \/ UNCHANGED <<coils, holding, sent, done, replies>>
         \/ \E f \in Requests : Send(f)
         \/ UNCHANGED sent /\ \E k \in 1 .. Len(sent) : Execute(k)
<1>1. CASE Unit \/ PollBytes \/ PollNothing \/ UNCHANGED vars
  BY <1>1 DEF Unit, PollBytes, PollNothing, vars, tables
<1>2. CASE PollSilence
  BY <1>2, Executes DEF PollSilence
<1>3. QED
  BY <1>1, <1>2 DEF Next, Poll

LEMMA RefusalStep ==
  ASSUME OrderInv, [Next]_vars, Len(replies') > Len(replies), Last(replies').pdu[1] >= 128
  PROVE  UNCHANGED tables
<1>1. CASE UNCHANGED <<coils, holding>>
  BY <1>1 DEF tables
<1>2. CASE ~UNCHANGED <<coils, holding>>
  <2>1. ~\E f \in Requests : Send(f)
    BY <1>2 DEF Send, tables
  <2>2. PICK k \in 1 .. Len(sent) : Execute(k)
    BY <1>2, <2>1, Changes
  <2> DEFINE f == sent[k]
             n == Len(replies)
  <2>3. f \in Requests /\ Accepts(f) /\ Handled(f).pdu = Echo(f)
    BY <1>2, <2>2, ExecuteParts DEF OrderInv
  <2>4. n \in Nat
    BY Shapes DEF OrderInv
  <2>5. Len(replies') = n + 1 /\ replies'[n + 1].pdu = Echo(f)
    BY <2>2, <2>3, <2>4, ExecuteAnswers DEF OrderInv
  <2>6. Last(replies').pdu = Echo(f)
    BY <2>5 DEF Last
  <2> HIDE DEF f
  <2>7. Echo(f)[1] = f.fc /\ f.fc \in {5, 6, 15, 16}
    BY <2>3, EchoParts DEF Accepts
  <2>8. QED
    BY <2>6, <2>7
<1>3. QED
  BY <1>1, <1>2

\* A request the slave answers with an exception leaves both tables as they were.
THEOREM RefusedAlone == Spec => RefusedChangesNothing
<1>1. OrderInv /\ [Next]_vars
        => [Len(replies') > Len(replies) /\ Last(replies').pdu[1] >= 128 => UNCHANGED tables]_vars
  BY RefusalStep
<1>2. QED
  BY <1>1, InitOrder, OrderKeeps, PTL DEF Spec, RefusedChangesNothing
-----------------------------------------------------------------------------
\* Later frames and later executions change nothing about what earlier ones gave.
LEMMA HoldsKept ==
  ASSUME NEW v, NEW fc, NEW a, NEW k, NEW l, Holds(v, fc, a, k),
         \A i \in DOMAIN done : /\ i \in DOMAIN done' /\ done'[i] = done[i]
                                /\ sent'[done[i]] = sent[done[i]]
                                /\ done[i] < k <=> done[i] < l,
         \A i \in DOMAIN done' : i \in DOMAIN done
            \/ ~(done'[i] < l /\ WritesTo(sent'[done'[i]], fc, a) /\ Accepts(sent'[done'[i]]))
  PROVE  Holds(v, fc, a, l)'
<1>1. Effective(fc, a, l)' = Effective(fc, a, k)
  BY DEF Effective
<1>2. \A i \in Effective(fc, a, k) : sent'[done'[i]] = sent[done[i]]
  BY DEF Effective
<1>3. CASE Effective(fc, a, k) = {}
  BY <1>1, <1>3 DEF Holds
<1>4. CASE Effective(fc, a, k) # {}
  <2>1. PICK m \in Effective(fc, a, k) : /\ \A i \in Effective(fc, a, k) : i <= m
                                         /\ v = Given(sent[done[m]], a)
    BY <1>4 DEF Holds
  <2>2. v = Given(sent'[done'[m]], a)
    BY <1>2, <2>1
  <2>3. QED
    BY <1>1, <2>1, <2>2 DEF Holds
<1>5. QED
  BY <1>3, <1>4

LEMMA InitValue == Init => ValueInv
<1> SUFFICES ASSUME Init PROVE ValueInv
  OBVIOUS
<1>1. done = <<>> /\ replies = <<>> /\ DOMAIN <<>> = {}
  BY DEF Init
<1>2. \A fc \in {1, 3} : \A a \in 0 .. Size(fc) - 1 : Table(fc)[a] = 0
  BY DEF Init, Table, Size
<1>3. TablesHold
  BY <1>1, <1>2 DEF TablesHold, Holds, Effective
<1>4. AcceptedAnswered /\ RepliesHeld
  BY <1>1 DEF AcceptedAnswered, RepliesHeld
<1>5. QED
  BY <1>3, <1>4 DEF ValueInv

LEMMA SendValue == ASSUME OrderInv, ValueInv, NEW f \in Requests, Send(f) PROVE ValueInv'
<1> USE DEF OrderInv, ValueInv
<1>1. UNCHANGED <<coils, holding, done, replies>> /\ sent' = Append(sent, f)
  BY DEF Send, tables
<1>2. /\ Len(sent) \in Nat /\ Len(sent') = Len(sent) + 1
      /\ \A k \in 1 .. Len(sent) : sent'[k] = sent[k]
  BY <1>1, Shapes, AppendProperties DEF Types
<1>3. \A i \in DOMAIN done : done[i] \in 1 .. Len(sent) /\ done[i] \in Nat
  BY Shapes DEF Executed
<1>4. \A r \in DOMAIN replies : replies[r].to \in 1 .. Len(sent)
  BY <1>3 DEF Answered
<1>5. ASSUME NEW v, NEW fc, NEW a, NEW k, NEW l, Holds(v, fc, a, k),
             \A i \in DOMAIN done : done[i] < k <=> done[i] < l
      PROVE  Holds(v, fc, a, l)'
  BY <1>1, <1>2, <1>3, <1>5, HoldsKept
<1>6. AcceptedAnswered'
  BY <1>1, <1>2, <1>3, <1>4 DEF AcceptedAnswered
<1>7. TablesHold'
  <2>1. ASSUME NEW fc \in {1, 3}, NEW a \in 0 .. Size(fc) - 1
        PROVE  Holds(Table(fc)[a], fc, a, Len(sent) + 1)'
    <3>1. PICK v, n : v = Table(fc)[a] /\ n = Len(sent) + 1
      OBVIOUS
    <3>2. Holds(v, fc, a, n)
      BY <3>1 DEF TablesHold
    <3>3. \A i \in DOMAIN done : done[i] < n <=> done[i] < n + 1
      BY <1>2, <1>3, <3>1
    <3>4. Holds(v, fc, a, n + 1)'
      BY <1>5, <3>2, <3>3
    <3>5. v = Table(fc)'[a] /\ n + 1 = Len(sent') + 1
      BY <1>1, <1>2, <3>1 DEF Table
    <3>6. QED
      BY <3>4, <3>5 DEF Holds, Effective
  <2>2. QED
    BY <2>1 DEF TablesHold, Size
<1>8. RepliesHeld'
  BY <1>1, <1>2, <1>4, <1>5 DEF RepliesHeld
<1>9. QED
  BY <1>6, <1>7, <1>8

LEMMA ExecuteValue ==
  ASSUME OrderInv, ValueInv, UNCHANGED sent, NEW k \in 1 .. Len(sent), Execute(k)
  PROVE  ValueInv'
<1> USE DEF OrderInv, ValueInv
<1> DEFINE f == sent[k]
           o == Handled(f)
           n == Len(done) + 1
           q == Len(replies) + 1
<1>1. /\ Len(sent) \in Nat /\ Len(done) \in Nat /\ Len(replies) \in Nat /\ k \in Nat
      /\ DOMAIN done = 1 .. Len(done) /\ DOMAIN replies = 1 .. Len(replies)
      /\ \A j \in DOMAIN done : done[j] \in 1 .. Len(sent) /\ done[j] \in Nat
  BY Shapes DEF Executed
<1>2. \A j \in DOMAIN done : done[j] < k
  BY DEF Execute
<1>3. /\ DOMAIN done' = 1 .. n /\ done'[n] = k
      /\ \A j \in DOMAIN done : j \in DOMAIN done' /\ j # n /\ done'[j] = done[j]
      /\ \A j \in DOMAIN done' : j = n \/ j \in DOMAIN done
  BY <1>1, ExecuteParts
<1>4. /\ f \in Requests
      /\ IF Accepts(f)
         THEN o.pdu = Echo(f) /\ coils' = Written(f, 1) /\ holding' = Written(f, 3)
         ELSE coils' = coils /\ holding' = holding
  BY ExecuteParts
<1>5. \/ (o.pdu = <<>> \/ f.addr = 0) /\ replies' = replies
      \/ /\ o.pdu # <<>> /\ f.addr = Slave /\ DOMAIN replies' = 1 .. q
         /\ replies'[q].to = k /\ replies'[q].pdu = o.pdu
         /\ \A r \in DOMAIN replies : r \in DOMAIN replies' /\ r # q /\ replies'[r] = replies[r]
         /\ \A r \in DOMAIN replies' : r = q \/ r \in DOMAIN replies
  <2>1. \/ (o.pdu = <<>> \/ f.addr = 0) /\ replies' = replies
        \/ /\ o.pdu # <<>> /\ f.addr = Slave
           /\ DOMAIN replies' = 1 .. Len(replies) + 1
           /\ replies'[Len(replies) + 1].to = k /\ replies'[Len(replies) + 1].pdu = o.pdu
           /\ \A r \in 1 .. Len(replies) : replies'[r] = replies[r]
    BY ExecuteAnswers
  <2>2. /\ \A r \in 1 .. Len(replies) : r \in 1 .. q /\ r # q
        /\ \A r \in 1 .. q : r = q \/ r \in 1 .. Len(replies)
    BY <1>1
  <2> HIDE DEF o, f
  <2>3. QED
    BY <1>1, <2>1, <2>2
<1>6. /\ f.fc \in {5, 6, 15, 16} /\ ~Accepts(f) => o.pdu # Echo(f)
      /\ f.fc \in {1, 3} /\ o.pdu # <<>> /\ o.pdu[1] = f.fc =>
           /\ Span(f) \subseteq 0 .. Size(f.fc) - 1
           /\ \A a \in Span(f) : o.pdu[a - f.start + 3] = Table(f.fc)[a]
  BY <1>4, Execution DEF Types
<1>7. \A r \in DOMAIN replies : \E j \in DOMAIN done : done[j] = replies[r].to
  BY DEF Answered
<1>8. f.addr \in {0, Slave} /\ Echo(f) # <<>>
  BY <1>4, EchoParts DEF Execute
\* An execution keeps what was given before it: to the tables, where it writes
\* nothing, and to the answers, which are earlier.
<1>9. ASSUME NEW v, NEW fc, NEW a, NEW m, NEW l, Holds(v, fc, a, m),
             \A j \in DOMAIN done : done[j] < m <=> done[j] < l,
             ~(k < l /\ WritesTo(f, fc, a) /\ Accepts(f))
      PROVE  Holds(v, fc, a, l)'
  <2>1. \A j \in DOMAIN done : /\ j \in DOMAIN done' /\ done'[j] = done[j]
                               /\ sent'[done[j]] = sent[done[j]]
                               /\ done[j] < m <=> done[j] < l
    BY <1>3, <1>9
  <2>2. \A j \in DOMAIN done' : j \in DOMAIN done
          \/ ~(done'[j] < l /\ WritesTo(sent'[done'[j]], fc, a) /\ Accepts(sent'[done'[j]]))
    BY <1>3, <1>9
  <2>3. QED
    BY <1>9, <2>1, <2>2, HoldsKept
<1>10. AcceptedAnswered'
  <2>1. ASSUME NEW j \in DOMAIN done'
        PROVE  /\ sent[done'[j]].addr \in {0, Slave}
               /\ sent[done'[j]].addr # 0 /\ Accepts(sent[done'[j]]) =>
                    \E r \in DOMAIN replies' : /\ replies'[r].to = done'[j]
                                               /\ replies'[r].pdu = Echo(sent[done'[j]])
    <3>1. CASE j \in DOMAIN done
      <4>1. done'[j] = done[j] /\ sent[done[j]].addr \in {0, Slave}
        BY <1>3, <3>1 DEF AcceptedAnswered
      <4>2. ASSUME sent[done[j]].addr # 0, Accepts(sent[done[j]])
            PROVE  \E r \in DOMAIN replies' : /\ replies'[r].to = done[j]
                                              /\ replies'[r].pdu = Echo(sent[done[j]])
        <5>1. PICK r \in DOMAIN replies : /\ replies[r].to = done[j]
                                          /\ replies[r].pdu = Echo(sent[done[j]])
          BY <3>1, <4>2 DEF AcceptedAnswered
        <5>2. r \in DOMAIN replies' /\ replies'[r] = replies[r]
          BY <1>5, <5>1
        <5>3. QED
          BY <5>1, <5>2
      <4>3. QED
        BY <4>1, <4>2
    <3>2. CASE j = n
      <4>1. ASSUME f.addr # 0, Accepts(f)
            PROVE  \E r \in DOMAIN replies' : replies'[r].to = k /\ replies'[r].pdu = Echo(f)
        <5>1. q \in 1 .. q
          BY <1>1
        <5>2. QED
          BY <1>4, <1>5, <1>8, <4>1, <5>1
      <4>2. QED
        BY <1>3, <1>8, <3>2, <4>1
    <3>3. QED
      BY <1>3, <3>1, <3>2
  <2>2. ASSUME NEW r \in DOMAIN replies'
        PROVE  LET g == sent[replies'[r].to]
               IN g.fc \in {5, 6, 15, 16} /\ replies'[r].pdu = Echo(g) => Accepts(g)
    BY <1>5, <1>6 DEF AcceptedAnswered
  <2>3. QED
    BY <2>1, <2>2 DEF AcceptedAnswered
<1>11. TablesHold'
  <2>1. ASSUME NEW fc \in {1, 3}, NEW a \in 0 .. Size(fc) - 1
        PROVE  Holds(Table(fc)[a], fc, a, Len(sent) + 1)'
    <3>1. PICK v, l : v = Table(fc)'[a] /\ l = Len(sent) + 1
      OBVIOUS
    <3>2. CASE Accepts(f) /\ WritesTo(f, fc, a)
      <4>1. Table(fc)' = Written(f, fc)
        BY <1>4, <3>2 DEF Table
      <4>2. v = Given(f, a)
        BY <3>1, <3>2, <4>1 DEF Written
      <4>3. n \in Effective(fc, a, l)'
        BY <1>1, <1>3, <3>1, <3>2 DEF Effective
      <4>4. \A i \in Effective(fc, a, l)' : i <= n
        BY <1>1, <1>3 DEF Effective
      <4>5. Holds(v, fc, a, l)'
        BY <1>3, <4>2, <4>3, <4>4 DEF Holds
      <4>6. QED
        BY <3>1, <4>5 DEF Holds, Effective
    <3>3. CASE ~(Accepts(f) /\ WritesTo(f, fc, a))
      <4>1. v = Table(fc)[a]
        BY <1>4, <3>1, <3>3 DEF Table, Written
      <4>2. Holds(v, fc, a, l)
        BY <3>1, <4>1 DEF TablesHold
      <4>3. Holds(v, fc, a, l)'
        BY <1>9, <3>3, <4>2
      <4>4. QED
        BY <3>1, <4>3 DEF Holds, Effective
    <3>4. QED
      BY <3>2, <3>3
  <2>2. QED
    BY <2>1 DEF TablesHold, Size
<1>12. RepliesHeld'
  <2>1. ASSUME NEW r \in DOMAIN replies', NEW g, g = sent[replies'[r].to],
               g.fc \in {1, 3}, replies'[r].pdu[1] = g.fc, NEW a \in Span(g),
               NEW v, v = replies'[r].pdu[a - g.start + 3], NEW l, l = replies'[r].to
        PROVE  Holds(v, g.fc, a, l)'
    <3>1. CASE r \in DOMAIN replies
      <4>1. replies'[r] = replies[r]
        BY <1>5, <3>1
      <4>2. Holds(v, g.fc, a, l)
        BY <2>1, <3>1, <4>1 DEF RepliesHeld
      <4>3. ~(k < l)
        <5>1. PICK j \in DOMAIN done : done[j] = l
          BY <1>7, <2>1, <3>1, <4>1
        <5>2. QED
          BY <1>1, <1>2, <5>1
      <4>4. QED
        BY <1>9, <4>2, <4>3
    <3>2. CASE r \notin DOMAIN replies
      <4>1. r = q /\ l = k /\ g = f /\ replies'[r].pdu = o.pdu /\ o.pdu # <<>>
        BY <1>5, <2>1, <3>2
      <4>2. a \in 0 .. Size(g.fc) - 1 /\ v = Table(g.fc)[a]
        BY <1>6, <2>1, <4>1
      <4>3. PICK m : m = Len(sent) + 1
        OBVIOUS
      <4>4. Holds(v, g.fc, a, m)
        BY <2>1, <4>2, <4>3 DEF TablesHold
      <4>5. \A j \in DOMAIN done : done[j] < m <=> done[j] < l
        BY <1>1, <1>2, <4>1, <4>3
      <4>6. ~(k < l)
        BY <1>1, <4>1
      <4>7. QED
        BY <1>9, <4>4, <4>5, <4>6
    <3>3. QED
      BY <3>1, <3>2
  <2>2. ASSUME NEW r \in DOMAIN replies', sent'[replies'[r].to].fc \in {1, 3},
               replies'[r].pdu[1] = sent'[replies'[r].to].fc, NEW a \in Span(sent'[replies'[r].to])
        PROVE  Holds(replies[r].pdu[a - sent[replies[r].to].start + 3],
                     sent[replies[r].to].fc, a, replies[r].to)'
    <3>1. PICK g, v, l : /\ g = sent'[replies'[r].to] /\ l = replies'[r].to
                         /\ v = replies'[r].pdu[a - g.start + 3]
      OBVIOUS
    <3>2. Holds(v, g.fc, a, l)'
      BY <2>1, <2>2, <3>1
    <3>3. QED
      BY <3>1, <3>2 DEF Holds, Effective
  <2>3. QED
    BY <2>2 DEF RepliesHeld
<1>13. QED
  BY <1>10, <1>11, <1>12

LEMMA ValueKeeps == OrderInv /\ ValueInv /\ [Next]_vars => ValueInv'
<1> SUFFICES ASSUME OrderInv, ValueInv, [Next]_vars PROVE ValueInv'
  OBVIOUS
<1>1. CASE UNCHANGED <<coils, holding, sent, done, replies>>
  BY <1>1 DEF ValueInv, AcceptedAnswered, TablesHold, RepliesHeld, Holds, Effective, Table
<1>2. ASSUME NEW f \in Requests, Send(f) PROVE ValueInv'
  BY <1>2, SendValue
<1>3. CASE UNCHANGED sent /\ \E k \in 1 .. Len(sent) : Execute(k)
  BY <1>3, ExecuteValue
<1>4. QED
  BY <1>1, <1>2, <1>3, Changes

\* The writes the master saw acknowledged are those the slave accepted.
LEMMA WritersEffective ==
  ASSUME OrderInv, ValueInv, NEW fc, NEW a, NEW k
  PROVE  Writers(fc, a, k) = Effective(fc, a, k)
<1>1. ASSUME NEW i \in DOMAIN done, WritesTo(sent[done[i]], fc, a)
      PROVE  Acknowledged(done[i]) <=> Accepts(sent[done[i]])
  <2> DEFINE f == sent[done[i]]
  <2>1. f \in Requests /\ f.fc \in {5, 6, 15, 16}
    BY <1>1, Shapes DEF OrderInv, Executed, WritesTo
  <2>2. IF Accepts(f) THEN Handled(f).pdu = Echo(f) ELSE Handled(f).pdu # Echo(f)
    BY <2>1, Execution DEF OrderInv, Types
  <2>3. Accepts(f) => Acknowledged(done[i])
    BY <2>2 DEF Acknowledged, ValueInv, AcceptedAnswered
  <2>4. Acknowledged(done[i]) => Accepts(f)
    BY <2>1, <2>2 DEF Acknowledged, ValueInv, AcceptedAnswered
  <2>5. QED
    BY <2>3, <2>4
<1>2. QED
  BY <1>1 DEF Writers, Effective

LEMMA LastHeld ==
  ASSUME OrderInv, ValueInv, NEW v, NEW fc, NEW a, NEW k, Holds(v, fc, a, k)
  PROVE  v = LastGiven(fc, a, k)
<1> DEFINE E == Effective(fc, a, k)
<1>1. Writers(fc, a, k) = E
  BY WritersEffective
<1>2. CASE E = {}
  BY <1>1, <1>2 DEF LastGiven, Holds
<1>3. CASE E # {}
  <2>1. PICK m \in E : (\A i \in E : i <= m) /\ v = Given(sent[done[m]], a)
    BY <1>3 DEF Holds
  <2>2. \A i \in E : i \in Nat
    BY Shapes DEF Effective, OrderInv
  <2> HIDE DEF E
  <2>3. \A x \in E : (\A y \in E : x >= y) <=> x = m
    BY <2>1, <2>2
  <2>4. Max(E) = m
    BY <2>1, <2>3 DEF Max
  <2>5. QED
    BY <1>1, <1>3, <2>1, <2>4 DEF LastGiven
<1>4. QED
  BY <1>2, <1>3

\* Whatever tables, frames and timing: what the master reads at an address is the value
\* of the last write there the slave acknowledged before, or zero.
THEOREM ReadsTrue == Spec => []ReadsSeeWrites
<1>1. OrderInv /\ ValueInv => ReadsSeeWrites
  <2> SUFFICES ASSUME OrderInv, ValueInv, NEW r \in DOMAIN replies,
                      NEW f, f = sent[replies[r].to],
                      replies[r].pdu[1] = f.fc, f.fc \in {1, 3}, NEW a \in Span(f)
               PROVE  replies[r].pdu[a - f.start + 3] = LastGiven(f.fc, a, replies[r].to)
    BY DEF ReadsSeeWrites
  <2>1. Holds(replies[r].pdu[a - f.start + 3], f.fc, a, replies[r].to)
    BY DEF ValueInv, RepliesHeld
  <2>2. QED
    BY <2>1, LastHeld
<1>2. Init => OrderInv /\ ValueInv
  BY InitOrder, InitValue
<1>3. (OrderInv /\ ValueInv) /\ [Next]_vars => (OrderInv /\ ValueInv)'
  BY OrderKeeps, ValueKeeps
<1>4. QED
  BY <1>1, <1>2, <1>3, PTL DEF Spec
=============================================================================
