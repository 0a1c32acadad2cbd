---------------------------- MODULE SettingsProofs ----------------------------
(***************************************************************************)
(* For every size of blob and any number of saves, loads and resets at any *)
(* moment: what epic_settings_save returned true for is what a load finds, *)
(* and the default that load_or_default writes is there when it returns.   *)
(* Nothing here depends on which CRC the blobs carry.                      *)
(***************************************************************************)
EXTENDS Settings, SequenceTheorems, TLAPS

Images == {Image(blob) : blob \in Blobs} \cup {<<>>}
Calls == [call : {"none", "save", "default"}, pc : {"idle", "write", "unlock", "poll"},
          blk : Blocks, image : Images, i : 0 .. Size + 1]
Results == {"nothing", "ok", "refused"}

\* Of the save under way the bytes before the one it is at are stored.
Saving ==
  /\ \E blob \in Blobs : cpu.image = Image(blob)
  /\ returned[cpu.blk] = "nothing"
  /\ \A j \in 0 .. cpu.i - 1 : cells[Base(cpu.blk) + j] = cpu.image[j + 1]

\* Without raw writes the EEPROM works for that byte alone.
Quiet == wr = NoWrite /\ ~eeif
Cycle ==
  \/ wr = [addr |-> Address, data |-> Data] /\ ~eeif
  \/ wr = NoWrite /\ eeif /\ cells[Address] = Data
  \/ Quiet

Holds(blk, blob) ==
  /\ \A j \in 0 .. Size + 1 : cells[Base(blk) + j] = Image(blob)[j + 1]
  /\ allowed[blk] = {blob}
Kept == \A blk \in Blocks : returned[blk] = "ok" => \E blob \in Blobs : Holds(blk, blob)

Shape ==
  /\ DOMAIN cells = Addresses /\ DOMAIN allowed = Blocks /\ returned \in [Blocks -> Results]
  /\ cpu \in Calls /\ (cpu.pc = "idle" <=> cpu.call = "none")
SaveInv ==
  /\ cpu.pc = "idle" => Quiet
  /\ cpu.pc # "idle" => Saving /\ IF cpu.pc = "poll" THEN Cycle ELSE Quiet
  /\ cpu.call = "default" => ~wrerr
  /\ Kept
IInv == Shape /\ resets \in Nat /\ ("raw" \in disturbed \/ SaveInv)
-----------------------------------------------------------------------------
\* An image is the blob with two bytes behind it.
LEMMA ImagePartsOf ==
  ASSUME NEW B, NEW blob \in [1 .. Size -> B]
  PROVE  /\ Len(Image(blob)) = Size + 2 /\ Image(blob) = [k \in 1 .. Size + 2 |-> Image(blob)[k]]
         /\ \A k \in 1 .. Size : Image(blob)[k] = blob[k]
         /\ SubSeq(Image(blob), 1, Size) = blob
<1> DEFINE t == Trailer(blob)
           S == B \cup {t[1], t[2]}
<1>1. Size \in Nat \ {0}
  BY SettingsAssumption
<1>2. blob \in Seq(S) /\ Len(blob) = Size /\ blob = [k \in 1 .. Size |-> blob[k]]
  BY <1>1
<1>3. t \in Seq(S) /\ Len(t) = 2
  <2> DEFINE a == Crc(blob) \div 256
             b == Crc(blob) % 256
  <2> HIDE DEF a, b
  <2>1. t = <<a, b>>
    BY DEF Trailer, a, b
  <2> HIDE DEF t
  <2>2. t[1] = a /\ t[2] = b /\ Len(t) = 2
    BY <2>1
  <2>3. <<a, b>> \in Seq({a, b})
    OBVIOUS
  <2>4. t \in Seq(S)
    BY <2>1, <2>2
  <2>5. QED
    BY <2>2, <2>4
<1> HIDE DEF t, S
<1>4. /\ blob \o t \in Seq(S) /\ Len(blob \o t) = Size + 2
      /\ \A i \in 1 .. Size + 2 : (blob \o t)[i] = IF i <= Size THEN blob[i] ELSE t[i - Size]
  <2>1. /\ blob \o t \in Seq(S) /\ Len(blob \o t) = Len(blob) + Len(t)
        /\ \A i \in 1 .. Len(blob) + Len(t) :
             (blob \o t)[i] = IF i <= Len(blob) THEN blob[i] ELSE t[i - Len(blob)]
    BY <1>2, <1>3, ConcatProperties
  <2>2. QED
    BY <1>2, <1>3, <2>1
<1> DEFINE m == Image(blob)
<1>5. m = blob \o t
  BY DEF Image, t
<1> HIDE DEF m
<1>6. m \in Seq(S) /\ Len(m) = Size + 2 /\ \A k \in 1 .. Size : m[k] = blob[k]
  BY <1>1, <1>4, <1>5
<1>7. m = [k \in 1 .. Size + 2 |-> m[k]]
  BY <1>6
<1>8. \A k \in 1 .. Size : m[k] \in S
  BY <1>2, <1>6, ElementOfSeq
<1>9. /\ SubSeq(m, 1, Size) \in Seq(S) /\ Len(SubSeq(m, 1, Size)) = Size
      /\ \A k \in 1 .. Size : SubSeq(m, 1, Size)[k] = m[k]
  <2>1. /\ SubSeq(m, 1, Size) \in Seq(S)
        /\ Len(SubSeq(m, 1, Size)) = IF 1 <= Size THEN Size - 1 + 1 ELSE 0
        /\ \A k \in 1 .. Size - 1 + 1 : SubSeq(m, 1, Size)[k] = m[1 + k - 1]
    BY <1>1, <1>8, SubSeqProperties
  <2>2. QED
    BY <1>1, <2>1
<1>10. SubSeq(m, 1, Size) = blob
  BY <1>2, <1>6, <1>9, SeqEqual
<1>11. QED
  BY <1>6, <1>7, <1>10 DEF m

LEMMA ImageParts ==
  ASSUME NEW blob \in Blobs
  PROVE  /\ Len(Image(blob)) = Size + 2 /\ Image(blob) = [k \in 1 .. Size + 2 |-> Image(blob)[k]]
         /\ \A k \in 1 .. Size : Image(blob)[k] = blob[k]
         /\ SubSeq(Image(blob), 1, Size) = blob
  BY ImagePartsOf DEF Blobs

\* A block that holds an image loads as its blob.
LEMMA HoldsLoads ==
  ASSUME NEW blk \in Blocks, NEW blob \in Blobs, Holds(blk, blob)
  PROVE  Valid(blk) /\ Stored(blk) = blob
<1>1. /\ Image(blob) = [k \in 1 .. Size + 2 |-> Image(blob)[k]]
      /\ \A k \in 1 .. Size : Image(blob)[k] = blob[k]
  BY ImageParts
<1>2. Size \in Nat
  BY SettingsAssumption
<1>3. \A k \in 1 .. Size + 2 : cells[Base(blk) + k - 1] = Image(blob)[k]
  <2> TAKE k \in 1 .. Size + 2
  <2>1. k - 1 \in 0 .. Size + 1 /\ (k - 1) + 1 = k
    BY <1>2
  <2>2. cells[Base(blk) + (k - 1)] = Image(blob)[k]
    BY <2>1 DEF Holds
  <2>3. Base(blk) + (k - 1) = Base(blk) + k - 1
    BY <1>2 DEF Base, Blocks
  <2>4. QED
    BY <2>2, <2>3
<1>4. Cells(blk, Size + 2) = Image(blob)
  BY <1>1, <1>3 DEF Cells
<1>5. blob \in [1 .. Size -> Bytes \cup TornBytes \cup {Blank}]
  BY DEF Blobs
<1>6. Valid(blk)
  BY <1>4, <1>5 DEF Valid, GoodImages
<1>7. Stored(blk) = blob
  <2>1. \A k \in 1 .. Size : cells[Base(blk) + k - 1] = blob[k]
    <3> TAKE k \in 1 .. Size
    <3>1. k \in 1 .. Size + 2
      BY <1>2
    <3>2. QED
      BY <1>1, <1>3, <3>1
  <2>2. blob = [k \in 1 .. Size |-> blob[k]]
    BY DEF Blobs
  <2>3. QED
    BY <2>1, <2>2 DEF Stored, Cells
<1>8. QED
  BY <1>6, <1>7

\* Where the bytes of the two blocks are.
LEMMA Places ==
  /\ \A blk \in Blocks, j \in 0 .. Size + 1 : Base(blk) + j \in Addresses /\ Base(blk) + j \in Int
  /\ \A a, b \in Blocks, i, j \in 0 .. Size + 1 : Base(a) + i = Base(b) + j => a = b /\ i = j
<1>1. Size \in Nat
  BY SettingsAssumption
<1>2. Base(1) = 0 /\ Base(2) = Size + 2
  BY <1>1 DEF Base
<1>3. \A blk \in Blocks : blk = 1 \/ blk = 2
  BY DEF Blocks
<1>4. \A blk \in Blocks, j \in 0 .. Size + 1 : Base(blk) + j \in Addresses /\ Base(blk) + j \in Int
  BY <1>1, <1>2, <1>3 DEF Addresses
<1>5. \A a, b \in Blocks, i, j \in 0 .. Size + 1 : Base(a) + i = Base(b) + j => a = b /\ i = j
  BY <1>1, <1>2, <1>3
<1>6. QED
  BY <1>4, <1>5

\* The byte a save is at.
LEMMA At ==
  ASSUME Shape
  PROVE  /\ cpu.blk \in Blocks /\ cpu.i \in 0 .. Size + 1 /\ Size \in Nat /\ cpu.i \in Nat
         /\ Address \in Addresses /\ Address \in Nat
         /\ \A blk \in Blocks, j \in 0 .. Size + 1 :
              Base(blk) + j = Address <=> blk = cpu.blk /\ j = cpu.i
<1>1. cpu.blk \in Blocks /\ cpu.i \in 0 .. Size + 1 /\ Size \in Nat
  BY SettingsAssumption DEF Shape, Calls
<1>2. Address \in Addresses /\ Address \in Nat
  BY <1>1, Places DEF Address, Addresses
<1>3. \A blk \in Blocks, j \in 0 .. Size + 1 : Base(blk) + j = Address <=> blk = cpu.blk /\ j = cpu.i
  BY <1>1, Places DEF Address
<1>4. QED
  BY <1>1, <1>2, <1>3

\* The loop goes on with the same byte, or with the next.
LEMMA Advance ==
  ASSUME Shape, cpu.pc # "idle", NEW p \in {"write", "unlock", "poll"}, cpu' = [cpu EXCEPT !.pc = p]
  PROVE  /\ cpu' \in Calls /\ cpu'.pc = p /\ cpu'.i = cpu.i /\ cpu'.image = cpu.image
         /\ cpu'.blk = cpu.blk /\ cpu'.call = cpu.call /\ cpu'.call # "none"
  BY DEF Shape, Calls

LEMMA AdvanceByte ==
  ASSUME Shape, cpu.pc # "idle", NEW i \in 0 .. Size + 1,
         cpu' = [cpu EXCEPT !.i = i, !.pc = "write"]
  PROVE  /\ cpu' \in Calls /\ cpu'.pc = "write" /\ cpu'.i = i /\ cpu'.image = cpu.image
         /\ cpu'.blk = cpu.blk /\ cpu'.call = cpu.call /\ cpu'.call # "none"
<1>1. [cpu EXCEPT !.i = i, !.pc = "write"] = [[cpu EXCEPT !.i = i] EXCEPT !.pc = "write"]
  OBVIOUS
<1> DEFINE c == [cpu EXCEPT !.i = i]
<1>2. c \in Calls /\ c.i = i /\ c.image = cpu.image /\ c.blk = cpu.blk /\ c.call = cpu.call
  BY DEF Shape, Calls
<1>3. cpu' = [c EXCEPT !.pc = "write"]
  BY <1>1
<1> HIDE DEF c
<1>4. QED
  BY <1>2, <1>3 DEF Shape, Calls

\* A new save: nothing of it is stored yet.
LEMMA BeginKeeps ==
  ASSUME Shape, SaveInv, cpu.pc = "idle", NEW call \in {"save", "default"}, NEW blk \in Blocks,
         NEW blob \in Blobs, Begin(call, blk, blob), UNCHANGED <<cells, wr, eeif>>,
         call = "default" => ~wrerr'
  PROVE  Shape' /\ SaveInv'
<1>1. /\ cpu'.pc = "write" /\ cpu'.call = call /\ cpu'.blk = blk /\ cpu'.image = Image(blob)
      /\ cpu'.i = 0 /\ cpu' \in Calls
  <2>1. Image(blob) \in Images /\ 0 \in 0 .. Size + 1
    BY SettingsAssumption DEF Images
  <2> DEFINE m == Image(blob)
  <2> HIDE DEF m
  <2>2. cpu' = [call |-> call, pc |-> "write", blk |-> blk, image |-> m, i |-> 0]
    BY DEF Begin, m
  <2>3. m \in Images
    BY <2>1 DEF m
  <2>4. cpu'.image = m /\ cpu'.pc = "write" /\ cpu'.call = call /\ cpu'.blk = blk /\ cpu'.i = 0 /\ cpu' \in Calls
    BY <2>1, <2>2, <2>3 DEF Calls
  <2>5. QED
    BY <2>4 DEF m
<1>2. /\ returned' = [returned EXCEPT ![blk] = "nothing"]
      /\ allowed' = [allowed EXCEPT ![blk] = @ \cup {blob}]
  BY DEF Begin
<1>3. /\ returned' \in [Blocks -> Results] /\ returned'[blk] = "nothing" /\ DOMAIN allowed' = Blocks
      /\ \A b \in Blocks : b # blk => returned'[b] = returned[b] /\ allowed'[b] = allowed[b]
  BY <1>2 DEF Shape, Results
<1>4. Shape'
  BY <1>1, <1>3 DEF Shape
<1>5. Kept'
  BY <1>3 DEF SaveInv, Kept, Holds
<1>6. Saving'
  BY <1>1, <1>3 DEF Saving
<1>7. QED
  BY <1>1, <1>4, <1>5, <1>6 DEF SaveInv, Quiet

\* A load leaves what is stored.
LEMMA LoadKeeps ==
  ASSUME Shape, SaveInv, NEW blk \in Blocks, LoadOk(blk) \/ LoadBad(blk)
  PROVE  Shape' /\ SaveInv'
<1>1. UNCHANGED <<cells, wr, eeif, cpu, returned>> /\ cpu.pc = "idle" /\ wrerr' = FALSE
  BY DEF LoadOk, LoadBad, ReadsClear
<1>2. DOMAIN allowed' = Blocks /\ (\A b \in Blocks : returned[b] = "ok" => allowed'[b] = allowed[b])
  <2>1. CASE LoadBad(blk)
    BY <2>1 DEF LoadBad, Shape
  <2>2. CASE LoadOk(blk)
    <3>1. allowed' = [allowed EXCEPT ![blk] = {Stored(blk)}]
      BY <2>2 DEF LoadOk
    <3>2. returned[blk] = "ok" => allowed[blk] = {Stored(blk)}
      BY HoldsLoads DEF SaveInv, Kept, Holds
    <3>3. QED
      BY <3>1, <3>2 DEF Shape
  <2>3. QED
    BY <2>1, <2>2
<1>3. Kept'
  BY <1>1, <1>2 DEF SaveInv, Kept, Holds
<1>4. QED
  BY <1>1, <1>2, <1>3 DEF Shape, SaveInv, Quiet

\* The call ends; of its block nothing is promised unless it is kept.
LEMMA Ends ==
  ASSUME Shape, cpu' = Idle, Quiet', Kept', DOMAIN cells' = Addresses, DOMAIN allowed' = Blocks,
         returned' \in [Blocks -> Results]
  PROVE  Shape' /\ SaveInv'
<1>1. cpu' \in Calls /\ cpu'.pc = "idle" /\ cpu'.call = "none"
  <2>1. 1 \in Blocks /\ <<>> \in Images /\ 0 \in 0 .. Size + 1
    BY SettingsAssumption DEF Blocks, Images
  <2>2. QED
    BY <2>1 DEF Idle, Calls
<1>2. QED
  BY <1>1 DEF Shape, SaveInv

LEMMA RefusedKeeps ==
  ASSUME Shape, SaveInv, WriteRefused
  PROVE  Shape' /\ SaveInv'
<1>1. /\ returned' = [returned EXCEPT ![cpu.blk] = "refused"] /\ cpu' = Idle
      /\ UNCHANGED <<cells, wr, eeif, allowed>> /\ cpu.pc = "write" /\ cpu.blk \in Blocks
  BY DEF WriteRefused, eeprom, Shape, Calls
<1>2. returned' \in [Blocks -> Results] /\ \A b \in Blocks : returned'[b] = "ok" => returned[b] = "ok"
  BY <1>1 DEF Shape, Results
<1>3. Kept'
  BY <1>1, <1>2 DEF SaveInv, Kept, Holds
<1>4. Quiet'
  BY <1>1 DEF SaveInv, Quiet
<1>5. DOMAIN cells' = Addresses /\ DOMAIN allowed' = Blocks
  BY <1>1 DEF Shape
<1>6. QED
  BY <1>1, <1>2, <1>3, <1>4, <1>5, Ends

\* A step inside the loop that stores nothing.
LEMMA LoopKeeps ==
  ASSUME Shape, SaveInv, WriteByte \/ Unlock \/ UnlockInterrupted
  PROVE  Shape' /\ SaveInv'
<1> DEFINE p == IF WriteByte THEN "unlock" ELSE "poll"
<1>1. cpu' = [cpu EXCEPT !.pc = p] /\ cpu.pc # "idle" /\ cpu.pc # "poll"
  BY DEF WriteByte, Unlock, UnlockInterrupted
<1>2. UNCHANGED <<cells, eeif, wrerr, returned, allowed>>
  BY DEF WriteByte, Unlock, UnlockInterrupted, eeprom
<1>3. cpu.i \in 0 .. Size + 1
  BY At
<1>4. /\ cpu' \in Calls /\ cpu'.pc = p /\ cpu'.i = cpu.i /\ cpu'.image = cpu.image
      /\ cpu'.blk = cpu.blk /\ cpu'.call = cpu.call /\ cpu'.call # "none"
  BY <1>1, <1>3, Advance
<1>5. Shape'
  BY <1>2, <1>4 DEF Shape
<1>6. Saving' /\ Kept' /\ (cpu'.call = "default" => ~wrerr')
  BY <1>1, <1>2, <1>4 DEF SaveInv, Saving, Kept, Holds
<1>7. Quiet /\ Address' = Address /\ Data' = Data
  BY <1>1, <1>4 DEF SaveInv, Address, Data
<1>8. CASE WriteByte
  <2>1. Quiet' /\ cpu'.pc = "unlock"
    BY <1>4, <1>7, <1>8 DEF WriteByte, eeprom, Quiet
  <2>2. QED
    BY <1>5, <1>6, <2>1 DEF SaveInv
<1>9. CASE ~WriteByte
  <2>1. cpu'.pc = "poll"
    BY <1>4, <1>9
  <2>2. Cycle'
    BY <1>2, <1>7, <1>9 DEF Unlock, UnlockInterrupted, eeprom, Start, Cycle, Quiet
  <2>3. QED
    BY <1>5, <1>6, <2>1, <2>2 DEF SaveInv
<1>10. QED
  BY <1>8, <1>9

\* A byte is stored: the next one, or the whole image is there.
LEMMA PollKeeps ==
  ASSUME Shape, SaveInv, Poll
  PROVE  /\ Shape' /\ SaveInv'
         /\ cpu'.call = "none" => returned'[cpu.blk] = "ok"
<1>1. cpu.pc = "poll" /\ eeif /\ ~eeif' /\ UNCHANGED <<cells, wr, wrerr>> /\ NextByte
  BY DEF Poll
<1>2. wr = NoWrite /\ cells[Address] = Data /\ Saving
  BY <1>1 DEF SaveInv, Cycle, Quiet
<1>3. /\ cpu.blk \in Blocks /\ cpu.i \in 0 .. Size + 1 /\ Size \in Nat /\ cpu.i \in Nat
  BY At
<1>4. Quiet'
  BY <1>1, <1>2 DEF Quiet
<1>5. \A j \in 0 .. cpu.i : cells[Base(cpu.blk) + j] = cpu.image[j + 1]
  <2> TAKE j \in 0 .. cpu.i
  <2>1. CASE j = cpu.i
    BY <1>2, <2>1 DEF Address, Data
  <2>2. CASE j # cpu.i
    BY <1>2, <1>3, <2>2 DEF Saving
  <2>3. QED
    BY <2>1, <2>2
<1>6. PICK blob \in Blobs : cpu.image = Image(blob)
  BY <1>2 DEF Saving
<1>7. CASE LastByte
  <2>1. /\ cpu' = Idle /\ returned' = [returned EXCEPT ![cpu.blk] = "ok"]
        /\ allowed' = [allowed EXCEPT ![cpu.blk] = {Blob}]
    BY <1>1, <1>7 DEF NextByte
  <2>2. Blob = blob
    BY <1>6, ImageParts DEF Blob
  <2>3. /\ returned' \in [Blocks -> Results] /\ DOMAIN allowed' = Blocks /\ returned'[cpu.blk] = "ok"
        /\ allowed'[cpu.blk] = {blob}
        /\ \A b \in Blocks : b # cpu.blk => returned'[b] = returned[b] /\ allowed'[b] = allowed[b]
    BY <1>3, <2>1, <2>2 DEF Shape, Results
  <2>4. ASSUME NEW b \in Blocks, b = cpu.blk PROVE Holds(b, blob)'
    <3>1. \A j \in 0 .. Size + 1 : cells'[Base(b) + j] = Image(blob)[j + 1]
      BY <1>1, <1>5, <1>6, <1>7, <2>4 DEF LastByte
    <3>2. QED
      BY <2>3, <2>4, <3>1 DEF Holds
  <2>5. Kept'
    <3> SUFFICES ASSUME NEW b \in Blocks, returned'[b] = "ok"
                 PROVE  \E x \in Blobs : Holds(b, x)'
      BY DEF Kept
    <3>1. CASE b = cpu.blk
      BY <2>4, <3>1
    <3>2. CASE b # cpu.blk
      <4>1. PICK x \in Blobs : Holds(b, x)
        BY <2>3, <3>2 DEF SaveInv, Kept
      <4>2. Holds(b, x)'
        BY <1>1, <2>3, <3>2, <4>1 DEF Holds
      <4>3. QED
        BY <4>2
    <3>3. QED
      BY <3>1, <3>2
  <2>6. DOMAIN cells' = Addresses
    BY <1>1 DEF Shape
  <2>7. Shape' /\ SaveInv'
    BY <1>4, <2>1, <2>3, <2>5, <2>6, Ends
  <2>8. QED
    BY <2>3, <2>7
<1>8. CASE ~LastByte
  <2>1. cpu' = [cpu EXCEPT !.i = cpu.i + 1, !.pc = "write"] /\ UNCHANGED <<returned, allowed>>
    BY <1>1, <1>8 DEF NextByte
  <2>2. cpu.i + 1 \in 0 .. Size + 1
    BY <1>3, <1>8 DEF LastByte
  <2>3. /\ cpu' \in Calls /\ cpu'.pc = "write" /\ cpu'.i = cpu.i + 1 /\ cpu'.image = cpu.image
        /\ cpu'.blk = cpu.blk /\ cpu'.call = cpu.call /\ cpu'.call # "none"
    <3> DEFINE n == cpu.i + 1
    <3>1. n \in 0 .. Size + 1 /\ cpu' = [cpu EXCEPT !.i = n, !.pc = "write"] /\ cpu.pc # "idle"
      BY <1>1, <2>1, <2>2
    <3> HIDE DEF n
    <3>2. /\ cpu' \in Calls /\ cpu'.pc = "write" /\ cpu'.i = n /\ cpu'.image = cpu.image
          /\ cpu'.blk = cpu.blk /\ cpu'.call = cpu.call /\ cpu'.call # "none"
      BY <3>1, AdvanceByte
    <3>3. QED
      BY <3>2 DEF n
  <2>4. Shape' /\ Kept'
    BY <1>1, <2>1, <2>3 DEF Shape, SaveInv, Kept, Holds
  <2>5. Saving'
    <3>1. cpu'.i - 1 = cpu.i
      BY <1>3, <2>3
    <3>2. \A j \in 0 .. cpu'.i - 1 : cells'[Base(cpu'.blk) + j] = cpu'.image[j + 1]
      BY <1>1, <1>5, <2>3, <3>1
    <3>3. returned'[cpu'.blk] = "nothing"
      BY <1>2, <2>1, <2>3 DEF Saving
    <3>4. QED
      BY <1>6, <2>3, <3>2, <3>3 DEF Saving
  <2>6. QED
    BY <1>1, <1>4, <2>3, <2>4, <2>5 DEF SaveInv
<1>9. QED
  BY <1>7, <1>8

\* The EEPROM works on the byte of the save under way: a cell that changes is none
\* that a block kept or a save has behind it.
LEMMA CellKeeps ==
  ASSUME Shape, cpu.pc # "idle", Saving, Kept, UNCHANGED <<returned, allowed>>,
         NEW v, cells' = [cells EXCEPT ![Address] = v] \/ cells' = cells
  PROVE  /\ DOMAIN cells' = Addresses /\ Kept'
         /\ \A j \in 0 .. cpu.i - 1 : cells'[Base(cpu.blk) + j] = cpu.image[j + 1]
<1>1. /\ cpu.blk \in Blocks /\ cpu.i \in 0 .. Size + 1 /\ Size \in Nat /\ cpu.i \in Nat
      /\ \A blk \in Blocks, j \in 0 .. Size + 1 : Base(blk) + j = Address <=> blk = cpu.blk /\ j = cpu.i
  BY At
<1>2. \A blk \in Blocks, j \in 0 .. Size + 1 :
        blk # cpu.blk \/ j # cpu.i => cells'[Base(blk) + j] = cells[Base(blk) + j]
  BY <1>1, Places DEF Shape
<1>3. \A j \in 0 .. cpu.i - 1 : j \in 0 .. Size + 1 /\ j # cpu.i
  BY <1>1
<1>4. \A j \in 0 .. cpu.i - 1 : cells'[Base(cpu.blk) + j] = cpu.image[j + 1]
  BY <1>1, <1>2, <1>3 DEF Saving
<1>5. Kept'
  <2> SUFFICES ASSUME NEW b \in Blocks, returned[b] = "ok"
               PROVE  \E x \in Blobs : Holds(b, x)'
    BY DEF Kept
  <2>1. b # cpu.blk
    BY DEF Saving
  <2>2. PICK x \in Blobs : Holds(b, x)
    BY DEF Kept
  <2>3. Holds(b, x)'
    BY <1>2, <2>1, <2>2 DEF Holds
  <2>4. QED
    BY <2>3
<1>6. QED
  BY <1>4, <1>5 DEF Shape

LEMMA CompleteKeeps ==
  ASSUME Shape, SaveInv, Complete
  PROVE  Shape' /\ SaveInv'
<1>1. /\ wr # NoWrite /\ wr' = NoWrite /\ eeif' /\ UNCHANGED <<wrerr, cpu, returned, allowed>>
      /\ cells' = IF wr.addr \in Addresses THEN [cells EXCEPT ![wr.addr] = wr.data] ELSE cells
  BY DEF Complete
<1>2. cpu.pc = "poll" /\ Saving /\ Kept /\ wr = [addr |-> Address, data |-> Data]
  BY <1>1 DEF SaveInv, Quiet, Cycle
<1>3. cells' = [cells EXCEPT ![Address] = Data] /\ cells'[Address] = Data
  BY <1>1, <1>2, At DEF Shape
<1>4. /\ DOMAIN cells' = Addresses /\ Kept'
      /\ \A j \in 0 .. cpu.i - 1 : cells'[Base(cpu.blk) + j] = cpu.image[j + 1]
  <2> DEFINE v == Data
  <2> HIDE DEF v
  <2>1. cells' = [cells EXCEPT ![Address] = v]
    BY <1>3 DEF v
  <2>2. QED
    BY <1>1, <1>2, <2>1, CellKeeps
<1>5. Saving'
  BY <1>1, <1>2, <1>4 DEF Saving
<1>6. Cycle'
  BY <1>1, <1>3 DEF Cycle, Address, Data
<1>7. QED
  BY <1>1, <1>2, <1>4, <1>5, <1>6 DEF Shape, SaveInv

\* A reset ends the save and may tear the byte it was at.
LEMMA ResetKeeps ==
  ASSUME Shape, SaveInv, Reset
  PROVE  Shape' /\ SaveInv'
<1>1. cpu' = Idle /\ Quiet' /\ UNCHANGED <<returned, allowed>>
  BY DEF Reset, Quiet
<1>2. DOMAIN cells' = Addresses /\ Kept'
  <2>1. CASE wr.addr \in Addresses
    <3>1. wr # NoWrite
      <4>1. -1 \notin Addresses
        BY DEF Addresses
      <4>2. QED
        BY <2>1, <4>1 DEF NoWrite
    <3>2. cpu.pc # "idle" /\ Saving /\ Kept /\ wr.addr = Address
      BY <3>1 DEF SaveInv, Quiet, Cycle
    <3>3. PICK left : cells' = [cells EXCEPT ![Address] = left]
      BY <2>1, <3>2 DEF Reset
    <3>4. QED
      BY <1>1, <3>2, <3>3, CellKeeps
  <2>2. CASE wr.addr \notin Addresses
    <3>1. cells' = cells
      BY <2>2 DEF Reset
    <3>2. QED
      BY <1>1, <3>1 DEF Shape, SaveInv, Kept, Holds
  <2>3. QED
    BY <2>1, <2>2
<1>3. DOMAIN allowed' = Blocks /\ returned' \in [Blocks -> Results]
  BY <1>1 DEF Shape
<1>4. QED
  BY <1>1, <1>2, <1>3, Ends
-----------------------------------------------------------------------------
\* The shape alone, for what raw writes may do.
LEMMA ShapeKeeps ==
  ASSUME Shape, [Next]_vars
  PROVE  Shape'
<1>1. CASE UNCHANGED vars
  BY <1>1 DEF vars, eeprom, counts, Shape
<1>2. ASSUME NEW call \in {"save", "default"}, NEW blk \in Blocks, NEW blob \in Blobs,
             Begin(call, blk, blob), cells' = cells
      PROVE  Shape'
  <2>1. Image(blob) \in Images /\ 0 \in 0 .. Size + 1
    BY SettingsAssumption DEF Images
  <2> DEFINE m == Image(blob)
  <2> HIDE DEF m
  <2>2. cpu' = [call |-> call, pc |-> "write", blk |-> blk, image |-> m, i |-> 0]
    BY <1>2 DEF Begin, m
  <2>3. m \in Images
    BY <2>1 DEF m
  <2>4. cpu' \in Calls /\ cpu'.pc # "idle" /\ cpu'.call # "none"
    BY <2>1, <2>2, <2>3 DEF Calls
  <2>5. returned' \in [Blocks -> Results] /\ DOMAIN allowed' = Blocks
    BY <1>2 DEF Begin, Shape, Results
  <2>6. QED
    BY <1>2, <2>4, <2>5 DEF Shape
<1>3. Idle \in Calls
  <2>1. 1 \in Blocks /\ <<>> \in Images /\ 0 \in 0 .. Size + 1
    BY SettingsAssumption DEF Blocks, Images
  <2>2. QED
    BY <2>1 DEF Idle, Calls
<1>4. cpu.blk \in Blocks
  BY DEF Shape, Calls
<1>5. ASSUME NEW blk \in Blocks, NEW blob \in Blobs, BeginSave(blk, blob)
      PROVE  Shape'
  BY <1>2, <1>5 DEF BeginSave, eeprom
<1>6. ASSUME NEW blk \in Blocks, LoadDefault(blk)
      PROVE  Shape'
  <2>1. [k \in 1 .. Size |-> Default] \in Blobs
    BY SettingsAssumption DEF Blobs
  <2>2. QED
    BY <1>2, <1>6, <2>1 DEF LoadDefault
<1>7. ASSUME NEW blk \in Blocks, LoadOk(blk) \/ LoadBad(blk)
      PROVE  Shape'
  BY <1>7 DEF LoadOk, LoadBad, Shape
<1>8. CASE WriteRefused
  BY <1>3, <1>4, <1>8 DEF WriteRefused, eeprom, Shape, Results, Idle
<1>9. CASE WriteByte \/ Unlock \/ UnlockInterrupted
  <2> DEFINE p == IF WriteByte THEN "unlock" ELSE "poll"
  <2>1. cpu' = [cpu EXCEPT !.pc = p] /\ cpu.pc # "idle" /\ UNCHANGED <<cells, returned, allowed>>
    BY <1>9 DEF WriteByte, Unlock, UnlockInterrupted, eeprom
  <2>2. cpu' \in Calls /\ cpu'.pc = p /\ cpu'.call # "none"
    BY <2>1, Advance
  <2>3. QED
    BY <2>1, <2>2 DEF Shape
<1>10. CASE Poll
  <2>1. NextByte /\ cells' = cells /\ cpu.pc # "idle"
    BY <1>10 DEF Poll
  <2>2. CASE LastByte
    BY <1>3, <1>4, <2>1, <2>2 DEF NextByte, Shape, Results, Idle
  <2>3. CASE ~LastByte
    <3>1. cpu.i + 1 \in 0 .. Size + 1
      BY <2>3, At DEF LastByte
    <3> DEFINE n == cpu.i + 1
    <3>2. n \in 0 .. Size + 1 /\ cpu' = [cpu EXCEPT !.i = n, !.pc = "write"]
      BY <2>1, <2>3, <3>1 DEF NextByte
    <3> HIDE DEF n
    <3>3. cpu' \in Calls /\ cpu'.pc = "write" /\ cpu'.call # "none"
      BY <2>1, <3>2, AdvanceByte
    <3>4. QED
      BY <2>1, <2>3, <3>3 DEF NextByte, Shape
  <2>4. QED
    BY <2>2, <2>3
<1>11. CASE Complete
  BY <1>11 DEF Complete, Shape
<1>12. CASE RawWrite
  BY <1>12 DEF RawWrite, Shape
<1>13. CASE Reset
  <2>1. DOMAIN cells' = Addresses
    BY <1>13 DEF Reset, Shape
  <2>2. QED
    BY <1>3, <1>13, <2>1 DEF Reset, Shape, Idle
<1>14. CASE Dispatched
  BY <1>14 DEF Dispatched, Shape
<1>15. QED
  BY <1>1, <1>5, <1>6, <1>7, <1>8, <1>9, <1>10, <1>11, <1>12, <1>13, <1>14 DEF Next, Save

LEMMA SaveKeeps ==
  ASSUME Shape, SaveInv, [Next]_vars, "raw" \notin disturbed'
  PROVE  SaveInv'
<1>1. CASE UNCHANGED vars
  BY <1>1 DEF vars, eeprom, counts, SaveInv, Quiet, Cycle, Saving, Kept, Holds, Address, Data
<1>2. ASSUME NEW blk \in Blocks, NEW blob \in Blobs, BeginSave(blk, blob)
      PROVE  SaveInv'
  BY <1>2, BeginKeeps DEF BeginSave, eeprom
<1>3. ASSUME NEW blk \in Blocks, LoadDefault(blk)
      PROVE  SaveInv'
  <2> DEFINE blob == [k \in 1 .. Size |-> Default]
  <2>1. blob \in Blobs
    BY SettingsAssumption DEF Blobs
  <2>2. Begin("default", blk, blob) /\ cpu.pc = "idle" /\ ~wrerr' /\ UNCHANGED <<cells, wr, eeif>>
    BY <1>3 DEF LoadDefault, ReadsClear
  <2> HIDE DEF blob
  <2>3. QED
    BY <2>1, <2>2, BeginKeeps
<1>4. ASSUME NEW blk \in Blocks, LoadOk(blk) \/ LoadBad(blk)
      PROVE  SaveInv'
  BY <1>4, LoadKeeps
<1>5. CASE RawWrite
  BY <1>5 DEF RawWrite
<1>6. CASE Dispatched
  <2>1. eeif /\ ~eeif' /\ UNCHANGED <<cells, wr, wrerr, cpu, returned, allowed>>
    BY <1>6 DEF Dispatched
  <2>2. cpu.pc = "poll" /\ wr = NoWrite
    BY <2>1 DEF SaveInv, Quiet, Cycle
  <2>3. Cycle'
    BY <2>1, <2>2 DEF Cycle, Quiet
  <2>4. QED
    BY <2>1, <2>2, <2>3 DEF SaveInv, Saving, Kept, Holds
<1>7. QED
  BY <1>1, <1>2, <1>3, <1>4, <1>5, <1>6, RefusedKeeps, LoopKeeps, PollKeeps, CompleteKeeps, ResetKeeps
     DEF Next, Save

LEMMA InitHolds == Init => IInv
<1> SUFFICES ASSUME Init PROVE IInv
  OBVIOUS
<1>1. 1 \in Blocks /\ <<>> \in Images /\ 0 \in 0 .. Size + 1
  BY SettingsAssumption DEF Blocks, Images
<1>2. cpu \in Calls /\ cpu.pc = "idle" /\ cpu.call = "none"
  BY <1>1 DEF Init, Idle, Calls
<1>3. Shape
  BY <1>2 DEF Init, Shape, Results
<1>4. SaveInv
  BY <1>2 DEF Init, SaveInv, Quiet, Kept
<1>5. QED
  BY <1>3, <1>4 DEF Init, IInv

\* A raw write is not forgotten.
LEMMA RawStays ==
  ASSUME [Next]_vars, "raw" \in disturbed
  PROVE  "raw" \in disturbed'
BY DEF Next, vars, Save, BeginSave, LoadOk, LoadBad, LoadDefault, Begin, counts, WriteRefused,
              WriteByte, Unlock, UnlockInterrupted, Dispatched, Poll, Complete, RawWrite, Reset

LEMMA StepKeeps == IInv /\ [Next]_vars => IInv'
<1>1. ASSUME [Next]_vars, resets \in Nat PROVE resets' \in Nat
  BY <1>1 DEF Next, vars, Save, BeginSave, LoadOk, LoadBad, LoadDefault, counts, WriteRefused,
              WriteByte, Unlock, UnlockInterrupted, Dispatched, Poll, Complete, RawWrite, Reset
<1>2. QED
  BY <1>1, RawStays, ShapeKeeps, SaveKeeps DEF IInv

\* Whatever resets fall between which bytes, however the cell being written is torn:
\* without raw writes, a save that returned true is what a load of its block returns,
\* until the next save of that block.
THEOREM TrueMeansStored == Spec => []SavedStays
<1>1. IInv => SavedStays
  <2> SUFFICES ASSUME IInv, NEW blk \in Blocks, "raw" \notin disturbed, returned[blk] = "ok"
               PROVE  Valid(blk) /\ allowed[blk] = {Stored(blk)}
    BY DEF SavedStays
  <2>1. PICK blob \in Blobs : Holds(blk, blob)
    BY DEF IInv, SaveInv, Kept
  <2>2. QED
    BY <2>1, HoldsLoads DEF Holds
<1>2. QED
  BY <1>1, InitHolds, StepKeeps, PTL DEF Spec

\* The default of epic_settings_load_or_default is stored when it returns, although it
\* drops the result of the save.
THEOREM DefaultThere == Spec => DefaultStored
<1>1. IInv /\ SavedStays' /\ [Next]_vars =>
        [\A blk \in Blocks :
           cpu.call = "default" /\ cpu.blk = blk /\ cpu'.call = "none" /\ resets' = resets
             /\ "raw" \notin disturbed => Valid(blk)']_vars
  <2> SUFFICES ASSUME IInv, SavedStays', Next, NEW blk \in Blocks, cpu.call = "default", cpu.blk = blk,
                      cpu'.call = "none", resets' = resets, "raw" \notin disturbed
               PROVE  Valid(blk)'
    OBVIOUS
  <2>1. Shape /\ SaveInv /\ ~wrerr /\ cpu.pc # "idle"
    BY DEF IInv, Shape, SaveInv
  <2>2. Poll
    <3>1. ~Reset
      <4>1. resets' = resets + 1 => resets' # resets
        BY DEF IInv
      <4>2. QED
        BY <4>1 DEF Reset
    <3>2. ~WriteByte /\ ~Unlock /\ ~UnlockInterrupted
      BY <2>1, Advance DEF WriteByte, Unlock, UnlockInterrupted
    <3>3. QED
      BY <2>1, <3>1, <3>2 DEF Next, Save, BeginSave, LoadOk, LoadBad, LoadDefault, WriteRefused,
           Dispatched, Complete, RawWrite
  <2>3. returned'[blk] = "ok" /\ disturbed' = disturbed
    BY <2>1, <2>2, PollKeeps DEF Poll, counts
  <2>4. QED
    BY <2>3 DEF SavedStays
<1>2. QED
  BY <1>1, InitHolds, StepKeeps, TrueMeansStored, PTL DEF Spec, DefaultStored
-----------------------------------------------------------------------------
\* What a place of a block may hold: what a blob allowed there has at that place, what a
\* reset left of a write cycle, or nothing yet.
Threads(blk, j) == TornBytes \cup {Blank} \cup {Image(blob)[j + 1] : blob \in allowed[blk]}
Woven == \A blk \in Blocks, j \in 0 .. Size + 1 : cells[Base(blk) + j] \in Threads(blk, j)
Writing == cpu.pc # "idle" => \E blob \in allowed[cpu.blk] : cpu.image = Image(blob)

\* What is between the allowed blobs and a load that returns another: no image that can
\* be woven from theirs has a CRC that fits.
CrcTells ==
  \A blk \in Blocks, image \in GoodImages :
    (\A j \in 0 .. Size + 1 : image[j + 1] \in Threads(blk, j)) => SubSeq(image, 1, Size) \in allowed[blk]

LEMMA WovenStays ==
  ASSUME Woven, UNCHANGED cells, \A blk \in Blocks : allowed[blk] \subseteq allowed'[blk]
  PROVE  Woven'
<1>1. \A blk \in Blocks, j \in 0 .. Size + 1 : Threads(blk, j) \subseteq Threads(blk, j)'
  BY DEF Threads
<1>2. QED
  BY <1>1 DEF Woven

LEMMA BeginWeaves ==
  ASSUME Shape, Woven, NEW call \in {"save", "default"}, NEW blk \in Blocks, NEW blob \in Blobs,
         Begin(call, blk, blob), UNCHANGED cells
  PROVE  Woven' /\ Writing'
<1>1. allowed' = [allowed EXCEPT ![blk] = @ \cup {blob}] /\ DOMAIN allowed = Blocks
  BY DEF Begin, Shape
<1>2. blob \in allowed'[blk] /\ \A b \in Blocks : allowed[b] \subseteq allowed'[b]
  BY <1>1
<1>3. cpu'.blk = blk /\ cpu'.image = Image(blob)
  BY DEF Begin
<1>4. QED
  BY <1>2, <1>3, WovenStays DEF Writing

\* A load that returns a blob leaves it alone allowed, and the block holds its image.
LEMMA LoadWeaves ==
  ASSUME Shape, Woven, NEW blk \in Blocks, LoadOk(blk)
  PROVE  Woven' /\ Writing'
<1> DEFINE B == Bytes \cup TornBytes \cup {Blank}
<1>1. PICK blob \in [1 .. Size -> B] : Cells(blk, Size + 2) = Image(blob)
  BY DEF LoadOk, Valid, GoodImages
<1> HIDE DEF B
<1>2. Size \in Nat \ {0}
  BY SettingsAssumption
<1>3. \A k \in 1 .. Size : Image(blob)[k] = blob[k]
  BY <1>1, ImagePartsOf
<1> DEFINE m == Image(blob)
<1>4. Cells(blk, Size + 2) = m
  BY <1>1
<1> HIDE DEF m
<1>5. \A k \in 1 .. Size + 2 : cells[Base(blk) + k - 1] = m[k]
  BY <1>4 DEF Cells
<1>6. Stored(blk) = blob
  <2>1. \A k \in 1 .. Size : cells[Base(blk) + k - 1] = blob[k]
    <3> TAKE k \in 1 .. Size
    <3>1. k \in 1 .. Size + 2
      BY <1>2
    <3>2. QED
      BY <1>3, <1>5, <3>1 DEF m
  <2>2. blob = [k \in 1 .. Size |-> blob[k]]
    BY <1>1
  <2>3. QED
    BY <2>1, <2>2 DEF Stored, Cells
<1>7. /\ allowed'[blk] = {blob} /\ UNCHANGED <<cells, cpu>> /\ cpu.pc = "idle"
      /\ \A b \in Blocks : b # blk => allowed'[b] = allowed[b]
  BY <1>6 DEF LoadOk, Shape
<1>8. Woven'
  <2> SUFFICES ASSUME NEW b \in Blocks, NEW j \in 0 .. Size + 1
               PROVE  cells'[Base(b) + j] \in Threads(b, j)'
    BY DEF Woven
  <2>1. CASE b = blk
    <3>1. j + 1 \in 1 .. Size + 2 /\ Base(blk) + (j + 1) - 1 = Base(blk) + j
      BY <1>2 DEF Base, Blocks
    <3>2. cells[Base(blk) + j] = m[j + 1]
      BY <1>5, <3>1
    <3>3. QED
      BY <1>7, <2>1, <3>2 DEF Threads, m
  <2>2. CASE b # blk
    BY <1>7, <2>2 DEF Woven, Threads
  <2>3. QED
    BY <2>1, <2>2
<1>9. QED
  BY <1>7, <1>8 DEF Writing

\* The last byte of a save: the block holds its image.
LEMMA PollWeaves ==
  ASSUME Shape, SaveInv, Woven, Writing, Poll
  PROVE  Woven' /\ Writing'
<1>1. cpu.pc = "poll" /\ UNCHANGED cells /\ NextByte /\ cpu.blk \in Blocks
  BY At DEF Poll
<1>2. CASE LastByte
  <2>1. cpu' = Idle /\ allowed' = [allowed EXCEPT ![cpu.blk] = {Blob}]
    BY <1>1, <1>2 DEF NextByte
  <2>2. returned'[cpu.blk] = "ok" /\ Kept'
    BY <2>1, PollKeeps DEF Idle, SaveInv
  <2>3. \A b \in Blocks : returned'[b] = "ok" =>
          \E blob \in Blobs : /\ \A j \in 0 .. Size + 1 : cells'[Base(b) + j] = Image(blob)[j + 1]
                              /\ allowed'[b] = {blob}
    BY <2>2 DEF Kept, Holds
  <2>4. PICK blob \in Blobs : /\ \A j \in 0 .. Size + 1 : cells'[Base(cpu.blk) + j] = Image(blob)[j + 1]
                              /\ allowed'[cpu.blk] = {blob}
    BY <1>1, <2>2, <2>3
  <2>5. \A b \in Blocks : b # cpu.blk => allowed'[b] = allowed[b]
    BY <2>1 DEF Shape
  <2>6. Woven'
    <3> SUFFICES ASSUME NEW b \in Blocks, NEW j \in 0 .. Size + 1
                 PROVE  cells'[Base(b) + j] \in Threads(b, j)'
      BY DEF Woven
    <3>1. CASE b = cpu.blk
      BY <2>4, <3>1 DEF Threads
    <3>2. CASE b # cpu.blk
      BY <1>1, <2>5, <3>2 DEF Woven, Threads
    <3>3. QED
      BY <3>1, <3>2
  <2>7. QED
    BY <2>1, <2>6 DEF Writing, Idle
<1>3. CASE ~LastByte
  <2>1. cpu' = [cpu EXCEPT !.i = @ + 1, !.pc = "write"] /\ allowed' = allowed
    BY <1>1, <1>3 DEF NextByte
  <2>2. cpu'.blk = cpu.blk /\ cpu'.image = cpu.image
    BY <2>1 DEF Shape, Calls
  <2>3. QED
    BY <1>1, <2>1, <2>2, WovenStays DEF Writing
<1>4. QED
  BY <1>2, <1>3

\* The cell that is written takes the byte of an allowed blob, or what a reset leaves.
LEMMA CellWeaves ==
  ASSUME Shape, SaveInv, Woven, Writing, wr # NoWrite, UNCHANGED allowed,
         NEW v \in TornBytes \cup {cells[wr.addr], wr.data}, cells' = [cells EXCEPT ![wr.addr] = v]
  PROVE  Woven'
<1>1. cpu.pc # "idle" /\ wr.addr = Address /\ wr.data = Data
  BY DEF SaveInv, Quiet, Cycle
<1>2. /\ cpu.blk \in Blocks /\ cpu.i \in 0 .. Size + 1
      /\ \A blk \in Blocks, j \in 0 .. Size + 1 : Base(blk) + j = Address <=> blk = cpu.blk /\ j = cpu.i
  BY At
<1>3. Data \in Threads(cpu.blk, cpu.i)
  BY <1>1 DEF Data, Writing, Threads
<1>4. cells[Address] \in Threads(cpu.blk, cpu.i)
  BY <1>2 DEF Woven
<1>5. v \in Threads(cpu.blk, cpu.i)
  BY <1>1, <1>3, <1>4 DEF Threads
<1>6. cells' = [cells EXCEPT ![Address] = v] /\ DOMAIN cells = Addresses /\ Address \in Addresses
  BY <1>1, At DEF Shape
<1> SUFFICES ASSUME NEW blk \in Blocks, NEW j \in 0 .. Size + 1
             PROVE  cells'[Base(blk) + j] \in Threads(blk, j)
  BY DEF Woven, Threads
<1>7. CASE Base(blk) + j = Address
  BY <1>2, <1>5, <1>6, <1>7
<1>8. CASE Base(blk) + j # Address
  <2>1. cells'[Base(blk) + j] = cells[Base(blk) + j]
    BY <1>6, <1>8, Places
  <2>2. QED
    BY <2>1 DEF Woven
<1>9. QED
  BY <1>7, <1>8

LEMMA WovenKeeps ==
  ASSUME IInv, Woven, Writing, [Next]_vars, "raw" \notin disturbed'
  PROVE  Woven' /\ Writing'
<1>1. Shape /\ SaveInv
  <2>1. "raw" \in disturbed => "raw" \in disturbed'
    BY RawStays
  <2>2. QED
    BY <2>1 DEF IInv
<1>2. CASE UNCHANGED vars
  <2>1. UNCHANGED <<cells, cpu, allowed>>
    BY <1>2 DEF vars, eeprom
  <2>2. QED
    BY <2>1, WovenStays DEF Writing
<1>3. ASSUME NEW blk \in Blocks, NEW blob \in Blobs, BeginSave(blk, blob)
      PROVE  Woven' /\ Writing'
  BY <1>1, <1>3, BeginWeaves DEF BeginSave, eeprom
<1>4. ASSUME NEW blk \in Blocks, LoadDefault(blk)
      PROVE  Woven' /\ Writing'
  <2> DEFINE blob == [k \in 1 .. Size |-> Default]
  <2>1. blob \in Blobs
    BY SettingsAssumption DEF Blobs
  <2>2. Begin("default", blk, blob) /\ UNCHANGED cells
    BY <1>4 DEF LoadDefault
  <2> HIDE DEF blob
  <2>3. QED
    BY <1>1, <2>1, <2>2, BeginWeaves
<1>5. ASSUME NEW blk \in Blocks, LoadBad(blk)
      PROVE  Woven' /\ Writing'
  <2>1. UNCHANGED <<cells, cpu, allowed>>
    BY <1>5 DEF LoadBad
  <2>2. QED
    BY <2>1, WovenStays DEF Writing
<1>6. CASE WriteRefused
  <2>1. UNCHANGED <<cells, allowed>> /\ cpu' = Idle
    BY <1>6 DEF WriteRefused, eeprom
  <2>2. QED
    BY <2>1, WovenStays DEF Writing, Idle
<1>7. CASE WriteByte \/ Unlock \/ UnlockInterrupted
  <2> DEFINE p == IF WriteByte THEN "unlock" ELSE "poll"
  <2>1. cpu' = [cpu EXCEPT !.pc = p] /\ cpu.pc # "idle" /\ UNCHANGED <<cells, allowed>>
    BY <1>7 DEF WriteByte, Unlock, UnlockInterrupted, eeprom
  <2>2. cpu'.image = cpu.image /\ cpu'.blk = cpu.blk
    BY <1>1, <2>1, Advance
  <2>3. QED
    BY <2>1, <2>2, WovenStays DEF Writing
<1>8. CASE Complete
  <2>1. /\ wr # NoWrite /\ UNCHANGED <<cpu, allowed>>
        /\ cells' = IF wr.addr \in Addresses THEN [cells EXCEPT ![wr.addr] = wr.data] ELSE cells
    BY <1>8 DEF Complete
  <2>2. wr.addr \in Addresses
    BY <1>1, <2>1, At DEF SaveInv, Quiet, Cycle
  <2>3. QED
    BY <1>1, <2>1, <2>2, CellWeaves DEF Writing
<1>9. CASE RawWrite
  BY <1>9 DEF RawWrite
<1>10. CASE Reset
  <2>1. cpu' = Idle /\ UNCHANGED allowed
    BY <1>10 DEF Reset
  <2>2. CASE wr.addr \in Addresses
    <3>1. wr # NoWrite
      <4>1. -1 \notin Addresses
        BY DEF Addresses
      <4>2. QED
        BY <2>2, <4>1 DEF NoWrite
    <3>2. PICK left \in TornBytes \cup {cells[wr.addr], wr.data} : cells' = [cells EXCEPT ![wr.addr] = left]
      BY <1>10, <2>2 DEF Reset
    <3>3. QED
      BY <1>1, <2>1, <3>1, <3>2, CellWeaves DEF Writing, Idle
  <2>3. CASE wr.addr \notin Addresses
    <3>1. UNCHANGED cells
      BY <1>10, <2>3 DEF Reset
    <3>2. QED
      BY <2>1, <3>1, WovenStays DEF Writing, Idle
  <2>4. QED
    BY <2>2, <2>3
<1>11. CASE Dispatched
  <2>1. UNCHANGED <<cells, cpu, allowed>>
    BY <1>11 DEF Dispatched
  <2>2. QED
    BY <2>1, WovenStays DEF Writing
<1>12. QED
  BY <1>1, <1>2, <1>3, <1>4, <1>5, <1>6, <1>7, <1>8, <1>9, <1>10, <1>11, LoadWeaves, PollWeaves
     DEF Next, Save

LEMMA InitWoven == Init => Woven /\ Writing
<1> SUFFICES ASSUME Init PROVE Woven /\ Writing
  OBVIOUS
<1>1. \A blk \in Blocks, j \in 0 .. Size + 1 : cells[Base(blk) + j] = Blank
  BY Places DEF Init
<1>2. QED
  BY <1>1 DEF Init, Woven, Threads, Writing, Idle

\* However saves, refusals and resets follow one another: without raw writes a block
\* holds at every place a byte that a blob saved there since the last load or true save
\* has at that place, what a reset left of a write cycle, or nothing yet.
THEOREM NothingInvented == Spec => []("raw" \notin disturbed => Woven)
<1>1. /\ IInv /\ ("raw" \notin disturbed => Woven /\ Writing) /\ [Next]_vars
      => ("raw" \notin disturbed => Woven /\ Writing)'
  BY WovenKeeps, RawStays
<1>2. QED
  BY <1>1, InitWoven, InitHolds, StepKeeps, PTL DEF Spec

\* So a load returns old or new, never a mixture, for as long as the CRC tells the
\* mixtures there can be from the blobs allowed: nothing else is left to chance.
THEOREM OldOrNewIfTold == Spec => []("raw" \notin disturbed /\ CrcTells => OldOrNew)
<1>1. ASSUME Woven, CrcTells, NEW blk \in Blocks, Valid(blk)
      PROVE  Stored(blk) \in allowed[blk]
  <2> DEFINE B == Bytes \cup TornBytes \cup {Blank}
             m == Cells(blk, Size + 2)
  <2>1. m \in GoodImages
    BY <1>1 DEF Valid
  <2>2. Size \in Nat
    BY SettingsAssumption
  <2>3. \A k \in 1 .. Size + 2 : m[k] = cells[Base(blk) + k - 1]
    BY DEF Cells
  <2>4. PICK blob \in [1 .. Size -> B] : m = Image(blob)
    BY <1>1 DEF Valid, GoodImages
  <2>5. SubSeq(m, 1, Size) = blob /\ (\A k \in 1 .. Size : m[k] = blob[k])
    BY <2>4, ImagePartsOf
  <2> HIDE DEF m, B
  <2>6. \A j \in 0 .. Size + 1 : m[j + 1] \in Threads(blk, j)
    <3> TAKE j \in 0 .. Size + 1
    <3>1. j + 1 \in 1 .. Size + 2 /\ Base(blk) + (j + 1) - 1 = Base(blk) + j
      BY <2>2 DEF Base, Blocks
    <3>2. m[j + 1] = cells[Base(blk) + j]
      BY <2>3, <3>1
    <3>3. QED
      BY <1>1, <3>2 DEF Woven
  <2>7. blob \in allowed[blk]
    BY <1>1, <2>1, <2>5, <2>6 DEF CrcTells
  <2>8. Stored(blk) = blob
    <3>1. \A k \in 1 .. Size : cells[Base(blk) + k - 1] = blob[k]
      <4> TAKE k \in 1 .. Size
      <4>1. k \in 1 .. Size + 2
        BY <2>2
      <4>2. QED
        BY <2>3, <2>5, <4>1
    <3>2. blob = [k \in 1 .. Size |-> blob[k]]
      BY <2>4
    <3>3. QED
      BY <3>1, <3>2 DEF Stored, Cells
  <2>9. QED
    BY <2>7, <2>8
<1>2. Woven /\ CrcTells => OldOrNew
  BY <1>1 DEF OldOrNew
<1>3. QED
  BY <1>2, NothingInvented, PTL
===============================================================================
