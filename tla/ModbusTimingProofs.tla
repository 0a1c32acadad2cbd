--------------------------- MODULE ModbusTimingProofs ---------------------------
(***************************************************************************)
(* For every bit rate, tick and interval of polls with SoundTiming: the    *)
(* silence of ComputeT35 ticks neither splits a frame nor runs two         *)
(* together, and every good frame for the slave is executed before the     *)
(* first byte of the next one is taken in.                                 *)
(***************************************************************************)
EXTENDS ModbusProofs

Good(f) == f.crc /\ Mine(f)
IsDone(k) == \E j \in DOMAIN done : done[j] = k
Bytes(k, m) == [i \in 1 .. m |-> <<k, i>>]

\* The frame whose bytes landed last, how many did, and whether more are to come.
MidFrame == line.sending /\ line.landed > 0
Cur == IF line.sending /\ line.landed = 0 THEN Len(sent) - 1 ELSE Len(sent)
Count == IF MidFrame THEN line.landed ELSE sent[Cur].len

\* What the slave holds is what landed of that frame, unless it has executed it, and
\* it has executed every good one before.
Gathering ==
  /\ Len(s_frame) <= MaxAdu
  /\ \A i \in DOMAIN s_frame : s_frame[i][1] <= Cur
  /\ \A i \in DOMAIN ring : ring[i][1] <= Cur
  /\ \A j \in 1 .. Cur - 1 : Good(sent[j]) => IsDone(j)
  /\ Cur > 0 /\ Good(sent[Cur]) =>
       \/ s_frame \o ring = Bytes(Cur, Count)
       \/ ~MidFrame /\ s_frame = <<>> /\ ring = <<>> /\ IsDone(Cur)

\* Time since the last byte landed, outside a frame; at most Silence is counted.
Age == IF line.sending THEN Silence + Char - line.left ELSE line.quiet

Ranges ==
  /\ elapsed \in 0 .. ComputeT35
  /\ clock \in [phase : 0 .. TickLen - 1, poll : 0 .. PollMax]
  /\ line.quiet \in 0 .. Silence
  /\ IF line.sending THEN line.quiet = 0 /\ line.left \in 1 .. Char + Pause ELSE line.left = 0
\* Between frames, bytes wait in the ring for at most a poll, and in the buffer for
\* T35 ticks and another; inside one, T35 ticks never pass between two bytes.
Waiting ==
  /\ ring # <<>> /\ ~MidFrame => Age <= clock.poll
  /\ ring = <<>> /\ s_frame # <<>> /\ ~MidFrame =>
       IF elapsed < ComputeT35 THEN Age <= PollMax + TickLen * elapsed + clock.phase
       ELSE Age <= PollMax + TickLen * ComputeT35 + clock.poll
  /\ ring = <<>> /\ MidFrame =>
       TickLen * elapsed + clock.phase <= TickLen - 1 + Char + Pause - line.left

TimingInv == Ranges /\ Waiting /\ Gathering
-----------------------------------------------------------------------------
LEMMA Times ==
  /\ Char \in Nat \ {0} /\ TickLen \in Nat \ {0} /\ PollMax \in Nat \ {0} /\ Pause \in Nat
  /\ MaxAdu \in Nat /\ Silence \in Nat /\ ComputeT35 \in Nat \ {0}
<1>1. Char \in Nat \ {0} /\ TickLen \in Nat \ {0} /\ PollMax \in Nat \ {0} /\ Pause \in Nat
      /\ MaxAdu \in Nat
  BY ModbusAssumption
<1>2. Silence \in Nat
  <2>1. \A n \in Nat : CeilDiv(n, 2) \in Nat /\ CeilDiv(n, 4) \in Nat
    BY DEF CeilDiv
  <2>2. 7 * TickLen \in Nat /\ 7 * Char \in Nat
    BY <1>1
  <2>3. QED
    BY <2>1, <2>2 DEF Silence
<1>3. ComputeT35 \in Nat \ {0}
  <2>1. \A a, b \in Nat \ {0} : (a + b - 1) \div b \in Nat /\ (a + b - 1) \div b >= 1
    OBVIOUS
  <2>2. 7 * Char \in Nat \ {0} /\ 2 * TickLen \in Nat \ {0}
    BY <1>1
  <2>3. CeilDiv(7 * Char, 2 * TickLen) \in Nat \ {0}
    BY <2>1, <2>2 DEF CeilDiv
  <2>4. QED
    BY <2>3 DEF ComputeT35
<1>4. QED
  BY <1>1, <1>2, <1>3

\* The next tick.
LEMMA Ticks ==
  ASSUME NEW e \in Nat, NEW x \in 0 .. TickLen - 1
  PROVE  /\ TickLen * e \in Nat /\ TickLen * (e + 1) = TickLen * e + TickLen
         /\ (x + 1) % TickLen = IF x + 1 = TickLen THEN 0 ELSE x + 1
<1>1. TickLen \in Nat \ {0}
  BY Times
<1>2. \A b \in Nat \ {0} : \A y \in 0 .. b - 1 : (y + 1) % b = IF y + 1 = b THEN 0 ELSE y + 1
  OBVIOUS
<1>3. \A a, b \in Nat : b * (a + 1) = b * a + b /\ b * a \in Nat
  OBVIOUS
<1>4. QED
  BY <1>1, <1>2, <1>3

\* The slave has executed what it held before the next frame's first byte lands.
LEMMA HandEmpty ==
  ASSUME SoundTiming, Ranges, Waiting, line.sending, line.landed = 0, line.left = 1,
         clock.poll < PollMax
  PROVE  s_frame = <<>> /\ ring = <<>>
<1>1. ~MidFrame /\ Age = Silence + Char - 1
  BY DEF MidFrame, Age
<1> DEFINE p == clock.poll  x == clock.phase
<1>2. p \in 0 .. PollMax /\ x \in 0 .. TickLen - 1 /\ elapsed \in 0 .. ComputeT35
  BY DEF Ranges
<1>3. 2 * PollMax + TickLen * ComputeT35 < Silence + Char
  BY DEF SoundTiming
<1>4. TickLen * ComputeT35 \in Nat /\ TickLen * elapsed \in Nat
  BY <1>2, Times, Ticks
<1>5. ring = <<>>
  BY <1>1, <1>2, <1>3, <1>4, Times DEF Waiting
<1>6. ASSUME s_frame # <<>> PROVE FALSE
  <2>1. CASE elapsed < ComputeT35
    <3>1. Age <= PollMax + TickLen * elapsed + x
      BY <1>1, <1>5, <1>6, <2>1 DEF Waiting
    <3>2. TickLen * (elapsed + 1) <= TickLen * ComputeT35
      <4>1. \A a, b, c \in Nat : a <= b => c * a <= c * b
        OBVIOUS
      <4>2. elapsed + 1 \in Nat /\ elapsed + 1 <= ComputeT35
        BY <1>2, <2>1, Times
      <4>3. QED
        BY <4>1, <4>2, Times
    <3>3. TickLen * (elapsed + 1) = TickLen * elapsed + TickLen
      BY <1>2, Ticks, Times
    <3>4. QED
      BY <1>1, <1>2, <1>3, <1>4, <3>1, <3>2, <3>3, Times
  <2>2. CASE elapsed = ComputeT35
    <3>1. Age <= PollMax + TickLen * ComputeT35 + p
      BY <1>1, <1>5, <1>6, <2>2, Times DEF Waiting
    <3>2. QED
      BY <1>1, <1>2, <1>3, <1>4, <3>1, Times
  <2>3. QED
    BY <1>2, <2>1, <2>2, Times
<1>7. QED
  BY <1>5, <1>6

\* The slave never takes a pause inside a frame for the end of it.
LEMMA NoCut ==
  ASSUME SoundTiming, Ranges, Waiting, line.left \in Int, ring = <<>>, elapsed >= ComputeT35
  PROVE  ~MidFrame
<1>1. ASSUME MidFrame PROVE FALSE
  <2>1. elapsed = ComputeT35 /\ clock.phase \in 0 .. TickLen - 1
    BY Times DEF Ranges
  <2>2. TickLen * ComputeT35 + clock.phase <= TickLen - 1 + Char + Pause - line.left
    BY <1>1, <2>1 DEF Waiting
  <2>3. line.left >= 1
    BY <1>1, Times DEF Ranges, MidFrame
  <2>4. Char + Pause + TickLen < TickLen * ComputeT35 + 2
    BY DEF SoundTiming
  <2>5. TickLen * ComputeT35 \in Nat
    BY <2>1, Times, Ticks
  <2>6. QED
    BY <2>1, <2>2, <2>3, <2>4, <2>5, Times
<1>2. QED
  BY <1>1
-----------------------------------------------------------------------------
LEMMA SendTiming ==
  ASSUME OrderInv, Ranges, Waiting, NEW f \in Requests, Send(f)
  PROVE  Ranges' /\ Waiting'
<1>1. /\ ~line.sending /\ line.quiet >= Silence /\ UNCHANGED <<ring, s_frame, elapsed, clock>>
      /\ line' = [sending |-> TRUE, landed |-> 0, left |-> Char, quiet |-> 0]
  BY DEF Send
<1>2. line.quiet = Silence
  BY <1>1, Times DEF Ranges
<1>3. ~MidFrame /\ ~MidFrame' /\ Age' = Age
  BY <1>1, <1>2, Times DEF MidFrame, Age
<1>4. Ranges'
  BY <1>1, Times DEF Ranges
<1>5. Waiting'
  BY <1>1, <1>3 DEF Waiting
<1>6. QED
  BY <1>4, <1>5

\* The clocks over one unit.
LEMMA UnitClocks ==
  ASSUME Ranges, clock.poll < PollMax,
         clock' = [phase |-> (clock.phase + 1) % TickLen, poll |-> clock.poll + 1],
         elapsed' = IF clock.phase + 1 = TickLen /\ elapsed < ComputeT35
                    THEN elapsed + 1 ELSE elapsed
  PROVE  /\ elapsed' \in 0 .. ComputeT35
         /\ clock' \in [phase : 0 .. TickLen - 1, poll : 0 .. PollMax]
         /\ clock'.poll = clock.poll + 1
         /\ elapsed <= elapsed' /\ (elapsed < ComputeT35 /\ elapsed' = ComputeT35 => clock'.phase = 0)
         /\ elapsed < ComputeT35 =>
              TickLen * elapsed' + clock'.phase = TickLen * elapsed + clock.phase + 1
         /\ TickLen * elapsed' + clock'.phase <= TickLen * elapsed + clock.phase + 1
         /\ TickLen * elapsed \in Nat /\ TickLen * elapsed' \in Nat
<1> DEFINE x == clock.phase  p == clock.poll
<1>1. x \in 0 .. TickLen - 1 /\ p \in 0 .. PollMax /\ elapsed \in Nat /\ elapsed \in 0 .. ComputeT35
  BY Times DEF Ranges
<1>2. (x + 1) % TickLen = IF x + 1 = TickLen THEN 0 ELSE x + 1
  BY <1>1, Ticks
<1>3. TickLen * elapsed \in Nat /\ TickLen * (elapsed + 1) = TickLen * elapsed + TickLen
  BY <1>1, Ticks
<1>4. clock'.phase = (IF x + 1 = TickLen THEN 0 ELSE x + 1) /\ clock'.poll = p + 1
  BY <1>2
<1>5. clock' \in [phase : 0 .. TickLen - 1, poll : 0 .. PollMax]
  <2>1. (IF x + 1 = TickLen THEN 0 ELSE x + 1) \in 0 .. TickLen - 1 /\ p + 1 \in 0 .. PollMax
    BY <1>1, Times
  <2>2. QED
    BY <1>2, <2>1
<1> HIDE DEF x, p
<1>6. elapsed' = IF x + 1 = TickLen /\ elapsed < ComputeT35 THEN elapsed + 1 ELSE elapsed
  BY DEF x
<1>7. CASE x + 1 = TickLen /\ elapsed < ComputeT35
  <2>1. elapsed' = elapsed + 1 /\ clock'.phase = 0
    BY <1>4, <1>6, <1>7
  <2>2. TickLen * elapsed' = TickLen * elapsed + TickLen
    BY <1>3, <2>1
  <2>3. QED
    BY <1>1, <1>3, <1>4, <1>5, <1>7, <2>1, <2>2, Times DEF x, p
<1>8. CASE ~(x + 1 = TickLen /\ elapsed < ComputeT35)
  <2>1. elapsed' = elapsed
    BY <1>6, <1>8
  <2>2. clock'.phase <= x + 1 /\ (elapsed < ComputeT35 => clock'.phase = x + 1)
        /\ clock'.phase \in Nat
    BY <1>1, <1>4, <1>8, Times
  <2>3. QED
    BY <1>1, <1>3, <1>4, <1>5, <1>8, <2>1, <2>2, Times DEF x, p
<1>9. QED
  BY <1>7, <1>8

LEMMA UnitTiming ==
  ASSUME SoundTiming, OrderInv, Ranges, Waiting, Unit
  PROVE  Ranges' /\ Waiting'
<1>1. /\ clock.poll < PollMax /\ s_frame' = s_frame
      /\ clock' = [phase |-> (clock.phase + 1) % TickLen, poll |-> clock.poll + 1]
      /\ elapsed' = IF clock.phase + 1 = TickLen /\ elapsed < ComputeT35
                    THEN elapsed + 1 ELSE elapsed
  BY DEF Unit
<1> DEFINE e == elapsed  f == elapsed'  x == clock.phase  y == clock'.phase
           p == clock.poll  q == clock'.poll
<1>2. /\ f \in 0 .. ComputeT35 /\ clock' \in [phase : 0 .. TickLen - 1, poll : 0 .. PollMax]
      /\ q = p + 1 /\ e <= f /\ (e < ComputeT35 /\ f = ComputeT35 => y = 0)
      /\ e < ComputeT35 => TickLen * f + y = TickLen * e + x + 1
      /\ TickLen * f + y <= TickLen * e + x + 1
      /\ TickLen * e \in Nat /\ TickLen * f \in Nat
  BY <1>1, UnitClocks
<1>3. /\ e \in 0 .. ComputeT35 /\ x \in 0 .. TickLen - 1 /\ p \in 0 .. PollMax
      /\ y \in 0 .. TickLen - 1 /\ q \in 0 .. PollMax
      /\ line \in Lines
  BY <1>2 DEF Ranges, OrderInv, Types
\* Between frames the age grows by at most one.
<1>4. ASSUME ~MidFrame, ring' = ring, ~MidFrame', Age \in Int, Age' \in Int, Age' <= Age + 1
      PROVE  Waiting'
  <2> DEFINE a == Age  b == Age'
  <2>1. a \in Int /\ b \in Int /\ b <= a + 1
    BY <1>4
  <2>2. ring # <<>> => a <= p
    BY <1>4 DEF Waiting
  <2>3. ring = <<>> /\ s_frame # <<>> =>
          IF e < ComputeT35 THEN a <= PollMax + TickLen * e + x
          ELSE a <= PollMax + TickLen * ComputeT35 + p
    BY <1>4 DEF Waiting
  <2> HIDE DEF a, b, e, f, x, y, p, q
  <2>4. ring # <<>> => b <= q
    BY <1>2, <1>3, <2>1, <2>2
  <2>5. ring = <<>> /\ s_frame # <<>> =>
          IF f < ComputeT35 THEN b <= PollMax + TickLen * f + y
          ELSE b <= PollMax + TickLen * ComputeT35 + q
    <3>1. CASE e < ComputeT35
      BY <1>2, <1>3, <2>1, <2>3, <3>1, Times
    <3>2. CASE e = ComputeT35
      BY <1>2, <1>3, <2>1, <2>3, <3>2, Times
    <3>3. QED
      BY <1>3, <3>1, <3>2, Times
  <2>6. QED
    BY <1>1, <1>4, <2>4, <2>5 DEF Waiting, a, b, e, f, x, y, p, q
<1>5. CASE Quiet
  <2>1. ~line.sending /\ ring' = ring
        /\ line' = [line EXCEPT !.quiet = IF line.quiet < Silence THEN line.quiet + 1 ELSE line.quiet]
    BY <1>5 DEF Quiet
  <2>2. line.quiet \in 0 .. Silence /\ line.left = 0
    BY <2>1 DEF Ranges
  <2>3. /\ line'.sending = line.sending /\ line'.left = line.left
        /\ line'.quiet = IF line.quiet < Silence THEN line.quiet + 1 ELSE line.quiet
    BY <1>3, <2>1 DEF Lines
  <2>4. Ranges'
    BY <1>2, <2>1, <2>2, <2>3, Times DEF Ranges
  <2>5. ~MidFrame /\ ~MidFrame' /\ Age \in Int /\ Age' \in Int /\ Age' <= Age + 1
    BY <2>1, <2>2, <2>3, Times DEF MidFrame, Age
  <2>6. QED
    BY <1>4, <2>1, <2>4, <2>5
<1>6. CASE Shifting
  <2>1. line.sending /\ line.left > 1 /\ ring' = ring /\ line' = [line EXCEPT !.left = line.left - 1]
    BY <1>6 DEF Shifting
  <2>2. line.quiet = 0 /\ line.left \in 1 .. Char + Pause
    BY <2>1 DEF Ranges
  <2>3. /\ line'.sending = line.sending /\ line'.left = line.left - 1
        /\ line'.quiet = line.quiet /\ line'.landed = line.landed
    BY <1>3, <2>1 DEF Lines
  <2>4. Ranges'
    BY <1>2, <2>1, <2>2, <2>3, Times DEF Ranges
  <2>5. MidFrame' = MidFrame /\ Age \in Int /\ Age' \in Int /\ Age' <= Age + 1
    BY <2>1, <2>2, <2>3, Times DEF MidFrame, Age
  <2>6. CASE ~MidFrame
    BY <1>4, <2>1, <2>4, <2>5, <2>6
  <2>7. CASE MidFrame
    <3>1. ring = <<>> => TickLen * f + y <= TickLen - 1 + Char + Pause - line'.left
      <4>1. ring = <<>> => TickLen * e + x <= TickLen - 1 + Char + Pause - line.left
        BY <2>7 DEF Waiting
      <4> HIDE DEF e, f, x, y
      <4>2. QED
        BY <1>2, <1>3, <2>2, <2>3, <4>1, Times, SMTT(30)
    <3>2. QED
      BY <2>1, <2>4, <2>5, <2>7, <3>1 DEF Waiting
  <2>8. QED
    BY <2>6, <2>7
<1>7. CASE Lands
  <2>1. line.sending /\ line.left = 1 /\ ring' = Append(ring, <<Len(sent), line.landed + 1>>)
    BY <1>7 DEF Lands
  <2>2. line.quiet = 0 /\ ring \in Seq(Fresh) /\ <<Len(sent), line.landed + 1>> \in Nat \X Nat
    BY <1>3, <2>1, Shapes DEF Ranges, OrderInv, Unjudged, Lines
  <2>3. ring' # <<>>
    <3>1. ring \in Seq(Nat \X Nat)
      BY <2>2, SeqMonotonic DEF Fresh
    <3>2. QED
      BY <2>1, <2>2, <3>1, AppendProperties, SMTT(30)
  <2>4. CASE line.landed + 1 = Last(sent).len
    <3>1. line' = [line EXCEPT !.sending = FALSE, !.landed = 0, !.left = 0]
      BY <1>7, <2>4 DEF Lands
    <3>2. ~line'.sending /\ line'.left = 0 /\ line'.quiet = 0
      BY <1>3, <2>2, <3>1 DEF Lines
    <3>3. Age' = 0 /\ ~MidFrame'
      BY <3>2 DEF Age, MidFrame
    <3>4. Ranges'
      BY <1>2, <3>2, Times DEF Ranges
    <3>5. Waiting'
      BY <1>3, <2>3, <3>3, Times DEF Waiting
    <3>6. QED
      BY <3>4, <3>5
  <2>5. CASE line.landed + 1 # Last(sent).len
    <3>1. PICK t \in {0, Pause} : line' = [line EXCEPT !.landed = line.landed + 1, !.left = Char + t]
      BY <1>7, <2>5 DEF Lands
    <3>2. /\ line'.sending /\ line'.left = Char + t /\ line'.quiet = 0
          /\ line'.landed = line.landed + 1
      BY <1>3, <2>1, <2>2, <3>1 DEF Lines
    <3>3. MidFrame' /\ line'.left \in 1 .. Char + Pause
      BY <1>3, <3>2, Times DEF MidFrame, Lines
    <3>4. Ranges'
      BY <1>2, <3>2, <3>3, Times DEF Ranges
    <3>5. Waiting'
      BY <2>3, <3>3 DEF Waiting
    <3>6. QED
      BY <3>4, <3>5
  <2>6. QED
    BY <2>4, <2>5
<1>8. QED
  BY <1>5, <1>6, <1>7 DEF Unit

LEMMA PollTiming ==
  ASSUME SoundTiming, OrderInv, Ranges, Waiting, Poll
  PROVE  Ranges' /\ Waiting'
<1>1. UNCHANGED line /\ clock' = [clock EXCEPT !.poll = 0] /\ MidFrame' = MidFrame /\ Age' = Age
  BY DEF Poll, PollBytes, PollSilence, PollNothing, Polled, MidFrame, Age
<1>2. clock \in [phase : 0 .. TickLen - 1, poll : 0 .. PollMax] /\ line.left \in Int
  BY DEF Ranges, OrderInv, Types, Lines
<1>3. /\ clock' \in [phase : 0 .. TickLen - 1, poll : 0 .. PollMax]
      /\ clock'.poll = 0 /\ clock'.phase = clock.phase
  BY <1>1, <1>2, Times
<1>4. elapsed' \in 0 .. ComputeT35 => Ranges'
  BY <1>1, <1>3 DEF Ranges
<1> DEFINE x == clock.phase  p == clock.poll
<1>5. x \in 0 .. TickLen - 1 /\ p \in 0 .. PollMax
  BY <1>2
<1>6. CASE PollBytes
  <2>1. ring # <<>> /\ ring' = <<>> /\ elapsed' = 0
    BY <1>6 DEF PollBytes
  <2>2. Ranges'
    BY <1>4, <2>1, Times
  <2>3. TickLen * 0 = 0
    BY Times
  <2>4. ~MidFrame => Age <= PollMax + TickLen * elapsed' + clock'.phase /\ elapsed' < ComputeT35
    <3>1. ASSUME ~MidFrame PROVE Age <= p
      BY <2>1, <3>1 DEF Waiting
    <3>2. ASSUME ~MidFrame PROVE Age \in Int
      BY <1>2, <3>2, Times DEF Age, Ranges
    <3>3. QED
      BY <1>3, <1>5, <2>1, <2>3, <3>1, <3>2, Times
  <2>5. MidFrame => TickLen * elapsed' + clock'.phase <= TickLen - 1 + Char + Pause - line'.left
    <3>1. ASSUME MidFrame PROVE line.left \in 1 .. Char + Pause
      BY <3>1 DEF Ranges, MidFrame
    <3>2. QED
      BY <1>1, <1>3, <1>5, <2>1, <2>3, <3>1, Times, SMTT(30)
  <2>6. Waiting'
    BY <1>1, <2>1, <2>4, <2>5 DEF Waiting
  <2>7. QED
    BY <2>2, <2>6
<1>7. CASE PollSilence
  <2>1. ring = <<>> /\ ring' = <<>> /\ s_frame' = <<>> /\ elapsed' = elapsed /\ elapsed >= ComputeT35
    BY <1>7 DEF PollSilence
  <2>2. ~MidFrame'
    BY <1>1, <1>2, <2>1, NoCut
  <2>3. QED
    BY <1>4, <2>1, <2>2 DEF Ranges, Waiting
<1>8. CASE PollNothing
  <2>1. /\ ring = <<>> /\ ring' = ring /\ s_frame' = s_frame /\ elapsed' = elapsed
        /\ s_frame = <<>> \/ elapsed < ComputeT35
    BY <1>8 DEF PollNothing
  <2>2. Waiting'
    BY <1>1, <1>3, <2>1 DEF Waiting
  <2>3. QED
    BY <1>4, <2>1, <2>2 DEF Ranges
<1>9. QED
  BY <1>6, <1>7, <1>8 DEF Poll
-----------------------------------------------------------------------------
\* What is done stays done.
LEMMA DoneStays ==
  ASSUME OrderInv, [Next]_vars, NEW k, IsDone(k)
  PROVE  IsDone(k)'
<1>1. CASE done' = done
  BY <1>1 DEF IsDone
<1>2. CASE done' # done
  <2>1. PICK j \in 1 .. Len(sent) : Execute(j)
    BY <1>2, Changes DEF Send
  <2>2. /\ \A i \in 1 .. Len(done) : done'[i] = done[i]
        /\ DOMAIN done' = 1 .. Len(done) + 1
    BY <2>1, ExecuteParts DEF OrderInv
  <2>3. DOMAIN done = 1 .. Len(done) /\ Len(done) \in Nat
    BY Shapes DEF OrderInv
  <2>4. QED
    BY <2>2, <2>3 DEF IsDone
<1>3. QED
  BY <1>1, <1>2

\* The bytes of a frame, and one more.
LEMMA BytesSeq ==
  ASSUME NEW k \in Nat, NEW n \in Nat
  PROVE  /\ Bytes(k, n) \in Seq(Nat \X Nat) /\ Len(Bytes(k, n)) = n
         /\ \A i \in 1 .. n : Bytes(k, n)[i] = <<k, i>>
         /\ n > 0 => Bytes(k, n) # <<>>
<1>1. \A i \in 1 .. n : <<k, i>> \in Nat \X Nat
  OBVIOUS
<1>2. Bytes(k, n) \in [1 .. n -> Nat \X Nat] /\ \A i \in 1 .. n : Bytes(k, n)[i] = <<k, i>>
  BY <1>1 DEF Bytes
<1>3. \A t \in [1 .. n -> Nat \X Nat] : t \in Seq(Nat \X Nat) /\ Len(t) = n
  OBVIOUS
<1>4. Len(<<>>) = 0
  OBVIOUS
<1>5. QED
  BY <1>2, <1>3, <1>4

LEMMA BytesGrow ==
  ASSUME NEW k \in Nat, NEW m \in Nat
  PROVE  Bytes(k, m) \o <<<<k, m + 1>>>> = Bytes(k, m + 1)
<1> DEFINE a == Bytes(k, m)
           b == Bytes(k, m + 1)
           c == <<<<k, m + 1>>>>
           s == a \o c
<1>1. c \in Seq(Nat \X Nat) /\ Len(c) = 1 /\ c[1] = <<k, m + 1>>
  OBVIOUS
<1>2. a \in Seq(Nat \X Nat) /\ Len(a) = m /\ \A i \in 1 .. m : a[i] = <<k, i>>
  BY BytesSeq
<1>3. b \in Seq(Nat \X Nat) /\ Len(b) = m + 1 /\ \A i \in 1 .. m + 1 : b[i] = <<k, i>>
  <2>1. \A n \in Nat : /\ Bytes(k, n) \in Seq(Nat \X Nat) /\ Len(Bytes(k, n)) = n
                       /\ \A i \in 1 .. n : Bytes(k, n)[i] = <<k, i>>
    BY BytesSeq
  <2>2. m + 1 \in Nat
    OBVIOUS
  <2>3. QED
    BY <2>1, <2>2
<1> HIDE DEF a, b, c
<1>4. /\ s \in Seq(Nat \X Nat) /\ Len(s) = m + 1
      /\ \A i \in 1 .. m + 1 : s[i] = IF i <= m THEN a[i] ELSE c[i - m]
  <2>1. a \in Seq(Nat \X Nat) /\ c \in Seq(Nat \X Nat)
    BY <1>1, <1>2
  <2>2. /\ s \in Seq(Nat \X Nat) /\ Len(s) = Len(a) + Len(c)
        /\ \A i \in 1 .. Len(a) + Len(c) : s[i] = IF i <= Len(a) THEN a[i] ELSE c[i - Len(a)]
    BY <2>1, ConcatProperties
  <2>3. QED
    BY <1>1, <1>2, <2>2
<1> HIDE DEF s
<1>5. ASSUME NEW i \in 1 .. m + 1 PROVE s[i] = b[i]
  <2>1. CASE i <= m
    <3>1. i \in 1 .. m
      BY <2>1
    <3>2. s[i] = a[i] /\ a[i] = <<k, i>> /\ b[i] = <<k, i>>
      BY <1>2, <1>3, <1>4, <2>1, <3>1
    <3>3. QED
      BY <3>2
  <2>2. CASE ~(i <= m)
    <3>1. i = m + 1 /\ i - m = 1
      BY <2>2
    <3>2. s[i] = c[1] /\ b[i] = <<k, i>>
      BY <1>3, <1>4, <2>2, <3>1
    <3>3. QED
      BY <1>1, <3>1, <3>2
  <2>3. QED
    BY <2>1, <2>2
<1>6. s = b
  BY <1>3, <1>4, <1>5, SeqEqual
<1>7. QED
  BY <1>6 DEF s, a, b, c

\* Where the line is.
LEMMA Present ==
  ASSUME OrderInv
  PROVE  /\ s_frame \in Seq(Nat \X Nat) /\ ring \in Seq(Nat \X Nat)
         /\ Len(sent) \in Nat /\ line \in Lines /\ line.landed \in Nat /\ line.left \in Int
         /\ Cur \in 0 .. Len(sent)
         /\ Cur > 0 => /\ sent[Cur] \in Requests /\ sent[Cur].len \in Nat \ {0}
                       /\ Count \in 1 .. sent[Cur].len
                       /\ ~MidFrame => Count = sent[Cur].len
<1>1. Fresh \subseteq Nat \X Nat
  BY DEF Fresh
<1>2. s_frame \in Seq(Nat \X Nat) /\ ring \in Seq(Nat \X Nat)
  BY <1>1, SeqMonotonic DEF OrderInv, Unjudged
<1>3. Len(sent) \in Nat /\ line \in Lines /\ line.landed \in Nat /\ line.left \in Int
  BY Shapes DEF OrderInv, Types, Lines
<1>4. line.sending => Len(sent) > 0 /\ line.landed < sent[Len(sent)].len
  BY DEF OrderInv, OnLine
<1>5. Cur \in 0 .. Len(sent)
  BY <1>3, <1>4 DEF Cur
<1>6. ASSUME Cur > 0
      PROVE  /\ sent[Cur] \in Requests /\ sent[Cur].len \in Nat \ {0}
             /\ Count \in 1 .. sent[Cur].len
             /\ ~MidFrame => Count = sent[Cur].len
  <2>1. Cur \in 1 .. Len(sent)
    BY <1>3, <1>5, <1>6
  <2>2. sent[Cur] \in Requests /\ sent[Cur].len \in Nat \ {0}
    BY <2>1, Shapes DEF OrderInv
  <2>3. MidFrame => Cur = Len(sent) /\ line.landed < sent[Cur].len
    BY <1>3, <1>4 DEF MidFrame, Cur
  <2>4. QED
    BY <1>3, <2>2, <2>3 DEF Count, MidFrame
<1>7. QED
  BY <1>2, <1>3, <1>5, <1>6

\* The slave holds nothing new.
LEMMA SameGathering ==
  ASSUME OrderInv, Gathering, UNCHANGED <<s_frame, ring, sent, done>>,
         line'.sending = line.sending, line'.landed = line.landed
  PROVE  Gathering'
<1>1. MidFrame' = MidFrame /\ Cur' = Cur
  BY DEF MidFrame, Cur
<1>2. Count' = Count
  BY <1>1 DEF Count
<1>3. QED
  BY <1>1, <1>2 DEF Gathering, IsDone

LEMMA SendGathering ==
  ASSUME OrderInv, Gathering, Ranges, NEW f \in Requests, Send(f)
  PROVE  Gathering'
<1>1. /\ ~line.sending /\ UNCHANGED <<s_frame, ring, done>>
      /\ line' = [sending |-> TRUE, landed |-> 0, left |-> Char, quiet |-> 0]
      /\ sent' = Append(sent, f)
  BY DEF Send
<1>2. /\ Len(sent) \in Nat /\ Len(sent') = Len(sent) + 1
      /\ \A k \in 1 .. Len(sent) : sent'[k] = sent[k]
  BY <1>1, Shapes, AppendProperties DEF OrderInv, Types
<1>3. ~MidFrame /\ ~MidFrame' /\ Cur' = Cur /\ Cur = Len(sent)
  BY <1>1, <1>2 DEF MidFrame, Cur
<1>4. Count = sent[Cur].len /\ Count' = sent'[Cur].len
  BY <1>3 DEF Count
<1>5. Cur > 0 => sent'[Cur] = sent[Cur] /\ Count' = Count
  BY <1>2, <1>3, <1>4
<1>6. \A j \in 1 .. Cur - 1 : sent'[j] = sent[j]
  BY <1>2, <1>3
<1>7. QED
  BY <1>1, <1>3, <1>5, <1>6 DEF Gathering, IsDone

LEMMA LandsGathering ==
  ASSUME SoundTiming, OrderInv, TimingInv, Lands, clock.poll < PollMax,
         UNCHANGED <<s_frame, sent, done>>
  PROVE  Gathering'
<1> DEFINE n == Len(sent)
           m == line.landed
           b == <<n, m + 1>>
<1>1. /\ line.sending /\ line.left = 1 /\ ring' = Append(ring, b)
      /\ n \in Nat \ {0} /\ m \in Nat /\ b \in Nat \X Nat /\ b[1] = n
      /\ s_frame \in Seq(Nat \X Nat) /\ ring \in Seq(Nat \X Nat)
  BY Present DEF Lands, OrderInv, OnLine
<1>2. line \in Lines /\ Last(sent) = sent[n]
  BY Present DEF Last
<1>3. Cur' = n /\ Count' = m + 1
  <2>1. CASE m + 1 = sent[n].len
    <3>1. line' = [line EXCEPT !.sending = FALSE, !.landed = 0, !.left = 0]
      BY <1>2, <2>1 DEF Lands
    <3>2. ~line'.sending
      BY <1>2, <3>1, LineEnds
    <3>3. QED
      BY <2>1, <3>2 DEF Cur, Count, MidFrame
  <2>2. CASE m + 1 # sent[n].len
    <3>1. PICK p \in {0, Pause} : line' = [line EXCEPT !.landed = m + 1, !.left = Char + p]
      BY <1>2, <2>2 DEF Lands
    <3>2. line'.sending /\ line'.landed = m + 1
      BY <1>1, <1>2, <3>1 DEF Lines
    <3>3. QED
      BY <1>1, <3>2 DEF Cur, Count, MidFrame
  <2>3. QED
    BY <2>1, <2>2
<1>4. /\ Append(ring, b) = ring \o <<b>> /\ <<b>> \in Seq(Nat \X Nat)
      /\ DOMAIN ring = 1 .. Len(ring) /\ Len(ring) \in Nat
      /\ DOMAIN Append(ring, b) = 1 .. Len(ring) + 1
      /\ \A i \in 1 .. Len(ring) : Append(ring, b)[i] = ring[i]
      /\ Append(ring, b)[Len(ring) + 1] = b
  <2>1. Append(ring, b) = ring \o <<b>>
    BY <1>1, AppendIsConcat
  <2>2. <<b>> \in Seq(Nat \X Nat)
    BY <1>1
  <2>3. Append(ring, b) \in Seq(Nat \X Nat) /\ Len(Append(ring, b)) = Len(ring) + 1
        /\ (\A i \in 1 .. Len(ring) : Append(ring, b)[i] = ring[i])
        /\ Append(ring, b)[Len(ring) + 1] = b
    BY <1>1, AppendProperties
  <2>4. QED
    <3>1. DOMAIN ring = 1 .. Len(ring) /\ Len(ring) \in Nat
      BY <1>1, LenProperties
    <3>2. DOMAIN Append(ring, b) = 1 .. Len(Append(ring, b))
      BY <2>3, LenProperties
    <3>3. QED
      BY <2>1, <2>2, <2>3, <3>1, <3>2
<1>5. Cur \in Nat /\ Cur <= n /\ Cur = (IF m = 0 THEN n - 1 ELSE n)
  BY <1>1, Present DEF Cur
<1> HIDE DEF b
<1>6. Len(s_frame) <= MaxAdu /\ \A i \in DOMAIN s_frame : s_frame[i][1] <= n
  <2>1. /\ DOMAIN s_frame = 1 .. Len(s_frame)
        /\ \A i \in 1 .. Len(s_frame) : s_frame[i] \in Nat \X Nat
    BY <1>1, LenProperties, ElementOfSeq
  <2>2. \A i \in DOMAIN s_frame : s_frame[i][1] \in Nat /\ s_frame[i][1] <= Cur
    BY <2>1 DEF TimingInv, Gathering
  <2>3. QED
    BY <1>1, <1>5, <2>2 DEF TimingInv, Gathering
<1>7. \A i \in DOMAIN ring' : ring'[i][1] <= n
  <2>1. \A i \in 1 .. Len(ring) : ring[i] \in Nat \X Nat /\ ring[i][1] <= Cur
    BY <1>1, <1>4, ElementOfSeq DEF TimingInv, Gathering
  <2>2. \A i \in 1 .. Len(ring) : ring[i][1] \in Nat /\ ring[i][1] <= n
    BY <1>1, <1>5, <2>1, SMTT(30)
  <2>3. \A i \in 1 .. Len(ring) + 1 : i \in 1 .. Len(ring) \/ i = Len(ring) + 1
    BY <1>4
  <2>4. n <= n
    BY <1>1
  <2>5. QED
    BY <1>1, <1>4, <2>2, <2>3, <2>4
<1>8. CASE m = 0
  <2>1. ~MidFrame /\ s_frame = <<>> /\ ring = <<>>
    BY <1>1, <1>8, HandEmpty DEF TimingInv, MidFrame
  <2>2. \A j \in 1 .. n - 1 : Good(sent[j]) => IsDone(j)
    <3>1. Cur > 0 /\ Good(sent[Cur]) => IsDone(Cur)
      <4>1. ASSUME Cur > 0 PROVE <<>> \o <<>> # Bytes(Cur, Count)
        <5>1. Count \in Nat \ {0}
          BY <4>1, Present
        <5>2. Bytes(Cur, Count) # <<>>
          BY <1>5, <5>1, BytesSeq
        <5>3. <<>> \o <<>> = <<>>
          BY EmptySeq, ConcatEmptySeq
        <5>4. QED
          BY <5>2, <5>3
      <4>2. QED
        BY <2>1, <4>1 DEF TimingInv, Gathering
    <3>2. \A j \in 1 .. n - 1 : j \in 1 .. Cur - 1 \/ (j = Cur /\ Cur > 0)
      BY <1>1, <1>5, <1>8
    <3>3. QED
      BY <3>1, <3>2 DEF TimingInv, Gathering
  <2>3. s_frame \o Append(ring, b) = Bytes(n, 1)
    <3>1. <<>> \o <<b>> = <<b>>
      BY <1>4, ConcatEmptySeq
    <3>2. Append(<<>>, b) = <<b>>
      BY <1>4, <2>1, <3>1
    <3>3. <<b>> = Bytes(n, 1)
      <4>1. b = <<n, 1>>
        BY <1>8 DEF b
      <4>2. QED
        BY <4>1 DEF Bytes
    <3>4. QED
      BY <2>1, <3>1, <3>2, <3>3
  <2>4. QED
    BY <1>1, <1>3, <1>6, <1>7, <1>8, <2>2, <2>3 DEF Gathering, IsDone
<1>9. CASE m # 0
  <2>1. MidFrame /\ Cur = n /\ n > 0 /\ Count = m
    BY <1>1, <1>5, <1>9 DEF MidFrame, Count
  <2>2. Good(sent[n]) => s_frame \o Append(ring, b) = Bytes(n, m + 1)
    <3>1. Good(sent[n]) => s_frame \o ring = Bytes(n, m)
      BY <2>1 DEF TimingInv, Gathering
    <3>2. s_frame \o (ring \o <<b>>) = (s_frame \o ring) \o <<b>>
      <4> DEFINE P == Nat \X Nat
                 u == <<b>>
      <4>1. s_frame \in Seq(P) /\ ring \in Seq(P) /\ u \in Seq(P)
        BY <1>1, <1>4
      <4> HIDE DEF P, u
      <4>2. (s_frame \o ring) \o u = s_frame \o (ring \o u)
        BY <4>1, ConcatAssociative
      <4>3. QED
        BY <4>2 DEF u
    <3>3. Bytes(n, m) \o <<b>> = Bytes(n, m + 1)
      BY <1>1, BytesGrow DEF b
    <3>4. QED
      BY <1>4, <3>1, <3>2, <3>3
  <2>3. \A j \in 1 .. n - 1 : Good(sent[j]) => IsDone(j)
    BY <2>1 DEF TimingInv, Gathering
  <2>4. QED
    BY <1>1, <1>3, <1>6, <1>7, <2>2, <2>3 DEF Gathering, IsDone
<1>10. QED
  BY <1>8, <1>9

LEMMA UnitGathering ==
  ASSUME SoundTiming, OrderInv, TimingInv, Unit
  PROVE  Gathering'
<1>1. clock.poll < PollMax /\ UNCHANGED <<s_frame, sent, done>>
  BY DEF Unit
<1>2. CASE Lands
  BY <1>1, <1>2, LandsGathering
<1>3. CASE Quiet \/ Shifting
  <2>1. line \in Lines
    BY Present
  <2>2. ring' = ring /\ line'.sending = line.sending /\ line'.landed = line.landed
    BY <1>3, <2>1 DEF Quiet, Shifting, Lines
  <2>3. QED
    BY <1>1, <2>2, SameGathering DEF TimingInv
<1>4. QED
  BY <1>2, <1>3 DEF Unit

\* What the poll takes from the ring, of a good frame all of it.
Taken ==
  /\ Gathered \in Seq(Nat \X Nat) /\ Len(Gathered) <= MaxAdu
  /\ \A i \in DOMAIN Gathered : Gathered[i][1] <= Cur
  /\ Cur > 0 /\ Good(sent[Cur]) /\ s_frame \o ring = Bytes(Cur, Count)
       => Gathered = Bytes(Cur, Count)
LEMMA Takes ==
  ASSUME SoundTiming, OrderInv, Gathering
  PROVE  Taken
<1> DEFINE r == Len(ring)
           s == Len(s_frame)
           t == Lesser(r, MaxAdu - s)
           part == SubSeq(ring, 1, t)
<1>1. /\ s_frame \in Seq(Nat \X Nat) /\ ring \in Seq(Nat \X Nat)
      /\ r \in Nat /\ s \in Nat /\ s <= MaxAdu /\ MaxAdu \in Nat
      /\ DOMAIN s_frame = 1 .. s /\ DOMAIN ring = 1 .. r
      /\ \A i \in 1 .. r : ring[i] \in Nat \X Nat
  BY Present, Times, LenProperties, ElementOfSeq DEF Gathering
<1>2. t \in Nat /\ t <= r /\ t <= MaxAdu - s /\ (s + r <= MaxAdu => t = r)
  <2>1. \A a, b \in Nat : LET c == IF a < b THEN a ELSE b
                         IN c \in Nat /\ c <= a /\ c <= b /\ (a <= b => c = a)
    OBVIOUS
  <2>2. r \in Nat /\ MaxAdu - s \in Nat /\ (s + r <= MaxAdu => r <= MaxAdu - s)
    BY <1>1
  <2> DEFINE x == MaxAdu - s
  <2>3. r \in Nat /\ x \in Nat /\ (s + r <= MaxAdu => r <= x)
        /\ t = IF r < x THEN r ELSE x
    BY <2>2 DEF Lesser
  <2> HIDE DEF x, r, s, t
  <2>4. t \in Nat /\ t <= r /\ t <= x /\ (r <= x => t = r)
    BY <2>1, <2>3
  <2>5. QED
    BY <2>3, <2>4 DEF x
<1>3. /\ part \in Seq(Nat \X Nat) /\ Len(part) = t
      /\ \A i \in 1 .. t : part[i] = ring[i]
  <2> HIDE DEF t
  <2>1. \A i \in 1 .. t : ring[i] \in Nat \X Nat
    BY <1>1, <1>2
  <2>2. 1 \in Int /\ t \in Int
    BY <1>2
  <2>3. /\ part \in Seq(Nat \X Nat) /\ Len(part) = IF 1 <= t THEN t - 1 + 1 ELSE 0
        /\ \A i \in 1 .. t - 1 + 1 : part[i] = ring[1 + i - 1]
    BY <2>1, <2>2, SubSeqProperties
  <2>4. (IF 1 <= t THEN t - 1 + 1 ELSE 0) = t /\ t - 1 + 1 = t
    BY <1>2
  <2>5. \A i \in 1 .. t : 1 + i - 1 = i
    BY <1>2
  <2>6. QED
    BY <2>3, <2>4, <2>5
<1>4. Gathered = s_frame \o part
  BY DEF Gathered
<1> HIDE DEF t, part
<1>5. /\ Gathered \in Seq(Nat \X Nat) /\ Len(Gathered) = s + t
      /\ \A i \in 1 .. s + t : Gathered[i] = IF i <= s THEN s_frame[i] ELSE part[i - s]
  BY <1>1, <1>3, <1>4, ConcatProperties
<1>6. ASSUME NEW i \in DOMAIN Gathered PROVE Gathered[i][1] <= Cur
  <2>1. i \in 1 .. s + t
    BY <1>5, LenProperties
  <2>2. CASE i <= s
    <3>1. i \in 1 .. s /\ Gathered[i] = s_frame[i]
      BY <1>5, <2>1, <2>2
    <3>2. QED
      BY <1>1, <3>1 DEF Gathering
  <2>3. CASE ~(i <= s)
    <3>1. i - s \in 1 .. t /\ i - s \in 1 .. r
      <4>1. \A a, b, c \in Nat : \A j \in 1 .. a + b :
              ~(j <= a) /\ b <= c => j - a \in 1 .. b /\ j - a \in 1 .. c
        OBVIOUS
      <4>2. s \in Nat /\ t \in Nat /\ r \in Nat /\ t <= r
        BY <1>1, <1>2
      <4>3. QED
        BY <2>1, <2>3, <4>1, <4>2
    <3>2. Gathered[i] = part[i - s] /\ part[i - s] = ring[i - s]
      BY <1>3, <1>5, <2>1, <2>3, <3>1
    <3>3. QED
      BY <1>1, <3>1, <3>2 DEF Gathering
  <2>4. QED
    BY <2>2, <2>3
<1>7. ASSUME Cur > 0, Good(sent[Cur]), s_frame \o ring = Bytes(Cur, Count)
      PROVE  Gathered = Bytes(Cur, Count)
  <2>1. Cur \in Nat /\ Count \in Nat /\ Count <= sent[Cur].len /\ sent[Cur].len \in Nat
        /\ sent[Cur] \in Requests
    BY <1>7, Present
  <2>2. sent[Cur].len <= MaxAdu
    BY <1>1, <1>7, <2>1 DEF SoundTiming, Good
  <2>3. Len(s_frame \o ring) = s + r
    BY <1>1, ConcatProperties
  <2>4. Len(Bytes(Cur, Count)) = Count
    BY <2>1, BytesSeq
  <2>5. s + r <= MaxAdu
    BY <1>1, <1>7, <2>1, <2>2, <2>3, <2>4
  <2>6. SubSeq(ring, 1, r) = ring
    BY <1>1, SubSeqFull
  <2>7. part = ring
    BY <1>2, <2>5, <2>6 DEF part
  <2>8. QED
    BY <1>4, <1>7, <2>7
<1>8. s + t <= MaxAdu
  <2>1. \A a, b, c \in Nat : b <= c - a => a + b <= c
    OBVIOUS
  <2>2. s \in Nat /\ t \in Nat /\ MaxAdu \in Nat /\ t <= MaxAdu - s
    BY <1>1, <1>2
  <2>3. QED
    BY <2>1, <2>2
<1>9. Gathered \in Seq(Nat \X Nat) /\ Len(Gathered) <= MaxAdu
  <2>1. Gathered \in Seq(Nat \X Nat) /\ Len(Gathered) = s + t
    BY <1>5
  <2>2. QED
    BY <1>8, <2>1
<1>10. QED
  BY <1>6, <1>7, <1>9 DEF Taken

LEMMA PollBytesGathering ==
  ASSUME SoundTiming, OrderInv, Gathering, PollBytes
  PROVE  Gathering'
<1>1. UNCHANGED <<line, sent, done>> /\ s_frame' = Gathered /\ ring # <<>> /\ ring' = <<>>
  BY DEF PollBytes
<1>2. Cur' = Cur /\ Count' = Count /\ MidFrame' = MidFrame
  BY <1>1 DEF Cur, Count, MidFrame
<1>3. /\ Gathered \in Seq(Nat \X Nat) /\ Len(Gathered) <= MaxAdu
      /\ \A i \in DOMAIN Gathered : Gathered[i][1] <= Cur
      /\ Cur > 0 /\ Good(sent[Cur]) /\ s_frame \o ring = Bytes(Cur, Count)
           => Gathered = Bytes(Cur, Count)
  BY Takes DEF Taken
<1>4. Cur > 0 /\ Good(sent[Cur]) => Gathered = Bytes(Cur, Count)
  BY <1>1, <1>3 DEF Gathering
<1>5. Gathered \o <<>> = Gathered
  BY <1>3, ConcatEmptySeq
<1>6. DOMAIN <<>> = {}
  OBVIOUS
<1>7. QED
  BY <1>1, <1>2, <1>3, <1>4, <1>5, <1>6 DEF Gathering, IsDone

\* A good frame is executed when its silence has come.
LEMMA PollSilenceGathering ==
  ASSUME SoundTiming, OrderInv, TimingInv, PollSilence
  PROVE  Gathering'
<1>1. /\ UNCHANGED <<line, sent>> /\ ring = <<>> /\ ring' = <<>> /\ s_frame # <<>> /\ s_frame' = <<>>
      /\ elapsed >= ComputeT35 /\ ProcessFrame
  BY DEF PollSilence
<1>2. ~MidFrame
  BY <1>1, NoCut, Present DEF TimingInv
<1>3. Cur' = Cur /\ MidFrame' = MidFrame
  BY <1>1 DEF Cur, MidFrame
<1>4. ASSUME Cur > 0, Good(sent[Cur]) PROVE IsDone(Cur)'
  <2> DEFINE k == Cur
             n == sent[Cur].len
  <2>1. k \in 1 .. Len(sent) /\ DOMAIN sent = 1 .. Len(sent) /\ n \in Nat /\ sent[k] \in Requests
        /\ Count = n
    BY <1>2, <1>4, Present, Shapes DEF OrderInv
  <2>2. s_frame = Bytes(k, n)
    <3>1. s_frame \o <<>> = Bytes(k, n)
      BY <1>1, <1>4, <2>1 DEF TimingInv, Gathering
    <3>2. s_frame \o <<>> = s_frame
      BY Present, ConcatEmptySeq
    <3>3. QED
      BY <3>1, <3>2
  <2>3. n >= 4
    BY <1>4, <2>1, Times DEF SoundTiming, Good
  <2> HIDE DEF k, n
  <2>4. Len(s_frame) = n /\ \A i \in 1 .. n : s_frame[i] = <<k, i>>
    <3>1. k \in Nat /\ n \in Nat
      BY <2>1
    <3>2. Len(Bytes(k, n)) = n /\ \A i \in 1 .. n : Bytes(k, n)[i] = <<k, i>>
      BY <3>1, BytesSeq
    <3>3. QED
      BY <2>2, <3>2
  <2>5. IsWhole(k) /\ Mine(sent[k]) /\ Len(s_frame) >= 4
    BY <1>4, <2>2, <2>3, <2>4 DEF IsWhole, Good, Bytes, k, n
  <2>6. ASSUME NEW j \in DOMAIN sent, IsWhole(j) PROVE j = k
    <3>1. s_frame = [i \in 1 .. sent[j].len |-> <<j, i>>] /\ sent[j].len \in Nat \ {0}
      BY <2>1, <2>6, Shapes DEF IsWhole, OrderInv
    <3>2. s_frame[1] = <<j, 1>>
      BY <3>1
    <3>3. s_frame[1] = <<k, 1>>
      BY <2>1, <2>3, <2>4
    <3>4. QED
      BY <3>2, <3>3
  <2>7. done' = Append(done, k)
    <3>1. k \in {i \in DOMAIN sent : Len(s_frame) >= 4 /\ IsWhole(i) /\ Mine(sent[i])}
      BY <2>1, <2>5
    <3>2. \E i \in DOMAIN sent : IsWhole(i) /\ done' = Append(done, i)
      BY <1>1, <3>1 DEF ProcessFrame
    <3>3. QED
      BY <2>6, <3>2
  <2>8. done \in Seq(Nat) /\ k \in Nat /\ Len(done) \in Nat
    BY <2>1, Shapes DEF OrderInv, Types
  <2>9. /\ Append(done, k) \in Seq(Nat) /\ Len(Append(done, k)) = Len(done) + 1
        /\ Append(done, k)[Len(done) + 1] = k
    BY <2>8, AppendProperties
  <2>10. Len(done) + 1 \in DOMAIN Append(done, k)
    <3>1. DOMAIN Append(done, k) = 1 .. Len(done) + 1
      BY <2>9, LenProperties
    <3>2. QED
      BY <2>8, <3>1
  <2>11. QED
    BY <1>3, <2>7, <2>9, <2>10 DEF IsDone, k
<1>5. ASSUME NEW j \in 1 .. Cur - 1, Good(sent[j]) PROVE IsDone(j)'
  <2>1. IsDone(j)
    BY <1>5 DEF TimingInv, Gathering
  <2>2. [Next]_vars
    BY DEF Next, Poll
  <2>3. QED
    BY <2>1, <2>2, DoneStays
<1>6. DOMAIN <<>> = {} /\ Len(<<>>) = 0
  OBVIOUS
<1>7. QED
  BY <1>1, <1>2, <1>3, <1>4, <1>5, <1>6, Times DEF Gathering, IsDone
-----------------------------------------------------------------------------
LEMMA InitTiming == Init => TimingInv
<1> SUFFICES ASSUME Init PROVE TimingInv
  OBVIOUS
<1>1. /\ line = [sending |-> FALSE, landed |-> 0, left |-> 0, quiet |-> Silence]
      /\ ring = <<>> /\ s_frame = <<>> /\ elapsed = 0 /\ clock = [phase |-> 0, poll |-> 0]
      /\ sent = <<>>
  BY DEF Init
<1>2. ~line.sending /\ line.quiet = Silence /\ line.left = 0 /\ ~MidFrame /\ Cur = 0
  BY <1>1, EmptySeq DEF MidFrame, Cur
<1>3. Ranges
  BY <1>1, <1>2, Times DEF Ranges
<1>4. Waiting
  BY <1>1, <1>2 DEF Waiting
<1>5. DOMAIN <<>> = {} /\ Len(<<>>) = 0 /\ 1 .. 0 - 1 = {}
  OBVIOUS
<1>6. Gathering
  BY <1>1, <1>2, <1>5, Times DEF Gathering
<1>7. QED
  BY <1>3, <1>4, <1>6 DEF TimingInv

LEMMA TimingKeeps == SoundTiming /\ OrderInv /\ TimingInv /\ [Next]_vars => TimingInv'
<1> SUFFICES ASSUME SoundTiming, OrderInv, TimingInv, [Next]_vars PROVE TimingInv'
  OBVIOUS
<1>1. Ranges /\ Waiting /\ Gathering
  BY DEF TimingInv
<1>2. ASSUME NEW f \in Requests, Send(f) PROVE TimingInv'
  BY <1>1, <1>2, SendTiming, SendGathering DEF TimingInv
<1>3. CASE Unit
  BY <1>1, <1>3, UnitTiming, UnitGathering DEF TimingInv
<1>4. CASE Poll
  <2>1. Ranges' /\ Waiting'
    BY <1>1, <1>4, PollTiming
  <2>2. CASE PollBytes
    BY <1>1, <2>1, <2>2, PollBytesGathering DEF TimingInv
  <2>3. CASE PollSilence
    BY <2>1, <2>3, PollSilenceGathering DEF TimingInv
  <2>4. CASE PollNothing
    <3>1. UNCHANGED <<line, ring, s_frame, sent, done>>
      BY <2>4 DEF PollNothing
    <3>2. QED
      BY <1>1, <2>1, <3>1, SameGathering DEF TimingInv
  <2>5. QED
    BY <1>4, <2>2, <2>3, <2>4 DEF Poll
<1>5. CASE UNCHANGED vars
  <2>1. UNCHANGED <<line, ring, s_frame, elapsed, clock, sent, done>>
    BY <1>5 DEF vars
  <2>2. Gathering'
    BY <1>1, <2>1, SameGathering
  <2>3. Ranges' /\ Waiting'
    BY <1>1, <2>1 DEF Ranges, Waiting, Age, MidFrame
  <2>4. QED
    BY <2>2, <2>3 DEF TimingInv
<1>6. QED
  BY <1>2, <1>3, <1>4, <1>5 DEF Next

LEMMA TimingSuffices == OrderInv /\ TimingInv => FramesGathered
<1> SUFFICES ASSUME OrderInv, TimingInv PROVE FramesGathered
  OBVIOUS
<1>1. TypeOK
  <2>1. line \in Lines /\ line.landed \in Nat /\ Tables
    BY Present DEF OrderInv, Types
  <2>2. line.left \in 0 .. Char + Pause /\ line.quiet \in 0 .. Silence
    BY Times DEF TimingInv, Ranges
  <2>3. line \in [sending : BOOLEAN, landed : Nat, left : 0 .. Char + Pause, quiet : 0 .. Silence]
    BY <2>1, <2>2 DEF Lines
  <2>4. QED
    BY <2>1, <2>3 DEF TypeOK, Tables, TimingInv, Gathering, Ranges
<1>2. ASSUME NEW k \in DOMAIN sent, Good(sent[k]), NEW i \in DOMAIN s_frame, s_frame[i][1] > k
      PROVE  IsDone(k)
  <2>1. Cur \in Nat /\ s_frame[i][1] <= Cur /\ k \in Nat \ {0}
    BY Present, Shapes, SMTT(30) DEF OrderInv, TimingInv, Gathering
  <2>2. s_frame[i] \in Nat \X Nat
    BY Present, LenProperties, ElementOfSeq
  <2>3. k \in 1 .. Cur - 1
    BY <1>2, <2>1, <2>2
  <2>4. QED
    BY <1>2, <2>3 DEF TimingInv, Gathering
<1>3. TakenBeforeNext
  BY <1>2 DEF TakenBeforeNext, Good, IsDone
<1>4. QED
  BY <1>1, <1>3 DEF FramesGathered

\* When ticks, polls and pauses are such that the silence can be told, the buffer never
\* overruns, no frame is split or run into the next, and every good frame for the slave
\* is executed before a byte of the next one is taken in.
THEOREM FramesKept == SoundTiming => (Spec => []FramesGathered)
<1>1. SoundTiming /\ OrderInv /\ TimingInv /\ [Next]_vars => (OrderInv /\ TimingInv)'
  BY OrderKeeps, TimingKeeps
<1>2. ASSUME SoundTiming PROVE Spec => []FramesGathered
  <2>1. OrderInv /\ TimingInv /\ [Next]_vars => (OrderInv /\ TimingInv)'
    BY <1>1, <1>2
  <2>2. QED
    BY <2>1, InitOrder, InitTiming, TimingSuffices, PTL DEF Spec
<1>3. QED
  BY <1>2
=============================================================================
