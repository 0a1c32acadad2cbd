-------------------------------- MODULE Modbus --------------------------------
(***************************************************************************)
(* epic-modbus/src/epic_modbus.c: a slave that finds the frames of the     *)
(* line by their silence, on the 1 ms ticks of epic-tick, and executes     *)
(* them on its register map.  Frames are opaque bytes to the framing and   *)
(* requests to the handlers.  Two frames run together, a part of one and a *)
(* damaged one fail the CRC.                                               *)
(***************************************************************************)
EXTENDS Integers, Sequences, SequencesExt

CONSTANTS Char,      \* time of a character, in units of time
          TickLen,   \* units in a tick of epic-tick
          PollMax,   \* units main lets pass between two calls of the poll
          Pause,     \* units the master may pause inside a frame
          MaxAdu,    \* EPIC_MODBUS_MAX_ADU
          Slave,     \* s_slave_addr
          NumCoils, NumInputs, NumHolding,   \* sizes of coils, input and holding registers
          Requests,  \* frames of the master
          MaxFrames  \* bound: frames on the line

ASSUME ModbusAssumption ==
  /\ Char \in Nat \ {0} /\ TickLen \in Nat \ {0} /\ PollMax \in Nat \ {0} /\ Pause \in Nat
  /\ MaxAdu \in Nat /\ MaxAdu >= 8 /\ Slave \in 1 .. 247
  /\ NumCoils \in Nat \ {0} /\ NumInputs \in Nat \ {0} /\ NumHolding \in Nat \ {0}
  /\ MaxFrames \in Nat

\* Frames: bytes and words; the values of a multiple write that is as long as it
\* says are as many as it says.
Words == 0 .. 65535
Frames == [addr : 0 .. 255, fc : 0 .. 255, start : Words, qty : Words, bytes : 0 .. 255,
           data : Seq(Words), len : Nat \ {0}, crc : BOOLEAN]
ASSUME RequestsAssumption ==
  /\ Requests \subseteq Frames
  /\ \A f \in Requests :
       /\ f.fc = 15 => f.data \in Seq({0, 1})
       /\ f.fc = 15 /\ f.len >= 9 /\ f.bytes = (f.qty + 7) \div 8 => Len(f.data) = f.qty
       /\ f.fc = 16 /\ f.len >= 9 /\ f.bytes = 2 * f.qty => Len(f.data) = f.qty

VARIABLES line,     \* the wire: [sending, landed, left, quiet]
          ring,     \* receive ring of epic-serial
          s_frame,  \* bytes gathered: <<frame, position>>
          elapsed,  \* ticks since s_last_rx_tick, up to T35
          clock,    \* units into the tick, units since the last poll: [phase, poll]
          coils, holding,  \* the two tables the master may write
          sent,     \* frames the master sent
          done,     \* those the slave executed, by number
          replies   \* what it answered: [to, pdu]

vars == <<line, ring, s_frame, elapsed, clock, coils, holding, sent, done, replies>>
tables == <<coils, holding>>

CeilDiv(a, b) == (a + b - 1) \div b
Fast == 7 * Char < 4 * TickLen        \* above 19200 baud
InputAt(a) == a + 1                   \* contents of the input registers

\* Faulty: ticks added for safety.
ComputeT35Slack == IF Fast THEN 3 ELSE CeilDiv(7 * Char, 2 * TickLen) + 3

\* s_t3_5_ms, and the silence a master leaves between frames, in units.
ComputeT35 == IF Fast THEN 2 ELSE CeilDiv(7 * Char, 2 * TickLen)
Silence == IF Fast THEN CeilDiv(7 * TickLen, 4) ELSE CeilDiv(7 * Char, 2)

Init ==
  /\ line = [sending |-> FALSE, landed |-> 0, left |-> 0, quiet |-> Silence]
  /\ ring = <<>> /\ s_frame = <<>> /\ elapsed = 0
  /\ clock = [phase |-> 0, poll |-> 0]
  /\ coils = [a \in 0 .. NumCoils - 1 |-> 0] /\ holding = [a \in 0 .. NumHolding - 1 |-> 0]
  /\ sent = <<>> /\ done = <<>> /\ replies = <<>>
-----------------------------------------------------------------------------
\* The master starts a frame once the line has been silent for 3.5 characters.
Send(f) ==
  /\ ~line.sending /\ line.quiet >= Silence /\ Len(sent) < MaxFrames
  /\ line' = [sending |-> TRUE, landed |-> 0, left |-> Char, quiet |-> 0]
  /\ sent' = Append(sent, f)
  /\ UNCHANGED <<ring, s_frame, elapsed, clock, tables, done, replies>>

\* The line over one unit of time: a byte lands when its time is over, and the
\* next one follows at once or after a pause.
Quiet ==
  /\ ~line.sending
  /\ line' = [line EXCEPT !.quiet = IF @ < Silence THEN @ + 1 ELSE @]
  /\ ring' = ring

Shifting ==
  /\ line.sending /\ line.left > 1
  /\ line' = [line EXCEPT !.left = @ - 1]
  /\ ring' = ring

Lands ==
  /\ line.sending /\ line.left = 1
  /\ ring' = Append(ring, <<Len(sent), line.landed + 1>>)
  /\ IF line.landed + 1 = Last(sent).len
     THEN line' = [line EXCEPT !.sending = FALSE, !.landed = 0, !.left = 0]
     ELSE \E p \in {0, Pause} : line' = [line EXCEPT !.landed = @ + 1, !.left = Char + p]

\* Units pass while the line moves or the slave holds bytes (bound: the rest
\* of time changes nothing).
Unit ==
  /\ clock.poll < PollMax
  /\ line.sending \/ line.quiet < Silence \/ s_frame # <<>>
  /\ Quiet \/ Shifting \/ Lands
  /\ clock' = [phase |-> (clock.phase + 1) % TickLen, poll |-> clock.poll + 1]
  /\ elapsed' = IF clock.phase + 1 = TickLen /\ elapsed < ComputeT35 THEN elapsed + 1 ELSE elapsed
  /\ UNCHANGED <<s_frame, tables, sent, done, replies>>
-----------------------------------------------------------------------------
\* What a handler leaves: an answer (none: <<>>) and the two tables.
Outcome(pdu, c, h) == [pdu |-> pdu, coils |-> c, holding |-> h]
Unchanged(pdu) == Outcome(pdu, coils, holding)
Dropped == Unchanged(<<>>)
Exception(f, code) == Unchanged(<<IF f.fc < 128 THEN f.fc + 128 ELSE f.fc, code>>)
ILLEGAL_FUNCTION == 1
ILLEGAL_DATA_ADDRESS == 2
ILLEGAL_DATA_VALUE == 3
Echo(f) == <<f.fc, f.start, f.qty>>
Slice(table, f) == [i \in 1 .. f.qty |-> table[f.start + i - 1]]
\* n: elements of the table, 0 for an absent one; limit: of the function code.
Read(f, table, n, limit, bytes) ==
  CASE f.len # 8 -> Dropped
    [] f.len = 8 /\ (f.qty = 0 \/ f.qty > limit) -> Exception(f, ILLEGAL_DATA_VALUE)
    [] f.len = 8 /\ f.qty \in 1 .. limit /\ f.start + f.qty > n -> Exception(f, ILLEGAL_DATA_ADDRESS)
    [] f.len = 8 /\ f.qty \in 1 .. limit /\ f.start + f.qty <= n ->
         IF bytes + 5 > MaxAdu THEN Exception(f, ILLEGAL_DATA_VALUE)
         ELSE Unchanged(<<f.fc, bytes>> \o Slice(table, f))

ReadBits(f, table, n) == Read(f, table, n, 2000, CeilDiv(f.qty, 8))
ReadRegs(f, table, n) == Read(f, table, n, 125, 2 * f.qty)

\* The value is in the place of the quantity: 0xFF00 for on, 0 for off.
WriteSingleCoil(f) ==
  CASE f.len # 8 -> Dropped
    [] f.len = 8 /\ f.qty \notin {65280, 0} -> Exception(f, ILLEGAL_DATA_VALUE)
    [] f.len = 8 /\ f.qty \in {65280, 0} ->
         IF f.start >= NumCoils THEN Exception(f, ILLEGAL_DATA_ADDRESS)
         ELSE Outcome(Echo(f), [coils EXCEPT ![f.start] = IF f.qty = 0 THEN 0 ELSE 1], holding)

\* Faulty: the low byte first.
WriteSingleRegSwapped(f) ==
  IF f.start >= NumHolding THEN Exception(f, ILLEGAL_DATA_ADDRESS)
  ELSE Outcome(Echo(f), coils, [holding EXCEPT ![f.start] = (f.qty % 256) * 256 + f.qty \div 256])

WriteSingleReg(f) ==
  CASE f.len # 8 -> Dropped
    [] f.len = 8 /\ f.start >= NumHolding -> Exception(f, ILLEGAL_DATA_ADDRESS)
    [] f.len = 8 /\ f.start < NumHolding ->
         Outcome(Echo(f), coils, [holding EXCEPT ![f.start] = f.qty])

Span(f) == f.start .. f.start + f.qty - 1
Overlaid(table, f) == [a \in DOMAIN table |-> IF a \in Span(f) THEN f.data[a - f.start + 1] ELSE table[a]]
Multiple(f, n, limit, bytes, written) ==
  CASE f.len < 9 -> Dropped
    [] f.len >= 9 /\ (f.qty = 0 \/ f.qty > limit \/ f.bytes # bytes) -> Exception(f, ILLEGAL_DATA_VALUE)
    [] f.len >= 9 /\ f.qty \in 1 .. limit /\ f.bytes = bytes ->
         IF 7 + f.bytes + 2 # f.len THEN Dropped
         ELSE IF f.start + f.qty > n THEN Exception(f, ILLEGAL_DATA_ADDRESS)
         ELSE written

WriteMultipleCoils(f) ==
  Multiple(f, NumCoils, 1968, CeilDiv(f.qty, 8), Outcome(Echo(f), Overlaid(coils, f), holding))
\* Faulty: the range is tested after the writing.
WriteMultipleRegsFirst(f) ==
  IF f.len < 9 \/ f.bytes # 2 * f.qty THEN Dropped
  ELSE Outcome(IF f.start + f.qty > NumHolding THEN <<f.fc + 128, ILLEGAL_DATA_ADDRESS>> ELSE Echo(f),
               coils, Overlaid(holding, f))
WriteMultipleRegs(f) ==
  Multiple(f, NumHolding, 123, 2 * f.qty, Outcome(Echo(f), coils, Overlaid(holding, f)))

\* The switch of process_frame.  The map has no discrete inputs.
Handled(f) ==
  CASE f.fc = 1 -> ReadBits(f, coils, NumCoils)
    [] f.fc = 2 -> ReadBits(f, <<>>, 0)
    [] f.fc = 3 -> ReadRegs(f, holding, NumHolding)
    [] f.fc = 4 -> ReadRegs(f, [a \in 0 .. NumInputs - 1 |-> InputAt(a)], NumInputs)
    [] f.fc = 5 -> WriteSingleCoil(f)
    [] f.fc = 6 -> WriteSingleReg(f)
    [] f.fc = 15 -> WriteMultipleCoils(f)
    [] f.fc = 16 -> WriteMultipleRegs(f)
    [] OTHER -> Exception(f, ILLEGAL_FUNCTION)

\* Length, CRC and address: s_frame is one whole undamaged frame, for this slave
\* or for all.
IsWhole(k) == sent[k].crc /\ s_frame = [i \in 1 .. sent[k].len |-> <<k, i>>]
Mine(f) == f.addr \in {0, Slave}
\* Faulty: broadcasts are answered.
AnswersAll(f, o) == o.pdu # <<>>
Answers(f, o) == o.pdu # <<>> /\ f.addr # 0

ProcessFrame ==
  LET whole == {k \in DOMAIN sent : Len(s_frame) >= 4 /\ IsWhole(k) /\ Mine(sent[k])}
  IN \/ /\ whole = {}
        /\ UNCHANGED <<tables, done, replies>>
     \/ \E k \in whole :
          LET o == Handled(sent[k])
          IN /\ coils' = o.coils /\ holding' = o.holding
             /\ done' = Append(done, k)
             /\ replies' = IF Answers(sent[k], o)
                           THEN Append(replies, [to |-> k, pdu |-> o.pdu]) ELSE replies
-----------------------------------------------------------------------------
\* epic_modbus_slave_poll: takes the bytes of the ring, up to the size of the
\* buffer, and drains the rest.
Lesser(a, b) == IF a < b THEN a ELSE b
Gathered == s_frame \o SubSeq(ring, 1, Lesser(Len(ring), MaxAdu - Len(s_frame)))

Polled == clock' = [clock EXCEPT !.poll = 0]

PollBytes ==
  /\ ring # <<>>
  /\ s_frame' = Gathered
  /\ ring' = <<>>
  /\ elapsed' = 0
  /\ Polled
  /\ UNCHANGED <<line, tables, sent, done, replies>>

\* Faulty: the buffer is kept.
PollSilenceKeeps ==
  /\ ring = <<>> /\ s_frame # <<>> /\ elapsed >= ComputeT35
  /\ ProcessFrame
  /\ s_frame' = s_frame
  /\ Polled
  /\ UNCHANGED <<line, ring, elapsed, sent>>

PollSilence ==
  /\ ring = <<>> /\ s_frame # <<>> /\ elapsed >= ComputeT35
  /\ ProcessFrame
  /\ s_frame' = <<>>
  /\ Polled
  /\ UNCHANGED <<line, ring, elapsed, sent>>

PollNothing ==
  /\ ring = <<>> /\ (s_frame = <<>> \/ elapsed < ComputeT35)
  /\ clock.poll > 0
  /\ Polled
  /\ UNCHANGED <<line, ring, s_frame, elapsed, tables, sent, done, replies>>

Poll == PollBytes \/ PollSilence \/ PollNothing
Next == Poll \/ Unit \/ \E f \in Requests : Send(f)
Spec == Init /\ [][Next]_vars
-----------------------------------------------------------------------------
\* Types; the buffer never holds more than EPIC_MODBUS_MAX_ADU bytes.
TypeOK ==
  /\ line \in [sending : BOOLEAN, landed : Nat, left : 0 .. Char + Pause, quiet : 0 .. Silence]
  /\ Len(s_frame) <= MaxAdu
  /\ elapsed \in 0 .. ComputeT35
  /\ clock \in [phase : 0 .. TickLen - 1, poll : 0 .. PollMax]
  /\ coils \in [0 .. NumCoils - 1 -> {0, 1}] /\ holding \in [0 .. NumHolding - 1 -> Words]

\* Silence of ComputeT35 ticks neither splits a frame nor runs two together: when
\* a byte of a frame is taken in, every earlier good frame for the slave has been
\* executed, whatever came between them.
TakenBeforeNext ==
  \A k \in DOMAIN sent :
    sent[k].crc /\ Mine(sent[k]) /\ (\E i \in DOMAIN s_frame : s_frame[i][1] > k)
      => \E i \in DOMAIN done : done[i] = k

\* The buffer never overruns, and every frame is taken before the next.
FramesGathered == TypeOK /\ TakenBeforeNext

\* Frames are executed once each, in the order of the line; only one with the
\* slave's own address is answered, once: two slaves never talk at a time.
OnceInOrder ==
  /\ \A i, j \in DOMAIN done : i < j => done[i] < done[j]
  /\ \A r \in DOMAIN replies : sent[replies[r].to].addr = Slave
  /\ \A r, q \in DOMAIN replies : r # q => replies[r].to # replies[q].to

\* The values the frames executed before k gave to address a of a table: the last
\* write the slave acknowledged, or a broadcast it would have acknowledged.
Acknowledged(k) ==
  \/ \E r \in DOMAIN replies : replies[r].to = k /\ replies[r].pdu = Echo(sent[k])
  \/ sent[k].addr = 0 /\ Handled(sent[k]).pdu = Echo(sent[k])
\* The frame f writes address a of the table that function code fc reads.
WritesTo(f, fc, a) ==
  \/ fc = 1 /\ ((f.fc = 5 /\ f.start = a) \/ (f.fc = 15 /\ a \in Span(f)))
  \/ fc = 3 /\ ((f.fc = 6 /\ f.start = a) \/ (f.fc = 16 /\ a \in Span(f)))
Given(f, a) ==
  CASE f.fc = 5 -> IF f.qty = 65280 THEN 1 ELSE 0
    [] f.fc = 6 -> f.qty
    [] OTHER -> f.data[a - f.start + 1]
Writers(fc, a, k) ==
  {i \in DOMAIN done : done[i] < k /\ WritesTo(sent[done[i]], fc, a) /\ Acknowledged(done[i])}
LastGiven(fc, a, k) ==
  IF Writers(fc, a, k) = {} THEN 0 ELSE Given(sent[done[Max(Writers(fc, a, k))]], a)

\* A master that reads coils or holding registers gets what it last wrote there,
\* by whatever function code, and zero where it never wrote.
ReadsSeeWrites ==
  \A r \in DOMAIN replies :
    LET k == replies[r].to  f == sent[k]
    IN replies[r].pdu[1] = f.fc /\ f.fc \in {1, 3} =>
         \A a \in Span(f) : replies[r].pdu[a - f.start + 3] = LastGiven(f.fc, a, k)

\* Timing under which silence tells frames apart: the slave takes the last byte of a
\* frame within a poll, sees T35 ticks and polls again, all before the next frame's
\* first byte; no pause inside a frame lasts T35 ticks; and a good frame for the slave
\* fits the buffer.
SoundTiming ==
  /\ 2 * PollMax + TickLen * ComputeT35 < Silence + Char
  /\ Char + Pause + TickLen < TickLen * ComputeT35 + 2
  /\ \A f \in Requests : f.crc /\ Mine(f) => f.len \in 4 .. MaxAdu

\* A request refused with an exception has changed nothing.
RefusedChangesNothing ==
  [][Len(replies') > Len(replies) /\ Last(replies').pdu[1] >= 128 => UNCHANGED tables]_vars
=============================================================================
