-------------------------------- MODULE Encoder --------------------------------
(***************************************************************************)
(* epic-encoder/src/encoder.c against the wheel it reads: samples come for *)
(* every edge, late, or not at all, and the glitch gate may drop some.     *)
(***************************************************************************)
EXTENDS Integers

CONSTANTS Gates,    \* values of min_edge_interval_ms
          MaxTurn,  \* bound: quarter steps of the wheel, either way
          MaxFaults \* bound: errors and glitches counted

VARIABLES enc,   \* [gate, position, last, since, errors, glitches]
         wheel   \* [turn, base, seen, jumped]: quarter steps now, at init, at the last
                 \* accepted sample; whether three or more lay between two of those

encVars == <<enc, wheel>>

\* The two bits of the channels over four quarter steps.
Pins(turn) == <<0, 2, 3, 1>>[(turn % 4) + 1]

QuadTable == <<0, -1, 1, 0,  1, 0, 0, -1,  -1, 0, 0, 1,  0, 1, -1, 0>>

Init ==
  /\ enc \in {[gate |-> g, position |-> 0, last |-> Pins(0), since |-> 0, errors |-> 0,
               glitches |-> 0] : g \in Gates}
  /\ wheel = [turn |-> 0, base |-> 0, seen |-> 0, jumped |-> FALSE]

\* Bound: a wheel that has outrun the samples stops until the next reset.
Turn(d) ==
  /\ ~wheel.jumped
  /\ wheel.turn + d \in -MaxTurn .. MaxTurn
  /\ wheel' = [wheel EXCEPT !.turn = @ + d]
  /\ UNCHANGED enc

\* since: milliseconds since last_edge_tick, up to the gate (the 49 days after which
\* the tick wraps are left out).
Millisecond ==
  /\ enc.since < enc.gate
  /\ enc' = [enc EXCEPT !.since = @ + 1]
  /\ UNCHANGED wheel

EncoderReset ==
  /\ enc' = [enc EXCEPT !.position = 0, !.errors = 0, !.glitches = 0, !.since = 0,
                        !.last = Pins(wheel.turn)]
  /\ wheel' = [wheel EXCEPT !.base = wheel.turn, !.seen = wheel.turn, !.jumped = FALSE]
-----------------------------------------------------------------------------
\* encoder_update on the port as it is now: a sample that changes nothing is no step.
Now == Pins(wheel.turn)
Delta == QuadTable[4 * enc.last + Now + 1]
Distance(a, b) == IF a < b THEN b - a ELSE a - b

\* Faulty: the dropped sample becomes the reference.
UpdateGatedMoves ==
  /\ Now # enc.last /\ enc.gate # 0 /\ enc.since < enc.gate /\ enc.glitches < MaxFaults
  /\ enc' = [enc EXCEPT !.glitches = @ + 1, !.last = Now]
  /\ UNCHANGED wheel

UpdateGated ==
  /\ Now # enc.last /\ enc.gate # 0 /\ enc.since < enc.gate /\ enc.glitches < MaxFaults
  /\ enc' = [enc EXCEPT !.glitches = @ + 1]
  /\ UNCHANGED wheel

UpdateAccepted ==
  /\ Now # enc.last /\ enc.since >= enc.gate
  /\ Delta = 0 => enc.errors < MaxFaults
  /\ enc' = [enc EXCEPT !.errors = IF Delta = 0 THEN @ + 1 ELSE @, !.position = @ + Delta,
                        !.last = Now, !.since = 0]
  /\ wheel' = [wheel EXCEPT !.seen = wheel.turn, !.jumped = @ \/ Distance(wheel.seen, wheel.turn) > 2]

Next == Turn(1) \/ Turn(-1) \/ Millisecond \/ EncoderReset \/ UpdateGated \/ UpdateAccepted
-----------------------------------------------------------------------------
TypeOK ==
  /\ enc \in [gate : Gates, position : Int, last : 0 .. 3, since : Nat, errors : 0 .. MaxFaults,
              glitches : 0 .. MaxFaults]
  /\ enc.since <= enc.gate

\* Unless three steps went by between two accepted samples, the count is off by
\* two at most for every error counted, and right if none was: dropped samples
\* and missed edges cost nothing once a later sample is accepted.
DriftBounded ==
  ~wheel.jumped => Distance(wheel.seen - wheel.base, enc.position) <= 2 * enc.errors
=============================================================================
