--------------------------------- MODULE Tick ---------------------------------
(***************************************************************************)
(* epic-tick/src/epic_tick.c: the millisecond counter, counted up by the   *)
(* handler of Timer2 and read by main one byte after another, the delay    *)
(* built on it, and the search for the period of Timer2.                   *)
(***************************************************************************)
EXTENDS Integers, FiniteSets, FiniteSetsExt

CONSTANTS Base, Places,  \* values of a byte and bytes of the counter (256 and 4 in the code)
          Phases,        \* instants told apart in a millisecond
          Targets,       \* instruction cycles per millisecond: fosc_hz / 4000
          Delays         \* arguments of epic_tick_delay_ms

VARIABLES tick,    \* [ms, flag, gie]: g_tick_ms byte by byte, TMR2IF, the interrupt enable
          reader,  \* [pc, got, at, prev, t0, ms]: main, in one of the calls
          elapsed  \* [phase, ms, since, idle]: true time, and the phases since the delay was
           \* called and since main last moved in a call

tickVars == <<tick, reader, elapsed>>

Wrapped == Base ^ Places
Value(bytes) == MapThenSumSet(LAMBDA i : bytes[i] * Base ^ i, DOMAIN bytes)
Bytes(n) == [i \in 0 .. Places - 1 |-> (n \div Base ^ i) % Base]
Longest == Max(Delays) * Phases
-----------------------------------------------------------------------------
\* compute_period: of the floor and the ceiling for every scale, one with the least
\* error.  Timer2 interrupts every pre * post * n cycles.
Error(c, target) == LET cycles == c[1] * c[2] * c[3] IN IF cycles >= target THEN cycles - target ELSE target - cycles
Settings == {1, 4, 16} \X (1 .. 16) \X (1 .. 256)

\* Faulty: the floor alone is tried.
TriedFloor(target) == {<<c[1], c[2], target \div (c[1] * c[2])>> : c \in {1, 4, 16} \X (1 .. 16)} \cap Settings
Tried(target) ==
  {<<c[1], c[2], (target \div (c[1] * c[2])) + c[3]>> : c \in {1, 4, 16} \X (1 .. 16) \X (0 .. 1)} \cap Settings
ComputePeriod(target) == LET best == Min({Error(c, target) : c \in Tried(target)})
                         IN  CHOOSE c \in Tried(target) : Error(c, target) = best
-----------------------------------------------------------------------------
\* After epic_tick_init; the locals of a call end with it.
Idle == [pc |-> "idle", got |-> Bytes(0), at |-> 0, prev |-> FALSE, t0 |-> 0, ms |-> 0]
Init ==
  /\ tick = [ms |-> Bytes(0), flag |-> FALSE, gie |-> TRUE]
  /\ reader = Idle
  /\ elapsed = [phase |-> 0, ms |-> 0, since |-> 0, idle |-> 0]

\* Time passes, and a millisecond ends with the overflow of Timer2.  A read keeps the
\* handler waiting for less than a phase, and no step of a call takes a millisecond.
LastPhase == elapsed.phase + 1 = Phases
Pass ==
  /\ ~tick.flag /\ elapsed.idle < Phases
  /\ tick' = [tick EXCEPT !.flag = LastPhase]
  /\ elapsed' = [phase |-> (elapsed.phase + 1) % Phases, ms |-> (elapsed.ms + IF LastPhase THEN 1 ELSE 0) % Wrapped,
                 since |-> IF reader.pc \in {"idle", "get"} THEN 0 ELSE IF elapsed.since < Longest THEN elapsed.since + 1 ELSE Longest,
                 idle |-> IF reader.pc = "idle" THEN 0 ELSE elapsed.idle + 1]
  /\ UNCHANGED reader

\* TIMER2_IRQHandler with epic_tick_on_overflow, before main goes on.
OnOverflow ==
  /\ tick.flag /\ tick.gie
  /\ tick' = [tick EXCEPT !.flag = FALSE, !.ms = Bytes((Value(@) + 1) % Wrapped)]
  /\ UNCHANGED <<reader, elapsed>>

\* epic_tick_get, on its own or as the first or a later look of a delay: the bytes
\* are read one by one with interrupts off.
\* Faulty: with interrupts on.
LookUnguarded(pc) == reader' = [reader EXCEPT !.pc = pc, !.at = 0, !.prev = tick.gie] /\ UNCHANGED tick
Look(pc) == reader' = [reader EXCEPT !.pc = pc, !.at = 0, !.prev = tick.gie] /\ tick' = [tick EXCEPT !.gie = FALSE]
ReadByte ==
  /\ reader.pc \in {"get", "first", "again"} /\ reader.at < Places
  /\ reader' = [reader EXCEPT !.got[reader.at] = tick.ms[reader.at], !.at = @ + 1]
  /\ UNCHANGED tick
Ended(pc) == reader.pc = pc /\ reader.at = Places /\ tick' = [tick EXCEPT !.gie = reader.prev]

Get == reader.pc = "idle" /\ Look("get") /\ UNCHANGED elapsed
GetReturns == Ended("get") /\ reader' = Idle

\* epic_tick_delay_ms.
Delay(ms) ==
  /\ reader.pc = "idle"
  /\ reader' = [reader EXCEPT !.pc = "called", !.ms = ms] /\ elapsed' = [elapsed EXCEPT !.since = 0]
  /\ UNCHANGED tick
FirstLook == reader.pc = "called" /\ Look("first")
DelayStarts == Ended("first") /\ reader' = [reader EXCEPT !.pc = "wait", !.t0 = Value(reader.got), !.got = Bytes(0), !.at = 0]
LookAgain == reader.pc = "wait" /\ Look("again")
ElapsedSince(t0) == (Value(reader.got) - t0) % Wrapped
DelayGoesOn ==
  /\ Ended("again") /\ ElapsedSince(reader.t0) < reader.ms
  /\ reader' = [reader EXCEPT !.pc = "wait", !.got = Bytes(0), !.at = 0]
DelayReturns ==
  /\ Ended("again") /\ ElapsedSince(reader.t0) >= reader.ms
  /\ reader' = Idle

InCall == ReadByte \/ GetReturns \/ FirstLook \/ DelayStarts \/ LookAgain \/ DelayGoesOn \/ DelayReturns
Proceed == ~(tick.flag /\ tick.gie) /\ InCall /\ elapsed' = [elapsed EXCEPT !.idle = 0]
Begin == ~(tick.flag /\ tick.gie) /\ (Get \/ \E ms \in Delays : Delay(ms))
Next == Pass \/ OnOverflow \/ Proceed \/ Begin

-----------------------------------------------------------------------------
\* The counter is behind the time by the overflow still to be handled and no more.
CountIsTrue == elapsed.ms = (Value(tick.ms) + IF tick.flag THEN 1 ELSE 0) % Wrapped

\* What a read puts together is the counter as it stands when the last byte is read.
ReadIsWhole == [][reader.at < Places /\ reader'.at = Places => reader'.got = tick.ms]_tickVars

\* What the code gives: a delay of n milliseconds, called within a millisecond that
\* counts as one, returns, and not before n - 1 of them have passed.
DelayLasts == [][reader.pc = "again" /\ reader'.pc = "idle" => elapsed.since >= (reader.ms - 1) * Phases]_tickVars

\* What epic_tick.h:40 promises of a delay that returns: at least n.
LastsAsAsked == reader.pc = "again" /\ reader'.pc = "idle" => elapsed.since >= reader.ms * Phases
DelayEnds == reader.pc = "called" ~> reader.pc = "idle"

\* No setting of Timer2 comes closer to a millisecond than the one chosen.
PeriodIsClosest == \A target \in Targets : Error(ComputePeriod(target), target) = Min({Error(c, target) : c \in Settings})
=============================================================================
