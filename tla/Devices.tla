-------------------------------- MODULE Devices --------------------------------
(***************************************************************************)
(* The small modules of the library side by side.  They share no state: a  *)
(* behaviour is a behaviour of one of them, chosen at the start, while the *)
(* others rest in their initial state.                                     *)
(***************************************************************************)
EXTENDS Integers, Sequences

CONSTANTS Kinds,                               \* the modules checked
          Gates, MaxTurn, MaxFaults,           \* Encoder
          Windows, ClockMod, PollWithin,       \* Debounce
          Letters, Commands, LineMax, MaxArgs, MaxKeys,  \* Console
          MaxLen, MaxCalls,                    \* BusMem
          Base, Places, Phases, Targets, Delays,  \* Tick
          Bits, Frac, Gains, Rails, Readings,  \* Pid
          Transports, MaxLcdCalls,             \* Lcd
          RingSz, EpLen, UsbBytes, MaxBus,     \* Usb
          Counts, Samples, WordBits, ExtraBits, MaxPushes,  \* Filter
          ByteBits, Families, Operands, Decimals,           \* Math
          Table, Start, MaxNest                \* Fsm

\* One assumption for each part.
ASSUME EncoderAssumption == Gates \subseteq Nat /\ MaxTurn \in Nat /\ MaxFaults \in Nat
ASSUME DebounceAssumption ==
  /\ Windows \subseteq Nat /\ ClockMod \in Nat \ {0} /\ PollWithin \in Nat \ {0}
  /\ \A w \in Windows : w + PollWithin < ClockMod   \* no window outlasts the clock
ASSUME ConsoleAssumption ==
  /\ LineMax \in Nat \ {0} /\ MaxArgs \in Nat \ {0} /\ MaxKeys \in Nat
  /\ Letters \cap {" ", "CR", "LF", "BS"} = {}
ASSUME BusAssumption == MaxLen \in Nat /\ MaxCalls \in Nat
ASSUME TickAssumption ==
  /\ Delays \subseteq Nat /\ Targets \subseteq Nat \ {0} /\ {Places, Phases} \subseteq Nat \ {0}
  /\ \A ms \in Delays : ms + 4 < Base ^ Places      \* no delay outlasts the counter
  /\ Delays # {} => \E longest \in Delays : \A ms \in Delays : longest >= ms
ASSUME PidAssumption ==
  /\ Gains \subseteq [kp : Int, ki : Int, kd : Int] /\ Readings \subseteq -(2 ^ (Bits - 1)) .. 2 ^ (Bits - 1) - 1
  /\ Rails \subseteq [min : -(2 ^ (Bits - 1)) .. 2 ^ (Bits - 1) - 1, max : -(2 ^ (Bits - 1)) .. 2 ^ (Bits - 1) - 1]
  /\ \A r \in Rails : r.min <= r.max
  /\ Bits % 2 = 0
ASSUME WidthAssumption ==                            \* what the provers ask of powers of two
  /\ Bits \in Nat \ {0} /\ Frac \in 0 .. Bits
  /\ {2 ^ Frac, 2 ^ (Bits - 1), 2 ^ (2 * Bits - 1)} \subseteq Nat \ {0}
  /\ 2 ^ Bits = 2 * 2 ^ (Bits - 1) /\ 2 ^ (2 * Bits) = 2 * 2 ^ (2 * Bits - 1)
  /\ 2 ^ (Bits - 1) * 2 ^ Frac <= 2 ^ (2 * Bits - 1)
ASSUME LcdAssumption == MaxLcdCalls \in Nat
ASSUME UsbAssumption == RingSz \in Nat \ {0} /\ EpLen \in Nat \ {0} /\ UsbBytes \in Nat /\ MaxBus \in Nat
ASSUME FilterAssumption ==
  Counts \subseteq Nat \ {0} /\ Samples \subseteq 0 .. 2 ^ WordBits - 1 /\ ExtraBits \in Nat /\ MaxPushes \in Nat
ASSUME MathAssumption ==
  Operands \subseteq 0 .. 2 ^ (2 * ByteBits) - 1 /\ Families \subseteq {"pic16", "pic18"} /\ Decimals \subseteq 0 .. 99
ASSUME FsmAssumption ==
  /\ Table \in Seq([state : STRING, event : STRING, guard : {"none", "set", "clear"}, action : STRING,
                  next : STRING])
  /\ Start \in STRING /\ MaxNest \in Nat

VARIABLES kind,
          enc, wheel,
          db, pin, now, seen,
          con, typed, lines, calls,
          call, slave, wire, mem, begun,
          tick, reader, elapsed,
          pid, twin, last,
          lcd, todo, display, asked, lcdCalls,
          usb, ep, line,
          avg, pushed, mean,
          job,
          fsm, ctx, frames, moved

Enc == INSTANCE Encoder
Deb == INSTANCE Debounce
Con == INSTANCE Console
Bus == INSTANCE BusMem
Tck == INSTANCE Tick
\* The controller's products, on its words of two bytes.
Words == 0 .. 2 ^ Bits - 1
PidMath == INSTANCE Arithmetic WITH ByteBits <- Bits \div 2
Products == [f \in Families |-> [a \in Words |-> [b \in Words |-> PidMath!MulS16(f, a, b)]]]
Ctl == INSTANCE Pid
Dis == INSTANCE Lcd
Cdc == INSTANCE Usb
Fil == INSTANCE Filter
Mth == INSTANCE Math
FsM == INSTANCE Fsm

\* What the provers ask of products.
ASSUME ProductsAssumption ==
  Products \in [Families -> [Words -> [Words -> Nat]]] /\ \A f \in Families, a \in Words : Products[f][a][0] = 0

\* What the provers ask of digits.
ASSUME DigitsAssumption ==
  Tck!Wrapped \in Nat \ {0} /\ \A n \in 0 .. Tck!Wrapped - 1 : Tck!Value(Tck!Bytes(n)) = n

encVars == <<enc, wheel>>
debVars == <<db, pin, now, seen>>
conVars == <<con, typed, lines, calls>>
busVars == <<call, slave, wire, mem, begun>>
tickVars == <<tick, reader, elapsed>>
pidVars == <<pid, twin, last>>
lcdVars == <<lcd, todo, display, asked, lcdCalls>>
usbVars == <<usb, ep, line>>
first == <<encVars, debVars, conVars, busVars>>
filterVars == <<avg, pushed, mean>>
second == <<tickVars, pidVars, lcdVars, usbVars>>
fsmVars == <<fsm, ctx, frames, moved>>
third == <<filterVars, job, fsmVars>>
vars == <<kind, first, second, third>>

\* Those that rest do so in one initial state of theirs.
Init ==
  /\ kind \in Kinds
  /\ Enc!Init /\ Deb!Init /\ Con!Init /\ Bus!Init /\ Tck!Init /\ Ctl!Init /\ Dis!Init /\ Cdc!Init /\ Fil!Init /\ Mth!Init /\ FsM!Init
  /\ kind = "encoder" \/ enc.gate = CHOOSE g \in Gates : TRUE
  /\ kind = "debounce" \/ (pin /\ db.window = CHOOSE w \in Windows : TRUE)
  /\ kind = "pid" \/ pid = Ctl!PidInit(CHOOSE f \in Families : TRUE, CHOOSE g \in Gains : TRUE, CHOOSE r \in Rails : TRUE)
  /\ kind = "filter" \/ (avg.count = (CHOOSE c \in Counts : TRUE) /\ avg.buf[0] = CHOOSE s \in Samples : TRUE)
  /\ kind = "lcd" \/ (display = Dis!Cold /\ lcd.ops = CHOOSE t \in Transports : TRUE)
  /\ kind = "fsm" \/ ctx

\* A step of one of them.
Only(k, step, rest) == kind = k /\ step /\ UNCHANGED <<kind, rest>>
DebStep(step) == Only("debounce", step, <<encVars, conVars, busVars, second, third>>)
TickStep(step) == Only("tick", step, <<first, pidVars, lcdVars, usbVars, third>>)
UsbStep(step) == Only("usb", step, <<first, tickVars, pidVars, lcdVars, third>>)

Next ==
  \/ Only("encoder", Enc!Next, <<debVars, conVars, busVars, second, third>>)
  \/ DebStep(Deb!Next)
  \/ Only("console", Con!Next, <<encVars, debVars, busVars, second, third>>)
  \/ Only("bus", Bus!Next, <<encVars, debVars, conVars, second, third>>)
  \/ TickStep(Tck!Next)
  \/ Only("pid", Ctl!Next, <<first, tickVars, lcdVars, usbVars, third>>)
  \/ Only("lcd", Dis!Next, <<first, tickVars, pidVars, usbVars, third>>)
  \/ UsbStep(Cdc!Next)
  \/ Only("filter", Fil!Next, <<first, second, job, fsmVars>>)
  \/ Only("math", Mth!Next, <<first, second, filterVars, fsmVars>>)
  \/ Only("fsm", FsM!Next, <<first, second, filterVars, job>>)

\* Those that promise something in the end, with what it takes: the debouncer is
\* polled and its clock runs; time passes, the processor runs and an enabled
\* interrupt is taken; a host that has the device configured takes what it offers.
Spec == Init /\ [][Next]_vars
FairSpec ==
  /\ Spec
  /\ WF_vars(DebStep(Deb!Millisecond)) /\ WF_vars(DebStep(Deb!Poll))
  /\ WF_vars(TickStep(Tck!Pass)) /\ WF_vars(TickStep(Tck!Proceed)) /\ WF_vars(TickStep(Tck!OnOverflow))
  /\ WF_vars(UsbStep(Cdc!Proceeds)) /\ WF_vars(UsbStep(Cdc!HostIn))
-----------------------------------------------------------------------------
\* The properties of the parts, by the names of their modules.

\* Encoder: the count is off by two at most for every error counted.
EncoderDriftBounded == Enc!TypeOK /\ Enc!DriftBounded

\* Debounce: an event says that all polls of the window found the new level, and
\* an input that stays is reported in the end.
DebounceReports == []Deb!TypeOK /\ Deb!EventAfterWindow /\ Deb!FollowsPin

\* Console: one line for every end of line, within its buffer, and a handler gets
\* its words.
ConsoleLines == Con!TypeOK /\ Con!OneLinePerEnd /\ Con!HandlerGetsWords

\* Bus: released between transactions, and a result that tells what went over it.
BusTransactions == Bus!BusReleased /\ Bus!ResultTells

\* Tick: the counter is true and read whole, a delay returns and is short of its
\* milliseconds by less than one, and no period is closer to a millisecond.
TickTells ==
  /\ Tck!PeriodIsClosest /\ []Tck!CountIsTrue /\ Tck!ReadIsWhole /\ Tck!DelayLasts
  /\ Tck!DelayEnds

\* PID: whatever comes in, the output and the integrator stay within the rails, and a
\* reset forgets.
PidKeepsRails == Ctl!WithinRails /\ Ctl!ResetForgets

\* PID: what fits comes out as on paper, and the change from manual to automatic is
\* bumpless if the measurement stood still and the integrator was not clamped.
PidControls == []Ctl!OutputIsDue /\ Ctl!BumplessIfSteady

\* Filter and math: an average is the mean of the last samples, oversampling scales,
\* and a function returns what its name says, unless a carry meets a full byte or a
\* product on PIC16 needs the high byte of its second factor.
NumbersExact ==
  /\ kind = "filter" => Fil!AverageIsMean /\ Fil!OversampleScales
  /\ kind = "math" => Mth!ExactButForCarries

\* FSM: the first row that applies acts, in the state the event was dispatched in.
FsmMoves == FsM!FirstRowActs /\ FsM!LastEndsWins

\* LCD: the display shows what was asked for.
LcdShows == Dis!Shows

=============================================================================
