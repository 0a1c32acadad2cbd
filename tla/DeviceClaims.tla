----------------------------- MODULE DeviceClaims -----------------------------
(***************************************************************************)
(* What headers and documents of the small modules say without the         *)
(* exceptions that the properties of Devices make.  A behaviour takes the  *)
(* modules one after the other: it runs one until it has broken what is    *)
(* said of it, and notes what shows it.  The modules share no state, so a  *)
(* module that has not begun is in an initial state, and two states that   *)
(* agree on the claims broken and on the module at work go on alike.       *)
(***************************************************************************)
EXTENDS Integers, Sequences

CONSTANTS Delays,    \* milliseconds asked of Tick
          Operands   \* bytes and words of Math

VARIABLES tick, reader, elapsed,
          pid, twin, last,
          job,
          lcd, todo, display, asked, lcdCalls,
          broken   \* the claims broken so far, in the order of Claims, with what shows it

Tck == INSTANCE Tick WITH Base <- 2, Places <- 3, Phases <- 3, Targets <- {1}
Words == 0 .. 15
Gains == {[kp |-> 3, ki |-> 2, kd |-> 1], [kp |-> 7, ki |-> -1, kd |-> -3]}
Rails == {[min |-> -4, max |-> 6], [min |-> 1, max |-> 5]}
Readings == {-8, 3, 7}
Arith == INSTANCE Arithmetic WITH ByteBits <- 2
Ctl == INSTANCE Pid WITH Bits <- 4, Frac <- 2, Families <- {"pic18"},
         Products <- [f \in {"pic18"} |-> [a \in Words |-> [b \in Words |-> Arith!MulS16(f, a, b)]]]
Mth == INSTANCE Math WITH ByteBits <- 4, Families <- {"pic16", "pic18"}, Decimals <- {}
\* The shipped transports: the sends of the one for eight lines take the 40 us that
\* ARCHITECTURE.md counts on, those of the one for four are so slow that no instruction
\* is still executing when the next byte comes.
EightLines == [kind |-> "gpio8", send |-> 1]
FourLines == [kind |-> "gpio4", send |-> 39]
Dis == INSTANCE Lcd WITH Transports <- {EightLines}, MaxLcdCalls <- 0

tickVars == <<tick, reader, elapsed>>
pidVars == <<pid, twin, last>>
lcdVars == <<lcd, todo, display, asked, lcdCalls>>

\* In the order in which a behaviour comes to them.
Claims == <<
  "LastsAsAsked",            \* epic_tick.h:40, "Guarantees at least ms"
  "SumsAndClamps",           \* pid.h:99, "clamp((P+I+D) >> 8, out_min, out_max)"
  "Bumpless",                \* epic-pid/docs/API.md:154, "the held output equals the next AUTO call's"
  "CarriesKept",             \* pic_math.h:100, "set true on overflow", and the vectors of the tests
  "ProductsUseBothBytes",    \* golden_vectors.h:28, 0x0102 * 0x0103 = 0x00010506
  "Shows",                   \* ARCHITECTURE.md:50 of epic-lcd, "every command is followed by a delay matching"
  "LinesAgree">>             \* ARCHITECTURE.md:64 of epic-lcd, "three times, then 0x2 to switch to 4-bit"
Left == Len(Claims) - Len(broken)
Claim == IF Left = 0 THEN "none" ELSE Claims[Len(broken) + 1]

Init ==
  /\ Tck!Init /\ Ctl!Init /\ Mth!Init /\ Dis!Init
  /\ display = Dis!Cold /\ broken = <<>>

\* A step with the module a claim is about, and whether the claim survives it.
Try(claim, step, kept, sight) ==
  /\ Claim = claim /\ step
  /\ broken' = IF kept THEN broken ELSE Append(broken, [claim |-> claim, seen |-> sight])

Delay ==
  /\ Try("LastsAsAsked", Tck!Next, Tck!LastsAsAsked, [asked |-> reader.ms * 3, took |-> elapsed.since])
  /\ UNCHANGED <<pidVars, job, lcdVars>>
Control ==
  /\ \/ Try("SumsAndClamps", Ctl!Next, Ctl!SumsAndClamps', [returned |-> last'.out, due |-> last'.due])
     \/ Try("Bumpless", Ctl!Next, Ctl!Bumpless, [manual |-> last.out, auto |-> last'.out])
  /\ UNCHANGED <<tickVars, job, lcdVars>>
\* One call after the other.
Again == job # Mth!NoJob /\ job' = Mth!NoJob
Calculate ==
  /\ \/ Try("CarriesKept", Mth!Next \/ Again, Mth!CarriesKept', job')
     \/ Try("ProductsUseBothBytes", Mth!Next \/ Again, Mth!ProductsUseBothBytes', job')
  /\ UNCHANGED <<tickVars, pidVars, lcdVars>>
Display ==
  /\ \/ Try("Shows", Dis!Next, Dis!Shows', [asked |-> asked.cells, shown |-> display'.cells])
     \/ Try("LinesAgree", Dis!Next, Dis!LinesAgree', [transport |-> 4, controller |-> display'.bus])
  /\ UNCHANGED <<tickVars, pidVars, job>>
\* The other transport, with a display of its own.
Rewire ==
  /\ Claim = "LinesAgree" /\ lcd.ops = EightLines
  /\ lcd' = [ops |-> FourLines, display_ctrl |-> 4] /\ todo' = Dis!LcdInit
  /\ display' = Dis!Cold /\ asked' = Dis!Fresh /\ lcdCalls' = 0
  /\ UNCHANGED <<tickVars, pidVars, job, broken>>

Next == Delay \/ Control \/ Calculate \/ Display \/ Rewire
Spec == Init /\ [][Next]_<<tickVars, pidVars, job, lcdVars, broken>>
-----------------------------------------------------------------------------
\* What of a state the rest of a behaviour depends on: the module whose claim is next.
Here ==
  CASE Claim = "LastsAsAsked" -> tickVars
    [] Claim \in {"SumsAndClamps", "Bumpless"} -> pidVars
    [] Claim \in {"CarriesKept", "ProductsUseBothBytes"} -> <<job>>
    [] Claim \in {"Shows", "LinesAgree"} -> lcdVars
    [] OTHER -> <<>>
View == <<Claim, Here>>

\* A delay lasts as long as it was asked to; a controller returns its clamped sum and
\* changes from manual to automatic without a bump; carries reach the next byte and
\* products use both bytes; the display shows what it was sent on eight lines and is
\* brought into the mode of four.  One of the seven holds: a behaviour that breaks
\* this has broken each of them.
SomeDeviceClaimHolds == Left > 0
=============================================================================
