---------------------------------- MODULE Pid ----------------------------------
(***************************************************************************)
(* epic-pid/src/pid.c: the fixed-point controller in words of Bits bits    *)
(* with Frac bits of fraction (16 and 8 in the code), and beside it a twin *)
(* that is initialised anew whenever the controller is reset.              *)
(***************************************************************************)
EXTENDS Integers

CONSTANTS Bits, Frac,  \* widths of int16_t and of its fraction
          Gains,       \* [kp, ki, kd] the caller sets
          Rails,       \* [min, max] at initialisation
          Readings,    \* setpoints, measurements and manual outputs
          Families,    \* processors it is built for: "pic16", "pic18"
          Products     \* pic_math_mul_s16 of each, as a function of two words

VARIABLES pid,   \* pid_t, and the processor it was built for
          twin,  \* a pid_t as fresh as the last reset
          last   \* the last call of pid_update, and what it would be on paper

pidVars == <<pid, twin, last>>

One == 2 ^ Frac
Wrap(x, n) == ((x + 2 ^ (n - 1)) % 2 ^ n) - 2 ^ (n - 1)
Short(x) == Wrap(x, Bits)
Long(x) == Wrap(x, 2 * Bits)
Clamped(x, rails) == IF x < rails.min THEN rails.min ELSE IF x > rails.max THEN rails.max ELSE x
ClampedQ(x, rails) == Clamped(x, [min |-> rails.min * One, max |-> rails.max * One])

Product(p, a, b) == Long(Products[p.family][a % 2 ^ Bits][b % 2 ^ Bits])

PidInit(family, gains, rails) ==
  [family |-> family, gains |-> gains, rails |-> rails, integrator |-> 0, prev |-> 0, have_prev |-> FALSE, skip |-> FALSE, mode |-> "auto", manual |-> 0]
-----------------------------------------------------------------------------
\* pid_update.  The difference of the readings and the sum come out of a cast.
Error(sp, meas) == Short(sp - meas)
P(p, sp, meas) == Product(p, p.gains.kp, Error(sp, meas))
I(p, sp, meas) == Product(p, p.gains.ki, Error(sp, meas))
Dmeas(p, meas) == IF p.have_prev THEN Short(meas - p.prev) ELSE 0
D(p, meas) == -Product(p, p.gains.kd, Dmeas(p, meas))
Seen(p, meas) == [p EXCEPT !.prev = meas, !.have_prev = TRUE]

UpdateManual(p, sp, meas) ==
  LET out == Clamped(p.manual, p.rails)
  IN  [out |-> out,
       pid |-> [Seen(p, meas) EXCEPT !.integrator = ClampedQ(Long(out * One - P(p, sp, meas) - D(p, meas)), p.rails), !.skip = TRUE]]

\* Faulty: the increment is counted in the first automatic call too.
UpdateAutoTwice(p, sp, meas) ==
  LET i == ClampedQ(p.integrator + I(p, sp, meas), p.rails)
  IN  [out |-> Clamped(Short(Long(P(p, sp, meas) + i + D(p, meas)) \div One), p.rails),
       pid |-> [Seen(p, meas) EXCEPT !.integrator = i, !.skip = FALSE]]

UpdateAuto(p, sp, meas) ==
  LET i == ClampedQ(p.integrator + (IF p.skip THEN 0 ELSE I(p, sp, meas)), p.rails)
  IN  [out |-> Clamped(Short(Long(P(p, sp, meas) + i + D(p, meas)) \div One), p.rails),
       pid |-> [Seen(p, meas) EXCEPT !.integrator = i, !.skip = FALSE]]

Updated(p, sp, meas) == IF p.mode = "manual" THEN UpdateManual(p, sp, meas) ELSE UpdateAuto(p, sp, meas)

\* On paper, where products are exact and no word is too short: what the automatic
\* call adds up.
Sum(p, integrator, sp, meas) == p.gains.kp * (sp - meas) + integrator - p.gains.kd * (IF p.have_prev THEN meas - p.prev ELSE 0)

\* Whether the terms of a call are those on paper, and their sum fits the word it
\* is cast to before it is clamped.
FitsWords(p, i, d, paper) == p + i + d = paper /\ paper = Long(paper) /\ paper \div One = Short(paper \div One)

NoCall == [sp |-> 0, meas |-> 0, mode |-> "none", out |-> 0, twin |-> 0, due |-> 0, fits |-> FALSE, steady |-> FALSE, kept |-> FALSE]
\* The call that did u to the controller and v to its twin.
Noted(sp, meas, u, v) ==
  LET manual == pid.mode = "manual"
      p == P(pid, sp, meas)
      d == D(pid, meas)
      i == u.pid.integrator
      paper == Sum(pid, i, sp, meas)
  IN  [sp |-> sp, meas |-> meas, mode |-> pid.mode, out |-> u.out, twin |-> v.out,
       due |-> IF manual THEN Clamped(pid.manual, pid.rails) ELSE Clamped(paper \div One, pid.rails),
       fits |-> manual \/ FitsWords(p, i, d, paper),
       steady |-> d = 0, kept |-> manual /\ i = u.out * One - p - d]
-----------------------------------------------------------------------------
Init ==
  /\ \E family \in Families, gains \in Gains, rails \in Rails : pid = PidInit(family, gains, rails)
  /\ twin = pid /\ last = NoCall

\* The header asks for a difference of setpoint and measurement that fits a word.
Update(sp, meas) ==
  /\ sp - meas \in (1 - 2 ^ (Bits - 1)) .. (2 ^ (Bits - 1) - 1)
  /\ LET u == Updated(pid, sp, meas)
         v == Updated(twin, sp, meas)
     IN  pid' = u.pid /\ twin' = v.pid /\ last' = Noted(sp, meas, u, v)

\* Faulty: the history of the measurement outlives the reset.
ResetKeepsHistory ==
  /\ pid' = [pid EXCEPT !.integrator = 0, !.skip = FALSE]
  /\ twin' = [PidInit(pid.family, pid.gains, pid.rails) EXCEPT !.mode = pid.mode, !.manual = pid.manual]
  /\ last' = NoCall

Reset ==
  /\ pid' = [pid EXCEPT !.integrator = 0, !.have_prev = FALSE, !.skip = FALSE]
  /\ twin' = [PidInit(pid.family, pid.gains, pid.rails) EXCEPT !.mode = pid.mode, !.manual = pid.manual]
  /\ last' = NoCall

SetGains(gains) == pid' = [pid EXCEPT !.gains = gains] /\ twin' = [twin EXCEPT !.gains = gains] /\ last' = NoCall
SetMode(mode) == pid' = [pid EXCEPT !.mode = mode] /\ twin' = [twin EXCEPT !.mode = mode] /\ UNCHANGED last
SetManualOutput(value) == pid' = [pid EXCEPT !.manual = value] /\ twin' = [twin EXCEPT !.manual = value] /\ UNCHANGED last

Next ==
  \/ \E sp, meas \in Readings : Update(sp, meas)
  \/ Reset
  \/ \E gains \in Gains : SetGains(gains)
  \/ \E mode \in {"auto", "manual"} : SetMode(mode)
  \/ \E value \in Readings : SetManualOutput(value)
-----------------------------------------------------------------------------
\* After a call output and integrator are within the rails.
WithinRails ==
  last.mode # "none" =>
    last.out = Clamped(last.out, pid.rails) /\ pid.integrator = ClampedQ(pid.integrator, pid.rails)

\* A controller that was reset goes on as one that was just initialised.
ResetForgets == last.out = last.twin

\* The output is the one the controller has on paper, as long as the products are
\* exact and the sum fits the word it is cast to.
OutputIsDue == last.fits => last.out = last.due

\* pid.h: an automatic call returns the sum of its terms, clamped.
SumsAndClamps == last.mode = "auto" => last.out = last.due

\* From manual to automatic with nothing else changed.
Handover == last.mode = "manual" /\ last'.mode = "auto" /\ <<last'.sp, last'.meas>> = <<last.sp, last.meas>>

\* The output stays if the integrator took in what the manual call left to it,
\* unclamped, and no derivative was worked into it.
BumplessIfSteady == [][last.kept /\ last.steady /\ Handover => last'.out = last.out]_pidVars

\* docs/API.md: it stays, if the next automatic call is given the same readings.
Bumpless == Handover => last'.out = last.out
=============================================================================
