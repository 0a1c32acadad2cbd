-------------------------------- MODULE Debounce --------------------------------
(***************************************************************************)
(* epic-debounce/src/debounce.c: an input polled on a millisecond clock    *)
(* that wraps.                                                             *)
(***************************************************************************)
EXTENDS Integers

CONSTANTS Windows,   \* values of debounce_ms
          ClockMod,  \* 2^32 in the code: width of the tick counter
          PollWithin \* milliseconds between two polls, at most

VARIABLES db,     \* [window, since, candidate, stable]
          pin,    \* the input
          now,    \* epic_tick_get()
          seen    \* [level, held, idle]: level of the last poll, milliseconds all polls
                  \* have found it, and milliseconds since the last poll

debVars == <<db, pin, now, seen>>

\* debounce_init reads the pin: an input held at boot is no event.
Init ==
  /\ pin \in BOOLEAN /\ now = 0
  /\ db \in {[window |-> w, since |-> 0, candidate |-> pin, stable |-> pin] : w \in Windows}
  /\ seen = [level |-> pin, held |-> 0, idle |-> 0]

Flip ==
  /\ pin' = ~pin
  /\ UNCHANGED <<db, now, seen>>

Millisecond ==
  /\ seen.idle < PollWithin
  /\ now' = (now + 1) % ClockMod
  /\ seen' = [seen EXCEPT !.idle = @ + 1, !.held = IF @ < db.window THEN @ + 1 ELSE @]
  /\ UNCHANGED <<db, pin>>

Elapsed == (now - db.since) % ClockMod
Looked == seen' = [level |-> pin, held |-> IF seen.level = pin THEN seen.held ELSE 0, idle |-> 0]
-----------------------------------------------------------------------------
\* debounce_poll.  Faulty: the timer keeps running.
PollChangedKeeps ==
  /\ pin # db.candidate
  /\ db' = [db EXCEPT !.candidate = pin]
  /\ Looked /\ UNCHANGED <<pin, now>>

PollChanged ==
  /\ pin # db.candidate
  /\ db' = [db EXCEPT !.candidate = pin, !.since = now]
  /\ Looked /\ UNCHANGED <<pin, now>>

\* The event: PRESSED if the pin is active, RELEASED if not.
PollCommits ==
  /\ pin = db.candidate /\ pin # db.stable /\ Elapsed >= db.window
  /\ db' = [db EXCEPT !.stable = pin]
  /\ Looked /\ UNCHANGED <<pin, now>>

PollNothing ==
  /\ pin = db.candidate /\ (pin = db.stable \/ Elapsed < db.window)
  /\ Looked /\ UNCHANGED <<db, pin, now>>

Poll == PollChanged \/ PollCommits \/ PollNothing
Next == Flip \/ Millisecond \/ Poll
-----------------------------------------------------------------------------
TypeOK ==
  /\ db \in [window : Windows, since : 0 .. ClockMod - 1, candidate : BOOLEAN, stable : BOOLEAN]
  /\ pin \in BOOLEAN /\ now \in 0 .. ClockMod - 1

\* An event says that every poll of the last debounce_ms found the new level,
\* whenever the tick counter wraps.
EventAfterWindow ==
  [][db'.stable # db.stable => db'.stable = seen.level /\ seen.held >= db.window]_debVars

\* An input that stays at a level is reported at that level in the end.
FollowsPin == \A level \in BOOLEAN : <>[](pin = level) => <>[](db.stable = level)
=============================================================================
