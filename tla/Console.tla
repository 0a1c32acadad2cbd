-------------------------------- MODULE Console --------------------------------
(***************************************************************************)
(* epic-console/src/epic_console.c: keys into an edited line, lines into   *)
(* words, words into a call.                                               *)
(***************************************************************************)
EXTENDS Integers, Sequences, SequencesExt, FiniteSets

CONSTANTS Letters,   \* printing characters other than blank
          Commands,  \* names in the command table, as sequences of letters
          LineMax,   \* EPIC_CONSOLE_LINE_MAX
          MaxArgs,   \* EPIC_CONSOLE_MAX_ARGS
          MaxKeys    \* bound: keys typed

VARIABLES con,    \* [line, last_was_cr]
          typed,  \* keys so far
          lines,  \* lines dispatched
          calls   \* arguments of the handlers called

conVars == <<con, typed, lines, calls>>

Blank == " "
Printing == Letters \cup {Blank}
Keys == Printing \cup {"CR", "LF", "BS"}

Init == con = [line |-> <<>>, last_was_cr |-> FALSE] /\ typed = <<>> /\ lines = <<>> /\ calls = <<>>
-----------------------------------------------------------------------------
\* console_tokenize: one pass, a word begins at a letter after a blank and room
\* for it in argv.  Faulty: room for one word more.
StepWith(max, t, c) ==
  CASE c = Blank -> [t EXCEPT !.inside = FALSE]
    [] c # Blank /\ t.inside -> [t EXCEPT !.argv[Len(t.argv)] = Append(@, c)]
    [] c # Blank /\ ~t.inside /\ Len(t.argv) < max ->
         [t EXCEPT !.argv = Append(@, <<c>>), !.inside = TRUE]
    [] OTHER -> t
Words(max, line) ==
  FoldLeft(LAMBDA t, c : StepWith(max, t, c), [argv |-> <<>>, inside |-> FALSE], line).argv
TokenizeOver(line) == Words(MaxArgs + 1, line)
Tokenize(line) == Words(MaxArgs, line)

\* console_dispatch.
Dispatch ==
  LET argv == Tokenize(con.line)
  IN /\ lines' = Append(lines, con.line)
     /\ calls' = IF argv # <<>> /\ argv[1] \in Commands
                 THEN Append(calls, argv) ELSE calls

Typed(c) == Len(typed) < MaxKeys /\ typed' = Append(typed, c)

\* epic_console_poll, one turn of its loop.
NewlineAfterCr ==
  /\ Typed("LF") /\ con.last_was_cr
  /\ con' = [con EXCEPT !.last_was_cr = FALSE]
  /\ UNCHANGED <<lines, calls>>

\* Faulty: the mark is not set again.
EnterForgets(c) ==
  /\ Typed(c) /\ ~(c = "LF" /\ con.last_was_cr)
  /\ Dispatch
  /\ con' = [line |-> <<>>, last_was_cr |-> FALSE]

Enter(c) ==
  /\ Typed(c) /\ ~(c = "LF" /\ con.last_was_cr)
  /\ Dispatch
  /\ con' = [line |-> <<>>, last_was_cr |-> c = "CR"]

Erase ==
  /\ Typed("BS")
  /\ con' = [line |-> IF con.line = <<>> THEN <<>> ELSE Front(con.line), last_was_cr |-> FALSE]
  /\ UNCHANGED <<lines, calls>>

Character(c) ==
  /\ Typed(c)
  /\ con' = [line |-> IF Len(con.line) < LineMax - 1 THEN Append(con.line, c) ELSE con.line,
             last_was_cr |-> FALSE]
  /\ UNCHANGED <<lines, calls>>

Next ==
  \/ NewlineAfterCr \/ Enter("CR") \/ Enter("LF") \/ Erase
  \/ \E c \in Printing : Character(c)
-----------------------------------------------------------------------------
\* The line and its terminator fit the buffer.
TypeOK ==
  /\ con.line \in Seq(Printing) /\ Len(con.line) + 1 <= LineMax
  /\ con.last_was_cr \in BOOLEAN

\* Every end of line makes one line, however the sender spells it: CR, LF or both.
OneLinePerEnd ==
  Len(lines) = Cardinality({i \in DOMAIN typed : typed[i] = "CR"
                              \/ (typed[i] = "LF" /\ ~(i > 1 /\ typed[i - 1] = "CR"))})

\* Each line whose first word is a command calls a handler, once and in order, with
\* the words of the line as a reader sees them, at most MaxArgs of them.
Starts(line) == {i \in DOMAIN line : line[i] # Blank /\ (i = 1 \/ line[i - 1] = Blank)}
WordAt(line, i) ==
  LET ends == {j \in i .. Len(line) : \A m \in i .. j : line[m] # Blank}
  IN SubSeq(line, i, CHOOSE j \in ends : \A m \in ends : m <= j)
Read(line) ==
  LET starts == SetToSortSeq(Starts(line), <)
  IN [w \in 1 .. (IF Len(starts) < MaxArgs THEN Len(starts) ELSE MaxArgs) |-> WordAt(line, starts[w])]
HandlerGetsWords ==
  calls = SelectSeq([n \in DOMAIN lines |-> Read(lines[n])],
                    LAMBDA words : words # <<>> /\ words[1] \in Commands)
=============================================================================
