---------------------------------- MODULE Fsm ----------------------------------
(***************************************************************************)
(* epic-fsm: one machine, its table scanned row by row.  Guards look at a  *)
(* flag of the context, which changes under them; actions change it, or    *)
(* dispatch an event themselves.                                           *)
(***************************************************************************)
EXTENDS Integers, Sequences

CONSTANTS Table,      \* rows: [state, event, guard, action, next]
          Start,      \* initial state
          MaxNest     \* bound: dispatches inside one another

VARIABLES fsm,        \* state of the machine
          ctx,        \* the flag guards look at
          frames,     \* dispatches under way, the innermost first
          moved       \* where the transition that ended last led

ANY_STATE == "any"
Init == fsm = Start /\ ctx \in BOOLEAN /\ frames = <<>> /\ moved = Start

EventsOf == {Table[r].event : r \in DOMAIN Table}

Running == frames # <<>>
Top == Head(frames)
Frame(event) == [event |-> event, row |-> 1, from |-> fsm, rejected |-> {}, nested |-> FALSE, acts |-> FALSE]
WithTop(frame) == <<frame>> \o Tail(frames)

\* fsm_dispatch from the main program.
Dispatch ==
  /\ ~Running
  /\ \E event \in EventsOf : frames' = <<Frame(event)>>
  /\ UNCHANGED <<fsm, ctx, moved>>

Row == Table[Top.row]
Scans == Running /\ ~Top.acts /\ Top.row <= Len(Table)
IsFor == Row.state \in {fsm, ANY_STATE} /\ Row.event = Top.event
Passes == Row.guard = "none" \/ (Row.guard = "set") = ctx

\* Faulty: a guard that rejects ends the scan.
SkipStops ==
  /\ Scans /\ ~(IsFor /\ Passes)
  /\ frames' = WithTop([Top EXCEPT !.row = IF IsFor THEN Len(Table) + 1 ELSE @ + 1,
                                   !.rejected = IF IsFor THEN @ \cup {Top.row} ELSE @])
  /\ UNCHANGED <<fsm, ctx, moved>>
Skip ==
  /\ Scans /\ ~(IsFor /\ Passes)
  /\ frames' = WithTop([Top EXCEPT !.row = @ + 1, !.rejected = IF IsFor THEN @ \cup {Top.row} ELSE @])
  /\ UNCHANGED <<fsm, ctx, moved>>

\* The action of the row, inside which an event may be dispatched.
Act ==
  /\ Scans /\ IsFor /\ Passes
  /\ ctx' = IF Row.action = "flip" THEN ~ctx ELSE ctx
  /\ LET acting == WithTop([Top EXCEPT !.acts = TRUE, !.nested = Row.action \in EventsOf])
     IN frames' = IF Row.action \in EventsOf /\ Len(frames) < MaxNest
                  THEN <<Frame(Row.action)>> \o acting ELSE acting
  /\ UNCHANGED <<fsm, moved>>

Move ==
  /\ Running /\ Top.acts
  /\ fsm' = Row.next
  /\ moved' = Row.next
  /\ frames' = Tail(frames)
  /\ UNCHANGED ctx

NoRow ==
  /\ Running /\ Top.row > Len(Table)
  /\ frames' = Tail(frames)
  /\ UNCHANGED <<fsm, ctx, moved>>

\* What the guards look at changes under the scan.
Change == Running /\ ~Top.acts /\ ctx' = ~ctx /\ UNCHANGED <<fsm, frames, moved>>

Next == Dispatch \/ Skip \/ Act \/ Move \/ NoRow \/ Change
-----------------------------------------------------------------------------
\* A row acts only if every row before it that is for the state and the event had its
\* guard reject it; the state the action runs in is the one the event was dispatched
\* in; and an event that nothing took found no row without a guard.
FirstRowActs ==
  Running =>
    /\ fsm = Top.from \/ Top.nested
    /\ \A r \in 1 .. Top.row - 1 :
         Table[r].event = Top.event /\ Table[r].state \in {Top.from, ANY_STATE}
           => r \in Top.rejected /\ Table[r].guard # "none"

\* The machine is where the transition that ended last led; where an action dispatched
\* an event of its own, that is the outer one, and what the inner one led to is gone.
LastEndsWins == fsm = moved
=============================================================================
