---------------------------------- MODULE Usb ----------------------------------
(***************************************************************************)
(* epic-usb/src/epic_usb.c between a program that polls and a host that    *)
(* takes packets, resets, configures and halts when it likes.  The stack   *)
(* below (M-Stack) is what its endpoint calls show: the bit by which the   *)
(* hardware owns a buffer, and the configuration.                          *)
(***************************************************************************)
EXTENDS Integers, Sequences, FiniteSets, Functions

CONSTANTS RingSz,    \* EPIC_USB_RING_SZ
          EpLen,     \* EP_2_LEN, bytes in a packet
          UsbBytes,  \* bound: bytes each way
          MaxBus     \* bound: bus events

VARIABLES usb,   \* [pc, left, tx, rx, dtr]: the call under way and the rings
          ep,    \* [configured, halted, busy, in, stalled, full, out]: endpoint 2
          line   \* [next, host, lost, arrived, got, missed, bus]: what went over the bus, and what did not

usbVars == <<usb, ep, line>>

Init ==
  /\ usb = [pc |-> "idle", left |-> 0, tx |-> <<>>, rx |-> <<>>, dtr |-> FALSE]
  /\ ep = [configured |-> FALSE, halted |-> FALSE, busy |-> FALSE, in |-> <<>>, stalled |-> FALSE, full |-> FALSE, out |-> <<>>]
  /\ line = [next |-> 1, host |-> <<>>, lost |-> {}, arrived |-> 0, got |-> <<>>, missed |-> {}, bus |-> 0]

Taken(n, m) == IF n < m THEN n ELSE m
After(s, n) == SubSeq(s, n + 1, Len(s))
State == [usb |-> usb, ep |-> ep, line |-> line]
-----------------------------------------------------------------------------
\* epic_usb_drain_tx: one packet of what the ring holds, if the endpoint is free.
DrainTx(s) ==
  LET n == Taken(Len(s.usb.tx), EpLen) IN
  IF ~s.ep.configured \/ s.ep.halted \/ s.ep.busy \/ s.usb.tx = <<>> THEN s
  ELSE [s EXCEPT !.ep.in = SubSeq(s.usb.tx, 1, n), !.ep.busy = TRUE, !.usb.tx = After(@, n)]

\* epic_usb_drain_rx: what the ring has no room for is dropped, and the endpoint armed.
DrainRx(s) ==
  LET n == Taken(Len(s.ep.out), RingSz - Len(s.usb.rx)) IN
  IF ~s.ep.configured \/ s.ep.stalled \/ ~s.ep.full THEN s
  ELSE [s EXCEPT !.usb.rx = @ \o SubSeq(s.ep.out, 1, n), !.line.missed = @ \cup Range(After(s.ep.out, n)),
                 !.ep.full = FALSE, !.ep.out = <<>>]

\* usb_service and the callbacks it makes for what the host did since: a reset takes
\* the packets in both directions with it, a halt the one of its direction.
Dropped(s) == [s EXCEPT !.line.lost = @ \cup Range(s.ep.in), !.ep.in = <<>>]
Spilled(s) == [s EXCEPT !.line.missed = @ \cup Range(s.ep.out), !.ep.out = <<>>, !.ep.full = FALSE]
ResetCb(s) == [s EXCEPT !.usb.dtr = FALSE]
SetControlLineStateCb(s, dtr) == [s EXCEPT !.usb.dtr = dtr]
Stack(s, event) ==
  CASE event = "none" -> s
    [] event = "reset" -> ResetCb([Spilled(Dropped(s)) EXCEPT !.ep.configured = FALSE, !.ep.halted = FALSE, !.ep.busy = FALSE, !.ep.stalled = FALSE])
    [] event = "configure" -> [s EXCEPT !.ep.configured = TRUE]
    [] event = "halt" -> IF s.ep.configured THEN [Dropped(s) EXCEPT !.ep.halted = TRUE, !.ep.busy = TRUE] ELSE s
    [] event = "resume" -> IF s.ep.halted THEN [s EXCEPT !.ep.halted = FALSE, !.ep.busy = FALSE] ELSE s
    [] event = "stall" -> IF s.ep.configured THEN [Spilled(s) EXCEPT !.ep.stalled = TRUE] ELSE s
    [] event = "unstall" -> [s EXCEPT !.ep.stalled = FALSE]
    [] event = "open" -> IF s.ep.configured THEN SetControlLineStateCb(s, TRUE) ELSE s
    [] event = "close" -> SetControlLineStateCb(s, FALSE)
Rare == {"reset", "halt", "stall", "open", "close"}
Events == {"none", "configure", "resume", "unstall"} \cup (IF line.bus < MaxBus THEN Rare ELSE {})

\* epic_usb_service, after which the call under way is at pc.
Service(pc) ==
  \E event \in Events :
    LET s == DrainRx(DrainTx(Stack(State, event))) IN
    /\ usb' = [s.usb EXCEPT !.pc = pc] /\ ep' = s.ep
    /\ line' = [s.line EXCEPT !.bus = IF event \in Rare THEN @ + 1 ELSE @]
-----------------------------------------------------------------------------
BeginWrite(n) ==
  /\ usb.pc = "idle" /\ line.next + n - 1 <= UsbBytes
  /\ usb' = [usb EXCEPT !.pc = IF n = 0 THEN "kick" ELSE "put", !.left = n]
  /\ UNCHANGED <<ep, line>>

PutByte ==
  /\ usb.pc = "put" /\ Len(usb.tx) < RingSz
  /\ usb' = [usb EXCEPT !.tx = Append(@, line.next), !.left = @ - 1, !.pc = IF usb.left = 1 THEN "kick" ELSE "put"]
  /\ line' = [line EXCEPT !.next = @ + 1]
  /\ UNCHANGED ep

PutWaits == usb.pc = "put" /\ Len(usb.tx) >= RingSz /\ Service("put")
Kick == usb.pc = "kick" /\ Service("idle")

BeginFlush == usb.pc = "idle" /\ usb' = [usb EXCEPT !.pc = "flush"] /\ UNCHANGED <<ep, line>>
Flushing == usb.tx # <<>> \/ ep.busy
FlushWaits == usb.pc = "flush" /\ Flushing /\ Service("flush")
FlushReturns == usb.pc = "flush" /\ ~Flushing /\ usb' = [usb EXCEPT !.pc = "idle"] /\ UNCHANGED <<ep, line>>

Read(max) ==
  /\ usb.pc = "idle"
  /\ LET n == Taken(max, Len(usb.rx)) IN
     /\ usb' = [usb EXCEPT !.rx = After(@, n)]
     /\ line' = [line EXCEPT !.got = @ \o SubSeq(usb.rx, 1, n)]
  /\ UNCHANGED ep

Poll == usb.pc = "idle" /\ Service("idle")
Main == (\E n \in 0 .. UsbBytes : BeginWrite(n)) \/ BeginFlush \/ (\E max \in 1 .. RingSz : Read(max)) \/ Poll
Proceeds == PutByte \/ PutWaits \/ Kick \/ FlushWaits \/ FlushReturns

\* The host asks for the packet that waits, or sends one into an armed endpoint.
HostIn ==
  /\ ep.configured /\ ~ep.halted /\ ep.busy
  /\ ep' = [ep EXCEPT !.busy = FALSE, !.in = <<>>]
  /\ line' = [line EXCEPT !.host = @ \o ep.in]
  /\ UNCHANGED usb
HostOut(n) ==
  /\ ep.configured /\ ~ep.stalled /\ ~ep.full /\ line.arrived + n <= UsbBytes
  /\ ep' = [ep EXCEPT !.full = TRUE, !.out = [i \in 1 .. n |-> line.arrived + i]]
  /\ line' = [line EXCEPT !.arrived = @ + n]
  /\ UNCHANGED usb

Next == Main \/ Proceeds \/ HostIn \/ \E n \in 1 .. EpLen : HostOut(n)
-----------------------------------------------------------------------------
\* Both streams keep their bytes, in order and once each: what is missing went with a
\* reset or a halt, or found the receive ring full.
Conserved ==
  /\ line.host \o ep.in \o usb.tx = SelectSeq([i \in 1 .. line.next - 1 |-> i], LAMBDA i : i \notin line.lost)
  /\ line.got \o usb.rx \o ep.out = SelectSeq([i \in 1 .. line.arrived |-> i], LAMBDA i : i \notin line.missed)

\* epic_usb_connected never tells of a terminal from before a reset.
NeverStale == usb.dtr => ep.configured

\* A flush returns when the host has every byte that was not lost on the way.
FlushMeans ==
  [][usb.pc = "flush" /\ usb'.pc = "idle" => Len(line.host) + Cardinality(line.lost) = line.next - 1]_usbVars

\* A blocked call comes back, if the host comes to stay.
HostStays == <>[](ep.configured /\ ~ep.halted)
CallsReturn == HostStays => (usb.pc # "idle" ~> usb.pc = "idle")
=============================================================================
