-------------------------------- MODULE BusMem --------------------------------
(***************************************************************************)
(* The I2C transactions of epic-bus/src/epic_bus.c, operation by operation *)
(* of the bus, with a register device that acknowledges or not.            *)
(***************************************************************************)
EXTENDS Integers, Sequences

CONSTANTS MaxLen,   \* bytes in a transaction
          MaxCalls  \* bound: transactions

VARIABLES call,    \* [op, n, pc, i, result] of the transaction under way, or the last
          slave,   \* [expects, drives]: what the device takes the next byte for, and
                   \* whether it holds the data line for a byte of its own
          wire,    \* the transaction as it went over the bus
          mem,     \* bytes the device has stored, and sent, in this transaction
          begun

busVars == <<call, slave, wire, mem, begun>>

NoCall == [op |-> "none", n |-> 0, pc |-> "idle", i |-> 0, result |-> 0]
Silent == [expects |-> "nothing", drives |-> FALSE]

Init ==
  /\ call = NoCall /\ slave = Silent /\ wire = <<>> /\ begun = 0
  /\ mem = [stored |-> 0, sent |-> 0]

\* epic_bus_i2c_mem_write or _read: START.
BeginMem(op, n) ==
  /\ call.pc = "idle" /\ begun < MaxCalls
  /\ call' = [op |-> op, n |-> n, pc |-> "address", i |-> 0, result |-> 0]
  /\ slave' = [Silent EXCEPT !.expects = "address"]
  /\ wire' = <<"START">>
  /\ mem' = [stored |-> 0, sent |-> 0]
  /\ begun' = begun + 1

\* o->write_byte: the device acknowledges or not, and acts on what it took.
Accepts(ack, becomes) ==
  /\ wire' = Append(wire, IF ack THEN "ACK" ELSE "NACK")
  /\ slave' = IF ack THEN becomes ELSE Silent
Taking(what) == [expects |-> what, drives |-> FALSE]
Sending == [expects |-> "ack", drives |-> TRUE]
Proceed(ack, pc) ==
  call' = IF ack THEN [call EXCEPT !.pc = pc] ELSE [call EXCEPT !.pc = "stop", !.result = -1]

WriteAddress(ack) ==
  /\ call.pc = "address"
  /\ Accepts(ack, Taking("register")) /\ Proceed(ack, "register")
  /\ UNCHANGED <<mem, begun>>

AfterRegister == IF call.op = "read" THEN "restart" ELSE IF call.n = 0 THEN "stop" ELSE "data"
WriteRegister(ack) ==
  /\ call.pc = "register"
  /\ Accepts(ack, Taking("data"))
  /\ call' = IF ~ack THEN [call EXCEPT !.pc = "stop", !.result = -1]
             ELSE [call EXCEPT !.pc = AfterRegister, !.result = call.n]
  /\ UNCHANGED <<mem, begun>>

\* Faulty: the acknowledge of the data bytes is not looked at.
WriteDataBlind(ack) ==
  /\ call.pc = "data"
  /\ Accepts(ack, Taking("data"))
  /\ mem' = IF ack THEN [mem EXCEPT !.stored = @ + 1] ELSE mem
  /\ call' = [call EXCEPT !.i = @ + 1, !.pc = IF call.i + 1 = call.n THEN "stop" ELSE "data"]
  /\ UNCHANGED begun

WriteData(ack) ==
  /\ call.pc = "data"
  /\ Accepts(ack, Taking("data"))
  /\ mem' = IF ack THEN [mem EXCEPT !.stored = @ + 1] ELSE mem
  /\ call' = IF ~ack THEN [call EXCEPT !.pc = "stop", !.result = -1]
             ELSE [call EXCEPT !.i = @ + 1, !.pc = IF call.i + 1 = call.n THEN "stop" ELSE "data"]
  /\ UNCHANGED begun

RepeatedStart ==
  /\ call.pc = "restart"
  /\ call' = [call EXCEPT !.pc = "readdress"]
  /\ slave' = Taking("address")
  /\ wire' = Append(wire, "RESTART")
  /\ UNCHANGED <<mem, begun>>

\* The address again, for reading: from its ACK on the device drives the line.
WriteReadAddress(ack) ==
  /\ call.pc = "readdress"
  /\ Accepts(ack, Sending) /\ Proceed(ack, "read")
  /\ UNCHANGED <<mem, begun>>

\* read_byte: an ACK makes the device send another, a NACK makes it let go.
\* Faulty: every byte is acknowledged.
ReadByteAcksAll ==
  /\ call.pc = "read"
  /\ slave' = Sending
  /\ wire' = Append(wire, "ACK")
  /\ mem' = [mem EXCEPT !.sent = @ + 1]
  /\ call' = [call EXCEPT !.i = @ + 1, !.pc = IF call.i + 1 = call.n THEN "stop" ELSE "read"]
  /\ UNCHANGED begun

ReadByte ==
  /\ call.pc = "read"
  /\ slave' = IF call.i < call.n - 1 THEN Sending ELSE Silent
  /\ wire' = Append(wire, IF call.i < call.n - 1 THEN "ACK" ELSE "NACK")
  /\ mem' = [mem EXCEPT !.sent = @ + 1]
  /\ call' = [call EXCEPT !.i = @ + 1, !.pc = IF call.i + 1 = call.n THEN "stop" ELSE "read"]
  /\ UNCHANGED begun

\* STOP reaches the device only if it does not hold the line.
StopBus ==
  /\ call.pc = "stop"
  /\ call' = [call EXCEPT !.pc = "idle"]
  /\ slave' = IF slave.drives THEN slave ELSE Silent
  /\ wire' = Append(wire, "STOP")
  /\ UNCHANGED <<mem, begun>>

WriteByte(ack) == WriteAddress(ack) \/ WriteRegister(ack) \/ WriteData(ack) \/ WriteReadAddress(ack)
\* A read of no byte is left out: the device would hold the line at the STOP.
Next ==
  \/ \E n \in 0 .. MaxLen : BeginMem("write", n)
  \/ \E n \in 1 .. MaxLen : BeginMem("read", n)
  \/ \E ack \in BOOLEAN : WriteByte(ack)
  \/ RepeatedStart \/ ReadByte \/ StopBus
-----------------------------------------------------------------------------
\* Between transactions the bus is released, on every way out of one: the last
\* thing on the wire is a STOP, and the device neither waits nor drives.
BusReleased ==
  call.pc = "idle" => slave = Silent /\ (wire # <<>> => wire[Len(wire)] = "STOP")

\* A transaction returns n exactly if the device took every byte or sent n.
Refused == \E j \in DOMAIN wire : wire[j] = "NACK" /\ ~(call.op = "read" /\ mem.sent = call.n)
ResultTells ==
  call.pc = "idle" /\ call.op # "none" =>
    IF call.result = -1 THEN Refused
    ELSE call.result = call.n /\ (IF call.op = "write" THEN mem.stored ELSE mem.sent) = call.n
=============================================================================
