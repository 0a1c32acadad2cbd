------------------------------ MODULE MCDevices ------------------------------
\* The bench of Devices with a command table in which one name begins another, gains
\* of both signs and rails with and without zero between them, and a display on ops of
\* the caller that take no time and wait as long as they are told (the shipped
\* transports are those of DeviceClaims).
EXTENDS Devices

MCCommands == {<<"x">>, <<"x", "y">>}
MCGains == {[kp |-> 3, ki |-> 2, kd |-> 1], [kp |-> 7, ki |-> -1, kd |-> -3]}
MCRails == {[min |-> -4, max |-> 6], [min |-> 1, max |-> 5]}
MCReadings == {-8, 3, 7}
MCCallersOps == {[kind |-> "ops", send |-> 0]}
\* Two rows for one event with guards, a wildcard, and an action that dispatches.
MCTable ==
  <<[state |-> "idle", event |-> "go", guard |-> "set", action |-> "flip", next |-> "run"],
    [state |-> "idle", event |-> "go", guard |-> "clear", action |-> "stop", next |-> "wait"],
    [state |-> "idle", event |-> "go", guard |-> "none", action |-> "none", next |-> "idle"],
    [state |-> "any", event |-> "stop", guard |-> "none", action |-> "none", next |-> "idle"],
    [state |-> "run", event |-> "stop", guard |-> "none", action |-> "none", next |-> "wait"],
    [state |-> "wait", event |-> "go", guard |-> "set", action |-> "go", next |-> "run"]>>
=============================================================================
