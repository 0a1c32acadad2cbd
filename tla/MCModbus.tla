------------------------------- MODULE MCModbus -------------------------------
(***************************************************************************)
(* Modbus for TLC: the requests of the master, at and beyond the limits of *)
(* the tables, of the buffer and of the function codes.                    *)
(***************************************************************************)
EXTENDS Modbus

Frame(addr, fc, start, qty) ==
  [addr |-> addr, fc |-> fc, start |-> start, qty |-> qty, bytes |-> 0, data |-> <<>>,
   len |-> 8, crc |-> TRUE]
Many(addr, fc, start, data, bytes) ==
  [addr |-> addr, fc |-> fc, start |-> start, qty |-> Len(data), bytes |-> bytes, data |-> data,
   len |-> 9 + bytes, crc |-> TRUE]

Reads == {Frame(7, 1, 0, 3), Frame(7, 1, 1, 3), Frame(7, 3, 0, 2), Frame(7, 3, 0, 0),
          Frame(7, 3, 0, 4), Frame(7, 3, 65535, 2), Frame(7, 2, 0, 1), Frame(7, 4, 0, 1), Frame(7, 9, 0, 1)}
Writes == {Frame(7, 5, 2, 65280), Frame(7, 5, 0, 1), Frame(7, 5, 3, 0), Frame(0, 5, 1, 65280),
           Frame(7, 6, 1, 9), Frame(7, 6, 4, 9), Frame(0, 6, 0, 5),
           Many(7, 15, 1, <<1, 1>>, 1), Many(7, 15, 1, <<0, 1, 1>>, 1), Many(7, 15, 0, <<1>>, 2),
           Many(7, 16, 0, <<6>>, 2), Many(7, 16, 3, <<6, 8>>, 4), Many(7, 16, 1, <<6, 8>>, 4)}
\* Traffic of others, damaged frames, and lengths that do not match.
Other == {[Frame(9, 3, 0, 1) EXCEPT !.len = 7], [Frame(7, 6, 0, 3) EXCEPT !.crc = FALSE],
          [Frame(7, 6, 0, 3) EXCEPT !.len = 9], [Many(7, 16, 0, <<6>>, 2) EXCEPT !.len = 12],
          [Frame(7, 16, 0, 1) EXCEPT !.len = 8], [Frame(9, 1, 0, 1) EXCEPT !.len = 16],
          [Frame(7, 3, 0, 1) EXCEPT !.len = 3, !.crc = FALSE]}

MCRequests == Reads \cup Writes \cup Other
=============================================================================
