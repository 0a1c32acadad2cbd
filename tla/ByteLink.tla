------------------------------ MODULE ByteLink -------------------------------
(***************************************************************************)
(* What a buffered transmitter promises: bytes, numbered as they are       *)
(* written, appear on the line once each and in that order.                *)
(***************************************************************************)
EXTENDS Naturals, Sequences

CONSTANT limit       \* bytes a client writes

VARIABLES written,   \* number of bytes handed over so far
          delivered  \* bytes seen on the line

linkVars == <<written, delivered>>

LinkInit == written = 0 /\ delivered = <<>>

HandOver == written < limit /\ written' = written + 1 /\ UNCHANGED delivered

Deliver ==
  /\ Len(delivered) < written
  /\ delivered' = Append(delivered, Len(delivered) + 1)
  /\ UNCHANGED written

LinkSpec == LinkInit /\ [][HandOver \/ Deliver]_linkVars
=============================================================================
