-------------------------------- MODULE Settings --------------------------------
(***************************************************************************)
(* epic-settings/src/epic_settings.c over the EEPROM drivers and the       *)
(* EEPROM itself: blobs of bytes with a CRC-16 behind them, written byte   *)
(* by byte, with a reset possible between any two steps.                   *)
(***************************************************************************)
EXTENDS Integers, Sequences, SequencesExt, FiniteSetsExt

CONSTANTS Bytes,          \* byte values the blobs are made of
          Size,           \* bytes of a blob
          Default,        \* the byte every default blob is made of
          TornBytes,      \* what a cell may hold after a reset, besides old and new
          Disturbances,   \* what else may happen: "raw", "unlock", "dispatch"
          MaxSaves,       \* bound: saves and raw writes started
          MaxResets       \* bound: resets

ASSUME SettingsAssumption ==
  /\ Bytes \subseteq 0 .. 255 /\ TornBytes \subseteq 0 .. 255 /\ Default \in Bytes
  /\ Size \in Nat \ {0} /\ MaxSaves \in Nat /\ MaxResets \in Nat
  /\ Disturbances \subseteq {"raw", "unlock", "dispatch"}

Blobs == [1 .. Size -> Bytes]
Blocks == {1, 2}                        \* two blocks, one right behind the other
Base(blk) == (blk - 1) * (Size + 2)
Addresses == 0 .. 2 * (Size + 2) - 1
Blank == 255

VARIABLES cells,   \* the EEPROM
          wr,      \* the write cycle under way: [addr, data], or NoWrite
          eeif,    \* write-complete flag
          wrerr,   \* EECON1<WRERR>: a reset cut a write cycle short
          cpu,     \* the call under way: [call, pc, blk, image, i]
          returned,\* what the last save of each block returned, and of what
          allowed, \* blobs a load of each block may return
          disturbed, \* "raw": the application wrote a cell with EPIC_EEPROM_WriteByte;
                   \* "unlock": an interrupt fell into the unlock sequence;
                   \* "dispatch": the dispatcher of an interrupt cleared EEIF
          saves, resets

eeprom == <<cells, wr, eeif, wrerr>>
counts == <<disturbed, saves, resets>>
vars == <<eeprom, cpu, returned, allowed, counts>>

NoWrite == [addr |-> -1, data |-> 0]
Idle == [call |-> "none", pc |-> "idle", blk |-> 1, image |-> <<>>, i |-> 0]
-----------------------------------------------------------------------------
\* CRC-16-CCITT, polynomial 0x1021, initial value 0xFFFF.
Word == 0 .. 65535
Xor[m \in Word, n \in Word] ==
  MapThenSumSet(LAMBDA k : 2^k * ((m \div 2^k + n \div 2^k) % 2), 0 .. 15)
CrcStep[crc \in Word] ==
  IF crc >= 32768 THEN Xor[(2 * crc) % 65536, 4129] ELSE 2 * crc

\* Faulty: a sum, which does not see bytes change places.
CrcUpdateSum(crc, byte) == (crc + byte) % 65536
CrcUpdate(crc, byte) ==
  FoldLeft(LAMBDA c, bit : CrcStep[c], Xor[crc, 256 * byte], [bit \in 1 .. 8 |-> bit])
Crc(blob) == FoldLeft(CrcUpdate, 65535, blob)

Trailer(blob) == <<Crc(blob) \div 256, Crc(blob) % 256>>
Image(blob) == blob \o Trailer(blob)

\* The images a load accepts.
GoodImages == {Image(blob) : blob \in [1 .. Size -> Bytes \cup TornBytes \cup {Blank}]}

Cells(blk, n) == [k \in 1 .. n |-> cells[Base(blk) + k - 1]]
Stored(blk) == Cells(blk, Size)
Valid(blk) == Cells(blk, Size + 2) \in GoodImages
-----------------------------------------------------------------------------
\* A new device: all cells blank.
Init ==
  /\ cells = [a \in Addresses |-> Blank]
  /\ wr = NoWrite /\ eeif = FALSE /\ wrerr = FALSE
  /\ cpu = Idle
  /\ returned = [blk \in Blocks |-> "nothing"]
  /\ allowed = [blk \in Blocks |-> {}]
  /\ disturbed = {} /\ saves = 0 /\ resets = 0

Begin(call, blk, blob) ==
  /\ cpu' = [call |-> call, pc |-> "write", blk |-> blk, image |-> Image(blob), i |-> 0]
  /\ allowed' = [allowed EXCEPT ![blk] = @ \cup {blob}]
  /\ returned' = [returned EXCEPT ![blk] = "nothing"]
  /\ saves' = saves + 1

BeginSave(blk, blob) ==
  /\ cpu.pc = "idle" /\ saves < MaxSaves
  /\ Begin("save", blk, blob)
  /\ UNCHANGED <<eeprom, disturbed, resets>>

\* EPIC_EEPROM_ReadByte, which both loads begin with, writes EECON1 = 0.
ReadsClear == wrerr' = FALSE

LoadOk(blk) ==
  /\ cpu.pc = "idle" /\ Valid(blk)
  /\ allowed' = [allowed EXCEPT ![blk] = {Stored(blk)}]
  /\ ReadsClear
  /\ UNCHANGED <<cells, wr, eeif, cpu, returned, counts>>

LoadBad(blk) ==
  /\ cpu.pc = "idle" /\ ~Valid(blk)
  /\ ReadsClear
  /\ UNCHANGED <<cells, wr, eeif, cpu, returned, allowed, counts>>

\* epic_settings_load_or_default on an invalid block saves the default.
LoadDefault(blk) ==
  /\ cpu.pc = "idle" /\ saves < MaxSaves /\ ~Valid(blk)
  /\ Begin("default", blk, [k \in 1 .. Size |-> Default])
  /\ ReadsClear
  /\ UNCHANGED <<cells, wr, eeif, disturbed, resets>>
-----------------------------------------------------------------------------
\* settings_write_bytes on the image epic_settings_save made first: payload and trailer one after the other.
Data == cpu.image[cpu.i + 1]
Blob == SubSeq(cpu.image, 1, Size)
Address == Base(cpu.blk) + cpu.i

\* Faulty: the payload alone.
LastByteIsPayload == cpu.i = Size - 1
LastByte == cpu.i = Size + 1

NextByte ==
  IF LastByte
  THEN /\ cpu' = Idle
       /\ returned' = [returned EXCEPT ![cpu.blk] = "ok"]
       /\ allowed' = [allowed EXCEPT ![cpu.blk] = {Blob}]
  ELSE /\ cpu' = [cpu EXCEPT !.i = @ + 1, !.pc = "write"]
       /\ UNCHANGED <<returned, allowed>>

\* EPIC_EEPROM_WriteByte looks at WRERR first; a refusal ends the save.
WriteRefused ==
  /\ cpu.pc = "write" /\ wrerr
  /\ cpu' = Idle
  /\ returned' = [returned EXCEPT ![cpu.blk] = "refused"]
  /\ UNCHANGED <<eeprom, allowed, counts>>

WriteByte ==
  /\ cpu.pc = "write" /\ ~wrerr
  /\ cpu' = [cpu EXCEPT !.pc = "unlock"]
  /\ UNCHANGED <<eeprom, returned, allowed, counts>>

\* The EEPROM starts a cycle; a start during another cycle has no effect.
Start(addr, data) == wr' = IF wr = NoWrite THEN [addr |-> addr, data |-> data] ELSE wr

\* Faulty: goes on to the next byte without waiting, as WriteBuffer does.
UnlockNoWait ==
  /\ cpu.pc = "unlock"
  /\ Start(Address, Data)
  /\ NextByte
  /\ UNCHANGED <<cells, eeif, wrerr, counts>>

Unlock ==
  /\ cpu.pc = "unlock"
  /\ Start(Address, Data)
  /\ cpu' = [cpu EXCEPT !.pc = "poll"]
  /\ UNCHANGED <<cells, eeif, wrerr, returned, allowed, counts>>

\* An interrupt between 0x55, 0xAA and WR breaks the sequence: no cycle starts.
UnlockInterrupted ==
  /\ "unlock" \in Disturbances /\ cpu.pc = "unlock"
  /\ cpu' = [cpu EXCEPT !.pc = "poll"]
  /\ disturbed' = disturbed \cup {"unlock"}
  /\ UNCHANGED <<eeprom, returned, allowed, saves, resets>>

\* An interrupt of any source: epic_dispatch_all_irqs calls EEPROM_IRQHandler on
\* EEIF alone, whether or not the EEPROM's own interrupt is enabled, and the
\* handler clears the flag.
Dispatched ==
  /\ "dispatch" \in Disturbances /\ eeif
  /\ eeif' = FALSE
  /\ disturbed' = disturbed \cup {"dispatch"}
  /\ UNCHANGED <<cells, wr, wrerr, cpu, returned, allowed, saves, resets>>

\* EEIF seen: clear it, next byte, or return.
Poll ==
  /\ cpu.pc = "poll" /\ eeif
  /\ eeif' = FALSE
  /\ NextByte
  /\ UNCHANGED <<cells, wr, wrerr, counts>>
-----------------------------------------------------------------------------
\* The EEPROM completes its cycle.
Complete ==
  /\ wr # NoWrite
  /\ cells' = IF wr.addr \in Addresses THEN [cells EXCEPT ![wr.addr] = wr.data] ELSE cells
  /\ wr' = NoWrite /\ eeif' = TRUE
  /\ UNCHANGED <<wrerr, cpu, returned, allowed, counts>>

\* The application writes a cell of its own, beyond the blocks, and moves on.
RawWrite ==
  /\ "raw" \in Disturbances /\ cpu.pc = "idle" /\ saves < MaxSaves /\ ~wrerr
  /\ Start(2 * (Size + 2), 0)
  /\ saves' = saves + 1
  /\ disturbed' = disturbed \cup {"raw"}
  /\ UNCHANGED <<cells, eeif, wrerr, cpu, returned, allowed, resets>>

\* A reset: RAM is gone; the cell being written holds the old byte, the new one
\* or something else.
Reset ==
  /\ resets < MaxResets
  /\ resets' = resets + 1
  /\ IF wr.addr \in Addresses
     THEN \E left \in TornBytes \cup {cells[wr.addr], wr.data} :
            cells' = [cells EXCEPT ![wr.addr] = left]
     ELSE cells' = cells
  /\ wrerr' = (wrerr \/ wr # NoWrite)
  /\ wr' = NoWrite /\ eeif' = FALSE
  /\ cpu' = Idle
  /\ UNCHANGED <<returned, allowed, disturbed, saves>>

Save == WriteRefused \/ WriteByte \/ Unlock \/ Poll
Next ==
  \/ \E blk \in Blocks : (\E blob \in Blobs : BeginSave(blk, blob)) \/ LoadOk(blk) \/ LoadBad(blk) \/ LoadDefault(blk)
  \/ Save \/ UnlockInterrupted \/ Dispatched \/ Complete \/ RawWrite \/ Reset

Spec == Init /\ [][Next]_vars

\* The loop of a save runs on, and a write cycle of the EEPROM ends.
FairSpec == Spec /\ WF_vars(Save) /\ WF_vars(Complete)
-----------------------------------------------------------------------------
TypeOK ==
  /\ cells \in [Addresses -> 0 .. 255]
  /\ wr = NoWrite \/ wr \in [addr : Nat, data : 0 .. 255]
  /\ eeif \in BOOLEAN /\ wrerr \in BOOLEAN
  /\ cpu \in [call : {"none", "save", "default"}, pc : {"idle", "write", "unlock", "poll"},
              blk : Blocks, image : Seq(0 .. 255), i : 0 .. Size + 1]
  /\ disturbed \subseteq Disturbances
  /\ returned \in [Blocks -> {"nothing", "ok", "refused"}]

\* Whatever resets, raw writes and interrupts did to it, a block that
\* loads holds a blob some save of that block was given: never a mixture, and
\* nothing older than what the last save to return true was given or the last
\* load returned.
OldOrNew == \A blk \in Blocks : Valid(blk) => Stored(blk) \in allowed[blk]

\* True means stored: without raw writes, a save that returned true is what a load
\* returns from then to the next save of the same block; saves of the other block
\* and resets do not touch it.
SavedStays ==
  \A blk \in Blocks :
    "raw" \notin disturbed /\ returned[blk] = "ok" => Valid(blk) /\ allowed[blk] = {Stored(blk)}

\* After load_or_default has returned, without raw writes, the next boot finds the
\* block valid, although the result of the save is dropped.
DefaultStored ==
  [][\A blk \in Blocks :
       cpu.call = "default" /\ cpu.blk = blk /\ cpu'.call = "none" /\ resets' = resets
         /\ "raw" \notin disturbed => Valid(blk)']_vars

\* So it is, and a save returns, refused writes and resets included, if no
\* interrupt falls into an unlock sequence and none is dispatched while EEIF is up.
Served ==
  /\ DefaultStored
  /\ cpu.pc # "idle" ~> cpu.pc = "idle" \/ disturbed \cap {"unlock", "dispatch"} # {}

\* epic_settings.h:29: a save returns true, or false if the driver rejected a byte.
\* One that waits can do so only while its write cycle is under way or EEIF is up;
\* with interrupts on, that needs none of them to be dispatched then (InterruptClaims).
WaitCanEnd == cpu.pc = "poll" => eeif \/ wr # NoWrite
=============================================================================
