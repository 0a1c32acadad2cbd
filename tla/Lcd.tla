---------------------------------- MODULE Lcd ----------------------------------
(***************************************************************************)
(* epic-lcd/src/epic_lcd.c on its transports, with the display controller  *)
(* at the other end: an HD44780 that is deaf while it executes and takes   *)
(* its bytes whole or in halves.  A call is the list of what it still has  *)
(* to send and to wait for; time is in units of 40 us.                     *)
(***************************************************************************)
EXTENDS Integers, Sequences, SequencesExt

CONSTANTS Transports,  \* [kind, send]: the ops in use ("ops", "gpio8", "gpio4"), and how long a send of theirs takes
          MaxLcdCalls  \* bound: calls after init

VARIABLES lcd,       \* [ops, display_ctrl]: the instance
          todo,      \* what the call under way still does
          display,   \* the controller
          asked,     \* the screen as the calls have asked for it
          lcdCalls

lcdVars == <<lcd, todo, display, asked, lcdCalls>>

Cols == 2
Rows == 2
RowAddr == <<0, 64, 20, 84>>
Cells == {0, 1, 64, 65}
Blank == [a \in Cells |-> 32]
NoGlyphs == [row \in 0 .. 63 |-> 0]
Glyph == [i \in 1 .. 8 |-> 240 + i]
MsUnits == 25
Has(byte, bit) == (byte \div bit) % 2 = 1
-----------------------------------------------------------------------------
\* The controller.  "half" is the first half of a byte (-1: none), "warming" that
\* the first Function Set after power-on, which takes 4.1 ms, has not come.
Cold == [bus |-> 8, half |-> -1, busy |-> 1000, warming |-> TRUE, ram |-> "dd", addr |-> 0, cells |-> [a \in Cells |-> 63], glyphs |-> NoGlyphs,
         ctrl |-> 0, up |-> TRUE, shift |-> 0]
Warm == [Cold EXCEPT !.busy = 0, !.warming = FALSE, !.ram = "cg", !.addr = 9, !.ctrl = 7, !.up = FALSE, !.shift = 39]
NextAddr(a) == CASE a = 39 -> 64 [] a = 103 -> 0 [] OTHER -> a + 1
PrevAddr(a) == CASE a = 64 -> 39 [] a = 0 -> 103 [] OTHER -> a - 1
Advance(d) == [d EXCEPT !.addr = IF d.ram = "cg" THEN (IF d.up THEN @ + 1 ELSE @ - 1) % 64
                                 ELSE IF d.up THEN NextAddr(@) ELSE PrevAddr(@)]

Store(d, byte) ==
  Advance(IF d.ram = "cg" THEN [d EXCEPT !.glyphs[d.addr] = byte, !.busy = 1]
          ELSE IF d.addr \in Cells THEN [d EXCEPT !.cells[d.addr] = byte, !.busy = 1]
          ELSE [d EXCEPT !.busy = 1])

Execute(d, byte) ==
  LET e == [d EXCEPT !.busy = 1]
  IN CASE byte >= 128 -> [e EXCEPT !.ram = "dd", !.addr = byte - 128]
       [] byte \in 64 .. 127 -> [e EXCEPT !.ram = "cg", !.addr = byte - 64]
       [] byte \in 32 .. 63 -> [e EXCEPT !.bus = IF Has(byte, 16) THEN 8 ELSE 4, !.warming = FALSE, !.busy = IF d.warming THEN 103 ELSE 1]
       [] byte \in 16 .. 31 -> IF Has(byte, 8) THEN [e EXCEPT !.shift = (IF Has(byte, 4) THEN @ + 1 ELSE @ - 1) % 40]
                               ELSE [e EXCEPT !.addr = IF Has(byte, 4) THEN NextAddr(@) ELSE PrevAddr(@)]
       [] byte \in 8 .. 15 -> [e EXCEPT !.ctrl = byte % 8]
       [] byte \in 4 .. 7 -> [e EXCEPT !.up = Has(byte, 2)]
       [] byte \in 2 .. 3 -> [e EXCEPT !.ram = "dd", !.addr = 0, !.shift = 0, !.busy = 39]
       [] byte = 1 -> [e EXCEPT !.ram = "dd", !.addr = 0, !.shift = 0, !.cells = Blank, !.up = TRUE, !.busy = 39]
       [] OTHER -> e

Takes(d, rs, byte) == IF rs = 1 THEN Store(d, byte) ELSE Execute(d, byte)

\* One pulse of E with "pins" on all eight lines, or a half on the upper four; then
\* a controller that expects eight finds the other four pulled up.
Pulse(d, rs, pins) ==
  IF d.busy > 0 THEN d
  ELSE IF d.bus = 8 THEN Takes(d, rs, pins)
  ELSE IF d.half < 0 THEN [d EXCEPT !.half = pins \div 16]
  ELSE Takes([d EXCEPT !.half = -1], rs, d.half * 16 + pins \div 16)
Elapse(d, t) == [d EXCEPT !.busy = IF @ > t THEN @ - t ELSE 0]
-----------------------------------------------------------------------------
\* The transports: a byte is one pulse or two, the upper half first.
Gpio8Send(d, rs, byte) == Pulse(d, rs, byte)
Gpio4Send(d, rs, byte) == Pulse(Pulse(d, rs, (byte \div 16) * 16 + 15), rs, (byte % 16) * 16 + 15)
SendBy(kind, d, rs, byte) == IF kind = "gpio4" THEN Gpio4Send(d, rs, byte) ELSE Gpio8Send(d, rs, byte)

\* How long a wait may last.  The caller's own ops wait as long as they are told at
\* least, the shipped ones by epic_tick_delay_ms, which may lack a millisecond (Tick).
TickDelay(ms) == {MsUnits * (ms - 1), MsUnits * ms}
DelayMs(kind, ms) == IF kind = "ops" THEN {MsUnits * ms} ELSE TickDelay(ms)
DelayUs(kind, us) ==
  IF kind = "ops" THEN {(us + 39) \div 40} ELSE IF us >= 1000 THEN TickDelay(us \div 1000) ELSE {0}
-----------------------------------------------------------------------------
\* The calls, as what they send and wait for.
Cmd(byte) == [op |-> "send", rs |-> 0, arg |-> byte]
Data(byte) == [op |-> "send", rs |-> 1, arg |-> byte]
Us(n) == [op |-> "us", rs |-> 0, arg |-> n]
Ms(n) == [op |-> "ms", rs |-> 0, arg |-> n]
CmdShort(byte) == <<Cmd(byte), Us(40)>>
CmdLong(byte) == <<Cmd(byte), Us(1600)>>
Chars(s) == FlattenSeq([i \in DOMAIN s |-> <<Data(s[i]), Us(40)>>])

LcdInit ==
  <<Ms(50), Cmd(56), Us(4500)>> \o CmdShort(56) \o CmdShort(56) \o CmdShort(8) \o CmdLong(1) \o CmdShort(4 + 2) \o CmdShort(8 + 4)

\* Faulty: the display is cleared without the long wait.
LcdClearShort == CmdShort(1)
LcdClear == CmdLong(1)
LcdHome == CmdLong(2)
Clamp(x, n) == IF x >= n THEN n - 1 ELSE x
SetCursor(col, row) == CmdShort(128 + RowAddr[Clamp(row, Rows) + 1] + Clamp(col, Cols))
Write(s) == Chars(s)
DisplayCtrl(ctrl) == CmdShort(8 + ctrl)
ScrollLeft == CmdShort(16 + 8)
ScrollRight == CmdShort(16 + 8 + 4)
CreateChar(s, glyph) ==
  IF s > 7 THEN <<>> ELSE CmdShort(64 + s * 8) \o Chars([i \in 1 .. 8 |-> glyph[i] % 32]) \o CmdShort(128)
Command(byte) == CmdShort(byte)

\* display_ctrl with one of its bits set or cleared.
WithBit(ctrl, bit, on) == IF Has(ctrl, bit) = on THEN ctrl ELSE IF on THEN ctrl + bit ELSE ctrl - bit
-----------------------------------------------------------------------------
\* What a screen is: cells, cursor, shift, the three switches and the glyphs.
Screen(d) == [cells |-> d.cells, cursor |-> <<d.ram, d.addr>>, shift |-> d.shift, ctrl |-> d.ctrl, glyphs |-> d.glyphs, up |-> d.up]
Fresh == [cells |-> Blank, cursor |-> <<"dd", 0>>, shift |-> 0, ctrl |-> 4, glyphs |-> NoGlyphs, up |-> TRUE]
Put(s, c) == LET a == s.cursor[2] IN
  [s EXCEPT !.cells = IF a \in Cells THEN [@ EXCEPT ![a] = c] ELSE @, !.cursor = <<"dd", NextAddr(a)>>]

Init ==
  /\ \E t \in Transports : lcd = [ops |-> t, display_ctrl |-> 4]
  /\ todo = LcdInit /\ display \in {Cold, Warm} /\ asked = Fresh /\ lcdCalls = 0

Call(code, screen) ==
  /\ todo = <<>> /\ lcdCalls < MaxLcdCalls
  /\ todo' = code /\ asked' = screen /\ lcdCalls' = lcdCalls + 1
  /\ UNCHANGED display
Draw(code, screen) == Call(code, screen) /\ UNCHANGED lcd
Switch(bit, on) ==
  LET c == WithBit(lcd.display_ctrl, bit, on)
  IN  Call(DisplayCtrl(c), [asked EXCEPT !.ctrl = c]) /\ lcd' = [lcd EXCEPT !.display_ctrl = c]

Begin ==
  \/ Draw(LcdClear, [asked EXCEPT !.cells = Blank, !.cursor = <<"dd", 0>>, !.shift = 0])
  \/ Draw(LcdHome, [asked EXCEPT !.cursor = <<"dd", 0>>, !.shift = 0])
  \/ \E col \in 0 .. Cols, row \in 0 .. Rows :
       Draw(SetCursor(col, row), [asked EXCEPT !.cursor = <<"dd", RowAddr[Clamp(row, Rows) + 1] + Clamp(col, Cols)>>])
  \/ \E s \in {<<65>>, <<66, 67>>, <<>>} : Draw(Write(s), FoldLeft(Put, asked, s))
  \/ \E bit \in {1, 2, 4}, on \in BOOLEAN : Switch(bit, on)
  \/ Draw(ScrollLeft, [asked EXCEPT !.shift = (@ - 1) % 40])
  \/ Draw(ScrollRight, [asked EXCEPT !.shift = (@ + 1) % 40])
  \/ \E s \in {0, 7, 8} : Draw(CreateChar(s, Glyph), IF s > 7 THEN asked ELSE
         [asked EXCEPT !.glyphs = [row \in DOMAIN @ |-> IF row \div 8 = s THEN Glyph[(row % 8) + 1] % 32 ELSE @[row]], !.cursor = <<"dd", 0>>])
  \/ Draw(Command(16 + 4), [asked EXCEPT !.cursor = <<"dd", NextAddr(@[2])>>])

SendByte ==
  /\ todo # <<>> /\ Head(todo).op = "send"
  /\ display' = SendBy(lcd.ops.kind, Elapse(display, lcd.ops.send), Head(todo).rs, Head(todo).arg)
  /\ todo' = Tail(todo)
  /\ UNCHANGED <<lcd, asked, lcdCalls>>

Wait ==
  /\ todo # <<>> /\ Head(todo).op # "send"
  /\ \E t \in IF Head(todo).op = "ms" THEN DelayMs(lcd.ops.kind, Head(todo).arg) ELSE DelayUs(lcd.ops.kind, Head(todo).arg) :
       display' = Elapse(display, t)
  /\ todo' = Tail(todo)
  /\ UNCHANGED <<lcd, asked, lcdCalls>>

Next == Begin \/ SendByte \/ Wait
-----------------------------------------------------------------------------
\* Between calls the display shows what the calls since init have asked for, from
\* whatever state init found it in: no instruction met a deaf controller, and no
\* half of a byte was taken for another.
Shows == todo = <<>> => Screen([display EXCEPT !.glyphs = [row \in DOMAIN @ |-> IF asked.glyphs[row] = 0 THEN 0 ELSE @[row]]]) = asked

\* Once init has returned, the controller expects as many lines as the transport has.
LinesAgree == todo = <<>> => display.bus = (IF lcd.ops.kind = "gpio4" THEN 4 ELSE 8)
=============================================================================
