------------------------------ MODULE Arithmetic ------------------------------
(***************************************************************************)
(* The functions of epic-math on words of two bytes, byte by byte as the   *)
(* assembly of src/pic16 and src/pic18 does it, and the C above it.        *)
(***************************************************************************)
EXTENDS Integers, SequencesExt

CONSTANT ByteBits     \* bits of a byte (8 in the code)

ByteN == 2 ^ ByteBits
WordN == ByteN * ByteN
LongN == WordN * WordN
Full == ByteN - 1

Bytes(x, n) == [i \in 1 .. n |-> (x \div ByteN ^ (i - 1)) % ByteN]
Number(bytes) == FoldRight(LAMBDA b, rest : b + ByteN * rest, bytes, 0)
Signed(x) == IF 2 * x >= WordN THEN x - WordN ELSE x
Flag(b) == IF b THEN 1 ELSE 0
-----------------------------------------------------------------------------
\* A carry goes into the next byte of the addend: with addwfc as a carry, with
\* btfsc and incf (or addlw) as a sum of its own, in which a full byte loses it.
With(skip, byte, carry) == IF skip THEN (byte + carry) % ByteN ELSE byte + carry

AddBytes(skip, x, y) ==
  FoldLeft(LAMBDA s, i :
             LET sum == x[i] + With(skip, y[i], s.carry)
             IN [r |-> Append(s.r, sum % ByteN), carry |-> sum \div ByteN],
           [r |-> <<>>, carry |-> 0], [i \in DOMAIN x |-> i])
SubBytes(skip, x, y) ==
  FoldLeft(LAMBDA s, i :
             LET diff == x[i] - With(skip, y[i], s.carry)
             IN [r |-> Append(s.r, diff % ByteN), carry |-> Flag(diff < 0)],
           [r |-> <<>>, carry |-> 0], [i \in DOMAIN x |-> i])

AddU16(f, a, b) ==
  LET s == AddBytes(f = "pic16", Bytes(a, 2), Bytes(b, 2)) IN <<Number(s.r), s.carry>>
SubU16(f, a, b) ==
  LET s == SubBytes(f = "pic16", Bytes(a, 2), Bytes(b, 2)) IN <<Number(s.r), s.carry>>

\* ~v + 1: the increment goes on to the next byte while bytes wrap to zero.
NegateBytes(x) ==
  FoldLeft(LAMBDA s, i :
             LET byte == (Full - x[i] + Flag(s.z)) % ByteN
             IN [r |-> Append(s.r, byte), z |-> s.z /\ byte = 0],
           [r |-> <<>>, z |-> TRUE], [i \in DOMAIN x |-> i]).r
Negate(x, n) == Number(NegateBytes(Bytes(x, n)))
Magnitude(x) == IF Signed(x) < 0 THEN Negate(x, 2) ELSE x
-----------------------------------------------------------------------------
\* pic16: a shifted copy of a is added for every bit found set in b.  The copy of b
\* is shifted right low byte first, each time with a carry of 0, and the test is of
\* bit 0 of the low byte: the high byte of a b of two bytes plays no part.
ShiftAdd(a, b, n) ==
  FoldLeft(LAMBDA r, i :
             IF ((b % ByteN) \div 2 ^ i) % 2 = 0 THEN r
             ELSE AddBytes(TRUE, r, Bytes(a * 2 ^ i, n)).r,
           Bytes(0, n), [i \in 1 .. (n \div 2) * ByteBits |-> i - 1])

\* pic18: MULWF on bytes, and the products added at their places, with the carry
\* out into one byte more.
AddAt(r, p, k) ==
  LET top == ByteN ^ (IF k = 3 THEN 4 ELSE k + 2)
  IN (r - (r % top)) + (((r % top) + p * ByteN ^ (k - 1)) % top)
Partials(a, b) ==
  LET x == Bytes(a, 2)  y == Bytes(b, 2)
  IN AddAt(AddAt(AddAt(AddAt(0, x[1] * y[1], 1), x[1] * y[2], 2), x[2] * y[1], 2), x[2] * y[2], 3)

MulU8(f, a, b) == IF f = "pic16" THEN Number(ShiftAdd(a, b, 2)) ELSE a * b
MulU16(f, a, b) == IF f = "pic16" THEN Number(ShiftAdd(a, b, 4)) ELSE Partials(a, b)
MulS16(f, a, b) ==
  LET u == MulU16(f, Magnitude(a), Magnitude(b))
  IN IF (Signed(a) < 0) # (Signed(b) < 0) THEN Negate(u, 4) ELSE u

\* Restoring division of n bytes: the bits of num move into rem, which gives up den
\* where it can. Of four bytes, the bit that leaves rem says that it can.
Restoring(num, n, den) ==
  FoldLeft(LAMBDA s, i :
             LET all == 2 * s.rem + Flag(2 * s.num >= ByteN ^ n)
                 rem == all % WordN
                 diff == SubBytes(TRUE, Bytes(rem, 2), Bytes(den, 2))
                 takes == diff.carry = 0 \/ (n = 4 /\ all >= WordN)
             IN [num |-> ((2 * s.num) % ByteN ^ n) + Flag(takes),
                 rem |-> IF takes THEN Number(diff.r) ELSE rem],
           [num |-> num, rem |-> 0], [i \in 1 .. n * ByteBits |-> i])

\* Quotient, remainder, ok.
Divmod(num, n, den) ==
  IF den = 0 THEN <<0, 0, 0>>
  ELSE LET s == Restoring(num, n, den) IN <<s.num % WordN, s.rem, 1>>
DivmodS16(num, den) ==
  LET u == Divmod(Magnitude(num), 2, Magnitude(den))
  IN <<IF (Signed(num) < 0) # (Signed(den) < 0) THEN Negate(u[1], 2) ELSE u[1],
       IF Signed(num) < 0 THEN Negate(u[2], 2) ELSE u[2], u[3]>>
-----------------------------------------------------------------------------
\* Newton's iteration from above, in words: an int of the target is no wider.
SqrtU16(value) ==
  LET Root[x \in Nat, y \in Nat] ==
        IF y >= x THEN x ELSE Root[y, ((y + Divmod(value, 2, y)[1]) % WordN) \div 2]
  IN IF value < 2 THEN value ELSE Root[value, ((value + 1) % WordN) \div 2]

\* Two decimal digits in the nibbles of a byte, here a pair.
Nibbles(d) == <<d % 10, d \div 10>>
AdjustUp(n) == IF n > 9 THEN n + 6 ELSE n
BcdAdd8(x, y) ==
  LET lo == AdjustUp(x[1] + y[1])
      hi == AdjustUp(x[2] + y[2] + Flag(lo > 9))
  IN <<lo % 16, hi % 16, Flag(hi > 9)>>
\* Faulty: the borrow of the low digit is dropped.
BcdSub8NoBorrow(x, y) ==
  LET lo == x[1] - y[1]  hi == x[2] - y[2]
  IN <<IF lo < 0 THEN lo + 10 ELSE lo, IF hi < 0 THEN hi + 10 ELSE hi, Flag(hi < 0)>>
BcdSub8(x, y) ==
  LET lo == x[1] - y[1]  hi == x[2] - y[2] - Flag(lo < 0)
  IN <<IF lo < 0 THEN lo + 10 ELSE lo, IF hi < 0 THEN hi + 10 ELSE hi, Flag(hi < 0)>>

\* Five digits of a word and back, by the primitives above.
BinToBcd16(value) ==
  FoldLeft(LAMBDA s, i : LET d == Divmod(s.value, 2, 10)
                         IN [value |-> d[1], bcd |-> Append(s.bcd, d[2])],
           [value |-> value, bcd |-> <<>>], <<1, 2, 3, 4, 5>>).bcd
Bcd16ToBin(f, bcd) ==
  FoldLeft(LAMBDA s, digit : [bin |-> s.bin + MulU16(f, digit, s.place), place |-> (10 * s.place) % WordN],
           [bin |-> 0, place |-> 1], bcd).bin % WordN
=============================================================================
