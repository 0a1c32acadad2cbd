--------------------------------- MODULE Math ---------------------------------
(***************************************************************************)
(* epic-math on the two processors: calls of the functions of Arithmetic,  *)
(* against the numbers they are about.                                     *)
(***************************************************************************)
EXTENDS Arithmetic

CONSTANTS Families,   \* "pic16", "pic18"
          Operands,   \* words
          Decimals    \* numbers of two decimal digits

VARIABLE job          \* the call made: [fn, family, a, b, out]

NoJob == [fn |-> "none", family |-> "", a |-> 0, b |-> 0, out |-> <<>>]
Init == job = NoJob

Call(fn, f, a, b, out) ==
  job = NoJob /\ job' = [fn |-> fn, family |-> f, a |-> a, b |-> b, out |-> out]

Multiply(f, a, b) ==
  \/ a < ByteN /\ b < ByteN /\ Call("mul_u8", f, a, b, <<MulU8(f, a, b)>>)
  \/ Call("mul_u16", f, a, b, <<MulU16(f, a, b)>>)
  \/ Call("mul_s16", f, a, b, <<MulS16(f, a, b)>>)
Divide(f, a, b) ==
  \/ Call("divmod_u16", f, a, b, Divmod(a, 2, b))
  \/ Call("divmod_s16", f, a, b, DivmodS16(a, b))
  \/ \E c \in Operands : Call("divmod_u32_16", f, a + WordN * c, b, Divmod(a + WordN * c, 4, b))
Sum(f, a, b) ==
  \/ Call("add_u16", f, a, b, AddU16(f, a, b))
  \/ Call("sub_u16", f, a, b, SubU16(f, a, b))
Derived(f, a) ==
  \/ Call("negate_s16", f, a, 0, <<Negate(a, 2)>>)
  \/ Call("sqrt_u16", f, a, 0, <<SqrtU16(a)>>)
  \/ Call("bcd16", f, a, 0, Append(BinToBcd16(a), Bcd16ToBin(f, BinToBcd16(a))))
Bcd(f, a, b) ==
  \/ Call("bcd_add8", f, a, b, BcdAdd8(Nibbles(a), Nibbles(b)))
  \/ Call("bcd_sub8", f, a, b, BcdSub8(Nibbles(a), Nibbles(b)))

Next ==
  \E f \in Families :
    \/ \E a, b \in Operands : Multiply(f, a, b) \/ Divide(f, a, b) \/ Sum(f, a, b)
    \/ \E a \in 0 .. WordN - 1 : Derived(f, a)
    \/ \E a, b \in Decimals : Bcd(f, a, b)
-----------------------------------------------------------------------------
\* What the call should have returned, as a number.
DueOf(fn, a, b) ==
  CASE fn \in {"mul_u8", "mul_u16"} -> <<a * b>>
    [] fn = "mul_s16" -> <<(Signed(a) * Signed(b)) % LongN>>
    [] fn \in {"divmod_u16", "divmod_u32_16"} ->
         IF b = 0 THEN <<0, 0, 0>> ELSE <<(a \div b) % WordN, a % b, 1>>
    [] fn = "divmod_s16" ->
         IF b = 0 THEN <<0, 0, 0>>
         ELSE LET n == Signed(a)  d == Signed(b)
                  size == IF d < 0 THEN -d ELSE d
                  q == (IF n < 0 THEN -n ELSE n) \div size
                  truncated == IF (n < 0) # (d < 0) THEN -q ELSE q
              IN <<truncated % WordN, (n - truncated * d) % WordN, 1>>
    [] fn = "add_u16" -> <<(a + b) % WordN, Flag(a + b >= WordN)>>
    [] fn = "sub_u16" -> <<(a - b) % WordN, Flag(a < b)>>
    [] fn = "negate_s16" -> <<(-a) % WordN>>
    [] fn = "sqrt_u16" -> <<CHOOSE r \in 0 .. ByteN : r * r <= a /\ a < (r + 1) * (r + 1)>>
    [] fn = "bcd16" -> <<a % 10, (a \div 10) % 10, (a \div 100) % 10, (a \div 1000) % 10, a \div 10000, a>>
    [] fn = "bcd_add8" -> <<(a + b) % 10, ((a + b) % 100) \div 10, Flag(a + b > 99)>>
    [] fn = "bcd_sub8" -> <<(a - b) % 10, ((a - b) % 100) \div 10, Flag(a < b)>>
Exact == job # NoJob => job.out = DueOf(job.fn, job.a, job.b)

\* Where a carry may meet a full byte: in the second byte of a word, or in a later
\* byte of a shifted copy.
HighFull(x) == x \div ByteN = Full
CarryLost ==
  \/ job.fn \in {"divmod_u16", "divmod_u32_16"} /\ HighFull(job.b)
  \/ job.family = "pic16" /\ job.fn \in {"add_u16", "sub_u16"} /\ HighFull(job.b)
  \/ /\ job.family = "pic16" /\ job.fn \in {"mul_u16", "mul_s16"}
     /\ LET a == IF job.fn = "mul_s16" THEN Magnitude(job.a) ELSE job.a
        IN \E i \in 0 .. 2 * ByteBits - 1, k \in 2 .. 4 : Bytes(a * 2 ^ i, 4)[k] = Full

\* Where the second factor of a product of words has a high byte; that of
\* bcd16_to_bin is the place of a digit.
HighFactor ==
  /\ job.family = "pic16"
  /\ \/ job.fn = "mul_u16" /\ job.b >= ByteN
     \/ job.fn = "mul_s16" /\ Magnitude(job.b) >= ByteN
     \/ job.fn = "bcd16" /\ \E i \in 0 .. 4 : 10 ^ i >= ByteN /\ (job.a \div 10 ^ i) % 10 # 0

\* Every function returns what its name says, on both processors and by primitives of
\* any kind: unless a carry may meet a full byte, or, on PIC16, a product needs the
\* high byte of its second factor; and but for the square root of the largest word.
ExactButForCarries ==
  CarryLost \/ HighFactor \/ (job.fn = "sqrt_u16" /\ job.a = WordN - 1) \/ Exact

\* Without the first of those exceptions, the square root apart: what the headers
\* promise of sums, quotients and products by a byte.
CarriesKept == job.fn # "sqrt_u16" /\ ~HighFactor => Exact

\* Without the second: a product of words is that of all their bits.
ProductsUseBothBytes == job.fn \in {"mul_u16", "mul_s16", "bcd16"} /\ ~CarryLost => Exact
=============================================================================
