------------------------------- MODULE Registers -------------------------------
(***************************************************************************)
(* How the drivers of the three HALs are written down: a driver function   *)
(* is the sequence of its accesses to registers, to the slots in which it  *)
(* keeps handles, and to the callbacks.  A register of bits is the set of  *)
(* the numbers of its bits that are one, so that | and & ~ are \cup and \; *)
(* a register that counts or carries data is a number below Byte.          *)
(***************************************************************************)
EXTENDS Integers, Sequences, TLC

CONSTANTS Byte  \* one more than the largest value of a counting byte

Null == [none |-> TRUE]  \* an empty slot

\* Bits of the number n, moved up by k; the bits of b if c.
Shl(n, k) == {i + k : i \in {j \in 0..7 : (n \div 2^j) % 2 = 1}}
Bits(n) == Shl(n, 0)
Number(b, k) == CHOOSE n \in 0..255 : Shl(n, k) = b
When(c, b) == IF c THEN b ELSE {}
Below(n) == 0..(n - 1)

\* The two bytes of a word.
Hi(w) == w \div Byte
Lo(w) == w % Byte
Word(hi, lo) == hi * Byte + lo
-----------------------------------------------------------------------------
\* Statements.  A read-modify-write that is one instruction is one statement; one
\* that goes through a local variable is two, and an interrupt fits between them.
Set(r, v)         == <<[op |-> "set", reg |-> r, to |-> v]>>
Change(r, clr, b) == <<[op |-> "change", reg |-> r, clr |-> clr, bits |-> b]>>
Bsf(r, b)         == Change(r, {}, b)
Bcf(r, b)         == Change(r, b, {})
Get(t, r)         == <<[op |-> "get", tmp |-> t, reg |-> r]>>
Put(r, t, clr, b) == <<[op |-> "put", reg |-> r, tmp |-> t, clr |-> clr, bits |-> b]>>
Copy(r, t)        == <<[op |-> "copy", reg |-> r, tmp |-> t]>>
Restore(r, t, b)  == <<[op |-> "restore", reg |-> r, tmp |-> t, bits |-> b]>>
Modify(r, clr, b) == Get("v", r) \o Put(r, "v", clr, b)
Toggle(r, b)      == <<[op |-> "toggle", reg |-> r, bits |-> b]>>

\* What a statement hands on: a constant, a local variable, a word of two of them, the
\* word moved down if a bit of a third is zero, whether a local variable has a bit.
K(v)         == [how |-> "const", to |-> v]
T(t)         == [how |-> "byte", tmp |-> t]
W(h, l)      == [how |-> "word", hi |-> h, lo |-> l]
Down(h, l, f, b) == [how |-> "down", hi |-> h, lo |-> l, by |-> f, bits |-> b]
Has(t, b)    == [how |-> "has", tmp |-> t, bits |-> b]

\* What expression e is worth: one value, or none (K("")).
ValueOf(e, t) ==
  CASE e.how = "const" -> IF e.to = "" THEN {} ELSE {e.to}
    [] e.how = "byte"  -> {t[e.tmp]}
    [] e.how = "word"  -> {Word(t[e.hi], t[e.lo])}
    [] e.how = "down"  -> {Word(t[e.hi], t[e.lo]) \div (IF t[e.by] \cap e.bits = {} THEN Byte \div 4 ELSE 1)}
    [] e.how = "has"   -> {t[e.tmp] \cap e.bits # {}}

\* Return: always, or when the register has, or has none of, the bits.
Return(e)             == <<[op |-> "return", value |-> e]>>
ReturnIf(r, b, v)     == <<[op |-> "if", reg |-> r, bits |-> b, value |-> K(v)]>>
ReturnHas(t, b, v)    == <<[op |-> "has", tmp |-> t, bits |-> b, value |-> K(v)]>>
ReturnUnless(r, b, v) == <<[op |-> "unless", reg |-> r, bits |-> b, value |-> K(v)]>>

\* if (!h) return EPIC_INVALID
Given(h, code) == IF h = Null THEN Return(K("INVALID")) ELSE code
Ok == Return(K("OK"))

\* Read again until two readings agree; wait for a bit to fall.
Repeat(body, a, b) == body \o <<[op |-> "repeat", back |-> Len(body), a |-> a, b |-> b]>>
Await(r, b)        == <<[op |-> "await", reg |-> r, bits |-> b]>>

\* The slot of a driver: a callback, or a handle whose fields of type BOOLEAN say
\* which callbacks it has.
Keep(s, h)   == <<[op |-> "keep", slot |-> s, to |-> h]>>
Drop(s)      == Keep(s, Null)
UnlessKept(s) == <<[op |-> "kept", slot |-> s]>>
CallbackOf(s, f, e) == <<[op |-> "call", slot |-> s, field |-> f, value |-> e]>>
Callback(s, e) == CallbackOf(s, "cb", e)
=============================================================================
