------------------------------- MODULE Word32 -------------------------------
(***************************************************************************)
(* Bytes and 32-bit words as the sets of the numbers of their one bits,    *)
(* bit 0 being the least significant: TLC's integers are not wide enough,  *)
(* and every operation of the hash is one on bits.                         *)
(***************************************************************************)
EXTENDS Integers, Sequences

Byte == SUBSET (0..7)
Word == SUBSET (0..31)

\* The last eight and the last sixteen bits of a number, a word from two halves.
Power2       == <<1, 2, 4, 8, 16, 32, 64, 128, 256, 512, 1024, 2048, 4096, 8192, 16384, 32768>>
ByteBits(n)  == {i \in 0..7 : (n \div Power2[i + 1]) % 2 = 1}
Bits16(n)    == {i \in 0..15 : (n \div Power2[i + 1]) % 2 = 1}
Halves(h, l) == {i \in 0..31 : IF i < 16 THEN i \in Bits16(l) ELSE i - 16 \in Bits16(h)}

\* The number that a byte stands for.
Number(b) == CHOOSE n \in 0..255 : ByteBits(n) = b

Xor(x, y) == (x \ y) \cup (y \ x)
And(x, y) == x \cap y
Or(x, y)  == x \cup y
Not(x)    == (0..31) \ x

\* Addition modulo 2^32: a carry into bit i comes from a lower bit that both have
\* (g holds those), over bits that one of the two has (p).
Carry(g, p, i) == \E j \in g : j < i /\ \A k \in (j + 1)..(i - 1) : k \in p
Add(x, y)      == {i \in 0..31 : ((i \in x) <=> (i \in y)) <=> Carry(x \cap y, x \cup y, i)}

\* Five words added to five others.
Sums(x, y) == <<Add(x[1], y[1]), Add(x[2], y[2]), Add(x[3], y[3]), Add(x[4], y[4]), Add(x[5], y[5])>>

RotL(x, n) == {i \in 0..31 : (i - n) % 32 \in x}

\* Byte number 0 .. 3 of a word, the most significant first, and a word with
\* such a byte replaced.
ByteOf(x, n)     == {i \in 0..7 : i + 8 * (3 - n) \in x}
SetByte(x, n, b) == {i \in 0..31 : IF i \div 8 = 3 - n THEN i % 8 \in b ELSE i \in x}

-----------------------------------------------------------------------------
\* A step done 64 and 128 times: a loop that ends earlier has steps that change
\* nothing.
Twice(f)    == [s \in DOMAIN f |-> f[f[s]]]
Loop8(f)    == Twice(Twice(Twice(f)))
Loop64(f)   == Loop8(Loop8(f))
Loop128(f)  == Twice(Loop64(f))
=============================================================================
