--------------------------- MODULE HmacReference ---------------------------
(***************************************************************************)
(* SHA-1, HMAC and the one-time code as their standards define them, over  *)
(* whole messages: no buffer, and the schedule of a block written out.     *)
(***************************************************************************)
EXTENDS Word32

Hash     == [1..5 -> Word]
Zeros(n) == [i \in 1..n |-> {}]

\* The number n < 2^32 as eight bytes; lengths and heartbeats are no larger.
Bytes8(n) == <<{}, {}, {}, {}, ByteBits(n \div 16777216), ByteBits(n \div 65536), ByteBits(n \div 256), ByteBits(n)>>

\* One bit, zeros up to 8 bytes before the end of a block, the length in bits.
Padded(m) ==
    LET zeros == (119 - (Len(m) % 64)) % 64 IN m \o <<{7}>> \o Zeros(zeros) \o Bytes8(8 * Len(m))

\* Word t of block n of a message: 0 <= t < 16, 1 <= n.
WordOf(m, n, t) == {i \in 0..31 : i % 8 \in m[64 * (n - 1) + 4 * t + 4 - (i \div 8)]}

\* The schedule of a block: its sixteen words, and each further one from four
\* before it (word t is number t + 1 of the sequence).
NextWord(w) == LET t == Len(w) + 1 IN RotL(Xor(Xor(Xor(w[t - 3], w[t - 8]), w[t - 14]), w[t - 16]), 1)
Extend      == [w \in Seq(Word) |-> IF Len(w) < 80 THEN Append(w, NextWord(w)) ELSE w]

Schedule(m, n) == Loop64(Extend)[[t \in 1..16 |-> WordOf(m, n, t - 1)]]

Ch(x, y, z)     == Xor(And(x, y), And(Not(x), z))
Parity(x, y, z) == Xor(Xor(x, y), z)
Maj(x, y, z)    == Xor(Xor(And(x, y), And(x, z)), And(y, z))

F(t, x, y, z) == IF t < 20 THEN Ch(x, y, z) ELSE IF t < 40 THEN Parity(x, y, z)
                 ELSE IF t < 60 THEN Maj(x, y, z) ELSE Parity(x, y, z)

K(t) == IF t < 20 THEN Halves(23170, 31129) ELSE IF t < 40 THEN Halves(28377, 60321)
        ELSE IF t < 60 THEN Halves(36635, 48348) ELSE Halves(51810, 49622)

H0 == <<Halves(26437, 8961), Halves(61389, 43913), Halves(39098, 56574), Halves(4146, 21622), Halves(50130, 57840)>>

\* Round t with the schedule w.
Mixed(w) ==
    [g \in [t : Nat, v : Hash] |->
        IF g.t < 80
        THEN [t |-> g.t + 1,
              v |-> <<Add(Add(Add(Add(RotL(g.v[1], 5), F(g.t, g.v[2], g.v[3], g.v[4])), g.v[5]), K(g.t)), w[g.t + 1]),
                      g.v[1], RotL(g.v[2], 30), g.v[3], g.v[4]>>]
        ELSE g]

Compressed(h, m, n) ==
    Sums(h, Loop128(Mixed(Schedule(m, n)))[[t |-> 0, v |-> h]].v)

\* The hash value after the whole blocks of a message.
Hashed(m) ==
    LET h[n \in 0..(Len(m) \div 64)] == IF n = 0 THEN H0 ELSE Compressed(h[n - 1], m, n)
    IN  h[Len(m) \div 64]

SHA1(m) == LET h == Hashed(Padded(m)) IN [i \in 1..20 |-> ByteOf(h[1 + ((i - 1) \div 4)], (i - 1) % 4)]

\* The key as one block, and the two hashes that make an HMAC.
Key(k)     == IF Len(k) > 64 THEN SHA1(k) ELSE k
FullKey(k) == LET key == Key(k) IN key \o Zeros(64 - Len(key))
HMAC(k, m) ==
    LET key   == FullKey(k)
        inner == SHA1([i \in 1..64 |-> Xor(key[i], {1, 2, 4, 5})] \o m)
    IN  SHA1([i \in 1..64 |-> Xor(key[i], {2, 3, 4, 6})] \o inner)

\* The example of RFC 4226: a key and its first codes.
ExampleKey   == [i \in 1..20 |-> ByteBits(48 + (i % 10))]
ExampleCodes == <<755224, 287082, 359152, 969429, 338314, 254676, 287922, 162583, 399871, 520489>>
=============================================================================
