------------------------- MODULE OneTimeCode_proofs -------------------------
(***************************************************************************)
(* The one-time codes are right, for every key of up to 255 bytes and any  *)
(* number of heartbeats.                                                   *)
(*                                                                         *)
(* The loops of sha1.c are related to the functions of the reference: the  *)
(* sixteen words that hashBlock keeps to the schedule of eighty, its sums  *)
(* to the reference's by the laws of addition, and Fed(s, m) says that the *)
(* static variables hold what the reference has after the bytes m: the     *)
(* hash of its whole blocks and, up to bufferOffset, the rest.  IInv adds  *)
(* which message the bytes written and to be written make up at each stage *)
(* of a code.                                                              *)
(***************************************************************************)
EXTENDS OneTimeCode, WellFoundedInduction, TLAPS

-----------------------------------------------------------------------------
(***************************************************************************)
(* Induction over the naturals with a set in the place of a predicate, and *)
(* what it gives for functions defined by recursion: the library's own     *)
(* theorems on both take operators as parameters.                          *)
(***************************************************************************)
\* Every set of naturals has a least element.
LEMMA LeastNat ==
  ASSUME NEW T \in SUBSET Nat, T # {}
  PROVE  \E n \in T : \A m \in T : n <= m
<1> DEFINE R == OpToRel(<, Nat)
<1>1. IsWellFoundedOn(R, Nat)
  BY NatLessThanWellFounded
<1>2. PICK x \in T : \A y \in T : ~ (<<y, x>> \in R)
  <2> HIDE DEF R
  <2> QED BY <1>1, WFMin, ZenonT(30)
<1>3. ASSUME NEW y \in T PROVE x <= y
  <2>1. ~ (<<y, x>> \in R)
    BY <1>2
  <2>2. y \in Nat /\ x \in Nat /\ ~(y < x)
    BY <2>1 DEF OpToRel
  <2> QED
    BY <2>2
<1> QED
  BY <1>3

\* A set that holds 0 and with each number the next holds every number.
LEMMA SetInduction ==
  ASSUME NEW S, 0 \in S, \A n \in Nat : n \in S => n + 1 \in S
  PROVE  \A n \in Nat : n \in S
<1> SUFFICES ASSUME NEW k \in Nat, k \notin S PROVE FALSE
  OBVIOUS
<1>1. PICK n \in Nat \ S : \A m \in Nat \ S : n <= m
  BY LeastNat, ZenonT(30)
<1>2. n # 0 /\ n - 1 \in Nat /\ n - 1 \in S
  BY <1>1
<1> QED
  BY <1>2

\* f starts with base and goes on with the step G.
Iterates(f, n, A, base, G) ==
  /\ f \in [0..n -> A]
  /\ f[0] = base
  /\ \A i \in 1..n : f[i] = G[<<f[i - 1], i>>]

\* One more iteration.
LEMMA IterateOnce ==
  ASSUME NEW A, NEW base \in A, NEW n \in Nat, NEW G \in [A \X (1..n) -> A],
         NEW k \in Nat, k + 1 <= n, NEW f, Iterates(f, k, A, base, G)
  PROVE  \E g : Iterates(g, k + 1, A, base, G)
<1> DEFINE new == G[<<f[k], k + 1>>]
           g   == [i \in 0..(k + 1) |-> IF i = k + 1 THEN new ELSE f[i]]
<1>1. f \in [0..k -> A] /\ f[0] = base /\ \A i \in 1..k : f[i] = G[<<f[i - 1], i>>]
  BY DEF Iterates
<1>2. k + 1 \in 1..n /\ f[k] \in A
  BY <1>1
<1>3. new \in A
  BY <1>2
<1> HIDE DEF new
<1>4. /\ g[k + 1] = new /\ \A i \in 0..k : g[i] = f[i]
      /\ g \in [0..(k + 1) -> A]
  <2>1. \A i \in 0..(k + 1) : i = k + 1 \/ i \in 0..k
    OBVIOUS
  <2>2. \A i \in 0..k : i # k + 1 /\ i \in 0..(k + 1)
    OBVIOUS
  <2> QED BY <1>1, <1>3, <2>1, <2>2
<1> HIDE DEF g
<1>5. ASSUME NEW i \in 1..(k + 1) PROVE g[i] = G[<<g[i - 1], i>>]
  <2>1. CASE i = k + 1
    <3>1. g[i - 1] = f[k]
      BY <2>1, <1>4
    <3> QED BY <3>1, <2>1, <1>4 DEF new
  <2>2. CASE i \in 1..k
    <3>1. i \in 0..k /\ i - 1 \in 0..k
      BY <2>2
    <3> QED BY <3>1, <2>2, <1>1, <1>4
  <2> QED BY <2>1, <2>2
<1>6. g[0] = base
  BY <1>1, <1>4
<1> QED
  BY <1>4, <1>5, <1>6 DEF Iterates

\* The recursion of a step G over 1..n has a solution.
LEMMA IterationExists ==
  ASSUME NEW A, NEW base \in A, NEW n \in Nat, NEW G \in [A \X (1..n) -> A]
  PROVE  \E f : Iterates(f, n, A, base, G)
<1> DEFINE S == {k \in Nat : k <= n => \E f : Iterates(f, k, A, base, G)}
<1>1. 0 \in S
  <2> DEFINE f == [i \in 0..0 |-> base]
  <2>1. Iterates(f, 0, A, base, G)
    BY DEF Iterates
  <2> HIDE DEF f
  <2>2. \E g : Iterates(g, 0, A, base, G)
    BY <2>1
  <2> QED BY <2>2
<1>2. ASSUME NEW k \in Nat, k \in S PROVE k + 1 \in S
  <2>1. ASSUME k + 1 <= n PROVE \E f : Iterates(f, k + 1, A, base, G)
    <3>1. PICK f : Iterates(f, k, A, base, G)
      BY <1>2, <2>1
    <3> QED BY <2>1, <3>1, IterateOnce
  <2> QED BY <2>1
<1>3. \A k \in Nat : k \in S
  <2> HIDE DEF S
  <2> QED BY <1>1, <1>2, SetInduction
<1> QED
  BY <1>3

-----------------------------------------------------------------------------
(***************************************************************************)
(* Words.                                                                  *)
(***************************************************************************)
\* Every operation gives words.
LEMMA WordTypes ==
  /\ \A x, y : Add(x, y) \in Word
  /\ \A x, n : RotL(x, n) \in Word
  /\ \A x, n, b : SetByte(x, n, b) \in Word
  /\ \A x, y : Halves(x, y) \in Word
  /\ \A x, y : Sums(x, y) \in Hash
<1>1. \A x, y : Add(x, y) \in Word
  BY DEF Add, Word
<1>2. \A x, y : Sums(x, y) \in Hash
  BY <1>1 DEF Sums, Hash
<1> QED
  BY <1>1, <1>2 DEF RotL, SetByte, Halves, Word

\* The choices and majorities of sha1.c are those of the standard.
LEMMA MixIsF ==
  ASSUME NEW i \in Nat, NEW b \in Word, NEW c \in Word, NEW d \in Word
  PROVE  Mix(i, b, c, d) = F(i, b, c, d)
<1>1. Xor(d, And(b, Xor(c, d))) = Ch(b, c, d)
  BY Zenon DEF Xor, And, Ch, Not, Word
<1>2. Or(And(b, c), And(d, Or(b, c))) = Maj(b, c, d)
  BY DEF Xor, And, Or, Maj
<1> QED
  BY <1>1, <1>2 DEF Mix, F, Parity

\* The carry into the next bit.
LEMMA CarryNext ==
  ASSUME NEW x \in Word, NEW y \in Word, NEW i \in Nat
  PROVE  /\ ~Carry(x \cap y, x \cup y, 0)
         /\ Carry(x \cap y, x \cup y, i + 1) <=>
              \/ i \in x /\ i \in y
              \/ (i \in x \/ i \in y) /\ Carry(x \cap y, x \cup y, i)
<1> DEFINE g == x \cap y
           p == x \cup y
<1>0. \A j \in g : j \in 0..31
  BY DEF Word
<1>1. ~Carry(g, p, 0)
  BY <1>0 DEF Carry
<1>2. ASSUME Carry(g, p, i + 1) PROVE i \in g \/ (i \in p /\ Carry(g, p, i))
  <2>1. PICK j \in g : j < i + 1 /\ \A k \in (j + 1)..(i + 1 - 1) : k \in p
    BY <1>2 DEF Carry
  <2>2. CASE j = i
    BY <2>1, <2>2
  <2>3. CASE j # i
    <3>1. j \in Nat /\ j < i
      BY <1>0, <2>1, <2>3
    <3>2. i \in p /\ \A k \in (j + 1)..(i - 1) : k \in p
      BY <2>1, <3>1
    <3> QED BY <3>1, <3>2 DEF Carry
  <2> QED BY <2>2, <2>3
<1>3. ASSUME i \in g PROVE Carry(g, p, i + 1)
  BY <1>3 DEF Carry
<1>4. ASSUME i \in p, Carry(g, p, i) PROVE Carry(g, p, i + 1)
  <2>1. PICK j \in g : j < i /\ \A k \in (j + 1)..(i - 1) : k \in p
    BY <1>4 DEF Carry
  <2>2. j \in Nat
    BY <1>0
  <2>3. \A k \in (j + 1)..(i + 1 - 1) : k \in p
    BY <2>1, <2>2, <1>4
  <2> QED BY <2>1, <2>2, <2>3 DEF Carry
<1> QED
  BY <1>1, <1>2, <1>3, <1>4

\* Addition does not depend on the order of its two sides.
LEMMA AddCommutes ==
  ASSUME NEW x, NEW y
  PROVE  Add(x, y) = Add(y, x)
<1>1. x \cap y = y \cap x /\ x \cup y = y \cup x
  OBVIOUS
<1> QED
  BY <1>1 DEF Add

\* Nor on the order in which three words are added: bit by bit, the two
\* carries of one order are as many as those of the other.
LEMMA AddAssociates ==
  ASSUME NEW x \in Word, NEW y \in Word, NEW z \in Word
  PROVE  Add(Add(x, y), z) = Add(x, Add(y, z))
<1> DEFINE a     == Add(x, y)
           b     == Add(y, z)
           C1(i) == Carry(x \cap y, x \cup y, i)
           C2(i) == Carry(a \cap z, a \cup z, i)
           D1(i) == Carry(y \cap z, y \cup z, i)
           D2(i) == Carry(x \cap b, x \cup b, i)
           Same(i) == ((C1(i) <=> C2(i)) <=> (D1(i) <=> D2(i))) /\ ((C1(i) /\ C2(i)) <=> (D1(i) /\ D2(i)))
           S == {i \in Nat : i <= 31 => Same(i)}
<1>1. a \in Word /\ b \in Word
  BY WordTypes
<1>2. /\ ~C1(0) /\ ~C2(0) /\ ~D1(0) /\ ~D2(0)
      /\ \A i \in Nat : /\ C1(i + 1) <=> (i \in x /\ i \in y) \/ ((i \in x \/ i \in y) /\ C1(i))
                        /\ C2(i + 1) <=> (i \in a /\ i \in z) \/ ((i \in a \/ i \in z) /\ C2(i))
                        /\ D1(i + 1) <=> (i \in y /\ i \in z) \/ ((i \in y \/ i \in z) /\ D1(i))
                        /\ D2(i + 1) <=> (i \in x /\ i \in b) \/ ((i \in x \/ i \in b) /\ D2(i))
  BY <1>1, CarryNext, Zenon
<1>3. \A i \in 0..31 : /\ (i \in a) <=> (((i \in x) <=> (i \in y)) <=> C1(i))
                       /\ (i \in b) <=> (((i \in y) <=> (i \in z)) <=> D1(i))
                       /\ (i \in Add(a, z)) <=> (((i \in a) <=> (i \in z)) <=> C2(i))
                       /\ (i \in Add(x, b)) <=> (((i \in x) <=> (i \in b)) <=> D2(i))
  BY DEF Add
<1>4. ASSUME NEW i \in 0..31, Same(i)
      PROVE  (i \in Add(a, z)) <=> (i \in Add(x, b))
  <2> DEFINE xi == i \in x
             yi == i \in y
             zi == i \in z
  <2>1. /\ (i \in a) <=> ((xi <=> yi) <=> C1(i))
        /\ (i \in b) <=> ((yi <=> zi) <=> D1(i))
        /\ (i \in Add(a, z)) <=> (((i \in a) <=> zi) <=> C2(i))
        /\ (i \in Add(x, b)) <=> ((xi <=> (i \in b)) <=> D2(i))
    BY <1>3
  <2> HIDE DEF C1, C2, D1, D2, a, b, xi, yi, zi
  <2> QED BY <1>4, <2>1
<1>5. ASSUME NEW i \in 0..31, Same(i) PROVE Same(i + 1)
  <2> DEFINE xi == i \in x
             yi == i \in y
             zi == i \in z
             ai == i \in a
             bi == i \in b
  <2>1. /\ ai <=> ((xi <=> yi) <=> C1(i))
        /\ bi <=> ((yi <=> zi) <=> D1(i))
    BY <1>3
  <2>2. /\ C1(i + 1) <=> ((xi /\ yi) \/ ((xi \/ yi) /\ C1(i)))
        /\ C2(i + 1) <=> ((ai /\ zi) \/ ((ai \/ zi) /\ C2(i)))
        /\ D1(i + 1) <=> ((yi /\ zi) \/ ((yi \/ zi) /\ D1(i)))
        /\ D2(i + 1) <=> ((xi /\ bi) \/ ((xi \/ bi) /\ D2(i)))
    <3>1. i \in Nat
      OBVIOUS
    <3> HIDE DEF C1, C2, D1, D2, a, b
    <3> QED BY <1>2, <3>1
  <2> HIDE DEF C1, C2, D1, D2, xi, yi, zi, ai, bi
  <2> QED BY <1>5, <2>1, <2>2
<1>6. \A i \in Nat : i \in S
  <2>1. 0 \in S
    <3> HIDE DEF C1, C2, D1, D2
    <3> QED BY <1>2
  <2>2. ASSUME NEW i \in Nat, i \in S PROVE i + 1 \in S
    <3>1. CASE i + 1 <= 31
      <4>1. i \in 0..31 /\ i <= 31
        BY <3>1
      <4>2. Same(i)
        BY <2>2, <4>1
      <4> HIDE DEF Same
      <4> QED BY <1>5, <4>1, <4>2
    <3>2. CASE ~(i + 1 <= 31)
      BY <3>2
    <3> QED BY <3>1, <3>2
  <2> HIDE DEF S
  <2> QED BY <2>1, <2>2, SetInduction
<1>7. \A i \in 0..31 : Same(i)
  <2> HIDE DEF Same
  <2> QED BY <1>6
<1>8. \A i \in 0..31 : (i \in Add(a, z)) <=> (i \in Add(x, b))
  <2> HIDE DEF Same, a, b
  <2> QED BY <1>4, <1>7
<1>9. Add(a, z) \in Word /\ Add(x, b) \in Word
  BY WordTypes
<1> HIDE DEF a, b
<1>10. Add(a, z) = Add(x, b)
  BY <1>8, <1>9 DEF Word
<1> QED
  BY <1>10 DEF a, b

\* The five summands of a round, in the order of the code and of the standard.
LEMMA SumOrder ==
  ASSUME NEW f \in Word, NEW k \in Word, NEW r \in Word, NEW e \in Word, NEW w \in Word
  PROVE  Add(Add(f, k), Add(Add(r, e), w)) = Add(Add(Add(Add(r, f), e), k), w)
<1> USE WordTypes
<1>1. Add(Add(f, k), Add(Add(r, e), w)) = Add(Add(Add(f, k), Add(r, e)), w)
  BY AddAssociates
<1>2. Add(Add(f, k), Add(r, e)) = Add(Add(r, e), Add(f, k))
  BY AddCommutes
<1>3. Add(Add(r, e), Add(f, k)) = Add(Add(Add(r, e), f), k)
  BY AddAssociates
<1>4. Add(Add(r, e), f) = Add(r, Add(e, f))
  BY AddAssociates
<1>5. Add(e, f) = Add(f, e)
  BY AddCommutes
<1>6. Add(r, Add(f, e)) = Add(Add(r, f), e)
  BY AddAssociates
<1> QED
  BY <1>1, <1>2, <1>3, <1>4, <1>5, <1>6

-----------------------------------------------------------------------------
(***************************************************************************)
(* Loops.                                                                  *)
(***************************************************************************)
\* What one iteration keeps, two iterations keep.
LEMMA TwiceKeeps ==
  ASSUME NEW S, NEW f \in [S -> S], NEW I, \A s \in S : s \in I => f[s] \in I
  PROVE  Twice(f) \in [S -> S] /\ \A s \in S : s \in I => Twice(f)[s] \in I
BY DEF Twice

\* So do 64 and 128.
LEMMA LoopKeeps ==
  ASSUME NEW S, NEW f \in [S -> S], NEW I, \A s \in S : s \in I => f[s] \in I
  PROVE  /\ Loop64(f) \in [S -> S] /\ \A s \in S : s \in I => Loop64(f)[s] \in I
         /\ Loop128(f) \in [S -> S] /\ \A s \in S : s \in I => Loop128(f)[s] \in I
<1>1. ASSUME NEW g \in [S -> S], \A s \in S : s \in I => g[s] \in I
      PROVE  Loop8(g) \in [S -> S] /\ \A s \in S : s \in I => Loop8(g)[s] \in I
  <2>1. Twice(g) \in [S -> S] /\ \A s \in S : s \in I => Twice(g)[s] \in I
    BY <1>1, TwiceKeeps
  <2>2. Twice(Twice(g)) \in [S -> S] /\ \A s \in S : s \in I => Twice(Twice(g))[s] \in I
    BY <2>1, TwiceKeeps, Zenon
  <2> QED BY <2>2, TwiceKeeps, Zenon DEF Loop8
<1>2. Loop8(f) \in [S -> S] /\ \A s \in S : s \in I => Loop8(f)[s] \in I
  BY <1>1
<1>3. Loop64(f) \in [S -> S] /\ \A s \in S : s \in I => Loop64(f)[s] \in I
  BY <1>1, <1>2 DEF Loop64
<1> QED
  BY <1>3, TwiceKeeps, Zenon DEF Loop128

\* The steps f and g of two loops keep the relation R.
KeepRelated(S, T, f, g, R) ==
  /\ f \in [S -> S] /\ g \in [T -> T]
  /\ \A s \in S, t \in T : <<s, t>> \in R => <<f[s], g[t]>> \in R

\* A relation that the steps of two loops keep, the loops keep.
LEMMA LoopRelates ==
  ASSUME NEW S, NEW T, NEW f, NEW g, NEW R, KeepRelated(S, T, f, g, R)
  PROVE  KeepRelated(S, T, Loop128(f), Loop128(g), R)
<1>1. ASSUME NEW p, NEW q, KeepRelated(S, T, p, q, R) PROVE KeepRelated(S, T, Twice(p), Twice(q), R)
  BY <1>1, Zenon DEF KeepRelated, Twice
<1>2. \A p, q : KeepRelated(S, T, p, q, R) => KeepRelated(S, T, Loop8(p), Loop8(q), R)
  BY <1>1 DEF Loop8
<1> QED
  BY <1>1, <1>2 DEF Loop128, Loop64

\* A loop of 64 or 128 iterations brings a measure that is not larger to 0.
LEMMA LoopEnds ==
  ASSUME NEW S, NEW f \in [S -> S], NEW d \in [S -> Nat],
         \A s \in S : d[f[s]] = IF d[s] >= 1 THEN d[s] - 1 ELSE 0
  PROVE  /\ \A s \in S : d[s] <= 64 => d[Loop64(f)[s]] = 0
         /\ \A s \in S : d[s] <= 128 => d[Loop128(f)[s]] = 0
<1> DEFINE Lowers(g, n) == /\ g \in [S -> S] /\ n \in Nat
                           /\ \A s \in S : d[g[s]] = IF d[s] >= n THEN d[s] - n ELSE 0
<1>1. ASSUME NEW g, NEW n, Lowers(g, n) PROVE Lowers(Twice(g), n + n)
  <2>1. g \in [S -> S] /\ n \in Nat /\ \A s \in S : d[g[s]] = IF d[s] >= n THEN d[s] - n ELSE 0
    BY <1>1
  <2>2. n + n \in Nat
    BY <2>1
  <2>3. Twice(g) \in [S -> S] /\ \A s \in S : Twice(g)[s] = g[g[s]] /\ g[s] \in S
    BY <2>1 DEF Twice
  <2>4. ASSUME NEW s \in S PROVE d[Twice(g)[s]] = IF d[s] >= n + n THEN d[s] - (n + n) ELSE 0
    BY <2>1, <2>3
  <2> QED BY <2>2, <2>3, <2>4
<1>2. Lowers(f, 1)
  OBVIOUS
<1> HIDE DEF Lowers
<1>3. Lowers(Twice(f), 2)
  BY <1>1, <1>2
<1>4. Lowers(Twice(Twice(f)), 4)
  BY <1>1, <1>3
<1>5. Lowers(Loop8(f), 8)
  BY <1>1, <1>4 DEF Loop8
<1>6. Lowers(Twice(Loop8(f)), 16)
  BY <1>1, <1>5
<1>7. Lowers(Twice(Twice(Loop8(f))), 32)
  BY <1>1, <1>6
<1>8. Lowers(Loop64(f), 64)
  BY <1>1, <1>7 DEF Loop64, Loop8
<1>9. Lowers(Loop128(f), 128)
  BY <1>1, <1>8 DEF Loop128
<1>10. ASSUME NEW g, NEW n \in Nat, Lowers(g, n), NEW s \in S, d[s] <= n PROVE d[g[s]] = 0
  BY <1>10 DEF Lowers
<1> QED
  BY <1>8, <1>9, <1>10

-----------------------------------------------------------------------------
(***************************************************************************)
(* A block: its schedule, and the rounds.                                  *)
(***************************************************************************)
\* The word of a schedule w that comes from four before it.
Later(w, t) == RotL(Xor(Xor(Xor(w[t - 3], w[t - 8]), w[t - 14]), w[t - 16]), 1)

\* w0 and the words that follow from it, as many as w has.
Extends(w, w0) == /\ w \in Seq(Word) /\ Len(w) \in 16..80
                  /\ \A t \in 1..16 : w[t] = w0[t]
                  /\ \A t \in 17..Len(w) : w[t] = Later(w, t)

\* One more word.
LEMMA ExtendOnce ==
  ASSUME NEW w \in Seq(Word)
  PROVE  /\ Extend[w] \in Seq(Word) /\ Len(w) \in Nat
         /\ Len(w) < 80 => /\ Len(Extend[w]) = Len(w) + 1 /\ \A t \in 1..Len(w) : Extend[w][t] = w[t]
                           /\ Extend[w][Len(w) + 1] = Later(w, Len(w) + 1)
         /\ Len(w) >= 80 => Extend[w] = w
<1> DEFINE x == Later(w, Len(w) + 1)
<1>1. Extend[w] = IF Len(w) < 80 THEN Append(w, x) ELSE w
  BY DEF Extend, NextWord, Later
<1>2. x \in Word
  BY WordTypes DEF Later
<1> HIDE DEF x
<1>3. /\ Append(w, x) \in Seq(Word) /\ Len(Append(w, x)) = Len(w) + 1 /\ Len(w) \in Nat
      /\ \A t \in 1..Len(w) : Append(w, x)[t] = w[t]
      /\ Append(w, x)[Len(w) + 1] = x
  BY <1>2
<1> QED
  BY <1>1, <1>3 DEF x

\* A schedule in progress stays one with its next word.
LEMMA ExtendKeeps ==
  ASSUME NEW w, NEW w0, Extends(w, w0)
  PROVE  Extends(Extend[w], w0)
<1> DEFINE v == Extend[w]
<1>1. /\ w \in Seq(Word) /\ Len(w) \in 16..80 /\ \A t \in 1..16 : w[t] = w0[t]
      /\ \A t \in 17..Len(w) : w[t] = Later(w, t)
  BY DEF Extends
<1>0. PICK l \in 16..80 : Len(w) = l
  BY DEF Extends
<1>2. CASE Len(w) >= 80
  BY <1>1, <1>2, ExtendOnce, Zenon
<1>3. CASE Len(w) < 80
  <2>1. /\ v \in Seq(Word) /\ Len(v) = Len(w) + 1
        /\ \A t \in 1..Len(w) : v[t] = w[t]
        /\ v[Len(w) + 1] = Later(w, Len(w) + 1)
    BY <1>1, <1>3, ExtendOnce
  <2> HIDE DEF v
  <2>5. Len(v) = Len(w) + 1
    BY <2>1
  <2>2. ASSUME NEW t \in 17..(Len(w) + 1) PROVE Later(v, t) = Later(w, t)
    <3>1. /\ t - 3 \in 1..Len(w) /\ t - 8 \in 1..Len(w) /\ t - 14 \in 1..Len(w) /\ t - 16 \in 1..Len(w)
      BY <1>0
    <3> QED BY <2>1, <3>1, Zenon DEF Later
  <2>3. ASSUME NEW t \in 17..Len(v) PROVE v[t] = Later(v, t)
    <3>1. (t \in 17..Len(w) /\ t \in 1..Len(w)) \/ t = Len(w) + 1
      BY <2>1, <1>1, SMTT(30)
    <3> QED BY <3>1, <2>1, <2>2, <1>1, Zenon
  <2>4. \A t \in 1..16 : v[t] = w0[t]
    <3>1. \A t \in 1..16 : t \in 1..Len(w)
      BY <1>0
    <3> QED BY <2>1, <1>1, <3>1, Zenon
  <2>6. Len(v) \in 16..80
    BY <1>0, <1>3, <2>5
  <2> QED BY <2>1, <2>3, <2>4, <2>6 DEF Extends, v
<1> QED
  BY <1>1, <1>2, <1>3

\* A schedule has 80 words: those of the block, and later ones.
LEMMA ScheduleFacts ==
  ASSUME NEW m, NEW n
  PROVE  /\ Schedule(m, n) \in Seq(Word) /\ Len(Schedule(m, n)) = 80
         /\ \A t \in 1..16 : Schedule(m, n)[t] = WordOf(m, n, t - 1)
         /\ \A t \in 17..80 : Schedule(m, n)[t] = Later(Schedule(m, n), t)
<1> DEFINE w0 == [t \in 1..16 |-> WordOf(m, n, t - 1)]
           S  == Seq(Word)
           I  == {w \in S : Extends(w, w0)}
           d  == [w \in S |-> IF Len(w) < 80 THEN 80 - Len(w) ELSE 0]
           r  == Loop64(Extend)[w0]
<1>1. w0 \in S /\ Len(w0) = 16 /\ \A t \in 1..16 : w0[t] = WordOf(m, n, t - 1)
  <2>1. \A t \in 1..16 : WordOf(m, n, t - 1) \in Word
    BY DEF WordOf, Word
  <2> QED BY <2>1
<1>2. r = Schedule(m, n)
  BY DEF Schedule
<1> HIDE DEF w0
<1>3. Extend \in [S -> S]
  BY ExtendOnce DEF Extend
<1>4. w0 \in I /\ \A w \in S : w \in I => Extend[w] \in I
  <2>1. Extends(w0, w0)
    BY <1>1 DEF Extends
  <2> QED BY <1>1, <1>3, <2>1, ExtendKeeps
<1>5. ASSUME NEW w \in S
      PROVE  /\ Len(w) \in Nat /\ d[w] = IF Len(w) < 80 THEN 80 - Len(w) ELSE 0
             /\ d[Extend[w]] = IF Len(Extend[w]) < 80 THEN 80 - Len(Extend[w]) ELSE 0
  BY <1>3
<1>6. d \in [S -> Nat]
  OBVIOUS
<1> HIDE DEF d
<1>7. \A w \in S : d[Extend[w]] = IF d[w] >= 1 THEN d[w] - 1 ELSE 0
  BY <1>5, ExtendOnce, SMTT(30)
<1>8. d[w0] <= 64
  <2>1. w0 \in S /\ Len(w0) = 16
    BY <1>1
  <2>2. d[w0] = IF 16 < 80 THEN 80 - 16 ELSE 0
    BY <2>1, <1>5, Zenon
  <2> QED BY <2>2
<1>9. r \in I
  <2> HIDE DEF I, S
  <2> QED BY <1>1, <1>3, <1>4, LoopKeeps
<1>10. d[r] = 0
  <2> HIDE DEF S
  <2> QED BY <1>1, <1>3, <1>6, <1>7, <1>8, LoopEnds
<1> HIDE DEF r
<1>11. /\ r \in Seq(Word) /\ Len(r) \in 16..80 /\ \A t \in 1..16 : r[t] = w0[t]
       /\ \A t \in 17..Len(r) : r[t] = Later(r, t)
  BY <1>9 DEF Extends
<1>12. Len(r) = 80
  <2>1. r \in S
    BY <1>11
  <2>2. PICK l \in 16..80 : Len(r) = l
    BY <1>11
  <2>3. 0 = IF l < 80 THEN 80 - l ELSE 0
    BY <1>5, <1>10, <2>1, <2>2
  <2> QED BY <2>2, <2>3
<1> QED
  BY <1>1, <1>2, <1>11, <1>12

\* The states of the two loops.
Rounds == [i : Nat, v : Hash, w : Buffer]
Mixes  == [t : Nat, v : Hash]

\* One round, and its types.
LEMMA RoundFacts ==
  ASSUME NEW g \in Rounds
  PROVE  LET w == IF g.i >= 16 THEN [g.w EXCEPT ![g.i % 16] = RotL(Window(g.w, g.i), 1)] ELSE g.w
             t == Add(Add(Mix(g.i, g.v[2], g.v[3], g.v[4]), SHA1_K[1 + (g.i \div 20)]),
                      Add(Add(RotL(g.v[1], 5), g.v[5]), w[g.i % 16]))
         IN  /\ w \in Buffer /\ Round[g] \in Rounds
             /\ g.i < 80 => Round[g] = [i |-> g.i + 1, v |-> <<t, g.v[1], RotL(g.v[2], 30), g.v[3], g.v[4]>>, w |-> w]
             /\ g.i >= 80 => Round[g] = g
<1> DEFINE w == IF g.i >= 16 THEN [g.w EXCEPT ![g.i % 16] = RotL(Window(g.w, g.i), 1)] ELSE g.w
           t == Add(Add(Mix(g.i, g.v[2], g.v[3], g.v[4]), SHA1_K[1 + (g.i \div 20)]),
                    Add(Add(RotL(g.v[1], 5), g.v[5]), w[g.i % 16]))
           v == <<t, g.v[1], RotL(g.v[2], 30), g.v[3], g.v[4]>>
<1>1. g.i \in Nat /\ g.v \in Hash /\ g.w \in Buffer
  BY DEF Rounds
<1>2. w \in Buffer
  BY <1>1, WordTypes DEF Buffer
<1>3. Round[g] = IF g.i < 80 THEN [i |-> g.i + 1, v |-> v, w |-> w] ELSE g
  BY DEF Round, Rounds
<1>4. t \in Word /\ RotL(g.v[2], 30) \in Word
  BY WordTypes
<1> HIDE DEF w, t
<1>5. v \in Hash
  BY <1>1, <1>4 DEF Hash
<1> HIDE DEF v
<1>6. [i |-> g.i + 1, v |-> v, w |-> w] \in Rounds
  BY <1>1, <1>2, <1>5 DEF Rounds
<1>7. Round[g] \in Rounds /\ (g.i < 80 => Round[g] = [i |-> g.i + 1, v |-> v, w |-> w]) /\ (g.i >= 80 => Round[g] = g)
  BY <1>1, <1>3, <1>6
<1> QED
  BY <1>2, <1>7 DEF w, t, v

\* One round of the standard, and its types.
LEMMA MixedFacts ==
  ASSUME NEW w, NEW g \in Mixes
  PROVE  LET t == Add(Add(Add(Add(RotL(g.v[1], 5), F(g.t, g.v[2], g.v[3], g.v[4])), g.v[5]), K(g.t)), w[g.t + 1])
         IN  /\ Mixed(w)[g] \in Mixes
             /\ g.t < 80 => Mixed(w)[g] = [t |-> g.t + 1, v |-> <<t, g.v[1], RotL(g.v[2], 30), g.v[3], g.v[4]>>]
             /\ g.t >= 80 => Mixed(w)[g] = g
<1> DEFINE t == Add(Add(Add(Add(RotL(g.v[1], 5), F(g.t, g.v[2], g.v[3], g.v[4])), g.v[5]), K(g.t)), w[g.t + 1])
           v == <<t, g.v[1], RotL(g.v[2], 30), g.v[3], g.v[4]>>
<1>1. g.t \in Nat /\ g.v \in Hash
  BY DEF Mixes
<1>2. Mixed(w)[g] = IF g.t < 80 THEN [t |-> g.t + 1, v |-> v] ELSE g
  BY DEF Mixed, Mixes
<1>3. t \in Word /\ RotL(g.v[2], 30) \in Word
  BY WordTypes
<1> HIDE DEF t
<1>4. v \in Hash
  BY <1>1, <1>3 DEF Hash
<1> HIDE DEF v
<1>5. [t |-> g.t + 1, v |-> v] \in Mixes
  BY <1>1, <1>4 DEF Mixes
<1>6. Mixed(w)[g] \in Mixes /\ (g.t < 80 => Mixed(w)[g] = [t |-> g.t + 1, v |-> v]) /\ (g.t >= 80 => Mixed(w)[g] = g)
  BY <1>1, <1>2, <1>5
<1> QED
  BY <1>6 DEF t, v

\* The sixteen words of the buffer before round i are the last ones of the
\* schedule, each in the place of its number modulo 16.
Held(w, i, W) == \A k \in 0..79 : (IF i <= 16 THEN k < 16 ELSE i - 16 <= k /\ k < i) => w[k % 16] = W[k + 1]

\* The word that round i uses.
WordHeld(g) == IF g.i >= 16 THEN [g.w EXCEPT ![g.i % 16] = RotL(Window(g.w, g.i), 1)] ELSE g.w

\* The buffer of sixteen words yields the schedule.
LEMMA WindowSlides ==
  ASSUME NEW W, NEW g \in Rounds, g.i < 80, Held(g.w, g.i, W),
         \A t \in 17..80 : W[t] = Later(W, t)
  PROVE  WordHeld(g)[g.i % 16] = W[g.i + 1] /\ Held(WordHeld(g), g.i + 1, W)
<1> DEFINE i == g.i
           x == RotL(Window(g.w, i), 1)
<1>1. i \in 0..79 /\ g.w \in [0..15 -> Word] /\ i % 16 \in 0..15
  BY DEF Rounds, Buffer
<1>2. CASE i < 16
  <2>1. i % 16 = i /\ WordHeld(g) = g.w
    BY <1>1, <1>2 DEF WordHeld
  <2>2. WordHeld(g)[i % 16] = W[i + 1]
    BY <1>1, <1>2, <2>1 DEF Held
  <2>3. Held(WordHeld(g), i + 1, W)
    BY <1>1, <1>2, <2>1 DEF Held
  <2> QED BY <2>2, <2>3
<1>3. CASE i >= 16
  <2>0. WordHeld(g) = [g.w EXCEPT ![i % 16] = x]
    BY <1>3 DEF WordHeld
  <2>1. ASSUME NEW k \in 0..79, i - 16 <= k, k < i PROVE g.w[k % 16] = W[k + 1]
    <3>1. IF i <= 16 THEN k < 16 ELSE i - 16 <= k /\ k < i
      BY <1>1, <1>3, <2>1
    <3> QED BY <3>1, SMTT(30) DEF Held
  <2>2. /\ (i + 13) % 16 = (i - 3) % 16 /\ (i + 8) % 16 = (i - 8) % 16
        /\ (i + 2) % 16 = (i - 14) % 16 /\ i % 16 = (i - 16) % 16
    BY <1>1, <1>3
  <2>3. /\ g.w[(i + 13) % 16] = W[i - 2] /\ g.w[(i + 8) % 16] = W[i - 7]
        /\ g.w[(i + 2) % 16] = W[i - 13] /\ g.w[i % 16] = W[i - 15]
    <3>1. /\ i - 3 \in 0..79 /\ i - 8 \in 0..79 /\ i - 14 \in 0..79 /\ i - 16 \in 0..79
          /\ i - 16 <= i - 3 /\ i - 16 <= i - 8 /\ i - 16 <= i - 14 /\ i - 16 <= i - 16
          /\ i - 3 < i /\ i - 8 < i /\ i - 14 < i /\ i - 16 < i
      BY <1>1, <1>3
    <3>3. /\ (i - 3) + 1 = i - 2 /\ (i - 8) + 1 = i - 7 /\ (i - 14) + 1 = i - 13 /\ (i - 16) + 1 = i - 15
      BY <1>1, <1>3, SMTT(30)
    <3>2. /\ g.w[(i - 3) % 16] = W[(i - 3) + 1] /\ g.w[(i - 8) % 16] = W[(i - 8) + 1]
          /\ g.w[(i - 14) % 16] = W[(i - 14) + 1] /\ g.w[(i - 16) % 16] = W[(i - 16) + 1]
      <4> HIDE DEF i
      <4> QED BY <2>1, <3>1, SMTT(30)
    <3> QED BY <3>2, <3>3, <2>2
  <2>4. x = W[i + 1]
    <3>1. i + 1 \in 17..80 /\ (i + 1) - 3 = i - 2 /\ (i + 1) - 8 = i - 7 /\ (i + 1) - 14 = i - 13 /\ (i + 1) - 16 = i - 15
      BY <1>1, <1>3
    <3>2. W[i + 1] = Later(W, i + 1)
      BY <3>1
    <3> QED BY <2>3, <3>1, <3>2 DEF Later, Window
  <2> HIDE DEF x
  <2>5. WordHeld(g)[i % 16] = x
    BY <1>1, <2>0
  <2>6. ASSUME NEW k \in 0..79, (i + 1) - 16 <= k, k < i + 1 PROVE WordHeld(g)[k % 16] = W[k + 1]
    <3>1. CASE k = i
      BY <2>4, <2>5, <3>1
    <3>2. CASE k # i
      <4>1. k % 16 # i % 16 /\ k % 16 \in 0..15 /\ i - 16 <= k /\ k < i
        BY <1>1, <1>3, <2>6, <3>2
      <4>2. WordHeld(g)[k % 16] = g.w[k % 16]
        BY <1>1, <2>0, <4>1
      <4> QED BY <2>1, <4>1, <4>2, SMTT(30)
    <3> QED BY <3>1, <3>2
  <2>7. ~(i + 1 <= 16)
    BY <1>1, <1>3
  <2>8. Held(WordHeld(g), i + 1, W)
    BY <2>6, <2>7, SMTT(30) DEF Held
  <2> QED BY <2>4, <2>5, <2>8
<1> QED
  BY <1>1, <1>2, <1>3

\* The constant of a round.
LEMMA ConstantOfRound ==
  ASSUME NEW i \in 0..79
  PROVE  SHA1_K[1 + (i \div 20)] = K(i) /\ K(i) \in Word
<1>1. /\ i < 20 => i \div 20 = 0
      /\ i >= 20 /\ i < 40 => i \div 20 = 1
      /\ i >= 40 /\ i < 60 => i \div 20 = 2
      /\ i >= 60 => i \div 20 = 3
  OBVIOUS
<1> QED
  BY <1>1, WordTypes DEF SHA1_K, K

\* The two loops stay at the same values of a, b, c, d and e.
SameRound(g, u, W) == g.i = u.t /\ g.v = u.v /\ Held(g.w, g.i, W)

\* A sequence is a function.
LEMMA SeqFcn ==
  ASSUME NEW A, NEW x \in Seq(A)
  PROVE  x \in [1..Len(x) -> A]
OBVIOUS

\* W is a schedule.
IsSchedule(W) == W \in [1..80 -> Word] /\ \A t \in 17..80 : W[t] = Later(W, t)

\* A round of hashBlock and one of the standard keep the same five words.
LEMMA RoundsAgree ==
  ASSUME NEW W, IsSchedule(W), NEW g \in Rounds, NEW u \in Mixes, SameRound(g, u, W)
  PROVE  SameRound(Round[g], Mixed(W)[u], W)
<1>1. g.i = u.t /\ g.v = u.v /\ Held(g.w, g.i, W) /\ g.i \in Nat /\ g.v \in Hash
  BY DEF SameRound, Rounds
<1>2. CASE g.i >= 80
  <2>1. Round[g] = g
    BY <1>2, RoundFacts, Zenon
  <2>2. u.t >= 80
    BY <1>1, <1>2
  <2>3. Mixed(W)[u] = u
    BY <2>2, MixedFacts, Zenon
  <2> QED BY <2>1, <2>3
<1>3. CASE g.i < 80
  <2> DEFINE i == g.i
             a == RotL(g.v[1], 5)
             f == Mix(i, g.v[2], g.v[3], g.v[4])
             k == SHA1_K[1 + (i \div 20)]
             e == g.v[5]
             w == WordHeld(g)
             t == Add(Add(f, k), Add(Add(a, e), w[i % 16]))
             z == Add(Add(Add(Add(RotL(u.v[1], 5), F(u.t, u.v[2], u.v[3], u.v[4])), u.v[5]), K(u.t)), W[u.t + 1])
  <2>1. i \in 0..79 /\ i + 1 \in 1..80
    BY <1>1, <1>3
  <2>2. w[i % 16] = W[i + 1] /\ Held(w, i + 1, W)
    BY <1>1, <1>3, WindowSlides DEF IsSchedule
  <2>3. W[i + 1] \in Word
    BY <2>1 DEF IsSchedule
  <2>4. /\ g.v[1] \in Word /\ g.v[2] \in Word /\ g.v[3] \in Word /\ g.v[4] \in Word /\ g.v[5] \in Word
    BY <1>1 DEF Hash
  <2>5. f = F(i, g.v[2], g.v[3], g.v[4])
    <3>1. i \in Nat
      BY <1>1
    <3> HIDE DEF i
    <3> QED BY <3>1, <2>4, MixIsF
  <2>6. f \in Word
    BY <2>4 DEF Mix, Xor, And, Or, Word
  <2>7. k = K(i) /\ k \in Word
    BY <2>1, ConstantOfRound
  <2>8. a \in Word
    BY WordTypes, SMTT(30)
  <2>9. t = z
    <3>1. t = Add(Add(Add(Add(a, f), e), k), W[i + 1])
      <4> HIDE DEF a, f, e, k, i, w
      <4>1. e \in Word
        BY <2>4 DEF e
      <4> QED BY <4>1, <2>2, <2>3, <2>6, <2>7, <2>8, SumOrder
    <3> QED BY <3>1, <1>1, <2>5, <2>7, SMTT(30)
  <2>10. Round[g] = [i |-> i + 1, v |-> <<t, g.v[1], RotL(g.v[2], 30), g.v[3], g.v[4]>>, w |-> w]
    BY <1>3, RoundFacts, Zenon DEF WordHeld
  <2>11. Mixed(W)[u] = [t |-> u.t + 1, v |-> <<z, u.v[1], RotL(u.v[2], 30), u.v[3], u.v[4]>>]
    BY <1>1, <1>3, MixedFacts
  <2> HIDE DEF t, z, w
  <2> QED BY <1>1, <2>2, <2>9, <2>10, <2>11 DEF SameRound
<1> QED
  BY <1>1, <1>2, <1>3

\* A full buffer is hashed as the standard hashes the block whose words it holds.
LEMMA BlockHashed ==
  ASSUME NEW s \in Sha1State, NEW m, NEW n, \A j \in 0..15 : s.w[j] = WordOf(m, n, j)
  PROVE  /\ hashBlock(s) \in Sha1State /\ hashBlock(s).off = s.off /\ hashBlock(s).n = s.n
         /\ hashBlock(s).h = Compressed(s.h, m, n)
<1> DEFINE W  == Schedule(m, n)
           g0 == [i |-> 0, v |-> s.h, w |-> s.w]
           u0 == [t |-> 0, v |-> s.h]
           R  == {p \in Rounds \X Mixes : SameRound(p[1], p[2], W)}
           g  == Loop128(Round)[g0]
           u  == Loop128(Mixed(W))[u0]
<1>1. s.w \in Buffer /\ s.h \in Hash /\ s.off \in 0..63 /\ s.n \in Nat
  BY DEF Sha1State, BLOCK_LENGTH
<1>2. /\ W \in Seq(Word) /\ Len(W) = 80
      /\ \A t \in 1..16 : W[t] = WordOf(m, n, t - 1)
      /\ \A t \in 17..80 : W[t] = Later(W, t)
  BY ScheduleFacts
<1> HIDE DEF W
<1>0. IsSchedule(W)
  <2>1. W \in [1..80 -> Word]
    <3>1. W \in Seq(Word) /\ Len(W) = 80
      BY <1>2
    <3> QED BY <3>1, SeqFcn, Zenon
  <2> QED BY <1>2, <2>1 DEF IsSchedule
<1>3. g0 \in Rounds /\ u0 \in Mixes
  BY <1>1 DEF Rounds, Mixes
<1>4. SameRound(g0, u0, W)
  <2>1. ASSUME NEW k \in 0..79, k < 16 PROVE s.w[k % 16] = W[k + 1]
    <3>1. k % 16 = k /\ k \in 0..15 /\ k + 1 \in 1..16 /\ (k + 1) - 1 = k
      BY <2>1
    <3>2. W[k + 1] = WordOf(m, n, (k + 1) - 1)
      BY <3>1, <1>2, Zenon
    <3>3. s.w[k] = WordOf(m, n, k)
      BY <3>1
    <3> QED BY <3>1, <3>2, <3>3
  <2>2. Held(s.w, 0, W)
    BY <2>1, SMTT(30) DEF Held
  <2> QED BY <2>2 DEF SameRound
<1>5. Round \in [Rounds -> Rounds] /\ Mixed(W) \in [Mixes -> Mixes]
  <2>1. \A x \in Rounds : Round[x] \in Rounds
    BY RoundFacts, Zenon
  <2>2. \A x \in Mixes : Mixed(W)[x] \in Mixes
    BY MixedFacts, Zenon
  <2> QED BY <2>1, <2>2 DEF Round, Rounds, Mixed, Mixes
<1>6. \A x \in Rounds, y \in Mixes : <<x, y>> \in R => <<Round[x], Mixed(W)[y]>> \in R
  BY <1>0, <1>5, RoundsAgree
<1>7. <<g0, u0>> \in R
  BY <1>3, <1>4
<1>8. <<g, u>> \in R /\ g \in Rounds
  <2> HIDE DEF R, g0, u0
  <2>1. KeepRelated(Rounds, Mixes, Loop128(Round), Loop128(Mixed(W)), R)
    <3>1. KeepRelated(Rounds, Mixes, Round, Mixed(W), R)
      BY <1>5, <1>6, SMTT(30) DEF KeepRelated
    <3> QED BY <3>1, LoopRelates
  <2> QED BY <1>3, <1>7, <2>1 DEF KeepRelated
<1>9. g.v = u.v /\ g.w \in Buffer
  BY <1>8 DEF SameRound, Rounds
<1>10. hashBlock(s) = [s EXCEPT !.w = g.w, !.h = Sums(s.h, g.v)]
  BY DEF hashBlock
<1>11. Compressed(s.h, m, n) = Sums(s.h, u.v)
  BY DEF Compressed, W
<1> HIDE DEF g, u
<1>12. Sums(s.h, g.v) \in Hash
  BY WordTypes
<1> QED
  BY <1>1, <1>9, <1>10, <1>11, <1>12, Zenon DEF Sha1State

-----------------------------------------------------------------------------
(***************************************************************************)
(* A text: its blocks, and what sha1.c has of it after each byte.          *)
(***************************************************************************)
\* f holds the hash values after the first blocks of m.
Chain(f, m, N) == f \in [0..N -> Hash] /\ f[0] = H0 /\ \A n \in 1..N : f[n] = Compressed(f[n - 1], m, n)

\* The recursion of Hashed has a solution.
LEMMA HashedChain ==
  ASSUME NEW m, NEW N \in Nat, N = Len(m) \div 64
  PROVE  \E f : Chain(f, m, N) /\ Hashed(m) = f[N]
<1> DEFINE Fun(w) == [n \in 0..N |-> IF n = 0 THEN H0 ELSE Compressed(w[n - 1], m, n)]
           W      == CHOOSE w : w = Fun(w)
           G      == [x \in Hash \X (1..N) |-> Compressed(x[1], m, x[2])]
<1>1. Hashed(m) = W[N]
  BY DEF Hashed
<1>2. H0 \in Hash /\ \A h, n : Compressed(h, m, n) \in Hash
  <2>1. H0 \in Hash
    BY WordTypes DEF H0, Hash
  <2> QED BY <2>1, WordTypes DEF Compressed
<1>3. G \in [Hash \X (1..N) -> Hash]
  BY <1>2
<1>4. PICK f : Iterates(f, N, Hash, H0, G)
  <2> HIDE DEF G
  <2> QED BY <1>2, <1>3, IterationExists, Zenon
<1>5. f \in [0..N -> Hash] /\ f[0] = H0 /\ \A n \in 1..N : f[n] = G[<<f[n - 1], n>>]
  BY <1>4, Zenon DEF Iterates
<1>6. \A n \in 1..N : f[n] = Compressed(f[n - 1], m, n)
  <2>1. ASSUME NEW n \in 1..N PROVE G[<<f[n - 1], n>>] = Compressed(f[n - 1], m, n)
    <3>1. f[n - 1] \in Hash
      BY <1>5
    <3> QED BY <3>1
  <2> HIDE DEF G
  <2> QED BY <1>5, <2>1, Zenon
<1>7. f = Fun(f)
  <2>1. ASSUME NEW n \in 0..N PROVE f[n] = IF n = 0 THEN H0 ELSE Compressed(f[n - 1], m, n)
    BY <1>5, <1>6
  <2>2. f = [n \in 0..N |-> f[n]]
    BY <1>5
  <2> QED BY <2>1, <2>2, Zenon
<1>8. W = Fun(W)
  <2> HIDE DEF Fun
  <2> QED BY <1>7
<1> HIDE DEF W
<1>9. W \in [0..N -> Hash] /\ W[0] = H0 /\ \A n \in 1..N : W[n] = Compressed(W[n - 1], m, n)
  <2>1. \A n \in 0..N : W[n] = IF n = 0 THEN H0 ELSE Compressed(W[n - 1], m, n)
    BY <1>8, SMTT(30)
  <2>2. \A n \in 0..N : W[n] \in Hash
    BY <1>2, <2>1
  <2>3. W = [n \in 0..N |-> W[n]]
    BY <1>8
  <2> QED BY <2>1, <2>2, <2>3
<1> QED
  BY <1>1, <1>9 DEF Chain

\* Texts whose first blocks are the same have the same hash values after them.
LEMMA ChainsAgree ==
  ASSUME NEW m, NEW q, NEW N \in Nat, NEW M \in Nat, N <= M, NEW f, NEW g, Chain(f, m, N), Chain(g, q, M),
         \A n \in 1..N : \A t \in 1..16 : WordOf(m, n, t - 1) = WordOf(q, n, t - 1)
  PROVE  f[N] = g[N]
<1>1. ASSUME NEW h, NEW n \in 1..N PROVE Compressed(h, m, n) = Compressed(h, q, n)
  <2>1. [t \in 1..16 |-> WordOf(m, n, t - 1)] = [t \in 1..16 |-> WordOf(q, n, t - 1)]
    OBVIOUS
  <2> QED BY <2>1 DEF Compressed, Schedule
<1> DEFINE S == {n \in Nat : n <= N => f[n] = g[n]}
<1>2. 0 \in S
  BY DEF Chain
<1>3. ASSUME NEW n \in Nat, n \in S PROVE n + 1 \in S
  <2> SUFFICES ASSUME n + 1 <= N PROVE f[n + 1] = g[n + 1]
    OBVIOUS
  <2>1. n + 1 \in 1..N /\ n + 1 \in 1..M /\ (n + 1) - 1 = n /\ f[n] = g[n]
    BY <1>3
  <2>2. f[n + 1] = Compressed(f[n], m, n + 1) /\ g[n + 1] = Compressed(g[n], q, n + 1)
    BY <2>1 DEF Chain
  <2> QED BY <1>1, <2>1, <2>2
<1>4. \A n \in Nat : n \in S
  <2> HIDE DEF S
  <2> QED BY <1>2, <1>3, SetInduction
<1> QED
  BY <1>4

\* A byte that completes a block adds the block to the hash value.
LEMMA HashedAppend ==
  ASSUME NEW m \in Seq(Byte), NEW d \in Byte
  PROVE  /\ (Len(m) + 1) % 64 # 0 => Hashed(Append(m, d)) = Hashed(m)
         /\ (Len(m) + 1) % 64 = 0 =>
              Hashed(Append(m, d)) = Compressed(Hashed(m), Append(m, d), (Len(m) \div 64) + 1)
<1> DEFINE q == Append(m, d)
<1>1. PICK l \in Nat : Len(m) = l
  OBVIOUS
<1>2. Len(q) = l + 1 /\ \A k \in 1..l : q[k] = m[k]
  BY <1>1
<1> HIDE DEF q
<1> DEFINE N == l \div 64
           M == (l + 1) \div 64
<1>3. N \in Nat /\ M \in Nat /\ N <= M /\ 64 * N <= l
  OBVIOUS
<1>4. ((l + 1) % 64 # 0 => M = N) /\ ((l + 1) % 64 = 0 => M = N + 1)
  OBVIOUS
<1>5. PICK f : Chain(f, m, N) /\ Hashed(m) = f[N]
  BY <1>1, <1>3, HashedChain
<1>6. PICK g : Chain(g, q, M) /\ Hashed(q) = g[M]
  BY <1>2, <1>3, HashedChain
<1>7. ASSUME NEW n \in 1..N, NEW t \in 1..16 PROVE WordOf(m, n, t - 1) = WordOf(q, n, t - 1)
  <2>1. ASSUME NEW i \in 0..31 PROVE 64 * (n - 1) + 4 * (t - 1) + 4 - (i \div 8) \in 1..l
    BY <1>3
  <2>2. \A i \in 0..31 : m[64 * (n - 1) + 4 * (t - 1) + 4 - (i \div 8)] = q[64 * (n - 1) + 4 * (t - 1) + 4 - (i \div 8)]
    <3> HIDE DEF N
    <3> QED BY <2>1, <1>2
  <2> QED BY <2>2, Zenon DEF WordOf
<1> HIDE DEF N, M
<1>8. f[N] = g[N]
  BY <1>3, <1>5, <1>6, <1>7, ChainsAgree, SMTT(30)
<1>9. CASE (l + 1) % 64 # 0
  BY <1>1, <1>4, <1>5, <1>6, <1>8, <1>9 DEF q
<1>10. CASE (l + 1) % 64 = 0
  <2>1. M = N + 1 /\ M \in 1..M /\ M - 1 = N
    BY <1>3, <1>4, <1>10
  <2>2. g[M] = Compressed(g[N], q, M)
    BY <2>1, <1>6 DEF Chain
  <2> QED BY <1>1, <1>5, <1>6, <1>8, <1>10, <2>1, <2>2 DEF q, N
<1> QED
  BY <1>9, <1>10

\* A byte put into a word, and the others.
LEMMA SetByteFacts ==
  ASSUME NEW x \in Word, NEW n \in 0..3, NEW b \in Byte
  PROVE  ByteOf(SetByte(x, n, b), n) = b /\ \A k \in (0..3) \ {n} : ByteOf(SetByte(x, n, b), k) = ByteOf(x, k)
<1>1. ASSUME NEW k \in 0..3, NEW i \in 0..7
      PROVE  i + 8 * (3 - k) \in 0..31 /\ (i + 8 * (3 - k)) \div 8 = 3 - k /\ (i + 8 * (3 - k)) % 8 = i
  OBVIOUS
<1>2. \A k \in 0..3, i \in 0..7 : (i + 8 * (3 - k) \in SetByte(x, n, b)) <=>
                                    IF 3 - k = 3 - n THEN i \in b ELSE i + 8 * (3 - k) \in x
  BY <1>1 DEF SetByte
<1>3. ASSUME NEW i \in 0..7 PROVE (i + 8 * (3 - n) \in SetByte(x, n, b)) <=> i \in b
  BY <1>2
<1>4. ASSUME NEW k \in (0..3) \ {n}, NEW i \in 0..7
      PROVE  (i + 8 * (3 - k) \in SetByte(x, n, b)) <=> i + 8 * (3 - k) \in x
  BY <1>2
<1>5. ByteOf(SetByte(x, n, b), n) = b
  BY <1>3, Zenon DEF ByteOf, Byte
<1> QED
  BY <1>4, <1>5 DEF ByteOf

\* Byte k of a buffer.
BufferByte(w, k) == ByteOf(w[k \div 4], k % 4)

\* What sha1.c has of the bytes m that it was given since sha1_init: the hash
\* value of the whole blocks, and in the buffer the bytes after them.
Fed(s, m) ==
  /\ s \in Sha1State /\ m \in Seq(Byte)
  /\ s.off = Len(m) % 64
  /\ s.h = Hashed(m)
  /\ \A k \in 0..63 : k < s.off => BufferByte(s.w, k) = m[64 * (Len(m) \div 64) + k + 1]

\* A buffer filled with the last 64 bytes holds the words of their block.
LEMMA BufferWords ==
  ASSUME NEW w \in Buffer, NEW m, NEW N \in Nat, \A k \in 0..63 : BufferByte(w, k) = m[64 * N + k + 1],
         NEW j \in 0..15
  PROVE  w[j] = WordOf(m, N + 1, j)
<1>1. ASSUME NEW i \in 0..31 PROVE (i \in w[j]) <=> i % 8 \in m[64 * ((N + 1) - 1) + 4 * j + 4 - (i \div 8)]
  <2> DEFINE k == 4 * j + 3 - (i \div 8)
  <2>1. /\ k \in 0..63 /\ k \div 4 = j /\ k % 4 = 3 - (i \div 8) /\ i % 8 \in 0..7
        /\ 64 * N + k + 1 = 64 * ((N + 1) - 1) + 4 * j + 4 - (i \div 8)
        /\ (i % 8) + 8 * (3 - (3 - (i \div 8))) = i
    OBVIOUS
  <2>2. BufferByte(w, k) = m[64 * N + k + 1]
    BY <2>1
  <2>3. (i % 8 \in BufferByte(w, k)) <=> i \in w[j]
    <3> HIDE DEF k
    <3> QED BY <2>1 DEF BufferByte, ByteOf
  <2> QED BY <2>1, <2>2, <2>3
<1>2. w[j] \in Word
  BY DEF Buffer
<1>3. w[j] = {i \in 0..31 : i % 8 \in m[64 * ((N + 1) - 1) + 4 * j + 4 - (i \div 8)]}
  BY <1>1, <1>2, SMTT(30) DEF Word
<1> QED
  BY <1>3 DEF WordOf

\* The buffer after a byte is written at o.
Written(w, o, d) == [w EXCEPT ![o \div 4] = SetByte(w[o \div 4], o % 4, d)]

\* A byte written into the buffer is there, and every other byte stays.
LEMMA BufferWritten ==
  ASSUME NEW w \in Buffer, NEW o \in 0..63, NEW d \in Byte
  PROVE  /\ Written(w, o, d) \in Buffer /\ BufferByte(Written(w, o, d), o) = d
         /\ \A k \in 0..63 : k # o => BufferByte(Written(w, o, d), k) = BufferByte(w, k)
<1> DEFINE v == Written(w, o, d)
<1>1. o \div 4 \in 0..15 /\ o % 4 \in 0..3 /\ w \in [0..15 -> Word]
  BY DEF Buffer
<1>2. w[o \div 4] \in Word
  BY <1>1
<1> DEFINE x == SetByte(w[o \div 4], o % 4, d)
<1>3. /\ x \in Word /\ ByteOf(x, o % 4) = d
      /\ \A k \in (0..3) \ {o % 4} : ByteOf(x, k) = ByteOf(w[o \div 4], k)
  BY <1>1, <1>2, SetByteFacts, WordTypes
<1>4. v = [w EXCEPT ![o \div 4] = x]
  BY DEF Written
<1> HIDE DEF x, v
<1>5. v \in Buffer /\ v[o \div 4] = x /\ \A j \in 0..15 : j # o \div 4 => v[j] = w[j]
  BY <1>1, <1>3, <1>4 DEF Buffer
<1>6. ASSUME NEW k \in 0..63, k # o PROVE BufferByte(v, k) = BufferByte(w, k)
  <2>1. k \div 4 \in 0..15 /\ k % 4 \in 0..3 /\ (k \div 4 = o \div 4 => k % 4 # o % 4)
    BY <1>6
  <2>2. CASE k \div 4 = o \div 4
    BY <1>3, <1>5, <2>1, <2>2 DEF BufferByte
  <2>3. CASE k \div 4 # o \div 4
    BY <1>5, <2>1, <2>3 DEF BufferByte
  <2> QED BY <2>2, <2>3
<1> QED
  BY <1>3, <1>5, <1>6 DEF BufferByte, v

\* addUncounted adds one byte to the text.
LEMMA AddFed ==
  ASSUME NEW s, NEW m, Fed(s, m), NEW d \in Byte
  PROVE  Fed(addUncounted(s, d), Append(m, d)) /\ addUncounted(s, d).n = s.n
<1> DEFINE q == Append(m, d)
           v == Written(s.w, s.off, d)
           a == addUncounted(s, d)
<1>1. /\ s \in Sha1State /\ s.w \in Buffer /\ s.h \in Hash /\ s.off \in 0..63 /\ s.n \in Nat
      /\ s.h = Hashed(m) /\ m \in Seq(Byte)
  BY DEF Fed, Sha1State, BLOCK_LENGTH
<1>2. PICK l \in Nat : Len(m) = l
  BY <1>1
<1>3. q \in Seq(Byte) /\ Len(q) = l + 1 /\ q[l + 1] = d /\ \A k \in 1..l : q[k] = m[k]
  BY <1>1, <1>2
<1>0. PICK o \in 0..63 : s.off = o
  BY <1>1
<1>4. v \in Buffer /\ BufferByte(v, o) = d /\ \A k \in 0..63 : k # o => BufferByte(v, k) = BufferByte(s.w, k)
  <2>1. v = Written(s.w, o, d) /\ s.w \in Buffer
    BY <1>0, <1>1
  <2> HIDE DEF v
  <2>2. /\ Written(s.w, o, d) \in Buffer /\ BufferByte(Written(s.w, o, d), o) = d
        /\ \A k \in 0..63 : k # o => BufferByte(Written(s.w, o, d), k) = BufferByte(s.w, k)
    BY <2>1, BufferWritten, ZenonT(30)
  <2> QED BY <2>1, <2>2
<1>5. a = IF o + 1 = 64 THEN [hashBlock([s EXCEPT !.w = v]) EXCEPT !.off = 0]
          ELSE [s EXCEPT !.w = v, !.off = o + 1]
  BY <1>0 DEF addUncounted, Written, BLOCK_LENGTH
<1>6. (Len(m) + 1) % 64 # 0 => Hashed(q) = Hashed(m)
  BY <1>1, HashedAppend
<1>7. (Len(m) + 1) % 64 = 0 => Hashed(q) = Compressed(Hashed(m), q, (Len(m) \div 64) + 1)
  BY <1>1, HashedAppend
<1> HIDE DEF q, v, a
<1> DEFINE N == l \div 64
<1>8. o = l % 64 /\ N \in Nat /\ l = 64 * N + o
  <2>1. o = l % 64
    BY <1>0, <1>2 DEF Fed
  <2> QED BY <2>1
<1>9. ASSUME NEW k \in 0..63, k <= o PROVE BufferByte(v, k) = q[64 * N + k + 1]
  <2>1. CASE k = o
    <3>1. 64 * N + k + 1 = l + 1
      BY <1>8, <2>1
    <3> QED BY <1>3, <1>4, <2>1, <3>1
  <2>2. CASE k < o
    <3>1. 64 * N + k + 1 \in 1..l /\ k # o
      BY <1>8, <2>2
    <3>2. BufferByte(s.w, k) = m[64 * N + k + 1]
      BY <1>0, <1>2, <2>2, Zenon DEF Fed
    <3> QED BY <1>3, <1>4, <3>1, <3>2, Zenon
  <2> QED BY <1>9, <2>1, <2>2
<1>10. CASE o + 1 # 64
  <2>1. (l + 1) % 64 = o + 1 /\ (l + 1) \div 64 = N /\ o + 1 \in 0..63 /\ o + 1 # 0
    BY <1>8, <1>10
  <2>2. a \in Sha1State /\ a.w = v /\ a.off = o + 1 /\ a.h = s.h /\ a.n = s.n
    <3>1. a = [s EXCEPT !.w = v, !.off = o + 1]
      BY <1>5, <1>10
    <3>2. PICK p \in 0..63 : p = o + 1
      BY <2>1
    <3>3. s \in [w : Buffer, h : Hash, off : 0..63, n : Nat]
      BY <1>1 DEF Sha1State, BLOCK_LENGTH
    <3>4. a = [s EXCEPT !.w = v, !.off = p] /\ v \in Buffer
      BY <1>4, <3>1, <3>2
    <3>5. a \in [w : Buffer, h : Hash, off : 0..63, n : Nat]
      BY <3>3, <3>4, Zenon
    <3>6. a.w = v /\ a.off = p /\ a.h = s.h /\ a.n = s.n
      BY <3>3, <3>4
    <3> QED BY <3>2, <3>5, <3>6 DEF Sha1State, BLOCK_LENGTH
  <2>3. Hashed(q) = Hashed(m)
    BY <1>2, <1>6, <2>1
  <2>4. ASSUME NEW k \in 0..63, k < a.off PROVE BufferByte(a.w, k) = q[64 * (Len(q) \div 64) + k + 1]
    <3>1. k <= o
      BY <2>2, <2>4
    <3> HIDE DEF N
    <3> QED BY <1>3, <1>9, <2>1, <2>2, <3>1, Zenon
  <2> HIDE DEF N
  <2> QED BY <1>1, <1>3, <2>1, <2>2, <2>3, <2>4, Zenon DEF Fed, a, q
<1>11. CASE o + 1 = 64
  <2> DEFINE t == [s EXCEPT !.w = v]
  <2>1. (l + 1) % 64 = 0 /\ o = 63
    BY <1>8, <1>11
  <2>2. t \in Sha1State /\ t.w = v /\ t.h = s.h /\ t.n = s.n
    BY <1>1, <1>4, Zenon DEF Sha1State
  <2>3. \A k \in 0..63 : BufferByte(v, k) = q[64 * N + k + 1]
    BY <1>9, <2>1, SMTT(30)
  <2> HIDE DEF N
  <2>4. \A j \in 0..15 : t.w[j] = WordOf(q, N + 1, j)
    BY <1>4, <1>8, <2>2, <2>3, BufferWords
  <2> HIDE DEF t
  <2>5. hashBlock(t) \in Sha1State /\ hashBlock(t).n = t.n /\ hashBlock(t).h = Compressed(t.h, q, N + 1)
    BY <2>2, <2>4, BlockHashed
  <2>6. a = [hashBlock(t) EXCEPT !.off = 0]
    BY <1>5, <1>11 DEF t
  <2>7. a \in Sha1State /\ a.off = 0 /\ a.h = hashBlock(t).h /\ a.n = s.n
    BY <2>2, <2>5, <2>6 DEF Sha1State, BLOCK_LENGTH
  <2>8. a.h = Hashed(q)
    BY <1>1, <1>2, <1>7, <2>1, <2>2, <2>5, <2>7 DEF N
  <2> QED BY <1>3, <2>1, <2>7, <2>8 DEF Fed, a, q
<1> QED
  BY <1>10, <1>11

-----------------------------------------------------------------------------
(***************************************************************************)
(* The end of a text.                                                      *)
(***************************************************************************)
\* addUncounted goes round the buffer, whatever is in it.
LEMMA AddTyped ==
  ASSUME NEW s \in Sha1State, NEW d
  PROVE  /\ addUncounted(s, d) \in Sha1State /\ addUncounted(s, d).n = s.n
         /\ addUncounted(s, d).off = IF s.off = 63 THEN 0 ELSE s.off + 1
<1> DEFINE v == Written(s.w, s.off, d)
           t == [s EXCEPT !.w = v]
           g == Loop128(Round)[[i |-> 0, v |-> t.h, w |-> t.w]]
<1>1. s \in [w : Buffer, h : Hash, off : 0..63, n : Nat]
  BY DEF Sha1State, BLOCK_LENGTH
<1>2. PICK o \in 0..63 : s.off = o
  BY <1>1
<1>3. v \in Buffer
  BY <1>1, WordTypes DEF Written, Buffer
<1>4. addUncounted(s, d) = IF o + 1 = 64 THEN [hashBlock(t) EXCEPT !.off = 0] ELSE [s EXCEPT !.w = v, !.off = o + 1]
  BY <1>2 DEF addUncounted, Written, BLOCK_LENGTH
<1> HIDE DEF v
<1>5. t \in [w : Buffer, h : Hash, off : 0..63, n : Nat] /\ t.n = s.n
  BY <1>1, <1>3
<1>6. hashBlock(t) = [t EXCEPT !.w = g.w, !.h = Sums(t.h, g.v)]
  BY DEF hashBlock
<1> HIDE DEF t
<1>7. g.w \in Buffer
  <2>1. Round \in [Rounds -> Rounds]
    <3>1. \A x \in Rounds : Round[x] \in Rounds
      BY RoundFacts, Zenon
    <3> QED BY <3>1 DEF Round, Rounds
  <2>2. Loop128(Round) \in [Rounds -> Rounds]
    BY <2>1, LoopKeeps
  <2>3. [i |-> 0, v |-> t.h, w |-> t.w] \in Rounds
    BY <1>5 DEF Rounds
  <2>4. g \in Rounds
    BY <2>2, <2>3
  <2> HIDE DEF g
  <2> QED BY <2>4, SMTT(30) DEF Rounds
<1> HIDE DEF g
<1>8. Sums(t.h, g.v) \in Hash
  BY WordTypes
<1>9. hashBlock(t) \in [w : Buffer, h : Hash, off : 0..63, n : Nat] /\ hashBlock(t).n = s.n
  BY <1>5, <1>6, <1>7, <1>8, Zenon
<1>10. CASE o + 1 = 64
  <2>1. addUncounted(s, d) = [hashBlock(t) EXCEPT !.off = 0] /\ o = 63
    BY <1>4, <1>10
  <2>2. /\ addUncounted(s, d) \in [w : Buffer, h : Hash, off : 0..63, n : Nat]
        /\ addUncounted(s, d).n = s.n /\ addUncounted(s, d).off = 0
    BY <1>9, <2>1
  <2> QED BY <1>2, <2>1, <2>2 DEF Sha1State, BLOCK_LENGTH
<1>11. CASE o + 1 # 64
  <2>1. PICK p \in 0..63 : p = o + 1 /\ o # 63
    BY <1>11
  <2>2. addUncounted(s, d) = [s EXCEPT !.w = v, !.off = p]
    BY <1>4, <1>11, <2>1
  <2>3. /\ addUncounted(s, d) \in [w : Buffer, h : Hash, off : 0..63, n : Nat]
        /\ addUncounted(s, d).n = s.n /\ addUncounted(s, d).off = p
    BY <1>1, <1>3, <2>2, Zenon
  <2> QED BY <1>2, <2>1, <2>3 DEF Sha1State, BLOCK_LENGTH
<1> QED
  BY <1>10, <1>11

\* The elements of a sequence with one more.
LEMMA AppendFacts ==
  ASSUME NEW A, NEW x \in Seq(A), NEW e \in A
  PROVE  /\ Append(x, e) \in Seq(A) /\ Len(x) \in Nat /\ Len(Append(x, e)) = Len(x) + 1
         /\ Append(x, e)[Len(x) + 1] = e
         /\ \A i \in 1..Len(x) : Append(x, e)[i] = x[i]
OBVIOUS

\* The elements of a concatenation.
LEMMA ConcatFacts ==
  ASSUME NEW A, NEW x \in Seq(A), NEW y \in Seq(A)
  PROVE  /\ x \o y \in Seq(A) /\ Len(x) \in Nat /\ Len(y) \in Nat /\ Len(x \o y) = Len(x) + Len(y)
         /\ \A i \in 1..Len(x) : (x \o y)[i] = x[i]
         /\ \A i \in 1..Len(y) : (x \o y)[Len(x) + i] = y[i]
OBVIOUS

\* Sequences are equal when their lengths and elements are.
LEMMA SameSeq ==
  ASSUME NEW A, NEW x \in Seq(A), NEW y \in Seq(A), NEW l \in Nat, Len(x) = l, Len(y) = l,
         \A i \in 1..l : x[i] = y[i]
  PROVE  x = y
OBVIOUS

\* One more zero byte.
LEMMA ZerosAppend ==
  ASSUME NEW m \in Seq(Byte), NEW k \in Nat
  PROVE  /\ m \o Zeros(0) = m
         /\ Zeros(k) \in Seq(Byte) /\ Len(Zeros(k)) = k
         /\ Append(m \o Zeros(k), {}) = m \o Zeros(k + 1)
<1>1. {} \in Byte
  BY DEF Byte
<1>2. ASSUME NEW j \in Nat PROVE /\ Zeros(j) \in Seq(Byte) /\ Len(Zeros(j)) = j /\ \A i \in 1..j : Zeros(j)[i] = {}
  BY <1>1 DEF Zeros
<1>3. m \o Zeros(0) = m
  <2>1. Zeros(0) \in Seq(Byte) /\ Len(Zeros(0)) = 0
    BY <1>2
  <2> QED BY <2>1
<1>4. Append(Zeros(k), {}) = Zeros(k + 1)
  <2> DEFINE x == Append(Zeros(k), {})
             y == Zeros(k + 1)
  <2>1. x \in Seq(Byte) /\ Len(x) = k + 1 /\ x[k + 1] = {} /\ \A i \in 1..k : x[i] = {}
    <3>1. Zeros(k) \in Seq(Byte) /\ Len(Zeros(k)) = k /\ \A i \in 1..k : Zeros(k)[i] = {}
      BY <1>2
    <3>2. /\ x \in Seq(Byte) /\ Len(x) = Len(Zeros(k)) + 1 /\ x[Len(Zeros(k)) + 1] = {}
          /\ \A i \in 1..Len(Zeros(k)) : x[i] = Zeros(k)[i]
      BY <1>1, <3>1, AppendFacts
    <3> HIDE DEF x
    <3> QED BY <3>1, <3>2
  <2>2. k + 1 \in Nat
    OBVIOUS
  <2>3. y \in Seq(Byte) /\ Len(y) = k + 1 /\ \A i \in 1..(k + 1) : y[i] = {}
    BY <1>2, <2>2
  <2> HIDE DEF x, y
  <2>4. \A i \in 1..(k + 1) : x[i] = y[i]
    <3>1. \A i \in 1..(k + 1) : i = k + 1 \/ i \in 1..k
      OBVIOUS
    <3> QED BY <2>1, <2>3, <3>1, Zenon
  <2>5. x = y
    BY <2>1, <2>2, <2>3, <2>4, SameSeq
  <2> QED BY <2>5 DEF x, y
<1>5. Zeros(k) \in Seq(Byte) /\ Len(Zeros(k)) = k
  BY <1>2
<1>6. Append(m \o Zeros(k), {}) = m \o Append(Zeros(k), {})
  <2> DEFINE e == {}
             z == Zeros(k)
  <2>1. e \in Byte /\ z \in Seq(Byte)
    BY <1>1, <1>5
  <2> HIDE DEF e, z
  <2>2. Append(m \o z, e) = m \o Append(z, e)
    BY <2>1
  <2> QED BY <2>2, Zenon DEF e, z
<1> QED
  BY <1>3, <1>4, <1>5, <1>6, Zenon

\* The loop of pad adds zeros as long as it takes to come to byte 56 of a block.
LEMMA PadFills ==
  ASSUME NEW s, NEW m, Fed(s, m), NEW k \in 0..63, k = (56 - s.off) % 64
  PROVE  Fed(Loop64(PadZero)[s], m \o Zeros(k)) /\ Loop64(PadZero)[s].n = s.n
<1> DEFINE I == {t \in Sha1State : t.n = s.n /\ \E j \in 0..k : Fed(t, m \o Zeros(j))}
           d == [t \in Sha1State |-> (56 - t.off) % 64]
           z == Loop64(PadZero)[s]
<1>1. s \in Sha1State /\ m \in Seq(Byte)
  BY DEF Fed
<1>2. PICK l \in Nat : Len(m) = l
  BY <1>1
<1>3. PICK o \in 0..63 : s.off = o /\ o = l % 64
  BY <1>1, <1>2, SMTT(30) DEF Fed
<1>4. ASSUME NEW t \in Sha1State
      PROVE  /\ PadZero[t] = IF t.off = 56 THEN t ELSE addUncounted(t, {})
             /\ PadZero[t] \in Sha1State
             /\ t.off \in 0..63
  BY AddTyped DEF PadZero, PadDone, Sha1State, BLOCK_LENGTH
<1>5. PadZero \in [Sha1State -> Sha1State]
  BY <1>4 DEF PadZero
<1>6. ASSUME NEW j \in 0..k PROVE m \o Zeros(j) \in Seq(Byte) /\ Len(m \o Zeros(j)) = l + j
  <2>1. Zeros(j) \in Seq(Byte) /\ Len(Zeros(j)) = j
    BY <1>1, ZerosAppend
  <2> QED BY <1>1, <1>2, <2>1, ConcatFacts
<1>7. ASSUME NEW t \in Sha1State, t \in I PROVE PadZero[t] \in I
  <2>1. PICK j \in 0..k : Fed(t, m \o Zeros(j))
    BY <1>7
  <2>2. t.off = (l + j) % 64
    BY <1>6, <2>1, Zenon DEF Fed
  <2>3. CASE t.off = 56
    BY <1>4, <1>7, <2>3
  <2>4. CASE t.off # 56
    <3>1. j # k
      BY <1>3, <2>2, <2>4
    <3>2. j + 1 \in 0..k
      BY <3>1
    <3>3. {} \in Byte
      BY DEF Byte
    <3>4. Fed(addUncounted(t, {}), Append(m \o Zeros(j), {})) /\ addUncounted(t, {}).n = t.n
      BY <2>1, <3>3, AddFed
    <3>5. Append(m \o Zeros(j), {}) = m \o Zeros(j + 1)
      <4>1. j \in Nat
        OBVIOUS
      <4> QED BY <1>1, <4>1, ZerosAppend, Zenon
    <3>6. PadZero[t] = addUncounted(t, {}) /\ PadZero[t] \in Sha1State
      BY <1>4, <2>4
    <3>7. t.n = s.n
      BY <1>7
    <3> QED BY <3>2, <3>4, <3>5, <3>6, <3>7, Zenon
  <2> QED BY <2>3, <2>4
<1>8. s \in I
  <2>1. 0 \in 0..k /\ 0 \in Nat
    OBVIOUS
  <2>2. m \o Zeros(0) = m
    BY <1>1, <2>1, ZerosAppend, Zenon
  <2> QED BY <1>1, <2>1, <2>2, Zenon
<1>9. d \in [Sha1State -> Nat]
  BY <1>4
<1>10. ASSUME NEW t \in Sha1State PROVE d[PadZero[t]] = IF d[t] >= 1 THEN d[t] - 1 ELSE 0
  <2>1. PICK p \in 0..63 : t.off = p
    BY <1>4
  <2>2. d[t] = (56 - p) % 64 /\ d[PadZero[t]] = (56 - PadZero[t].off) % 64
    BY <1>4, <2>1
  <2> HIDE DEF d
  <2>3. CASE p = 56
    <3>1. PadZero[t] = t
      BY <1>4, <2>1, <2>3
    <3>2. d[t] = 0
      BY <2>2, <2>3
    <3> QED BY <3>1, <3>2
  <2>4. CASE p # 56
    <3>1. PICK r \in 0..63 : r = IF p = 63 THEN 0 ELSE p + 1
      OBVIOUS
    <3>2. PadZero[t].off = r
      <4>1. PadZero[t] = addUncounted(t, {})
        BY <1>4, <2>1, <2>4
      <4> QED BY <4>1, <2>1, <3>1, AddTyped
    <3>3. (56 - r) % 64 = ((56 - p) % 64) - 1 /\ (56 - p) % 64 >= 1
      BY <2>4, <3>1
    <3> QED BY <2>2, <3>2, <3>3
  <2> QED BY <2>3, <2>4
<1>11. d[s] <= 64
  BY <1>1, <1>3
<1>12. z \in I
  <2> HIDE DEF I
  <2> QED BY <1>1, <1>5, <1>7, <1>8, LoopKeeps, Zenon
<1>13. d[z] = 0
  <2> HIDE DEF d
  <2>1. \A t \in Sha1State : d[PadZero[t]] = IF d[t] >= 1 THEN d[t] - 1 ELSE 0
    BY <1>10
  <2>2. \A t \in Sha1State : d[t] <= 64 => d[Loop64(PadZero)[t]] = 0
    BY <1>5, <1>9, <2>1, LoopEnds
  <2> QED BY <1>1, <1>11, <2>2
<1> HIDE DEF z
<1>14. PICK j \in 0..k : Fed(z, m \o Zeros(j))
  BY <1>12
<1>15. z.off = (l + j) % 64 /\ z \in Sha1State /\ z.n = s.n
  BY <1>6, <1>12, <1>14, Zenon DEF Fed
<1>16. PICK p \in 0..63 : z.off = p
  BY <1>4, <1>15
<1>17. (56 - p) % 64 = 0
  BY <1>13, <1>15, <1>16
<1>18. j = k
  BY <1>3, <1>15, <1>16, <1>17
<1> QED
  BY <1>14, <1>15, <1>18 DEF z

\* The l bytes y are added to s one after the other: g[k] is the state before byte k.
Adds(g, s, y, l) == /\ y \in Seq(Byte) /\ l \in Nat /\ Len(y) = l /\ g[1] = s
                    /\ \A k \in 1..l : g[k + 1] = addUncounted(g[k], y[k])

\* Bytes given to addUncounted one after the other are added to the text.
LEMMA AddAllFed ==
  ASSUME NEW s, NEW m, Fed(s, m), NEW y, NEW l, NEW g, Adds(g, s, y, l)
  PROVE  Fed(g[l + 1], m \o y) /\ g[l + 1].n = s.n
<1> USE DEF Adds
<1> DEFINE Begun(q, j, k) == /\ Len(q) = j + k /\ q \in Seq(Byte)
                             /\ \A i \in 1..j : q[i] = m[i]
                             /\ \A i \in 1..k : q[j + i] = y[i]
<1>1. m \in Seq(Byte)
  BY DEF Fed
<1>2. PICK j \in Nat : Len(m) = j
  BY <1>1
<1> DEFINE S == {k \in Nat : k <= l => \E q : Fed(g[k + 1], q) /\ g[k + 1].n = s.n /\ Begun(q, j, k)}
<1>3. 0 \in S
  <2>1. Begun(m, j, 0)
    BY <1>1, <1>2
  <2> HIDE DEF Begun
  <2> QED BY <2>1
<1>4. ASSUME NEW k \in Nat, k \in S PROVE k + 1 \in S
  <2> SUFFICES ASSUME k + 1 <= l
               PROVE  \E q : Fed(g[(k + 1) + 1], q) /\ g[(k + 1) + 1].n = s.n /\ Begun(q, j, k + 1)
    OBVIOUS
  <2>1. PICK q : Fed(g[k + 1], q) /\ g[k + 1].n = s.n /\ Begun(q, j, k)
    <3>1. k <= l
      OBVIOUS
    <3> HIDE DEF Begun
    <3> QED BY <1>4, <3>1
  <2>2. k + 1 \in 1..l
    OBVIOUS
  <2> DEFINE d == y[k + 1]
             r == Append(q, d)
  <2>3. d \in Byte
    BY <2>2
  <2>4. g[(k + 1) + 1] = addUncounted(g[k + 1], d)
    BY <2>2
  <2>5. Fed(g[(k + 1) + 1], r) /\ g[(k + 1) + 1].n = s.n
    <3> HIDE DEF Begun, d
    <3> QED BY <2>1, <2>3, <2>4, AddFed, SMTT(30)
  <2>6. Begun(r, j, k + 1)
    <3>1. /\ r \in Seq(Byte) /\ Len(r) = j + k + 1 /\ r[j + k + 1] = d
          /\ \A i \in 1..(j + k) : r[i] = q[i]
      <4>1. q \in Seq(Byte) /\ Len(q) = j + k
        BY <2>1
      <4> HIDE DEF d, Begun
      <4>2. /\ r \in Seq(Byte) /\ Len(r) = Len(q) + 1 /\ r[Len(q) + 1] = d
            /\ \A i \in 1..Len(q) : r[i] = q[i]
        BY <2>3, <4>1, AppendFacts
      <4> HIDE DEF r
      <4> QED BY <4>1, <4>2
    <3> HIDE DEF r
    <3>2. \A i \in 1..j : r[i] = m[i]
      <4>1. \A i \in 1..j : i \in 1..(j + k)
        OBVIOUS
      <4> QED BY <2>1, <3>1, <4>1
    <3>3. ASSUME NEW i \in 1..(k + 1) PROVE r[j + i] = y[i]
      <4>1. CASE i = k + 1
        BY <3>1, <4>1
      <4>2. CASE i # k + 1
        <5>1. i \in 1..k /\ j + i \in 1..(j + k)
          BY <4>2
        <5> QED BY <2>1, <3>1, <5>1
      <4> QED BY <4>1, <4>2
    <3>4. Len(r) = j + (k + 1)
      BY <3>1
    <3> QED BY <3>1, <3>2, <3>3, <3>4
  <2> HIDE DEF Begun
  <2> QED BY <2>5, <2>6
<1>5. \A k \in Nat : k \in S
  <2> HIDE DEF S
  <2> QED BY <1>3, <1>4, SetInduction
<1>6. PICK q : Fed(g[l + 1], q) /\ g[l + 1].n = s.n /\ Begun(q, j, l)
  <2>1. l \in S
    BY <1>5, SMTT(30)
  <2> HIDE DEF Begun
  <2> QED BY <2>1
<1>7. q = m \o y
  <2> DEFINE r == m \o y
  <2>1. r \in Seq(Byte) /\ Len(r) = Len(m) + Len(y) /\ \A i \in 1..Len(m) : r[i] = m[i]
    BY <1>1, ConcatFacts, ZenonT(30)
  <2>2. \A i \in 1..Len(y) : r[Len(m) + i] = y[i]
    BY <1>1, ConcatFacts
  <2>3. q \in Seq(Byte) /\ Len(q) = j + l /\ Len(r) = j + l /\ j + l \in Nat
    BY <1>2, <1>6, <2>1
  <2> HIDE DEF r
  <2>4. ASSUME NEW i \in 1..(j + l) PROVE q[i] = r[i]
    <3>1. CASE i \in 1..j
      BY <1>2, <1>6, <2>1, <3>1
    <3>2. CASE i \notin 1..j
      <4>1. PICK n \in 1..l : i = j + n
        <5>1. i - j \in 1..l /\ i = j + (i - j)
          BY <3>2
        <5> QED BY <5>1
      <4> QED BY <1>2, <1>6, <2>2, <4>1, Zenon
    <3> QED BY <3>1, <3>2
  <2>5. q = r
    BY <2>1, <2>3, <2>4, SameSeq, Zenon
  <2> QED BY <2>5 DEF r
<1> QED
  BY <1>6, <1>7

\* Eight bytes, the first four of them e.
IsEight(y, e, a, b, c, d) == y = <<e, e, e, e, a, b, c, d>>

\* The eight bytes at the end of pad are added to the text, four and four.
LEMMA Add8Fed ==
  ASSUME NEW s, NEW m, Fed(s, m), NEW a \in Byte, NEW b \in Byte, NEW c \in Byte, NEW d \in Byte, NEW e \in Byte,
         NEW y, IsEight(y, e, a, b, c, d)
  PROVE  LET t == Add4(Add4(s, e, e, e, e), a, b, c, d) IN Fed(t, m \o y) /\ t.n = s.n
<1> DEFINE s1 == addUncounted(s, e)
           s2 == addUncounted(s1, e)
           s3 == addUncounted(s2, e)
           s4 == addUncounted(s3, e)
           s5 == addUncounted(s4, a)
           s6 == addUncounted(s5, b)
           s7 == addUncounted(s6, c)
           s8 == addUncounted(s7, d)
           g  == <<s, s1, s2, s3, s4, s5, s6, s7, s8>>
<1>1. y \in Seq(Byte) /\ Len(y) = 8
  BY SMTT(30) DEF IsEight
<1>2. ASSUME NEW k \in 1..8 PROVE g[k + 1] = addUncounted(g[k], y[k])
  <2> HIDE DEF s1, s2, s3, s4, s5, s6, s7, s8
  <2>1. k = 1 \/ k = 2 \/ k = 3 \/ k = 4 \/ k = 5 \/ k = 6 \/ k = 7 \/ k = 8
    BY SMTT(30)
  <2> QED BY <2>1 DEF IsEight, s1, s2, s3, s4, s5, s6, s7, s8
<1>3. g[1] = s /\ g[8 + 1] = s8
  OBVIOUS
<1>4. Add4(Add4(s, e, e, e, e), a, b, c, d) = s8
  BY DEF Add4
<1> DEFINE l == 8
<1>5. l \in Nat /\ y \in Seq(Byte) /\ Len(y) = l /\ \A k \in 1..l : g[k + 1] = addUncounted(g[k], y[k])
  BY <1>1, <1>2, Zenon
<1>6. g[1] = s /\ g[l + 1] = s8
  BY <1>3, Zenon
<1> HIDE DEF s8, g, l
<1>7. Adds(g, s, y, l)
  BY <1>5, <1>6 DEF Adds
<1>8. Fed(g[l + 1], m \o y) /\ g[l + 1].n = s.n
  BY <1>7, AddAllFed
<1> QED
  BY <1>4, <1>6, <1>8

\* Numbers as bytes.
LEMMA ByteBitsFacts ==
  /\ \A n : ByteBits(n) \in Byte
  /\ ByteBits(0) = {}
<1>1. ASSUME NEW i \in 0..7 PROVE (0 \div Power2[i + 1]) % 2 # 1
  <2>1. PICK p \in 1..128 : Power2[i + 1] = p
    BY DEF Power2
  <2> QED BY <2>1
<1> QED
  BY <1>1 DEF ByteBits, Byte

\* pad makes the text the padded one of the standard: the text is short, so the
\* 32 bits that sha1.c writes of its length in bits are all.
LEMMA PadFed ==
  ASSUME NEW s, NEW m, Fed(s, m), s.n = Len(m), Len(m) <= 255
  PROVE  Fed(pad(s), Padded(m)) /\ pad(s).n = s.n
<1> DEFINE s1 == addUncounted(s, {7})
           m1 == Append(m, {7})
           z  == Loop64(PadZero)[s1]
<1>1. m \in Seq(Byte)
  BY DEF Fed
<1>2. PICK l \in Nat : Len(m) = l /\ l <= 255
  BY <1>1
<1>3. {7} \in Byte /\ {} \in Byte
  BY DEF Byte
<1>4. Fed(s1, m1) /\ s1.n = s.n
  BY <1>3, AddFed
<1>5. m1 \in Seq(Byte) /\ Len(m1) = l + 1 /\ m1 = m \o <<{7}>>
  <2> DEFINE e == {7}
             r == Append(m, e)
  <2>1. e \in Byte
    BY <1>3
  <2> HIDE DEF e
  <2>2. r \in Seq(Byte) /\ Len(r) = Len(m) + 1
    BY <1>1, <2>1, AppendFacts
  <2>3. r = m \o <<e>>
    BY <1>1, <2>1
  <2> HIDE DEF r
  <2>4. r \in Seq(Byte) /\ Len(r) = l + 1 /\ r = m \o <<e>>
    BY <1>2, <2>2, <2>3, SMTT(30)
  <2> QED BY <2>4 DEF r, e
<1>6. s1.off = (l + 1) % 64
  BY <1>4, <1>5 DEF Fed
<1> HIDE DEF s1, m1
<1> DEFINE k == (119 - (l % 64)) % 64
<1>7. k \in 0..63 /\ k = (56 - ((l + 1) % 64)) % 64
  OBVIOUS
<1>8. Fed(z, m1 \o Zeros(k)) /\ z.n = s.n
  <2>1. k \in 0..63 /\ k = (56 - s1.off) % 64
    BY <1>6, <1>7
  <2> HIDE DEF k
  <2> QED BY <1>4, <2>1, PadFills, Zenon
<1> HIDE DEF z, k
<1> DEFINE q  == m1 \o Zeros(k)
<1> HIDE DEF q
<1>9. \E a \in Byte, b \in Byte, c \in Byte, d \in Byte :
        /\ pad(s) = Add4(Add4(z, {}, {}, {}, {}), a, b, c, d)
        /\ Bytes8(8 * l) = <<{}, {}, {}, {}, a, b, c, d>>
  <2> DEFINE a == ByteBits(l \div 2097152)
             b == ByteBits(l \div 8192)
             c == ByteBits(l \div 32)
             d == ByteBits(8 * l)
             e == ByteBits(l \div 536870912)
  <2>1. /\ l \div 536870912 = 0 /\ (8 * l) \div 16777216 = l \div 2097152
        /\ (8 * l) \div 65536 = l \div 8192 /\ (8 * l) \div 256 = l \div 32
    BY <1>2, SMT
  <2>2. pad(s) = Add4(Add4(z, {}, {}, {}, e), a, b, c, d)
    BY <1>2, SMT DEF pad, z, s1
  <2>3. Bytes8(8 * l) = <<{}, {}, {}, {}, a, b, c, d>>
    BY <2>1, SMT DEF Bytes8
  <2>4. e = {}
    BY <2>1, ByteBitsFacts, SMT
  <2>5. a \in Byte /\ b \in Byte /\ c \in Byte /\ d \in Byte
    BY ByteBitsFacts, SMT
  <2> HIDE DEF a, b, c, d, e
  <2> QED BY <2>2, <2>3, <2>4, <2>5
<1>10. PICK a \in Byte, b \in Byte, c \in Byte, d \in Byte :
         /\ pad(s) = Add4(Add4(z, {}, {}, {}, {}), a, b, c, d)
         /\ Bytes8(8 * l) = <<{}, {}, {}, {}, a, b, c, d>>
  BY <1>9
<1>11. /\ Fed(pad(s), q \o <<{}, {}, {}, {}, a, b, c, d>>)
       /\ pad(s).n = s.n
  <2> DEFINE e == {}
  <2>1. Fed(z, q) /\ z.n = s.n /\ e \in Byte /\ pad(s) = Add4(Add4(z, e, e, e, e), a, b, c, d)
    BY <1>3, <1>8, <1>10 DEF q
  <2> HIDE DEF e
  <2>2. Fed(pad(s), q \o <<e, e, e, e, a, b, c, d>>) /\ pad(s).n = s.n
    <3> DEFINE y == <<e, e, e, e, a, b, c, d>>
               t == Add4(Add4(z, e, e, e, e), a, b, c, d)
    <3>1. IsEight(y, e, a, b, c, d)
      BY DEF IsEight
    <3> HIDE DEF y
    <3>2. Fed(t, q \o y) /\ t.n = z.n
      BY <2>1, <3>1, Add8Fed
    <3> HIDE DEF t
    <3>3. pad(s) = t
      BY <2>1 DEF t
    <3> QED BY <2>1, <3>2, <3>3 DEF y
  <2> QED BY <2>2 DEF e
<1>12. Padded(m) = q \o <<{}, {}, {}, {}, a, b, c, d>>
  BY <1>2, <1>5, <1>10, Zenon DEF Padded, q, k
<1> QED
  BY <1>11, <1>12

\* What sha1_result leaves is the SHA-1 of the text, byte by byte.
LEMMA ResultRight ==
  ASSUME NEW s, NEW m, Fed(s, m), s.n = Len(m), Len(m) <= 255
  PROVE  StateBytes(sha1_result(s)) = SHA1(m) /\ sha1_result(s) \in Sha1State
<1> DEFINE p == pad(s)
           h == Hashed(Padded(m))
           r == sha1_result(s)
<1>1. p \in Sha1State /\ p.h = h
  BY PadFed, Zenon DEF Fed
<1>2. h \in Hash
  BY <1>1 DEF Sha1State
<1>3. r = [p EXCEPT !.h = <<Swapped(p.h[1]), Swapped(p.h[2]), Swapped(p.h[3]), Swapped(p.h[4]), Swapped(p.h[5])>>]
  BY DEF sha1_result
<1>4. SHA1(m) = [i \in 1..20 |-> ByteOf(h[1 + ((i - 1) \div 4)], (i - 1) % 4)]
  BY DEF SHA1
<1> HIDE DEF p, h, r
<1>5. <<Swapped(p.h[1]), Swapped(p.h[2]), Swapped(p.h[3]), Swapped(p.h[4]), Swapped(p.h[5])>> \in Hash
  BY DEF Swapped, Word, Hash
<1>6. r \in Sha1State
  BY <1>1, <1>3, <1>5 DEF Sha1State
<1>7. \A j \in 1..5 : r.h[j] = Swapped(h[j])
  BY <1>1, <1>3 DEF Sha1State
<1>8. ASSUME NEW x, NEW k \in 0..3 PROVE ByteOf(Swapped(x), 3 - k) = ByteOf(x, k)
  <2>1. ASSUME NEW i \in 0..7
        PROVE  /\ i + 8 * (3 - (3 - k)) \in 0..31
               /\ 24 - 8 * ((i + 8 * (3 - (3 - k))) \div 8) + ((i + 8 * (3 - (3 - k))) % 8) = i + 8 * (3 - k)
    OBVIOUS
  <2>2. ASSUME NEW i \in 0..7 PROVE (i + 8 * (3 - (3 - k)) \in Swapped(x)) <=> i + 8 * (3 - k) \in x
    BY <2>1 DEF Swapped
  <2> QED BY <2>2, Zenon DEF ByteOf
<1>9. ASSUME NEW i \in 1..20
      PROVE  ByteOf(r.h[1 + ((i - 1) \div 4)], 3 - ((i - 1) % 4)) = ByteOf(h[1 + ((i - 1) \div 4)], (i - 1) % 4)
  <2>1. 1 + ((i - 1) \div 4) \in 1..5 /\ (i - 1) % 4 \in 0..3
    OBVIOUS
  <2> QED BY <1>7, <1>8, <2>1
<1>10. StateBytes(r) = [i \in 1..20 |-> ByteOf(r.h[1 + ((i - 1) \div 4)], 3 - ((i - 1) % 4))]
  BY DEF StateBytes, HASH_LENGTH
<1> QED
  BY <1>4, <1>6, <1>9, <1>10 DEF r

-----------------------------------------------------------------------------
(***************************************************************************)
(* The codes.                                                              *)
(***************************************************************************)
\* What is hashed at each place: the long key, the padded key, it and the
\* number of the heartbeat, the other padded key and the inner hash.
Message == CASE pc = "keyHashed" -> hmacKey
             [] pc = "steps"     -> Ipad(keyBuffer)
             [] pc = "inner"     -> Ipad(keyBuffer) \o Bytes8(index)
             [] pc = "outer"     -> Opad(keyBuffer) \o innerHash

\* The values of the variables.
Types == /\ hmacKey \in Keys /\ index \in Nat
         /\ Sha1 \in Sha1State
         /\ keyBuffer \in [1..64 -> Byte] /\ innerHash \in [1..20 -> Byte]
         /\ todo \in Seq(Byte) /\ text \in Seq(Byte)
         /\ pc \in {"initHmac", "keyHashed", "steps", "inner", "outer"}

\* The hash in progress is the one of what is written of the message; the key
\* buffer holds the key as one block, and the inner hash that of the standard.
Hashing == /\ Fed(Sha1, text) /\ byteCount = Len(text)
           /\ text \o todo = Message
           /\ pc = "keyHashed" => Len(hmacKey) > 64
           /\ pc # "keyHashed" => keyBuffer = FullKey(hmacKey)
           /\ pc = "outer" => innerHash = SHA1(Ipad(keyBuffer) \o Bytes8(index))

\* The code of the last heartbeat, made of the HMAC of its number.
CodeRight == index > 0 => code = Truncated(HMAC(hmacKey, Bytes8(index - 1)))

IInv == /\ Types
        /\ IF pc = "initHmac" THEN todo = << >> ELSE Hashing
        /\ CodeRight

\* A state is the record of its fields.
LEMMA Sha1Record ==
  ASSUME NEW s \in Sha1State
  PROVE  s = [w |-> s.w, h |-> s.h, off |-> s.off, n |-> s.n]
BY DEF Sha1State

\* A step that writes a state makes it the next one.
LEMMA SetSha1Sets ==
  ASSUME NEW s \in Sha1State, SetSha1(s)
  PROVE  Sha1' = s
<1>1. Sha1' = [w |-> s.w, h |-> s.h, off |-> s.off, n |-> s.n]
  BY DEF SetSha1, Sha1
<1> QED
  BY <1>1, Sha1Record

\* sha1_init begins a text, whatever the buffer holds.
LEMMA FedNothing ==
  ASSUME NEW s \in Sha1State
  PROVE  Fed(sha1_init(s), << >>) /\ sha1_init(s).n = 0
<1> DEFINE t == sha1_init(s)
<1>1. sha1InitState = H0 /\ H0 \in Hash
  <2>1. sha1InitState = H0
    BY DEF sha1InitState, H0
  <2>2. H0 \in Hash
    BY WordTypes DEF H0, Hash
  <2> QED BY <2>1, <2>2
<1>2. Hashed(<< >>) = H0
  <2>1. Len(<< >>) = 0 /\ 0 \div 64 = 0
    OBVIOUS
  <2>2. PICK f : Chain(f, << >>, 0) /\ Hashed(<< >>) = f[0]
    BY <2>1, HashedChain
  <2> QED BY <2>2 DEF Chain
<1>3. t = [s EXCEPT !.h = H0, !.n = 0, !.off = 0]
  BY <1>1 DEF sha1_init
<1>4. t \in Sha1State /\ t.h = H0 /\ t.n = 0 /\ t.off = 0
  <2>1. s \in [w : Buffer, h : Hash, off : 0..63, n : Nat]
    BY DEF Sha1State, BLOCK_LENGTH
  <2>2. H0 \in Hash /\ 0 \in 0..63 /\ 0 \in Nat
    BY <1>1
  <2>3. t \in [w : Buffer, h : Hash, off : 0..63, n : Nat] /\ t.h = H0 /\ t.n = 0 /\ t.off = 0
    BY <1>3, <2>1, <2>2, Zenon
  <2> QED BY <2>3 DEF Sha1State, BLOCK_LENGTH
<1> HIDE DEF t
<1>5. << >> \in Seq(Byte) /\ Len(<< >>) % 64 = 0
  OBVIOUS
<1>6. \A k \in 0..63 : ~(k < 0)
  OBVIOUS
<1>7. Fed(t, << >>)
  BY <1>2, <1>4, <1>5, <1>6 DEF Fed
<1> QED
  BY <1>4, <1>7 DEF t

\* A function from 1..n is a sequence of length n.
LEMMA FcnSeq ==
  ASSUME NEW A, NEW n \in Nat, NEW f \in [1..n -> A]
  PROVE  f \in Seq(A) /\ Len(f) = n
OBVIOUS

\* The same for the lengths of keys and hashes.
LEMMA BlockSeq ==
  /\ \A f \in [1..64 -> Byte] : f \in Seq(Byte) /\ Len(f) = 64
  /\ \A f \in [1..20 -> Byte] : f \in Seq(Byte) /\ Len(f) = 20
<1>1. ASSUME NEW n \in Nat PROVE \A f \in [1..n -> Byte] : f \in Seq(Byte) /\ Len(f) = n
  BY FcnSeq
<1>2. 64 \in Nat /\ 20 \in Nat
  OBVIOUS
<1> QED
  BY <1>1, <1>2, Zenon

\* The hash of a text is twenty bytes, the padded keys are 64.
LEMMA ByteTypes ==
  /\ \A m : SHA1(m) \in [1..20 -> Byte]
  /\ \A k \in [1..64 -> Byte] : Ipad(k) \in [1..64 -> Byte] /\ Opad(k) \in [1..64 -> Byte]
  /\ \A n : Bytes8(n) \in Seq(Byte) /\ Len(Bytes8(n)) = 8
<1>1. \A x, n : ByteOf(x, n) \in Byte
  BY DEF ByteOf, Byte
<1>2. \A m : SHA1(m) \in [1..20 -> Byte]
  BY <1>1 DEF SHA1
<1>3. \A x \in Byte : Xor(x, {1, 2, 4, 5}) \in Byte /\ Xor(x, {2, 3, 4, 6}) \in Byte
  BY DEF Xor, Byte
<1>4. \A k \in [1..64 -> Byte] : Ipad(k) \in [1..64 -> Byte] /\ Opad(k) \in [1..64 -> Byte]
  BY <1>3 DEF Ipad, Opad, BLOCK_LENGTH
<1>5. ASSUME NEW n PROVE Bytes8(n) \in Seq(Byte) /\ Len(Bytes8(n)) = 8
  <2>1. PICK a \in Byte, b \in Byte, c \in Byte, d \in Byte : Bytes8(n) = <<{}, {}, {}, {}, a, b, c, d>>
    BY ByteBitsFacts, SMT DEF Bytes8
  <2>2. {} \in Byte
    BY DEF Byte
  <2> QED BY <2>1, <2>2
<1> QED
  BY <1>2, <1>4, <1>5

\* The key buffer that is zeroed first holds the key as one block.
LEMMA KeyBlock ==
  ASSUME NEW k \in Seq(Byte), Len(k) <= 64
  PROVE  Zeroed(k) \in [1..64 -> Byte] /\ Zeroed(k) = k \o Zeros(64 - Len(k))
<1>1. PICK l \in 0..64 : Len(k) = l
  <2>1. PICK n \in Nat : Len(k) = n
    OBVIOUS
  <2>2. n \in 0..64
    BY <2>1
  <2> QED BY <2>1, <2>2, Zenon
<1>2. {} \in Byte
  BY DEF Byte
<1>3. Zeroed(k) \in [1..64 -> Byte] /\ \A i \in 1..64 : Zeroed(k)[i] = IF i <= l THEN k[i] ELSE {}
  BY <1>1, <1>2 DEF Zeroed, BLOCK_LENGTH
<1>4. Zeroed(k) \in Seq(Byte) /\ Len(Zeroed(k)) = 64
  BY <1>3, BlockSeq, Zenon
<1> DEFINE z == Zeros(64 - l)
           q == k \o z
<1>5. z \in Seq(Byte) /\ Len(z) = 64 - l /\ \A i \in 1..(64 - l) : z[i] = {}
  BY <1>2 DEF Zeros
<1> HIDE DEF z
<1>6. q \in Seq(Byte) /\ Len(q) = Len(k) + Len(z) /\ \A i \in 1..Len(k) : q[i] = k[i]
  BY <1>5, ConcatFacts
<1>7. \A i \in 1..Len(z) : q[Len(k) + i] = z[i]
  BY <1>5, ConcatFacts
<1> HIDE DEF q
<1>8. Len(q) = 64
  BY <1>1, <1>5, <1>6
<1>9. ASSUME NEW i \in 1..64 PROVE Zeroed(k)[i] = q[i]
  <2>1. CASE i <= l
    <3>1. i \in 1..l
      BY <2>1
    <3> QED BY <1>1, <1>3, <1>6, <2>1, <3>1, Zenon
  <2>2. CASE i > l
    <3>1. PICK j \in 1..(64 - l) : i = l + j
      <4>1. i - l \in 1..(64 - l) /\ i = l + (i - l)
        BY <2>2
      <4> QED BY <4>1
    <3>2. q[i] = {}
      BY <1>1, <1>5, <1>7, <3>1, Zenon
    <3>3. Zeroed(k)[i] = {}
      <4>1. ~(i <= l)
        BY <2>2
      <4> QED BY <1>3, <4>1, Zenon
    <3> QED BY <3>2, <3>3
  <2> QED BY <2>1, <2>2
<1>10. Zeroed(k) = q
  <2>1. 64 \in Nat
    OBVIOUS
  <2> QED BY <1>4, <1>6, <1>8, <1>9, <2>1, SameSeq, ZenonT(30)
<1> QED
  BY <1>1, <1>3, <1>10, Zenon DEF q, z

\* A message is short.
LEMMA MessageShort ==
  ASSUME Types, pc # "initHmac"
  PROVE  Message \in Seq(Byte) /\ \E l \in 0..255 : Len(Message) = l
<1> DEFINE Short(m)  == m \in Seq(Byte) /\ \E l \in 0..255 : Len(m) = l
           Has(m, n) == m \in Seq(Byte) /\ n \in 0..100 /\ Len(m) = n
<1>1. /\ hmacKey \in Keys /\ keyBuffer \in [1..64 -> Byte] /\ innerHash \in [1..20 -> Byte]
      /\ pc \in {"keyHashed", "steps", "inner", "outer"}
  BY DEF Types
<1>2. Short(hmacKey)
  <2>1. hmacKey \in Seq(Byte) /\ Len(hmacKey) <= 255
    BY <1>1, KeysAssumption
  <2>2. PICK l \in Nat : Len(hmacKey) = l
    BY <2>1
  <2>3. l \in 0..255
    BY <2>1, <2>2
  <2> QED BY <2>1, <2>2, <2>3
<1>4. ASSUME NEW m, NEW q, NEW i, NEW j, Has(m, i), Has(q, j) PROVE Short(m \o q)
  <2>1. m \o q \in Seq(Byte) /\ Len(m \o q) = Len(m) + Len(q)
    BY <1>4, ConcatFacts
  <2>2. i + j \in 0..255 /\ Len(m \o q) = i + j
    BY <1>4, <2>1
  <2> QED BY <2>1, <2>2
<1>5. /\ Ipad(keyBuffer) \in Seq(Byte) /\ Len(Ipad(keyBuffer)) = 64
      /\ Opad(keyBuffer) \in Seq(Byte) /\ Len(Opad(keyBuffer)) = 64
      /\ innerHash \in Seq(Byte) /\ Len(innerHash) = 20
  BY <1>1, BlockSeq, ByteTypes, Zenon
<1>6. Bytes8(index) \in Seq(Byte) /\ Len(Bytes8(index)) = 8 /\ 8 \in 0..100 /\ 64 \in 0..100 /\ 20 \in 0..100
  BY ByteTypes
<1>7. Short(Ipad(keyBuffer))
  <2>1. 64 \in 0..255
    OBVIOUS
  <2> QED BY <1>5, <2>1
<1>11. Has(Ipad(keyBuffer), 64) /\ Has(Opad(keyBuffer), 64) /\ Has(Bytes8(index), 8) /\ Has(innerHash, 20)
  BY <1>5, <1>6
<1> HIDE DEF Short, Has
<1>8. Short(Ipad(keyBuffer) \o Bytes8(index))
  BY <1>4, <1>11
<1>9. Short(Opad(keyBuffer) \o innerHash)
  BY <1>4, <1>11
<1>10. Short(Message)
  BY <1>1, <1>2, <1>7, <1>8, <1>9 DEF Message
<1> QED
  BY <1>10 DEF Short

\* When nothing is left to write, the hash is that of the message.
LEMMA Finished ==
  ASSUME Types, Hashing, pc # "initHmac", todo = << >>
  PROVE  /\ text = Message /\ StateBytes(sha1_result(Sha1)) = SHA1(text)
         /\ sha1_result(Sha1) \in Sha1State
<1>1. text = Message
  BY SMTT(30) DEF Types, Hashing
<1>2. PICK l \in 0..255 : Len(text) = l
  BY <1>1, MessageShort
<1>3. Fed(Sha1, text) /\ Sha1.n = Len(text)
  BY DEF Hashing, Sha1
<1>4. Len(text) <= 255
  BY <1>2
<1> QED
  BY <1>1, <1>3, <1>4, ResultRight

\* The first states.
LEMMA InitIInv == Init => IInv
<1> SUFFICES ASSUME Init PROVE IInv
  OBVIOUS
<1>1. {} \in Byte /\ {} \in Word
  BY DEF Byte, Word
<1>2. keyBuffer \in [1..64 -> Byte] /\ innerHash \in [1..20 -> Byte]
  BY <1>1 DEF Init, Zeroed, Zeros, BLOCK_LENGTH, HASH_LENGTH
<1>3. Sha1 \in Sha1State
  <2>1. sha1_buffer \in Buffer /\ sha1_state \in Hash /\ bufferOffset \in 0..63 /\ byteCount \in Nat
    BY <1>1 DEF Init, Buffer, Hash
  <2> QED BY <2>1 DEF Sha1, Sha1State, BLOCK_LENGTH
<1>4. index = 0 /\ CodeRight
  BY DEF Init, CodeRight
<1> QED
  BY <1>2, <1>3, <1>4 DEF Init, IInv, Types

\* A byte written.
LEMMA WriteIInv ==
  ASSUME IInv, sha1_write
  PROVE  IInv'
<1> DEFINE s == [Sha1 EXCEPT !.n = @ + 1]
           d == Head(todo)
           a == addUncounted(s, d)
<1>1. Types /\ Hashing /\ CodeRight /\ pc # "initHmac" /\ todo # << >>
  BY DEF IInv, sha1_write
<1>2. todo \in Seq(Byte) /\ text \in Seq(Byte) /\ Sha1 \in Sha1State
  BY <1>1 DEF Types
<1>3. d \in Byte /\ Tail(todo) \in Seq(Byte)
  BY <1>1, <1>2
<1>4. Fed(Sha1, text) /\ Sha1.n = Len(text)
  BY <1>1 DEF Hashing, Sha1
<1>5. s \in Sha1State /\ s.w = Sha1.w /\ s.h = Sha1.h /\ s.off = Sha1.off /\ s.n = Sha1.n + 1
  BY <1>2 DEF Sha1State
<1>6. Fed(s, text)
  BY <1>4, <1>5, Zenon DEF Fed
<1> HIDE DEF s, d
<1>7. Fed(a, Append(text, d)) /\ a.n = s.n
  BY <1>3, <1>6, AddFed, SMTT(30)
<1>8. a \in Sha1State
  BY <1>7 DEF Fed
<1>9. SetSha1(a) /\ text' = Append(text, d) /\ todo' = Tail(todo)
      /\ UNCHANGED <<hmacKey, index, keyBuffer, innerHash, pc, code>>
  BY DEF sha1_write, s, d
<1> HIDE DEF a
<1>10. Sha1' = a
  BY <1>8, <1>9, SetSha1Sets
<1>11. text' \o todo' = text \o todo
  BY <1>1, <1>2, <1>9 DEF d
<1>12. text' \in Seq(Byte) /\ Len(text') = Len(text) + 1
  BY <1>2, <1>3, <1>9, AppendFacts, SMTT(30)
<1>13. byteCount' = Len(text')
  <2>1. byteCount' = a.n
    BY <1>9 DEF SetSha1
  <2> QED BY <2>1, <1>4, <1>5, <1>7, <1>12
<1>14. Types'
  BY <1>1, <1>3, <1>8, <1>9, <1>10, <1>12, SMTT(30) DEF Types
<1>15. Hashing'
  <2>1. Fed(Sha1, text)'
    BY <1>7, <1>9, <1>10
  <2>2. Message' = Message
    BY <1>9 DEF Message
  <2> QED BY <1>1, <1>9, <1>11, <1>13, <2>1, <2>2 DEF Hashing
<1>16. CodeRight'
  BY <1>1, <1>9 DEF CodeRight
<1> QED
  BY <1>1, <1>9, <1>14, <1>15, <1>16 DEF IInv

\* The start of a heartbeat: the key is short enough, or hashed first.
LEMMA InitHmacIInv ==
  ASSUME IInv, sha1_initHmac
  PROVE  IInv'
<1> DEFINE s == sha1_init(Sha1)
<1>1. Types /\ CodeRight /\ pc = "initHmac" /\ Sha1 \in Sha1State
  BY DEF IInv, sha1_initHmac, Types
<1>2. Fed(s, << >>) /\ s.n = 0
  BY <1>1, FedNothing
<1>3. s \in Sha1State
  BY <1>2 DEF Fed
<1>4. SetSha1(s) /\ text' = << >> /\ UNCHANGED <<hmacKey, index, innerHash, code>>
  BY DEF sha1_initHmac
<1> HIDE DEF s
<1>5. Sha1' = s /\ byteCount' = 0
  BY <1>2, <1>3, <1>4, SetSha1Sets DEF SetSha1
<1>6. Fed(Sha1, text)' /\ byteCount' = Len(text') /\ text' \in Seq(Byte)
  BY <1>2, <1>4, <1>5
<1>7. hmacKey \in Seq(Byte) /\ hmacKey \in Keys /\ index \in Nat /\ innerHash \in [1..20 -> Byte]
  BY <1>1, KeysAssumption DEF Types
<1>8. PICK l \in Nat : Len(hmacKey) = l
  BY <1>7, SMTT(30)
<1>9. /\ pc' \in {"keyHashed", "steps"} /\ keyBuffer' \in [1..64 -> Byte]
      /\ todo' \in Seq(Byte) /\ todo' = Message'
      /\ pc' = "keyHashed" => Len(hmacKey) > 64
      /\ pc' = "steps" => keyBuffer' = FullKey(hmacKey)
  <2>1. CASE l > 64
    <3>1. keyBuffer' = Zeroed(<< >>) /\ todo' = hmacKey /\ pc' = "keyHashed"
      BY <1>8, <2>1 DEF sha1_initHmac, IsLong, BLOCK_LENGTH
    <3>2. Zeroed(<< >>) \in [1..64 -> Byte]
      <4>1. {} \in Byte
        BY DEF Byte
      <4> QED BY <4>1 DEF Zeroed, BLOCK_LENGTH
    <3>3. Message' = hmacKey
      BY <1>4, <3>1 DEF Message
    <3> QED BY <1>7, <1>8, <2>1, <3>1, <3>2, <3>3
  <2>2. CASE l <= 64
    <3>1. keyBuffer' = Zeroed(hmacKey) /\ todo' = Ipad(keyBuffer') /\ pc' = "steps"
      BY <1>8, <2>2 DEF sha1_initHmac, IsLong, BLOCK_LENGTH
    <3>2. Zeroed(hmacKey) \in [1..64 -> Byte] /\ Zeroed(hmacKey) = hmacKey \o Zeros(64 - Len(hmacKey))
      BY <1>7, <1>8, <2>2, KeyBlock, Zenon
    <3>3. FullKey(hmacKey) = hmacKey \o Zeros(64 - Len(hmacKey))
      <4>1. Key(hmacKey) = hmacKey
        BY <1>8, <2>2 DEF Key
      <4> QED BY <4>1 DEF FullKey
    <3>4. Message' = Ipad(keyBuffer')
      BY <3>1 DEF Message
    <3>5. Ipad(keyBuffer') \in [1..64 -> Byte]
      BY <3>1, <3>2, ByteTypes, Zenon
    <3>6. Ipad(keyBuffer') \in Seq(Byte)
      BY <3>5, BlockSeq, Zenon
    <3> QED BY <3>1, <3>2, <3>3, <3>4, <3>6, Zenon
  <2> QED BY <2>1, <2>2
<1>10. text' \o todo' = Message'
  BY <1>4, <1>9
<1>11. Types'
  BY <1>3, <1>4, <1>5, <1>6, <1>7, <1>9 DEF Types
<1>12. Hashing'
  BY <1>4, <1>6, <1>9, <1>10, Zenon DEF Hashing
<1>13. CodeRight'
  BY <1>1, <1>4 DEF CodeRight
<1> QED
  BY <1>9, <1>11, <1>12, <1>13 DEF IInv

\* The hash of a long key is the key.
LEMMA KeyHashedIInv ==
  ASSUME IInv, KeyHashed
  PROVE  IInv'
<1> DEFINE s == sha1_init(sha1_result(Sha1))
<1>1. Types /\ Hashing /\ CodeRight /\ pc = "keyHashed" /\ todo = << >>
  BY DEF IInv, KeyHashed
<1>2. /\ text = hmacKey /\ StateBytes(sha1_result(Sha1)) = SHA1(hmacKey)
      /\ sha1_result(Sha1) \in Sha1State
  BY <1>1, Finished DEF Message
<1>3. Fed(s, << >>) /\ s.n = 0
  BY <1>2, FedNothing
<1>4. s \in Sha1State
  BY <1>3 DEF Fed
<1>5. /\ SetSha1(s) /\ text' = << >> /\ pc' = "steps"
      /\ keyBuffer' = Zeroed(SHA1(hmacKey)) /\ todo' = Ipad(keyBuffer')
      /\ UNCHANGED <<hmacKey, index, innerHash, code>>
  BY <1>2 DEF KeyHashed
<1> HIDE DEF s
<1>6. Sha1' = s /\ byteCount' = 0
  BY <1>3, <1>4, <1>5, SetSha1Sets DEF SetSha1
<1>7. Fed(Sha1, text)' /\ byteCount' = Len(text') /\ text' \in Seq(Byte)
  BY <1>3, <1>5, <1>6
<1>8. SHA1(hmacKey) \in Seq(Byte) /\ Len(SHA1(hmacKey)) = 20
  BY BlockSeq, ByteTypes, Zenon
<1>9. keyBuffer' \in [1..64 -> Byte] /\ keyBuffer' = SHA1(hmacKey) \o Zeros(64 - Len(SHA1(hmacKey)))
  <2>1. Len(SHA1(hmacKey)) <= 64
    BY <1>8
  <2> QED BY <1>5, <1>8, <2>1, KeyBlock, Zenon
<1>10. FullKey(hmacKey) = SHA1(hmacKey) \o Zeros(64 - Len(SHA1(hmacKey)))
  <2>1. Key(hmacKey) = SHA1(hmacKey)
    BY <1>1 DEF Hashing, Key
  <2> QED BY <2>1 DEF FullKey
<1>11. todo' \in Seq(Byte) /\ Message' = todo'
  <2>1. Ipad(keyBuffer') \in [1..64 -> Byte]
    BY <1>9, ByteTypes, Zenon
  <2>2. Ipad(keyBuffer') \in Seq(Byte)
    BY <2>1, BlockSeq, Zenon
  <2> QED BY <1>5, <2>2 DEF Message
<1>12. text' \o todo' = Message'
  BY <1>5, <1>11
<1>13. Types'
  BY <1>1, <1>4, <1>5, <1>6, <1>7, <1>9, <1>11, Zenon DEF Types
<1>14. Hashing'
  BY <1>5, <1>7, <1>9, <1>10, <1>12 DEF Hashing
<1>15. CodeRight'
  BY <1>1, <1>5 DEF CodeRight
<1> QED
  BY <1>5, <1>13, <1>14, <1>15 DEF IInv

\* The number of the heartbeat goes after the padded key.
LEMMA WriteStepsIInv ==
  ASSUME IInv, WriteSteps
  PROVE  IInv'
<1>1. Types /\ Hashing /\ CodeRight /\ pc = "steps" /\ todo = << >>
  BY DEF IInv, WriteSteps
<1>2. text = Ipad(keyBuffer)
  BY <1>1, Finished DEF Message
<1>3. todo' = Bytes8(index)
  BY SMT DEF WriteSteps, Bytes8
<1>4. pc' = "inner" /\ UNCHANGED <<hmacKey, index, sha1_vars, keyBuffer, innerHash, code, text>>
  BY SMT DEF WriteSteps
<1>5. Sha1' = Sha1 /\ byteCount' = byteCount
  BY <1>4 DEF Sha1, sha1_vars
<1>6. todo' \in Seq(Byte)
  BY <1>3, ByteTypes
<1>7. Message' = Ipad(keyBuffer) \o Bytes8(index)
  BY <1>4 DEF Message
<1>8. Types'
  BY <1>1, <1>4, <1>5, <1>6 DEF Types
<1>9. Hashing'
  <2>1. Fed(Sha1, text)' /\ byteCount' = Len(text')
    BY <1>1, <1>4, <1>5 DEF Hashing
  <2>2. text' \o todo' = Message'
    BY <1>2, <1>3, <1>4, <1>7
  <2> QED BY <1>1, <1>4, <2>1, <2>2 DEF Hashing
<1>10. CodeRight'
  BY <1>1, <1>4 DEF CodeRight
<1> QED
  BY <1>4, <1>8, <1>9, <1>10 DEF IInv

\* The inner hash goes after the other padded key.
LEMMA ResultHmacIInv ==
  ASSUME IInv, sha1_resultHmac
  PROVE  IInv'
<1> DEFINE s == sha1_init(sha1_result(Sha1))
<1>1. Types /\ Hashing /\ CodeRight /\ pc = "inner" /\ todo = << >>
  BY DEF IInv, sha1_resultHmac
<1>2. /\ text = Ipad(keyBuffer) \o Bytes8(index) /\ StateBytes(sha1_result(Sha1)) = SHA1(text)
      /\ sha1_result(Sha1) \in Sha1State
  BY <1>1, Finished DEF Message
<1>3. Fed(s, << >>) /\ s.n = 0
  BY <1>2, FedNothing
<1>4. s \in Sha1State
  BY <1>3 DEF Fed
<1>5. /\ SetSha1(s) /\ text' = << >> /\ pc' = "outer"
      /\ innerHash' = SHA1(Ipad(keyBuffer) \o Bytes8(index)) /\ todo' = Opad(keyBuffer) \o innerHash'
      /\ UNCHANGED <<hmacKey, index, keyBuffer, code>>
  BY <1>2 DEF sha1_resultHmac
<1> HIDE DEF s
<1>6. Sha1' = s /\ byteCount' = 0
  BY <1>3, <1>4, <1>5, SetSha1Sets DEF SetSha1
<1>7. Fed(Sha1, text)' /\ byteCount' = Len(text') /\ text' \in Seq(Byte)
  BY <1>3, <1>5, <1>6
<1>8. innerHash' \in [1..20 -> Byte] /\ innerHash' \in Seq(Byte)
  BY <1>5, BlockSeq, ByteTypes, Zenon
<1>9. Opad(keyBuffer) \in Seq(Byte)
  BY <1>1, BlockSeq, ByteTypes, Zenon DEF Types
<1>10. todo' \in Seq(Byte) /\ Message' = todo'
  <2>1. todo' \in Seq(Byte)
    BY <1>5, <1>8, <1>9, ConcatFacts
  <2> QED BY <1>5, <2>1 DEF Message
<1>11. text' \o todo' = Message'
  BY <1>5, <1>10, SMTT(30)
<1>12. Types'
  BY <1>1, <1>4, <1>5, <1>6, <1>7, <1>8, <1>10 DEF Types
<1>13. keyBuffer = FullKey(hmacKey)
  BY <1>1 DEF Hashing
<1>14. Hashing'
  BY <1>5, <1>7, <1>11, <1>13, SMTT(30) DEF Hashing
<1>15. CodeRight'
  BY <1>1, <1>5 DEF CodeRight
<1> QED
  BY <1>5, <1>12, <1>14, <1>15 DEF IInv

\* What the outer hash is the hash of makes it the HMAC.
LEMMA OuterHmac ==
  ASSUME Types, Hashing, pc = "outer", todo = << >>
  PROVE  StateBytes(sha1_result(Sha1)) = HMAC(hmacKey, Bytes8(index))
<1>1. text = Opad(keyBuffer) \o innerHash /\ StateBytes(sha1_result(Sha1)) = SHA1(text)
  BY Finished DEF Message
<1>2. keyBuffer = FullKey(hmacKey) /\ innerHash = SHA1(Ipad(keyBuffer) \o Bytes8(index))
  BY DEF Hashing
<1>3. HMAC(hmacKey, Bytes8(index)) =
        SHA1(Opad(FullKey(hmacKey)) \o SHA1(Ipad(FullKey(hmacKey)) \o Bytes8(index)))
  BY DEF HMAC, Ipad, Opad, BLOCK_LENGTH
<1> QED
  BY <1>1, <1>2, <1>3

\* The code of a heartbeat.
LEMMA CodeIInv ==
  ASSUME IInv, totp_getCodeFromSteps
  PROVE  IInv'
<1> DEFINE s == sha1_result(Sha1)
<1>1. Types /\ Hashing /\ pc = "outer" /\ todo = << >>
  BY DEF IInv, totp_getCodeFromSteps
<1>2. s \in Sha1State /\ StateBytes(s) = HMAC(hmacKey, Bytes8(index))
  BY <1>1, Finished, OuterHmac
<1>3. /\ SetSha1(s) /\ code' = Truncated(StateBytes(s)) /\ index' = index + 1 /\ pc' = "initHmac"
      /\ UNCHANGED <<hmacKey, keyBuffer, innerHash, todo, text>>
  BY DEF totp_getCodeFromSteps
<1> HIDE DEF s
<1>4. Sha1' = s
  BY <1>2, <1>3, SetSha1Sets
<1>5. index \in Nat /\ index' - 1 = index
  BY <1>1, <1>3 DEF Types
<1>6. Types'
  BY <1>1, <1>2, <1>3, <1>4, <1>5 DEF Types
<1>7. CodeRight'
  BY <1>2, <1>3, <1>5 DEF CodeRight
<1> QED
  BY <1>1, <1>3, <1>6, <1>7 DEF IInv

\* Every step keeps the invariant.
LEMMA NextIInv ==
  ASSUME IInv, [Next]_vars
  PROVE  IInv'
<1>1. CASE Next
  BY <1>1, WriteIInv, InitHmacIInv, KeyHashedIInv, WriteStepsIInv, ResultHmacIInv, CodeIInv DEF Next
<1>2. CASE UNCHANGED vars
  BY <1>2, Zenon DEF vars, sha1_vars, IInv, Types, Hashing, Message, CodeRight, Sha1
<1> QED
  BY <1>1, <1>2

\* In every state the static variables of sha1.c stand for the text written since
\* sha1_init, and the text is the part of the key, the inner or the outer message
\* that the calls of totp_getCodeFromSteps have written so far.
THEOREM Invariance == Spec => []IInv
<1>1. IInv /\ [Next]_vars => IInv'
  BY NextIInv
<1> QED
  BY <1>1, InitIInv, PTL DEF Spec

\* Every digest is the SHA-1 of what was written, for every key and any number
\* of heartbeats: the blocks before it leave nothing in the buffer that counts,
\* and the padding is right wherever the text ends (sha1_write, pad, hashBlock,
\* sha1_result).
THEOREM DigestAlwaysRight == Spec => []DigestRight
<1>1. IInv => DigestRight
  BY Finished DEF IInv, DigestRight
<1> QED
  BY <1>1, Invariance, PTL

\* What every code is made from is the HMAC of the number of the heartbeat, for
\* every key of up to 255 bytes (sha1_initHmac, sha1_resultHmac).
THEOREM HmacAlwaysRight == Spec => []HmacRight
<1>1. IInv => HmacRight
  BY OuterHmac DEF IInv, HmacRight
<1> QED
  BY <1>1, Invariance, PTL

\* The code that totp_getCodeFromSteps left is the truncated HMAC of the number
\* of the last heartbeat.
THEOREM CodeAlwaysRight == Spec => []CodeRight
<1>1. IInv => CodeRight
  BY DEF IInv
<1> QED
  BY <1>1, Invariance, PTL
=============================================================================
