------------------------- MODULE ScannerText_proofs -------------------------
(***************************************************************************)
(* What the walk of the policy compiler's scanner reads.  Reads ties the   *)
(* states of the tables to the texts that lead to them, and TokenStream's  *)
(* rules to what the tables accept; Walked says what a walk over a part of *)
(* the buffer knows, and FoundWalked that it finds the longest match.      *)
(***************************************************************************)
EXTENDS ScannerTables, TLAPS

-----------------------------------------------------------------------------
(***************************************************************************)
(* Sequences in parts.                                                     *)
(***************************************************************************)
\* The elements of a concatenation.
LEMMA ConcatFacts ==
  ASSUME NEW A, NEW x \in Seq(A), NEW y \in Seq(A)
  PROVE  /\ x \o y \in Seq(A) /\ Len(x \o y) = Len(x) + Len(y)
         /\ \A i \in 1..Len(x) : (x \o y)[i] = x[i]
         /\ \A i \in 1..Len(y) : (x \o y)[Len(x) + i] = y[i]
OBVIOUS

\* Sequences with the same elements are the same.
LEMMA SameSeq ==
  ASSUME NEW A, NEW x \in Seq(A), NEW y \in Seq(A), NEW l \in Nat, Len(x) = l, Len(y) = l,
         \A i \in 1..l : x[i] = y[i]
  PROVE  x = y
OBVIOUS

\* A sequence in two parts, of n and k elements, after its first s.
LEMMA TwoParts ==
  ASSUME NEW t \in Seq(Char), NEW s \in Nat, NEW n \in Nat, NEW k \in Nat, Len(t) = s + n + k,
         NEW w \in Seq(Char), Len(w) = n, \A i \in 1..n : w[i] = t[s + i]
  PROVE  w \o SubSeq(t, s + n + 1, Len(t)) = SubSeq(t, s + 1, Len(t))
<1> DEFINE v == SubSeq(t, s + n + 1, Len(t))
           u == SubSeq(t, s + 1, Len(t))
           x == w \o v
           l == n + k
<1>1. w \in Seq(Char) /\ Len(w) = n /\ \A i \in 1..n : w[i] = t[s + i]
  OBVIOUS
<1>2. v \in Seq(Char) /\ Len(v) = k /\ \A i \in 1..k : v[i] = t[(s + n) + i]
  OBVIOUS
<1>3. u \in Seq(Char) /\ Len(u) = l /\ \A i \in 1..l : u[i] = t[s + i]
  OBVIOUS
<1> HIDE DEF u, v
<1>4. /\ x \in Seq(Char) /\ Len(x) = l /\ l \in Nat
      /\ \A i \in 1..n : x[i] = w[i]
      /\ \A i \in 1..k : x[n + i] = v[i]
  <2>1. /\ x \in Seq(Char) /\ Len(x) = Len(w) + Len(v)
        /\ \A i \in 1..Len(w) : x[i] = w[i]
        /\ \A i \in 1..Len(v) : x[Len(w) + i] = v[i]
    <3>1. w \in Seq(Char) /\ v \in Seq(Char)
      BY <1>1, <1>2
    <3>2. x \in Seq(Char) /\ Len(x) = Len(w) + Len(v)
      BY <3>1, ConcatFacts, Zenon
    <3>3. \A i \in 1..Len(w) : x[i] = w[i]
      BY <3>1
    <3>4. \A i \in 1..Len(v) : x[Len(w) + i] = v[i]
      BY <3>1
    <3> QED BY <3>2, <3>3, <3>4
  <2> HIDE DEF x
  <2> QED BY <1>1, <1>2, <2>1
<1> HIDE DEF x
<1>5. ASSUME NEW i \in 1..l PROVE x[i] = u[i]
  <2>1. CASE i <= n
    <3>1. i \in 1..n
      BY <2>1
    <3> QED BY <1>1, <1>3, <1>4, <3>1, Zenon
  <2>2. CASE i > n
    <3>1. i - n \in 1..k /\ n + (i - n) = i /\ (s + n) + (i - n) = s + i
      BY <2>2
    <3>2. x[i] = v[i - n] /\ v[i - n] = t[s + i]
      BY <1>2, <1>4, <3>1, SMTT(30)
    <3> QED BY <1>3, <3>2
  <2> QED BY <2>1, <2>2
<1> HIDE DEF l
<1>6. x = u
  BY <1>3, <1>4, <1>5, SameSeq
<1> QED
  BY <1>6 DEF x, u, v

\* A prefix of a sequence in two parts.
LEMMA PrefixParts ==
  ASSUME NEW s \in Seq(Char), NEW a \in 0..Len(s), NEW k \in (a + 1)..Len(s)
  PROVE  /\ SubSeq(s, a + 1, k) \in Seq(Char) /\ SubSeq(s, a + 1, k) # <<>>
         /\ SubSeq(s, 1, k) = SubSeq(s, 1, a) \o SubSeq(s, a + 1, k)
<1> DEFINE v == SubSeq(s, a + 1, k)
           x == SubSeq(s, 1, a)
           y == SubSeq(s, 1, k)
           z == x \o v
<1>1. v \in Seq(Char) /\ Len(v) = k - a /\ \A i \in 1..(k - a) : v[i] = s[a + i]
  OBVIOUS
<1>2. x \in Seq(Char) /\ Len(x) = a /\ \A i \in 1..a : x[i] = s[i]
  OBVIOUS
<1>3. y \in Seq(Char) /\ Len(y) = k /\ k \in Nat /\ \A i \in 1..k : y[i] = s[i]
  OBVIOUS
<1> HIDE DEF v, x, y
<1>4. /\ z \in Seq(Char) /\ Len(z) = Len(x) + Len(v)
      /\ \A i \in 1..Len(x) : z[i] = x[i]
      /\ \A i \in 1..Len(v) : z[Len(x) + i] = v[i]
  <2>1. z \in Seq(Char) /\ Len(z) = Len(x) + Len(v)
    BY <1>1, <1>2, ConcatFacts, Zenon
  <2>2. \A i \in 1..Len(x) : z[i] = x[i]
    BY <1>1, <1>2
  <2>3. \A i \in 1..Len(v) : z[Len(x) + i] = v[i]
    BY <1>1, <1>2
  <2> QED BY <2>1, <2>2, <2>3
<1> HIDE DEF z
<1>5. ASSUME NEW i \in 1..k PROVE z[i] = y[i]
  <2>1. CASE i <= a
    BY <1>2, <1>3, <1>4, <2>1
  <2>2. CASE i > a
    <3>1. i - a \in 1..Len(v) /\ i - a \in 1..(k - a) /\ Len(x) + (i - a) = i /\ a + (i - a) = i
      BY <1>1, <1>2, <2>2
    <3>2. z[i] = v[i - a] /\ v[i - a] = s[i]
      BY <1>1, <1>4, <3>1
    <3> QED BY <1>3, <3>2
  <2> QED BY <2>1, <2>2
<1>6. Len(z) = k
  BY <1>1, <1>2, <1>4
<1>7. z = y
  BY <1>3, <1>4, <1>5, <1>6, SameSeq
<1>8. v # <<>>
  BY <1>1
<1> QED
  BY <1>1, <1>7, <1>8, Zenon DEF z, y, x, v

\* The rest of the rest of a sequence.
LEMMA RestOfRest ==
  ASSUME NEW t \in Seq(Char), NEW a \in 0..Len(t), NEW n \in Nat, a + n <= Len(t)
  PROVE  /\ SubSeq(SubSeq(t, a + 1, Len(t)), n + 1, Len(SubSeq(t, a + 1, Len(t)))) = SubSeq(t, (a + n) + 1, Len(t))
         /\ Len(SubSeq(t, a + 1, Len(t))) = Len(t) - a
OBVIOUS

\* A difference and a sum.
LEMMA Difference ==
  ASSUME NEW a \in Nat, NEW b \in Nat, NEW n \in Nat, b - a = n
  PROVE  b = a + n
OBVIOUS

-----------------------------------------------------------------------------
(***************************************************************************)
(* What a walk reads: the state it is in and the text it has read agree    *)
(* on the rule, and a walk stops only where no longer text is matched.     *)
(***************************************************************************)
\* The texts that are all digits; other names that begin no word; comments; and
\* those that no rule matches, however they go on.
Numeral(w)     == w # <<>> /\ Range(w) \subseteq Digit
NameText(w)    == w \notin Known /\ Range(w) \subseteq Alnum /\ ~(Range(w) \subseteq Digit)
CommentText(w) == Len(w) >= 2 /\ w[1] = "/" /\ w[2] = "/" /\ "\n" \notin Range(w)
DeadText(w)    == \A v \in Seq(Char) : Tokens!Rules(w \o v) = {}

\* The walk over the text w ends in state s.
Reads(s, w) ==
    \/ w \in Known /\ s = At[w]
    \/ Numeral(w) /\ s \in NumberStates
    \/ NameText(w) /\ s \in NameStates
    \/ CommentText(w) /\ s \in CommentStates
    \/ DeadText(w) /\ s = JAM

\* The rules of TokenStream speak of the same words and characters.
LEMMA SameWords ==
  /\ Tokens!Word = Word /\ Tokens!Spelling = Spelling /\ Tokens!Digit = Digit /\ Tokens!Letter = Letter
  /\ Tokens!Char = Char /\ \A w : Tokens!Range(w) = Range(w)
<1>1. \A w : Tokens!Range(w) = Range(w)
  BY DEF Tokens!Range, Range
<1>2. Tokens!Word = Word /\ Tokens!Letter = Letter
  BY DEF Tokens!Word, Word, Tokens!Words, Words, Tokens!Letter, Letter
<1>3. Tokens!Spelling = Spelling
  BY DEF Tokens!Word, Word, Tokens!Words, Words, Tokens!Spelling, Spelling
<1>4. Tokens!Digit = Digit
  BY <1>1 DEF Tokens!Digit, Digit, Tokens!Digits, Digits
<1>5. Tokens!Char = Char
  BY <1>2, <1>4 DEF Tokens!Char, Char, Tokens!Mark, Mark, Tokens!NUL, NUL
<1> QED
  BY <1>1, <1>2, <1>3, <1>4, <1>5

\* What each rule matches.
LEMMA RuleFacts ==
  ASSUME NEW w \in Seq(Char)
  PROVE  /\ \A r \in Word : r \in Tokens!Rules(w) <=> w = Spelling[r]
         /\ "COMMENT" \in Tokens!Rules(w) <=> CommentText(w)
         /\ "LISTVAR" \in Tokens!Rules(w) <=> \E d \in Digit : w = <<"l", "i", "s", "t", d>>
         /\ "SPACE" \in Tokens!Rules(w) <=> w \in {<<" ">>, <<"\t">>, <<"\n">>}
         /\ "CONST" \in Tokens!Rules(w) <=> Range(w) \subseteq Digit
         /\ "VAR" \in Tokens!Rules(w) <=> Range(w) \subseteq Alnum
         /\ "OTHER" \in Tokens!Rules(w) <=> Len(w) = 1 /\ w # <<"\n">>
         /\ Tokens!Rules(w) \subseteq Word \cup {"COMMENT", "LISTVAR", "SPACE", "CONST", "VAR", "OTHER"}
<1>1. \A r : r \in Tokens!Rules(w) <=> r \in Word \cup {"COMMENT", "LISTVAR", "SPACE", "CONST", "VAR", "OTHER"}
                                        /\ Tokens!Matches(r, w)
  BY SameWords DEF Tokens!Rules, Tokens!Rule
<1>2. \A t \in Word : t \notin {"COMMENT", "LISTVAR", "SPACE", "CONST", "VAR", "OTHER"}
  BY FixedFacts
<1>3. ASSUME NEW r \in Word PROVE Tokens!Matches(r, w) <=> w = Spelling[r]
  BY <1>2, SameWords, Zenon DEF Tokens!Matches
<1>4. Tokens!Matches("COMMENT", w) <=> CommentText(w)
  BY <1>2, SameWords DEF Tokens!Matches, CommentText
<1>5. Tokens!Matches("LISTVAR", w) <=> \E d \in Digit : w = <<"l", "i", "s", "t", d>>
  BY <1>2, SameWords DEF Tokens!Matches
<1>6. Tokens!Matches("SPACE", w) <=> w \in {<<" ">>, <<"\t">>, <<"\n">>}
  BY <1>2, SameWords DEF Tokens!Matches
<1>7. Tokens!Matches("CONST", w) <=> Range(w) \subseteq Digit
  BY <1>2, SameWords DEF Tokens!Matches
<1>8. Tokens!Matches("VAR", w) <=> Range(w) \subseteq Alnum
  BY <1>2, SameWords DEF Tokens!Matches, Alnum
<1>9. Tokens!Matches("OTHER", w) <=> Len(w) = 1 /\ w # <<"\n">>
  BY <1>2, SameWords DEF Tokens!Matches
<1> QED
  BY <1>1, <1>3, <1>4, <1>5, <1>6, <1>7, <1>8, <1>9, Zenon

\* A longer text.
LEMMA LongerText ==
  ASSUME NEW w \in Seq(Char), NEW v \in Seq(Char)
  PROVE  /\ w \o v \in Seq(Char) /\ Len(w \o v) >= Len(w) /\ Range(w) \subseteq Range(w \o v)
         /\ SubSeq(w \o v, 1, Len(w)) = w /\ \A i \in 1..Len(w) : (w \o v)[i] = w[i]
<1>1. w \o v \in Seq(Char) /\ Len(w \o v) >= Len(w)
  OBVIOUS
<1>2. \A i \in 1..Len(w) : (w \o v)[i] = w[i]
  OBVIOUS
<1>3. SubSeq(w \o v, 1, Len(w)) = w
  OBVIOUS
<1>4. Range(w) \subseteq Range(w \o v)
  <2>1. DOMAIN w = 1..Len(w) /\ DOMAIN (w \o v) = 1..Len(w \o v) /\ 1..Len(w) \subseteq 1..Len(w \o v)
    BY <1>1
  <2> QED BY <1>2, <2>1, Zenon DEF Range
<1> QED
  BY <1>1, <1>2, <1>3, <1>4

\* A text of two characters or more that begins no word, no name and no comment.
LEMMA NoRule ==
  ASSUME NEW w \in Seq(Char), Len(w) >= 2, w \notin Known, ~(Range(w) \subseteq Alnum), ~CommentText(w)
  PROVE  DeadText(w)
<1> SUFFICES ASSUME NEW v \in Seq(Char), NEW r \in Tokens!Rules(w \o v) PROVE FALSE
  BY DEF DeadText
<1> DEFINE x == w \o v
<1>1. /\ x \in Seq(Char) /\ Len(x) >= 2 /\ Range(w) \subseteq Range(x)
      /\ SubSeq(x, 1, Len(w)) = w /\ x[1] = w[1] /\ x[2] = w[2] /\ Len(w) \in 0..Len(x)
  BY LongerText
<1> HIDE DEF x
<1>2. r \in Tokens!Rules(x)
  BY DEF x
<1>3. x \notin Known
  BY <1>1, FixedFacts, Zenon
<1>4. x \notin Fixed
  BY <1>3, FixedFacts
<1>5. CASE r \in Word
  <2>1. x = Spelling[r]
    BY <1>1, <1>2, <1>5, RuleFacts, Zenon
  <2> QED BY <1>4, <1>5, <2>1 DEF Fixed
<1>6. CASE r = "COMMENT"
  <2>1. CommentText(x)
    BY <1>1, <1>2, <1>6, RuleFacts, Zenon
  <2> QED BY <1>1, <2>1 DEF CommentText
<1>7. CASE r = "LISTVAR"
  <2>1. \E d \in Digit : x = <<"l", "i", "s", "t", d>>
    BY <1>1, <1>2, <1>7, RuleFacts, Zenon
  <2> QED BY <1>4, <2>1 DEF Fixed
<1>8. CASE r = "SPACE"
  <2>1. x \in {<<" ">>, <<"\t">>, <<"\n">>}
    BY <1>1, <1>2, <1>8, RuleFacts, Zenon
  <2>2. Len(<<" ">>) = 1 /\ Len(<<"\t">>) = 1 /\ Len(<<"\n">>) = 1
    OBVIOUS
  <2>3. Len(x) = 1
    BY <2>1, <2>2, Zenon
  <2> QED BY <1>1, <2>3
<1>9. CASE r = "OTHER"
  <2>1. Len(x) = 1
    BY <1>1, <1>2, <1>9, RuleFacts, Zenon
  <2> QED BY <1>1, <2>1
<1>10. CASE r = "CONST"
  <2>1. Range(x) \subseteq Digit
    BY <1>1, <1>2, <1>10, RuleFacts, Zenon
  <2> QED BY <1>1, <2>1, Zenon DEF Alnum
<1>11. CASE r = "VAR"
  <2>1. Range(x) \subseteq Alnum
    BY <1>1, <1>2, <1>11, RuleFacts, Zenon
  <2> QED BY <1>1, <2>1, Zenon
<1> QED
  <2>1. r \in Word \cup {"COMMENT", "LISTVAR", "SPACE", "CONST", "VAR", "OTHER"}
    BY <1>1, <1>2, RuleFacts, Zenon
  <2> QED BY <2>1, <1>5, <1>6, <1>7, <1>8, <1>9, <1>10, <1>11

\* A text with one more character.
LEMMA RangeAppend ==
  ASSUME NEW w \in Seq(Char), NEW c \in Char
  PROVE  /\ Append(w, c) \in Seq(Char) /\ Len(Append(w, c)) = Len(w) + 1 /\ Append(w, c) # <<>>
         /\ Range(Append(w, c)) = Range(w) \cup {c}
         /\ SubSeq(Append(w, c), 1, Len(w)) = w /\ Append(w, c)[Len(w) + 1] = c
         /\ \A i \in 1..Len(w) : Append(w, c)[i] = w[i]
<1>1. /\ Append(w, c) \in Seq(Char) /\ Len(Append(w, c)) = Len(w) + 1 /\ Append(w, c) # <<>>
      /\ Append(w, c)[Len(w) + 1] = c /\ SubSeq(Append(w, c), 1, Len(w)) = w
  OBVIOUS
<1>2. \A i \in 1..Len(w) : Append(w, c)[i] = w[i]
  OBVIOUS
<1>3. Range(Append(w, c)) = Range(w) \cup {c}
  <2>1. DOMAIN Append(w, c) = 1..(Len(w) + 1) /\ DOMAIN w = 1..Len(w)
    BY <1>1
  <2>2. 1..(Len(w) + 1) = (1..Len(w)) \cup {Len(w) + 1}
    OBVIOUS
  <2> DEFINE a == Append(w, c)
  <2> HIDE DEF a
  <2>3. a[Len(w) + 1] = c /\ \A i \in 1..Len(w) : a[i] = w[i]
    BY <1>1, <1>2 DEF a
  <2>4. DOMAIN a = (1..Len(w)) \cup {Len(w) + 1}
    BY <2>1, <2>2 DEF a
  <2>5. \A y : y \in Range(a) <=> y \in Range(w) \cup {c}
    BY <2>1, <2>3, <2>4, Zenon DEF Range
  <2> QED BY <2>5, Zenon DEF a
<1> QED
  BY <1>1, <1>2, <1>3

\* A character between two texts may be counted with either.
LEMMA AppendFirst ==
  ASSUME NEW w \in Seq(Char), NEW c \in Char, NEW v \in Seq(Char)
  PROVE  <<c>> \o v \in Seq(Char) /\ Append(w, c) \o v = w \o (<<c>> \o v)
OBVIOUS

\* A single character is always matched.
LEMMA OneMatches ==
  ASSUME NEW c \in Char
  PROVE  Tokens!Rules(<<c>>) # {}
<1>1. <<c>> \in Seq(Char) /\ Len(<<c>>) = 1
  OBVIOUS
<1>2. CASE <<c>> = <<"\n">>
  BY <1>1, <1>2, RuleFacts, Zenon
<1>3. CASE <<c>> # <<"\n">>
  BY <1>1, <1>3, RuleFacts, Zenon
<1> QED
  BY <1>2, <1>3

\* The walk reads one more character.
LEMMA ReadsNext ==
  ASSUME NEW w \in Seq(Char), NEW s, Reads(s, w), NEW c \in Char
  PROVE  Reads(yy_trans[<<s, TextClass(c)>>], Append(w, c))
<1> DEFINE u == Append(w, c)
           t == yy_trans[<<s, TextClass(c)>>]
<1>1. /\ u \in Seq(Char) /\ Len(u) = Len(w) + 1 /\ u # <<>> /\ Range(u) = Range(w) \cup {c}
      /\ SubSeq(u, 1, Len(w)) = w /\ u[Len(w) + 1] = c /\ \A i \in 1..Len(w) : u[i] = w[i]
  BY RangeAppend
<1>2. c \in Digit \/ c \in Letter \/ c \in Mark
  BY DEF Char
<1>m. \A d \in Mark : d \notin Alnum
  BY FixedFacts
<1>3. ASSUME w \in Known, s = At[w] PROVE Reads(t, u)
  <2>1. CASE u \in Known
    <3>1. t = At[u]
      BY <1>3, <2>1, KnownFacts
    <3> QED BY <2>1, <3>1 DEF Reads
  <2>2. CASE u \notin Known
    <3>1. \/ Range(u) \subseteq Digit /\ t \in NumberStates
          \/ Range(u) \subseteq Alnum /\ ~(Range(u) \subseteq Digit) /\ t \in NameStates
          \/ u = <<"/", "/">> /\ t \in CommentStates
          \/ ~(Range(u) \subseteq Alnum) /\ u # <<"/", "/">> /\ Len(u) >= 2 /\ t = JAM
      BY <1>3, <2>2, KnownFacts
    <3> HIDE DEF u, t
    <3>2. CASE Range(u) \subseteq Digit /\ t \in NumberStates
      BY <1>1, <3>2, Zenon DEF Reads, Numeral
    <3>3. CASE Range(u) \subseteq Alnum /\ ~(Range(u) \subseteq Digit) /\ t \in NameStates
      BY <2>2, <3>3, Zenon DEF Reads, NameText
    <3>4. CASE u = <<"/", "/">> /\ t \in CommentStates
      <4>1. Range(<<"/", "/">>) = {"/"} /\ Len(<<"/", "/">>) = 2
        BY DEF Range
      <4>2. CommentText(u)
        BY <3>4, <4>1 DEF CommentText
      <4> QED BY <3>4, <4>2, Zenon DEF Reads
    <3>5. CASE ~(Range(u) \subseteq Alnum) /\ u # <<"/", "/">> /\ Len(u) >= 2 /\ t = JAM
      <4>1. ~CommentText(u)
        <5> SUFFICES ASSUME CommentText(u) PROVE FALSE
          OBVIOUS
        <5>1. Len(w) < 2
          BY <1>1, <1>3, FixedFacts DEF CommentText
        <5>2. Len(u) = 2 /\ u[1] = "/" /\ u[2] = "/"
          BY <1>1, <5>1 DEF CommentText
        <5> QED BY <1>1, <3>5, <5>2
      <4>2. DeadText(u)
        BY <1>1, <2>2, <3>5, <4>1, NoRule
      <4> QED BY <3>5, <4>2, Zenon DEF Reads
    <3> QED BY <3>1, <3>2, <3>3, <3>4, <3>5
  <2> QED BY <2>1, <2>2
<1>4. u \in Known => w \in Known
  <2>1. Len(w) \in 0..Len(u)
    BY <1>1
  <2> QED BY <1>1, <2>1, FixedFacts, Zenon
<1>5. ASSUME w # <<>>, w \notin Known, c \in Mark, t = JAM, ~CommentText(u) PROVE Reads(t, u)
  <2>1. ~(Range(u) \subseteq Alnum) /\ Len(u) >= 2 /\ u \notin Known
    BY <1>1, <1>4, <1>5, <1>m
  <2>2. DeadText(u)
    BY <1>1, <1>5, <2>1, NoRule, Zenon
  <2> QED BY <1>5, <2>2, Zenon DEF Reads
<1> HIDE DEF u
<1>6. ASSUME Numeral(w), s \in NumberStates PROVE Reads(t, u)
  <2>0. w # <<>> /\ w \notin Known /\ Range(w) \subseteq Digit
    BY <1>6, FixedFacts DEF Numeral
  <2>1. CASE c \in Digit
    <3>1. t \in NumberStates /\ Numeral(u)
      BY <1>1, <1>6, <2>0, <2>1, LoopFacts DEF Numeral
    <3> QED BY <3>1, Zenon DEF Reads
  <2>2. CASE c \in Letter
    <3>1. c \notin Digit
      BY <2>2, FixedFacts
    <3>2. t \in NameStates /\ NameText(u)
      BY <1>1, <1>4, <1>6, <2>0, <2>2, <3>1, LoopFacts DEF NameText, Alnum
    <3> QED BY <3>2, Zenon DEF Reads
  <2>3. CASE c \in Mark
    <3>1. t = JAM
      <4>1. \A a \in NumberStates : \A d \in Mark : yy_trans[<<a, TextClass(d)>>] = JAM
        BY LoopFacts
      <4> QED BY <1>6, <2>3, <4>1
    <3>2. ~CommentText(u)
      <4>1. w[1] \in Digit /\ u[1] = w[1] /\ "/" \notin Digit
        <5>1. "/" \notin Digit
          BY FixedFacts DEF Alnum
        <5> QED BY <1>1, <2>0, <5>1 DEF Range
      <4> QED BY <4>1 DEF CommentText
    <3> QED BY <1>5, <2>0, <2>3, <3>1, <3>2
  <2> QED BY <1>2, <2>1, <2>2, <2>3
<1>7. ASSUME NameText(w), s \in NameStates PROVE Reads(t, u)
  <2>0. w # <<>> /\ w \notin Known /\ Range(w) \subseteq Alnum /\ ~(Range(w) \subseteq Digit)
    BY <1>7, FixedFacts DEF NameText
  <2>1. CASE c \in Alnum
    <3>1. t \in NameStates
      BY <1>7, <2>1, LoopFacts
    <3>2. NameText(u)
      BY <1>1, <1>4, <2>0, <2>1 DEF NameText
    <3> QED BY <3>1, <3>2, Zenon DEF Reads
  <2>2. CASE c \in Mark
    <3>1. t = JAM
      <4>1. \A a \in NameStates : \A d \in Mark : yy_trans[<<a, TextClass(d)>>] = JAM
        BY LoopFacts
      <4> QED BY <1>7, <2>2, <4>1
    <3>2. ~CommentText(u)
      <4>1. w[1] \in Alnum /\ u[1] = w[1] /\ "/" \notin Alnum
        <5>1. "/" \in Mark
          BY FixedFacts
        <5> QED BY <1>1, <1>m, <2>0, <5>1 DEF Range
      <4> QED BY <4>1 DEF CommentText
    <3> QED BY <1>5, <2>0, <2>2, <3>1, <3>2
  <2> QED BY <1>2, <2>1, <2>2 DEF Alnum
<1>8. ASSUME CommentText(w), s \in CommentStates PROVE Reads(t, u)
  <2>0. Len(w) >= 2 /\ w[1] = "/" /\ w[2] = "/" /\ "\n" \notin Range(w) /\ u[1] = "/" /\ u[2] = "/" /\ Len(u) >= 2
    BY <1>1, <1>8 DEF CommentText
  <2>1. CASE c # "\n"
    <3>1. t \in CommentStates
      BY <1>8, <2>1, LoopFacts, Zenon
    <3>2. CommentText(u)
      BY <1>1, <2>0, <2>1 DEF CommentText
    <3> QED BY <3>1, <3>2, Zenon DEF Reads
  <2>2. CASE c = "\n"
    <3>1. t = JAM
      BY <1>8, <2>2, LoopFacts
    <3>2. ~CommentText(u)
      BY <1>1, <2>2 DEF CommentText
    <3>3. w # <<>> /\ w \notin Known /\ c \in Mark
      BY <2>0, <2>2, FixedFacts
    <3> QED BY <1>5, <3>1, <3>2, <3>3
  <2> QED BY <2>1, <2>2
<1>9. ASSUME DeadText(w), s = JAM PROVE Reads(t, u)
  <2>1. t = JAM
    BY <1>9, LoopFacts
  <2>2. ASSUME NEW v \in Seq(Char) PROVE Tokens!Rules(u \o v) = {}
    <3>1. <<c>> \o v \in Seq(Char) /\ u \o v = w \o (<<c>> \o v)
      BY AppendFirst, Zenon DEF u
    <3> QED BY <1>9, <3>1, Zenon DEF DeadText
  <2>3. DeadText(u)
    BY <2>2 DEF DeadText
  <2> QED BY <2>1, <2>3, Zenon DEF Reads
<1>10. \/ w \in Known /\ s = At[w]
       \/ Numeral(w) /\ s \in NumberStates
       \/ NameText(w) /\ s \in NameStates
       \/ CommentText(w) /\ s \in CommentStates
       \/ DeadText(w) /\ s = JAM
  BY DEF Reads
<1> HIDE DEF t
<1>11. Reads(t, u)
  BY <1>3, <1>6, <1>7, <1>8, <1>9, <1>10
<1> QED
  BY <1>11 DEF t, u

\* The state a walk ends in tells the rule of what it has read.
LEMMA ReadsTells ==
  ASSUME NEW w \in Seq(Char), w # <<>>, NEW s, Reads(s, w)
  PROVE  Tells(s, w) /\ s # NulSeen
<1> DEFINE R == Tokens!Rules(w)
<1>1. /\ \A r \in Word : r \in R <=> w = Spelling[r]
      /\ "COMMENT" \in R <=> CommentText(w)
      /\ "LISTVAR" \in R <=> \E d \in Digit : w = <<"l", "i", "s", "t", d>>
      /\ "SPACE" \in R <=> w \in {<<" ">>, <<"\t">>, <<"\n">>}
      /\ "CONST" \in R <=> Range(w) \subseteq Digit
      /\ "VAR" \in R <=> Range(w) \subseteq Alnum
      /\ "OTHER" \in R <=> Len(w) = 1 /\ w # <<"\n">>
      /\ R \subseteq Word \cup {"COMMENT", "LISTVAR", "SPACE", "CONST", "VAR", "OTHER"}
  BY RuleFacts, Zenon
<1>2. Tokens!Kind(w) = IF R \ {"VAR", "OTHER"} # {} THEN CHOOSE r \in R \ {"VAR", "OTHER"} : TRUE
                       ELSE IF "VAR" \in R THEN "VAR" ELSE "OTHER"
  BY DEF Tokens!Kind
<1>3. w \notin Known => \A r \in R : r \notin Word \cup {"LISTVAR", "SPACE"}
  <2>1. {<<" ">>, <<"\t">>, <<"\n">>} \subseteq Fixed
    BY DEF Fixed, Mark
  <2>2. w \notin Known => w \notin Fixed
    BY FixedFacts
  <2> QED BY <1>1, <2>1, <2>2, Zenon DEF Fixed
<1> HIDE DEF R
<1>s. Tokens!Skipped = {"COMMENT", "SPACE", "OTHER"}
  BY DEF Tokens!Skipped
<1>4. CASE w \in Known /\ s = At[w]
  BY <1>4, KnownRules
<1>5. CASE Numeral(w) /\ s \in NumberStates
  <2>1. w \notin Known /\ "CONST" \in R /\ ~CommentText(w)
    <3>1. w[1] \in Digit /\ "/" \notin Digit
      BY <1>5, FixedFacts DEF Numeral, Alnum, Range
    <3> QED BY <1>1, <1>5, <3>1, FixedFacts, Zenon DEF Numeral, CommentText
  <2>2. R \ {"VAR", "OTHER"} = {"CONST"}
    BY <1>1, <1>3, <2>1, Zenon
  <2>3. Tokens!Kind(w) = "CONST"
    BY <1>2, <2>2
  <2>4. Accepts(s) /\ yy_accept[s + 1] # YY_END_OF_BUFFER /\ RuleToken[yy_accept[s + 1]] = "CONST" /\ s # NulSeen
    BY <1>5, LoopFacts
  <2>5. "CONST" \notin Tokens!Skipped
    BY <1>s
  <2> QED BY <2>1, <2>3, <2>4, <2>5 DEF Tells, R
<1>6. CASE NameText(w) /\ s \in NameStates
  <2>1. w \notin Known /\ "VAR" \in R /\ "CONST" \notin R /\ ~CommentText(w)
    <3>1. w[1] \in Alnum /\ "/" \notin Alnum
      BY <1>6, FixedFacts DEF NameText, Alnum, Range
    <3> QED BY <1>1, <1>6, <3>1, Zenon DEF NameText, CommentText
  <2>2. R \ {"VAR", "OTHER"} = {}
    BY <1>1, <1>3, <2>1, Zenon
  <2>3. Tokens!Kind(w) = "VAR"
    BY <1>2, <2>1, <2>2
  <2>4. Accepts(s) /\ yy_accept[s + 1] # YY_END_OF_BUFFER /\ RuleToken[yy_accept[s + 1]] = "VAR" /\ s # NulSeen
    BY <1>6, LoopFacts
  <2>5. "VAR" \notin Tokens!Skipped
    BY <1>s
  <2> QED BY <2>1, <2>3, <2>4, <2>5 DEF Tells, R
<1>7. CASE CommentText(w) /\ s \in CommentStates
  <2>1. w \notin Known /\ "COMMENT" \in R /\ "CONST" \notin R
    <3>1. "/" \notin Digit /\ "/" \in Range(w)
      BY <1>7, FixedFacts DEF CommentText, Alnum, Range
    <3> QED BY <1>1, <1>7, <3>1, FixedFacts, Zenon DEF CommentText
  <2>2. R \ {"VAR", "OTHER"} = {"COMMENT"}
    BY <1>1, <1>3, <2>1, Zenon
  <2>3. Tokens!Kind(w) = "COMMENT"
    BY <1>2, <2>2, SMTT(30)
  <2>4. Accepts(s) /\ yy_accept[s + 1] # YY_END_OF_BUFFER /\ RuleToken[yy_accept[s + 1]] = Silent /\ s # NulSeen
    BY <1>7, LoopFacts
  <2>5. "COMMENT" \in Tokens!Skipped
    BY <1>s
  <2> QED BY <2>1, <2>3, <2>4, <2>5 DEF Tells, R
<1>8. CASE DeadText(w) /\ s = JAM
  <2>1. <<>> \in Seq(Char) /\ w \o <<>> = w
    OBVIOUS
  <2>2. R = {}
    BY <1>8, <2>1, Zenon DEF DeadText, R
  <2>3. JAM # NulSeen
    BY DEF JAM, NulSeen
  <2> QED BY <1>8, <2>2, <2>3, AcceptFacts DEF Tells, R
<1> QED
  BY <1>4, <1>5, <1>6, <1>7, <1>8 DEF Reads

\* What has jammed stays unmatched.
LEMMA JamDead ==
  ASSUME NEW w \in Seq(Char), w # <<>>, Reads(JAM, w)
  PROVE  DeadText(w)
BY LoopFacts, KnownRules, AcceptFacts DEF Reads

\* Where a walk stops, no longer text is matched.
LEMMA StopsLast ==
  ASSUME NEW w \in Seq(Char), w # <<>>, NEW s, Reads(s, w), Stops(s), NEW v \in Seq(Char), v # <<>>
  PROVE  Tokens!Rules(w \o v) = {}
<1>1. CASE w \in Known /\ s = At[w]
  <2>1. PICK c \in Char, x \in Seq(Char) : v = <<c>> \o x
    <3>1. Head(v) \in Char /\ Tail(v) \in Seq(Char) /\ v = <<Head(v)>> \o Tail(v)
      OBVIOUS
    <3> QED BY <3>1, Zenon
  <2>2. yy_trans[<<s, TextClass(c)>>] = JAM
    BY <1>1, KnownRules
  <2>3. Reads(JAM, Append(w, c))
    BY <2>2, ReadsNext
  <2>4. Append(w, c) \in Seq(Char) /\ Append(w, c) # <<>> /\ Append(w, c) \o x = w \o v
    BY <2>1, RangeAppend, AppendFirst, Zenon
  <2>5. DeadText(Append(w, c))
    BY <2>3, <2>4, JamDead, Zenon
  <2> QED BY <2>4, <2>5, Zenon DEF DeadText
<1>2. CASE s \in NumberStates \cup NameStates \cup CommentStates
  BY <1>2, LoopFacts
<1>3. CASE DeadText(w) /\ s = JAM
  BY <1>3 DEF DeadText
<1> QED
  BY <1>1, <1>2, <1>3 DEF Reads

\* The longest match is the one after which nothing more is matched.
LEMMA LongestIs ==
  ASSUME NEW s \in Seq(Char), NEW n \in 1..Len(s), Tokens!Rules(SubSeq(s, 1, n)) # {},
         \A m \in (n + 1)..Len(s) : Tokens!Rules(SubSeq(s, 1, m)) = {}
  PROVE  Tokens!Longest(s) = n
<1> DEFINE P(i) == /\ Tokens!Rules(SubSeq(s, 1, i)) # {}
                   /\ \A m \in (i + 1)..Len(s) : Tokens!Rules(SubSeq(s, 1, m)) = {}
<1>1. ASSUME NEW i \in 1..Len(s), P(i) PROVE i = n
  <2>1. ~(i < n)
    <3>1. i < n => n \in (i + 1)..Len(s)
      OBVIOUS
    <3> QED BY <1>1, <3>1, Zenon
  <2>2. ~(n < i)
    <3>1. n < i => i \in (n + 1)..Len(s)
      OBVIOUS
    <3> QED BY <1>1, <3>1, Zenon
  <2> QED BY <2>1, <2>2
<1>2. P(n)
  OBVIOUS
<1>3. Tokens!Longest(s) = CHOOSE i \in 1..Len(s) : P(i)
  BY DEF Tokens!Longest
<1> HIDE DEF P
<1> QED
  BY <1>1, <1>2, <1>3, Zenon

\* The token of a text.
LEMMA TokenIs ==
  ASSUME NEW w \in Seq(Char), NEW s, Tells(s, w), Accepts(s)
  PROVE  /\ Tokens!Kind(w) \in Tokens!Skipped <=> RuleToken[yy_accept[s + 1]] = Silent
         /\ Tokens!Kind(w) \notin Tokens!Skipped =>
               Tokens!Token(w) = [type |-> RuleToken[yy_accept[s + 1]], val |-> YylvalOf(RuleToken[yy_accept[s + 1]], w)]
<1> DEFINE R == Tokens!Rules(w)
           K == Tokens!Kind(w)
           first == R \ {"VAR", "OTHER"}
<1>1. R # {} /\ RuleToken[yy_accept[s + 1]] = IF K \in Tokens!Skipped THEN Silent ELSE K
  BY Zenon DEF Tells
<1>2. K = IF first # {} THEN CHOOSE r \in first : TRUE ELSE IF "VAR" \in R THEN "VAR" ELSE "OTHER"
  BY DEF Tokens!Kind
<1>3. R \subseteq Word \cup {"COMMENT", "LISTVAR", "SPACE", "CONST", "VAR", "OTHER"}
  BY RuleFacts, Zenon
<1>4. Silent \notin Word \cup {"COMMENT", "LISTVAR", "SPACE", "CONST", "VAR", "OTHER"}
  BY FixedFacts
<1> HIDE DEF R, K
<1>5. K # Silent
  <2>1. CASE first # {}
    <3>1. K \in first
      BY <1>2, <2>1, Zenon
    <3> QED BY <1>3, <1>4, <3>1
  <2>2. CASE first = {}
    BY <1>2, <1>4, <2>2
  <2> QED BY <2>1, <2>2
<1>6. Tokens!Token(w) = [type |-> K, val |-> CASE K = "CONST" -> <<Tokens!ToString(Tokens!atoi(w))>>
                                               [] K \in {"VAR", "LISTVAR"} -> w
                                               [] OTHER -> <<>>]
  BY Zenon DEF Tokens!Token, K
<1>7. Tokens!ToString(Tokens!atoi(w)) = ToString(atoi(w))
  BY Zenon DEF Tokens!atoi, atoi, Tokens!Digits, Digits
<1>8. Tokens!Token(w) = [type |-> K, val |-> YylvalOf(K, w)]
  BY <1>6, <1>7, Zenon DEF YylvalOf
<1> QED
  BY <1>1, <1>5, <1>8, Zenon DEF K

-----------------------------------------------------------------------------
(***************************************************************************)
(* The walk over a part of the buffer.                                     *)
(***************************************************************************)
\* The records of the walk.
Match == [state : DState, last : [state : 0..JAM, cpos : Nat]]

\* One transition of the walk, whatever character it reads.
LEMMA WalkTyped ==
  ASSUME NEW m \in Match, NEW c \in Class, NEW p \in Nat
  PROVE  /\ Walk(m, c, p) \in Match
         /\ Walk(m, c, p).state = yy_trans[<<m.state, c>>]
         /\ Walk(m, c, p).state # yy_start
         /\ Walk(m, c, p).last = IF Accepts(m.state) THEN [state |-> m.state, cpos |-> p] ELSE m.last
<1>1. m.state \in DState /\ m.state \in 0..JAM /\ m.last \in [state : 0..JAM, cpos : Nat]
  BY DEF Match, DState, JAM
<1>2. yy_trans[<<m.state, c>>] \in DState \ {yy_start}
  BY <1>1, WalkFacts
<1> QED
  BY <1>1, <1>2 DEF Walk, Accepting, Accepts, Match

\* The class yy_get_previous_state gives a character.
ClassOf(buf, p) == IF buf[p] = NUL THEN 1 ELSE yy_ec[buf[p]]

\* Such a class is never that of the end-of-buffer character.
LEMMA ClassOfFacts ==
  ASSUME NEW buf, NEW p, buf[p] \in Char
  PROVE  ClassOf(buf, p) \in Class \ {0}
<1>1. 1 \in Class \ {0}
  BY DEF Class
<1> QED
  BY <1>1, ClassFacts DEF ClassOf

\* The part of a buffer that a walk has gone over.
LEMMA TextFacts ==
  ASSUME NEW buf, NEW from \in Nat, NEW to \in Nat, from <= to, \A p \in from..(to - 1) : buf[p] \in Char
  PROVE  /\ yytext(buf, from, to) \in Seq(Char) /\ Len(yytext(buf, from, to)) = to - from
         /\ yytext(buf, from, to) = <<>> <=> from = to
<1> DEFINE n == to - from
           w == [i \in 1..n |-> buf[from + i - 1]]
<1>1. n \in Nat /\ \A i \in 1..n : buf[from + i - 1] \in Char
  OBVIOUS
<1>2. yytext(buf, from, to) = w
  BY DEF yytext
<1>3. n = 0 <=> from = to
  OBVIOUS
<1> HIDE DEF n
<1>4. w \in Seq(Char) /\ Len(w) = n
  BY <1>1
<1> HIDE DEF w
<1>5. w = <<>> <=> n = 0
  BY <1>1, <1>4
<1> QED
  BY <1>2, <1>3, <1>4, <1>5 DEF n

\* Some of it.
LEMMA TextSome ==
  ASSUME NEW buf, NEW from \in Nat, NEW to \in Nat, \A p \in from..(to - 1) : buf[p] \in Char,
         NEW q \in (from + 1)..to
  PROVE  yytext(buf, from, q) \in Seq(Char) /\ yytext(buf, from, q) # <<>>
<1>1. q \in Nat /\ from <= q /\ from # q /\ \A p \in from..(q - 1) : buf[p] \in Char
  OBVIOUS
<1> QED
  BY <1>1, TextFacts, Zenon

\* One more character.
LEMMA TextNext ==
  ASSUME NEW buf, NEW from \in Nat, NEW to \in Nat, from <= to, \A p \in from..to : buf[p] \in Char
  PROVE  yytext(buf, from, to + 1) = Append(yytext(buf, from, to), buf[to])
<1> DEFINE w == yytext(buf, from, to)
           x == yytext(buf, from, to + 1)
           l == to + 1 - from
<1>1. w \in Seq(Char) /\ Len(w) = to - from /\ \A i \in 1..(to - from) : w[i] = buf[from + i - 1]
  BY TextFacts DEF yytext
<1>2. x \in Seq(Char) /\ Len(x) = l /\ \A i \in 1..l : x[i] = buf[from + i - 1]
  <2>1. to + 1 \in Nat /\ from <= to + 1 /\ \A p \in from..((to + 1) - 1) : buf[p] \in Char
    OBVIOUS
  <2>2. x \in Seq(Char) /\ Len(x) = l
    BY <2>1, TextFacts
  <2>3. \A i \in 1..l : x[i] = buf[from + i - 1]
    BY DEF yytext
  <2> QED BY <2>2, <2>3
<1> HIDE DEF w, x
<1> DEFINE y == Append(w, buf[to])
<1>3. buf[to] \in Char /\ l \in Nat
  OBVIOUS
<1>4. y \in Seq(Char) /\ Len(y) = l /\ \A i \in 1..l : y[i] = buf[from + i - 1]
  <2>1. y \in Seq(Char) /\ Len(y) = Len(w) + 1 /\ y[Len(w) + 1] = buf[to] /\ \A i \in 1..Len(w) : y[i] = w[i]
    BY <1>1, <1>3, RangeAppend
  <2> HIDE DEF y
  <2>2. ASSUME NEW i \in 1..l PROVE y[i] = buf[from + i - 1]
    <3>1. CASE i = Len(w) + 1
      BY <1>1, <2>1, <3>1
    <3>2. CASE i # Len(w) + 1
      <4>1. i \in 1..Len(w) /\ i \in 1..(to - from)
        BY <1>1, <3>2
      <4> QED BY <1>1, <2>1, <4>1
    <3> QED BY <3>1, <3>2
  <2>3. Len(y) = l
    BY <1>1, <2>1
  <2> QED BY <2>1, <2>2, <2>3
<1> HIDE DEF y, l
<1>5. x = y
  <2>1. \A i \in 1..l : x[i] = y[i]
    BY <1>2, <1>4, Zenon
  <2> QED BY <1>2, <1>3, <1>4, <2>1, SameSeq, Zenon
<1> QED
  BY <1>5 DEF x, y, w

\* The walk m over from .. to - 1: what it has read, and the longest part of it
\* before its end that a rule matches.
Walked(m, buf, from, to) ==
    /\ Reads(m.state, yytext(buf, from, to))
    /\ to > from + 1 =>
          /\ m.last.cpos \in (from + 1)..(to - 1) /\ Accepts(m.last.state)
          /\ Reads(m.last.state, yytext(buf, from, m.last.cpos))
          /\ \A k \in (m.last.cpos + 1)..(to - 1) : Tokens!Rules(yytext(buf, from, k)) = {}

\* A walk has read nothing when it starts.
LEMMA WalkedStart ==
  ASSUME NEW m, m.state = yy_start, NEW buf, NEW from \in Nat
  PROVE  Walked(m, buf, from, from)
<1>1. yytext(buf, from, from) = <<>>
  <2>1. from <= from /\ \A p \in from..(from - 1) : buf[p] \in Char
    OBVIOUS
  <2> QED BY <2>1, TextFacts, Zenon
<1>2. Reads(m.state, <<>>)
  BY FixedFacts DEF Reads
<1>3. ~(from > from + 1)
  OBVIOUS
<1> QED
  BY <1>1, <1>2, <1>3, Zenon DEF Walked

\* It goes on with one character.
LEMMA WalkedNext ==
  ASSUME NEW m \in Match, NEW buf, NEW from \in Nat, NEW to \in Nat, from <= to,
         \A p \in from..to : buf[p] \in Char, Walked(m, buf, from, to), to = from => m.state = yy_start
  PROVE  Walked(Walk(m, TextClass(buf[to]), to), buf, from, to + 1)
<1> DEFINE w  == yytext(buf, from, to)
           c  == TextClass(buf[to])
           m2 == Walk(m, c, to)
<1>1. w \in Seq(Char) /\ (w = <<>> <=> from = to) /\ Len(w) = to - from
  BY TextFacts
<1>2. yytext(buf, from, to + 1) = Append(w, buf[to])
  BY TextNext
<1>3. c \in Class
  BY ClassOfFacts DEF ClassOf, TextClass
<1>4. /\ m2.state = yy_trans[<<m.state, c>>]
      /\ m2.last = IF Accepts(m.state) THEN [state |-> m.state, cpos |-> to] ELSE m.last
  BY <1>3, WalkTyped
<1>5. Reads(m.state, w) /\ buf[to] \in Char
  BY DEF Walked
<1> HIDE DEF w, m2
<1>6. Reads(m2.state, yytext(buf, from, to + 1))
  BY <1>1, <1>2, <1>4, <1>5, ReadsNext, Zenon
<1> HIDE DEF c
<1>7. ASSUME to + 1 > from + 1
      PROVE  /\ m2.last.cpos \in (from + 1)..((to + 1) - 1) /\ Accepts(m2.last.state)
             /\ Reads(m2.last.state, yytext(buf, from, m2.last.cpos))
             /\ \A k \in (m2.last.cpos + 1)..((to + 1) - 1) : Tokens!Rules(yytext(buf, from, k)) = {}
  <2>1. w # <<>>
    BY <1>1, <1>7
  <2>2. Accepts(m.state) <=> Tokens!Rules(w) # {}
    BY <1>1, <1>5, <2>1, ReadsTells, Zenon DEF Tells
  <2>3. CASE Accepts(m.state)
    <3>1. m2.last.state = m.state /\ m2.last.cpos = to
      BY <1>4, <2>3
    <3>2. to \in (from + 1)..((to + 1) - 1) /\ (to + 1)..((to + 1) - 1) = {}
      BY <1>7
    <3> QED BY <1>5, <2>3, <3>1, <3>2, Zenon DEF w
  <2>4. CASE ~Accepts(m.state)
    <3>1. m2.last = m.last
      BY <1>4, <2>4
    <3>2. to > from + 1
      <4> SUFFICES ASSUME to = from + 1 PROVE FALSE
        BY <1>7
      <4>1. buf[from] \in Char
        OBVIOUS
      <4>2. w = <<buf[from]>>
        BY <4>1 DEF w, yytext
      <4> QED BY <2>2, <2>4, <4>1, <4>2, OneMatches
    <3>3. /\ m.last.cpos \in (from + 1)..(to - 1) /\ Accepts(m.last.state)
          /\ Reads(m.last.state, yytext(buf, from, m.last.cpos))
          /\ \A k \in (m.last.cpos + 1)..(to - 1) : Tokens!Rules(yytext(buf, from, k)) = {}
      BY <3>2, Zenon DEF Walked
    <3>4. Tokens!Rules(yytext(buf, from, to)) = {}
      BY <2>2, <2>4, Zenon DEF w
    <3>5. /\ m.last.cpos \in (from + 1)..((to + 1) - 1)
          /\ \A k \in (m.last.cpos + 1)..((to + 1) - 1) : k \in (m.last.cpos + 1)..(to - 1) \/ k = to
      BY <3>3
    <3> QED BY <3>1, <3>3, <3>4, <3>5, Zenon
  <2> QED BY <2>3, <2>4
<1> QED
  BY <1>6, <1>7, Zenon DEF Walked, m2, c

\* What a walk m to the character before to finds.
FoundIn(m, to) == IF Accepts(m.state) THEN [state |-> m.state, cpos |-> to] ELSE m.last

\* It finds where it has ended, or else where it last could have.
LEMMA FoundWalked ==
  ASSUME NEW m \in Match, NEW buf, NEW from \in Nat, NEW to \in Nat, from < to,
         \A p \in from..(to - 1) : buf[p] \in Char, Walked(m, buf, from, to)
  PROVE  /\ FoundIn(m, to).cpos \in (from + 1)..to /\ FoundIn(m, to).state # NulSeen
         /\ Reads(FoundIn(m, to).state, yytext(buf, from, FoundIn(m, to).cpos))
         /\ \A k \in (FoundIn(m, to).cpos + 1)..to : Tokens!Rules(yytext(buf, from, k)) = {}
<1> DEFINE w == yytext(buf, from, to)
           f == FoundIn(m, to)
<1>0. to \in (from + 1)..to
  OBVIOUS
<1>1. w \in Seq(Char) /\ w # <<>>
  BY <1>0, TextSome, Zenon
<1>2. Reads(m.state, w)
  BY Zenon DEF Walked
<1>3. Accepts(m.state) <=> Tokens!Rules(w) # {}
  <2> HIDE DEF w
  <2> QED BY <1>1, <1>2, ReadsTells, Zenon DEF Tells
<1> HIDE DEF f
<1>4. CASE Accepts(m.state)
  <2>1. f.state = m.state /\ f.cpos = to
    BY <1>4 DEF FoundIn, f
  <2>2. m.state # NulSeen
    <3> HIDE DEF w
    <3> QED BY <1>1, <1>2, ReadsTells, Zenon
  <2>3. to \in (from + 1)..to /\ (to + 1)..to = {}
    OBVIOUS
  <2> QED BY <1>2, <1>4, <2>1, <2>2, <2>3, Zenon DEF f
<1>5. CASE ~Accepts(m.state)
  <2>1. f = m.last
    BY <1>5 DEF FoundIn, f
  <2>2. to > from + 1
    <3> SUFFICES ASSUME to = from + 1 PROVE FALSE
      OBVIOUS
    <3>1. buf[from] \in Char
      OBVIOUS
    <3>2. w = <<buf[from]>>
      BY <3>1 DEF yytext
    <3> QED BY <1>3, <1>5, <3>1, <3>2, OneMatches
  <2>3. /\ f.cpos \in (from + 1)..(to - 1)
        /\ Reads(f.state, yytext(buf, from, f.cpos))
        /\ \A k \in (f.cpos + 1)..(to - 1) : Tokens!Rules(yytext(buf, from, k)) = {}
    BY <2>1, <2>2, Zenon DEF Walked
  <2>4. f.state # NulSeen
    <3>1. PICK q \in (from + 1)..to : q = f.cpos
      BY <2>3
    <3> DEFINE v == yytext(buf, from, q)
    <3>2. v \in Seq(Char) /\ v # <<>>
      BY TextSome, Zenon
    <3> HIDE DEF v
    <3>3. Reads(f.state, v)
      BY <2>3, <3>1, Zenon DEF v
    <3> QED BY <3>2, <3>3, ReadsTells, Zenon
  <2>5. /\ f.cpos \in (from + 1)..to
        /\ \A k \in (f.cpos + 1)..to : k \in (f.cpos + 1)..(to - 1) \/ k = to
    BY <2>3
  <2> QED BY <1>3, <1>5, <2>3, <2>4, <2>5, Zenon DEF f
<1> QED
  BY <1>4, <1>5, Zenon
=============================================================================
