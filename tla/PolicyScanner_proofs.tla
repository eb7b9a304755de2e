------------------------ MODULE PolicyScanner_proofs ------------------------
(***************************************************************************)
(* The policy compiler's scanner, for every policy file, every buffer size *)
(* and every length the reads return.                                      *)
(*                                                                         *)
(* ScanIInv says for each label of yylex where the two pointers are and    *)
(* which part of the buffer is marked as its end; that a walk always finds *)
(* an accepting state after at least one character keeps yylex from        *)
(* walking past that mark.  InPlace says that the buffer is a window on    *)
(* the file.  Tracked says that a walk has read the text of the token, and *)
(* that what it finds is the longest match.                                *)
(***************************************************************************)
EXTENDS ScannerText_proofs, WellFoundedInduction

-----------------------------------------------------------------------------
(***************************************************************************)
(* Induction over the naturals with a set in the place of a predicate, and *)
(* what it gives for functions defined by recursion: the library's own     *)
(* theorems on both take operators as parameters.                          *)
(***************************************************************************)
\* Every set of naturals has a least element.
LEMMA LeastNat ==
  ASSUME NEW T \in SUBSET Nat, T # {}
  PROVE  \E n \in T : \A m \in T : n <= m
<1> DEFINE R == OpToRel(<, Nat)
<1>1. IsWellFoundedOn(R, Nat)
  BY NatLessThanWellFounded, Zenon
<1>2. PICK x \in T : \A y \in T : ~ (<<y, x>> \in R)
  <2> HIDE DEF R
  <2> QED BY <1>1, WFMin, ZenonT(30)
<1>3. ASSUME NEW y \in T PROVE x <= y
  <2>1. ~ (<<y, x>> \in R)
    BY <1>2, Zenon
  <2>2. y \in Nat /\ x \in Nat /\ ~(y < x)
    BY <2>1 DEF OpToRel
  <2> QED
    BY <2>2
<1> QED
  BY <1>3

\* A set that holds 0 and with each number the next holds every number.
LEMMA SetInduction ==
  ASSUME NEW S, 0 \in S, \A n \in Nat : n \in S => n + 1 \in S
  PROVE  \A n \in Nat : n \in S
<1> SUFFICES ASSUME NEW k \in Nat, k \notin S PROVE FALSE
  OBVIOUS
<1>1. PICK n \in Nat \ S : \A m \in Nat \ S : n <= m
  BY LeastNat, ZenonT(30)
<1>2. n # 0 /\ n - 1 \in Nat /\ n - 1 \in S
  BY <1>1
<1> QED
  BY <1>2

\* f starts with base and goes on with the step G.
Iterates(f, n, A, base, G) ==
  /\ f \in [0..n -> A]
  /\ f[0] = base
  /\ \A i \in 1..n : f[i] = G[<<f[i - 1], i>>]

\* One more iteration.
LEMMA IterateOnce ==
  ASSUME NEW A, NEW base \in A, NEW n \in Nat, NEW G \in [A \X (1..n) -> A],
         NEW k \in Nat, k + 1 <= n, NEW f, Iterates(f, k, A, base, G)
  PROVE  \E g : Iterates(g, k + 1, A, base, G)
<1> DEFINE new == G[<<f[k], k + 1>>]
           g   == [i \in 0..(k + 1) |-> IF i = k + 1 THEN new ELSE f[i]]
<1>1. f \in [0..k -> A] /\ f[0] = base /\ \A i \in 1..k : f[i] = G[<<f[i - 1], i>>]
  BY DEF Iterates
<1>2. k + 1 \in 1..n /\ f[k] \in A
  BY <1>1
<1>3. new \in A
  BY <1>2
<1> HIDE DEF new
<1>4. /\ g[k + 1] = new /\ \A i \in 0..k : g[i] = f[i]
      /\ g \in [0..(k + 1) -> A]
  <2>1. \A i \in 0..(k + 1) : i = k + 1 \/ i \in 0..k
    OBVIOUS
  <2>2. \A i \in 0..k : i # k + 1 /\ i \in 0..(k + 1)
    OBVIOUS
  <2> QED BY <1>1, <1>3, <2>1, <2>2
<1> HIDE DEF g
<1>5. ASSUME NEW i \in 1..(k + 1) PROVE g[i] = G[<<g[i - 1], i>>]
  <2>1. CASE i = k + 1
    <3>1. g[i - 1] = f[k]
      BY <2>1, <1>4
    <3> QED BY <3>1, <2>1, <1>4 DEF new
  <2>2. CASE i \in 1..k
    <3>1. i \in 0..k /\ i - 1 \in 0..k
      BY <2>2
    <3> QED BY <3>1, <2>2, <1>1, <1>4
  <2> QED BY <2>1, <2>2
<1>6. g[0] = base
  BY <1>1, <1>4
<1> QED
  BY <1>4, <1>5, <1>6 DEF Iterates

\* The recursion of a step G over 1..n has a solution.
LEMMA IterationExists ==
  ASSUME NEW A, NEW base \in A, NEW n \in Nat, NEW G \in [A \X (1..n) -> A]
  PROVE  \E f : Iterates(f, n, A, base, G)
<1> DEFINE S == {k \in Nat : k <= n => \E f : Iterates(f, k, A, base, G)}
<1>1. 0 \in S
  <2> DEFINE f == [i \in 0..0 |-> base]
  <2>1. Iterates(f, 0, A, base, G)
    BY DEF Iterates
  <2> HIDE DEF f
  <2>2. \E g : Iterates(g, 0, A, base, G)
    BY <2>1
  <2> QED BY <2>2
<1>2. ASSUME NEW k \in Nat, k \in S PROVE k + 1 \in S
  <2>1. ASSUME k + 1 <= n PROVE \E f : Iterates(f, k + 1, A, base, G)
    <3>1. PICK f : Iterates(f, k, A, base, G)
      BY <1>2, <2>1
    <3> QED BY <2>1, <3>1, IterateOnce
  <2> QED BY <2>1
<1>3. \A k \in Nat : k \in S
  <2> HIDE DEF S
  <2> QED BY <1>1, <1>2, SetInduction
<1> QED
  BY <1>3

-----------------------------------------------------------------------------
(***************************************************************************)
(* The scanner's invariant.                                                *)
(***************************************************************************)
\* The types of the scanner's variables.
ScanTypes ==
    /\ text \in Seq(Char) /\ fpos \in 0..Len(text) /\ feof \in BOOLEAN
    /\ yy_buf_size \in Nat \ {0}
    /\ yy_ch_buf \in [0..(yy_buf_size + 1) -> Char]
    /\ yy_n_chars \in 0..yy_buf_size
    /\ yy_c_buf_p \in Nat /\ yytext_ptr \in 0..yy_c_buf_p /\ yy_cp \in Nat
    /\ yy_hold_char \in Char
    /\ match \in Match
    /\ tok.type \in TokenType

\* The two end-of-buffer characters are where yy_get_next_buffer put them.
Ended(buf) == buf[yy_n_chars] = NUL /\ buf[yy_n_chars + 1] = NUL

\* The buffer with the character the token's NUL has replaced.
Held == [yy_ch_buf EXCEPT ![yy_c_buf_p] = yy_hold_char]

\* The walk from the start of a token at t has come to c: FindAction will find
\* an accepting state after at least one character.
Good(m, t, c) ==
    \/ c = t /\ m.state = yy_start
    \/ /\ c > t /\ m.state # yy_start
       /\ Accepts(m.state) \/ (Accepts(m.last.state) /\ t < m.last.cpos /\ m.last.cpos < c)

\* At yy_match: the walk has not left the buffer, and knows when it is at its end.
Matching ==
    /\ Ended(yy_ch_buf) /\ yy_c_buf_p <= yy_n_chars
    /\ yytext_ptr <= yy_cp /\ yy_cp <= yy_n_chars + 1
    /\ yy_cp = yy_n_chars + 1 => match.state = NulSeen
    /\ Good(match, yytext_ptr, yy_cp)

\* At yy_find_action: the walk jammed, at most after both end-of-buffer characters.
Finding ==
    /\ Ended(yy_ch_buf) /\ yy_c_buf_p <= yy_n_chars
    /\ yytext_ptr < yy_cp /\ yy_cp <= yy_n_chars + 2
    /\ yy_cp > yy_n_chars => match.state = JAM
    /\ yy_cp > yy_n_chars + 1 => match.last.state = NulSeen
    /\ Good(match, yytext_ptr, yy_cp)

\* In the action of an end-of-buffer character.
AtEnd ==
    /\ Ended(Held) /\ yy_c_buf_p <= yy_n_chars + 1
    /\ yy_cp = yy_c_buf_p /\ yytext_ptr < yy_c_buf_p

\* In yy_get_next_buffer, after the token has moved to the front.
Refilling == yytext_ptr = 0 /\ yy_c_buf_p \in 1..(yy_n_chars + 1)

\* Between two tokens.
AtRest == Ended(Held) /\ yy_c_buf_p <= yy_n_chars

\* The scanner's invariant, by the label it is at.
ScanInv ==
    /\ pc = "match" => Matching
    /\ pc = "find" => Finding
    /\ pc = "eob" => AtEnd
    /\ pc = "refill" => Refilling
    /\ pc = "fatal" => yy_c_buf_p <= yy_n_chars + 1
    /\ pc \notin {"match", "find", "eob", "refill", "fatal"} => AtRest

\* The flag of the file is only set at its end, and the end is only told after.
FileInv ==
    /\ feof => fpos = Len(text)
    /\ yy_buffer_status = "EOF_PENDING" => feof
    /\ pc = "return" /\ tok.type = EOF.type => feof

ScanIInv == ScanTypes /\ ScanInv /\ FileInv

-----------------------------------------------------------------------------
\* A transition keeps a walk good.
LEMMA WalkGood ==
  ASSUME NEW m \in Match, NEW c \in Class, NEW t \in Nat, NEW p \in Nat, Good(m, t, p)
  PROVE  Good(Walk(m, c, p), t, p + 1)
<1> DEFINE w == Walk(m, c, p)
<1>1. /\ w.state = yy_trans[<<m.state, c>>] /\ w.state # yy_start
      /\ w.last = IF Accepts(m.state) THEN [state |-> m.state, cpos |-> p] ELSE m.last
  BY WalkTyped
<1> HIDE DEF w
<1>2. CASE Accepts(m.state)
  <2>1. t < p
    BY <1>2, AcceptFacts DEF Good
  <2> QED BY <1>1, <1>2, <2>1 DEF Good, w
<1>3. CASE ~Accepts(m.state) /\ m.state = yy_start
  <2>1. p = t /\ Accepts(w.state)
    BY <1>1, <1>3, WalkFacts DEF Good
  <2> QED BY <1>1, <2>1 DEF Good, w
<1>4. CASE ~Accepts(m.state) /\ m.state # yy_start
  <2>1. m.last.cpos \in Nat
    BY DEF Match
  <2> QED BY <1>1, <1>4, <2>1 DEF Good, w
<1> QED
  BY <1>2, <1>3, <1>4

\* A walk starts with the last accepting state of the walk before.
LEMMA WalkStarts ==
  ASSUME match \in Match
  PROVE  /\ [match EXCEPT !.state = yy_start] \in Match
         /\ [match EXCEPT !.state = yy_start].state = yy_start
BY DEF Match, DState, yy_start, JAM

\* yy_get_previous_state repeats the walk over from .. to - 1.
LEMMA PreviousWalk ==
  ASSUME match \in Match, NEW from \in Nat, NEW to \in Nat, from <= to,
         NEW buf, \A p \in from..(to - 1) : buf[p] \in Char
  PROVE  \E W : /\ yy_get_previous_state(buf, from, to) = W[to]
               /\ W[from] = [match EXCEPT !.state = yy_start]
               /\ \A p \in (from + 1)..to : W[p] = Walk(W[p - 1], ClassOf(buf, p - 1), p - 1)
<1> DEFINE n    == to - from
           base == [match EXCEPT !.state = yy_start]
           F(w) == [p \in from..to |-> IF p = from THEN base ELSE Walk(w[p - 1], ClassOf(buf, p - 1), p - 1)]
           W    == CHOOSE w : w = F(w)
           G    == [x \in Match \X (1..n) |-> Walk(x[1], ClassOf(buf, from + x[2] - 1), from + x[2] - 1)]
<1>1. yy_get_previous_state(buf, from, to) = W[to]
  BY DEF yy_get_previous_state, ClassOf
<1>2. base \in Match
  BY WalkStarts
<1> HIDE DEF base
<1>3. ASSUME NEW p \in from..(to - 1) PROVE ClassOf(buf, p) \in Class \ {0} /\ p \in Nat
  BY ClassOfFacts
<1>4. n \in Nat /\ G \in [Match \X (1..n) -> Match]
  <2>1. ASSUME NEW x \in Match \X (1..n)
        PROVE  Walk(x[1], ClassOf(buf, from + x[2] - 1), from + x[2] - 1) \in Match
    <3>1. x[1] \in Match /\ from + x[2] - 1 \in from..(to - 1)
      OBVIOUS
    <3> QED BY <3>1, <1>3, WalkTyped, Zenon
  <2> QED BY <2>1
<1>5. PICK f : Iterates(f, n, Match, base, G)
  <2> HIDE DEF G, n
  <2> QED BY <1>2, <1>4, IterationExists, Zenon
<1> DEFINE sol == [p \in from..to |-> f[p - from]]
<1>6. sol = F(sol)
  <2>1. ASSUME NEW p \in from..to
        PROVE  sol[p] = IF p = from THEN base ELSE Walk(sol[p - 1], ClassOf(buf, p - 1), p - 1)
    <3>1. CASE p = from
      BY <3>1, <1>5 DEF Iterates
    <3>2. CASE p # from
      <4>1. p - from \in 1..n /\ p - from - 1 \in 0..n /\ p - 1 \in from..to
        BY <3>2
      <4>2. f[p - from] = G[<<f[p - from - 1], p - from>>] /\ f[p - from - 1] \in Match
        BY <4>1, <1>5, Zenon DEF Iterates
      <4>3. G[<<f[p - from - 1], p - from>>] = Walk(f[p - from - 1], ClassOf(buf, p - 1), p - 1)
        BY <4>1, <4>2
      <4> QED BY <3>2, <4>1, <4>2, <4>3
    <3> QED BY <3>1, <3>2
  <2> QED BY <2>1, Zenon
<1>7. W = F(W)
  <2> HIDE DEF F, sol
  <2> QED BY <1>6
<1> HIDE DEF W
<1>8. W[from] = base /\ \A p \in (from + 1)..to : W[p] = Walk(W[p - 1], ClassOf(buf, p - 1), p - 1)
  BY <1>7
<1> QED
  BY <1>1, <1>8 DEF base

\* The result of yy_get_previous_state is good, and has seen no end-of-buffer
\* character.
LEMMA PreviousGood ==
  ASSUME match \in Match, NEW from \in Nat, NEW to \in Nat, from <= to,
         NEW buf, \A p \in from..(to - 1) : buf[p] \in Char
  PROVE  /\ yy_get_previous_state(buf, from, to) \in Match
         /\ Good(yy_get_previous_state(buf, from, to), from, to)
         /\ yy_get_previous_state(buf, from, to).state # NulSeen
<1> DEFINE n    == to - from
           base == [match EXCEPT !.state = yy_start]
<1>1. PICK W : /\ yy_get_previous_state(buf, from, to) = W[to]
               /\ W[from] = base
               /\ \A p \in (from + 1)..to : W[p] = Walk(W[p - 1], ClassOf(buf, p - 1), p - 1)
  BY PreviousWalk
<1>2. base \in Match /\ base.state = yy_start /\ yy_start # NulSeen
  BY WalkStarts DEF yy_start, NulSeen
<1> HIDE DEF base
<1>3. ASSUME NEW p \in from..(to - 1) PROVE ClassOf(buf, p) \in Class \ {0} /\ p \in Nat
  BY ClassOfFacts
<1> DEFINE S == {k \in Nat : from + k <= to => /\ W[from + k] \in Match
                                               /\ Good(W[from + k], from, from + k)
                                               /\ W[from + k].state # NulSeen}
<1>4. 0 \in S
  BY <1>1, <1>2 DEF Good
<1>5. ASSUME NEW k \in Nat, k \in S PROVE k + 1 \in S
  <2> SUFFICES ASSUME from + k + 1 <= to
               PROVE  /\ W[from + k + 1] \in Match
                      /\ Good(W[from + k + 1], from, from + k + 1)
                      /\ W[from + k + 1].state # NulSeen
    OBVIOUS
  <2> DEFINE p == from + k
             m == W[p]
             c == ClassOf(buf, p)
  <2>1. p \in from..(to - 1) /\ p + 1 \in (from + 1)..to
    OBVIOUS
  <2>2. m \in Match /\ Good(m, from, p)
    BY <1>5
  <2>3. W[p + 1] = Walk(m, c, p)
    BY <1>1, <2>1
  <2>4. c \in Class \ {0} /\ c \in Class /\ p \in Nat
    BY <1>3, <2>1
  <2>5. p + 1 = from + k + 1
    OBVIOUS
  <2> HIDE DEF p, m, c
  <2>6. Walk(m, c, p) \in Match /\ Walk(m, c, p).state = yy_trans[<<m.state, c>>]
    BY <2>2, <2>4, WalkTyped, Zenon
  <2>7. Good(Walk(m, c, p), from, p + 1)
    BY <2>2, <2>4, WalkGood
  <2>8. m.state \in DState
    BY <2>2 DEF Match
  <2>9. Walk(m, c, p).state # NulSeen
    BY <2>4, <2>6, <2>8, WalkFacts
  <2> QED BY <2>3, <2>5, <2>6, <2>7, <2>9
<1>6. \A k \in Nat : k \in S
  <2> HIDE DEF S
  <2> QED BY <1>4, <1>5, SetInduction
<1>7. n \in S /\ from + n = to
  BY <1>6
<1> QED
  BY <1>1, <1>7

-----------------------------------------------------------------------------
\* What every step of the scanner keeps.
ScanKept == ScanIInv' /\ (feof => feof') /\ pc' \in {"start", "match", "find", "eob", "refill", "return", "fatal"}

\* The buffer with the held character in its place.
LEMMA HeldTyped ==
  ASSUME ScanTypes, yy_c_buf_p <= yy_n_chars + 1
  PROVE  Held \in [0..(yy_buf_size + 1) -> Char]
BY DEF ScanTypes, Held

\* yylex puts the held character back, and the walk starts.
LEMMA StartTokenKeeps == ScanIInv /\ StartToken => ScanKept
<1> SUFFICES ASSUME ScanIInv, StartToken PROVE ScanKept
  OBVIOUS
<1>1. ScanTypes /\ AtRest /\ FileInv
  BY DEF ScanIInv, ScanInv, StartToken
<1>2. /\ pc' = "match" /\ yy_ch_buf' = Held /\ yytext_ptr' = yy_c_buf_p /\ yy_cp' = yy_c_buf_p
      /\ match' = [match EXCEPT !.state = yy_start]
      /\ UNCHANGED <<text, fpos, feof, yy_buf_size, yy_n_chars, yy_buffer_status, yy_c_buf_p,
                     yy_hold_char, tok>>
  BY DEF StartToken, Held, file_vars
<1>3. match' \in Match /\ match'.state = yy_start
  BY <1>1, <1>2, WalkStarts DEF ScanTypes
<1>4. yy_c_buf_p \in Nat /\ yy_n_chars \in Nat /\ yy_c_buf_p <= yy_n_chars /\ Ended(Held)
  BY <1>1 DEF AtRest, ScanTypes
<1>5. yy_ch_buf' \in [0..(yy_buf_size + 1) -> Char]
  BY <1>1, <1>2, <1>4, HeldTyped
<1>6. ScanTypes'
  BY <1>1, <1>2, <1>3, <1>5 DEF ScanTypes
<1>7. Matching'
  BY <1>2, <1>3, <1>4 DEF Ended, Matching, Good
<1>8. FileInv' /\ (feof => feof')
  BY <1>1, <1>2 DEF FileInv
<1> QED
  BY <1>2, <1>6, <1>7, <1>8 DEF ScanKept, ScanIInv, ScanInv

\* One character: the walk ends at the second end-of-buffer character.
LEMMA MatchCharKeeps == ScanIInv /\ MatchChar => ScanKept
<1> SUFFICES ASSUME ScanIInv, MatchChar PROVE ScanKept
  OBVIOUS
<1>1. ScanTypes /\ Matching /\ FileInv
  BY DEF ScanIInv, ScanInv, MatchChar
<1> DEFINE c == yy_ec[yy_ch_buf[yy_cp]]
<1>2. /\ match' = Walk(match, c, yy_cp) /\ yy_cp' = yy_cp + 1
      /\ pc' = IF Stops(match'.state) THEN "find" ELSE "match"
      /\ UNCHANGED <<file_vars, buf_vars, yy_c_buf_p, yytext_ptr, yy_hold_char, tok>>
  BY DEF MatchChar, Stops
<1>3. c \in Class /\ (yy_cp = yy_n_chars => c = 0)
  <2>1. yy_ch_buf[yy_cp] \in Char
    BY <1>1 DEF ScanTypes, Matching
  <2>2. 0 \in Class
    BY DEF Class
  <2>3. yy_cp = yy_n_chars => yy_ch_buf[yy_cp] = NUL
    BY <1>1 DEF Matching, Ended
  <2> QED BY <2>1, <2>2, <2>3, ClassFacts
<1> HIDE DEF c
<1>4. match \in Match /\ yy_cp \in Nat /\ yytext_ptr \in Nat /\ yy_n_chars \in Nat /\ match.state \in DState
  BY <1>1 DEF ScanTypes, Match
<1>5. /\ match' \in Match /\ match'.state = yy_trans[<<match.state, c>>]
      /\ match'.last = IF Accepts(match.state) THEN [state |-> match.state, cpos |-> yy_cp] ELSE match.last
  BY <1>2, <1>3, <1>4, WalkTyped
<1>6. Good(match', yytext_ptr, yy_cp + 1)
  BY <1>1, <1>2, <1>3, <1>4, WalkGood DEF Matching
<1>7. yy_cp = yy_n_chars => match'.state \in {NulSeen, JAM}
  BY <1>3, <1>4, <1>5, WalkFacts
<1>8. yy_cp = yy_n_chars + 1 => match'.state = JAM /\ match'.last.state = NulSeen
  <2> SUFFICES ASSUME yy_cp = yy_n_chars + 1 PROVE match'.state = JAM /\ match'.last.state = NulSeen
    OBVIOUS
  <2>1. match.state = NulSeen
    BY <1>1 DEF Matching
  <2>2. Accepts(NulSeen)
    BY AcceptFacts DEF Accepts, YY_END_OF_BUFFER
  <2> QED BY <1>3, <1>5, <2>1, <2>2, WalkFacts
<1>9. ScanTypes'
  BY <1>1, <1>2, <1>4, <1>5 DEF ScanTypes, file_vars, buf_vars
<1>10. FileInv' /\ (feof => feof') /\ pc' \in {"match", "find"}
  BY <1>1, <1>2 DEF FileInv, file_vars, buf_vars
<1>11. CASE Stops(match'.state)
  <2>1. match'.state # NulSeen
    BY <1>11, AcceptFacts
  <2>2. Finding'
    BY <1>1, <1>2, <1>4, <1>6, <1>7, <1>8, <2>1 DEF Matching, Finding, Ended, buf_vars
  <2> QED BY <1>2, <1>9, <1>10, <1>11, <2>2 DEF ScanKept, ScanIInv, ScanInv
<1>12. CASE ~Stops(match'.state)
  <2>1. match'.state # JAM
    BY <1>12, AcceptFacts
  <2>2. Matching'
    BY <1>1, <1>2, <1>4, <1>6, <1>7, <1>8, <2>1 DEF Matching, Ended, buf_vars
  <2> QED BY <1>2, <1>9, <1>10, <1>12, <2>2 DEF ScanKept, ScanIInv, ScanInv
<1> QED
  BY <1>11, <1>12

\* The end-of-buffer character is one of the characters.
LEMMA NulIsChar == NUL \in Char
BY DEF Char, Mark

\* The text matched ends within the buffer, or after the first end-of-buffer
\* character if that is all that was matched.
LEMMA FoundFacts ==
  ASSUME ScanTypes, Finding
  PROVE  /\ Found.state \in 0..JAM /\ Accepts(Found.state)
         /\ Found.cpos \in Nat /\ yytext_ptr < Found.cpos
         /\ Found.cpos <= yy_n_chars + 1 /\ (Found.cpos > yy_n_chars => Found.state = NulSeen)
<1>1. /\ match.state \in DState /\ match.state \in 0..JAM /\ match.last.state \in 0..JAM /\ match.last.cpos \in Nat
      /\ yy_cp \in Nat /\ yytext_ptr \in Nat /\ yy_n_chars \in Nat
  BY DEF ScanTypes, Match, DState, JAM
<1>2. CASE Accepts(match.state)
  <2>1. Found.state = match.state /\ Found.cpos = yy_cp
    BY <1>2 DEF Found, Accepts
  <2>2. yy_cp <= yy_n_chars
    BY <1>1, <1>2, AcceptFacts DEF Finding
  <2> QED BY <1>1, <1>2, <2>1, <2>2 DEF Finding
<1>3. CASE ~Accepts(match.state)
  <2>1. Found = match.last
    BY <1>3 DEF Found, Accepts
  <2>2. Accepts(match.last.state) /\ yytext_ptr < match.last.cpos /\ match.last.cpos < yy_cp
    BY <1>1, <1>3 DEF Finding, Good
  <2> QED BY <1>1, <2>1, <2>2 DEF Finding
<1> QED
  BY <1>2, <1>3

\* The token of a rule is not the end of the file.
LEMMA TokenTyped ==
  ASSUME ScanIInv, FindAction
  PROVE  tok'.type \in TokenType /\ (pc' = "return" => tok'.type # EOF.type)
<1> DEFINE act == yy_accept[Found.state + 1]
<1>1. ScanTypes /\ Finding
  BY Zenon DEF ScanIInv, ScanInv, FindAction
<1>2. \/ act = YY_END_OF_BUFFER /\ pc' = "eob" /\ tok' = tok
      \/ act # YY_END_OF_BUFFER /\ pc' = "start" /\ tok' = tok
      \/ act # YY_END_OF_BUFFER /\ pc' = "return" /\ RuleToken[act] # Silent /\ tok'.type = RuleToken[act]
  <2>1. \/ act = YY_END_OF_BUFFER /\ pc' = "eob" /\ tok' = tok
        \/ act # YY_END_OF_BUFFER /\ pc' = "start" /\ tok' = tok
        \/ /\ act # YY_END_OF_BUFFER /\ pc' = "return" /\ RuleToken[act] # Silent
           /\ \E v : tok' = [type |-> RuleToken[act], val |-> v]
    BY Zenon DEF FindAction, Silent
  <2> HIDE DEF act
  <2>2. ASSUME NEW v, tok' = [type |-> RuleToken[act], val |-> v] PROVE tok'.type = RuleToken[act]
    BY <2>2
  <2> QED BY <2>1, <2>2, Zenon
<1>3. act # YY_END_OF_BUFFER => act \in DOMAIN RuleToken
  BY <1>1, FoundFacts, AcceptFacts
<1> HIDE DEF act
<1>4. tok'.type \in TokenType /\ (pc' = "return" => tok'.type # EOF.type)
  <2>1. CASE pc' = "return"
    <3>1. act \in DOMAIN RuleToken /\ RuleToken[act] # Silent /\ tok'.type = RuleToken[act]
      BY <1>2, <1>3, <2>1, Zenon
    <3>2. RuleToken[act] \in Range(RuleToken)
      BY <3>1, Zenon DEF Range
    <3> QED BY <3>1, <3>2, EndToken, Zenon DEF TokenType
  <2>2. CASE pc' # "return"
    BY <1>1, <1>2, <2>2, Zenon DEF ScanTypes
  <2> QED BY <2>1, <2>2
<1> QED
  BY <1>4

\* The action of a rule: the text matched is closed by a NUL, and what was
\* there is held.
LEMMA FindActionKeeps == ScanIInv /\ FindAction => ScanKept
<1> SUFFICES ASSUME ScanIInv, FindAction PROVE ScanKept
  OBVIOUS
<1> DEFINE q   == Found.cpos
           act == yy_accept[Found.state + 1]
<1>1. ScanTypes /\ Finding /\ FileInv
  BY Zenon DEF ScanIInv, ScanInv, FindAction
<1>2. /\ yy_hold_char' = yy_ch_buf[q] /\ yy_ch_buf' = [yy_ch_buf EXCEPT ![q] = NUL]
      /\ yy_c_buf_p' = q /\ yy_cp' = q
      /\ UNCHANGED <<text, fpos, feof, yy_buf_size, yy_n_chars, yy_buffer_status, yytext_ptr, match>>
  BY Zenon DEF FindAction, file_vars
<1>0. \/ act = YY_END_OF_BUFFER /\ pc' = "eob"
      \/ act # YY_END_OF_BUFFER /\ pc' \in {"start", "return"}
  BY Zenon DEF FindAction
<1>3. /\ Found.state \in 0..JAM /\ Accepts(Found.state) /\ q \in Nat /\ yytext_ptr < q
      /\ q <= yy_n_chars + 1 /\ (q > yy_n_chars => Found.state = NulSeen)
  BY <1>1, FoundFacts
<1>4. act # YY_END_OF_BUFFER => q <= yy_n_chars
  <2>1. yy_n_chars \in Nat
    BY <1>1 DEF ScanTypes
  <2> QED BY <1>3, <2>1, AcceptFacts
<1> HIDE DEF q, act
<1>5. tok'.type \in TokenType /\ (pc' = "return" => tok'.type # EOF.type)
  BY TokenTyped
<1>6. yy_ch_buf \in [0..(yy_buf_size + 1) -> Char] /\ q \in 0..(yy_buf_size + 1) /\ NUL \in Char
  BY <1>1, <1>3, NulIsChar DEF ScanTypes
<1>7. yy_ch_buf' \in [0..(yy_buf_size + 1) -> Char] /\ yy_hold_char' \in Char
  BY <1>2, <1>6
<1>8. Held' = yy_ch_buf
  BY <1>2, <1>6, Zenon DEF Held
<1>b. yytext_ptr \in 0..q
  BY <1>1, <1>3 DEF ScanTypes
<1>9. ScanTypes'
  BY <1>1, <1>2, <1>3, <1>5, <1>7, <1>b DEF ScanTypes
<1>10. Ended(Held)'
  BY <1>1, <1>2, <1>8 DEF Finding, Ended
<1>11. FileInv' /\ (feof => feof')
  BY <1>1, <1>2, <1>5 DEF FileInv
<1>12. CASE act = YY_END_OF_BUFFER
  <2>1. pc' = "eob" /\ AtEnd'
    BY <1>2, <1>0, <1>3, <1>10, <1>12 DEF AtEnd
  <2> QED BY <1>9, <1>11, <2>1 DEF ScanKept, ScanIInv, ScanInv
<1>13. CASE act # YY_END_OF_BUFFER
  <2>1. pc' \in {"start", "return"} /\ AtRest'
    BY <1>2, <1>0, <1>4, <1>10, <1>13, Zenon DEF AtRest
  <2> QED BY <1>9, <1>11, <2>1 DEF ScanKept, ScanIInv, ScanInv
<1> QED
  BY <1>12, <1>13

\* A NUL of the text: the walk is repeated up to it and goes on after it.
LEMMA RealNulKeeps == ScanIInv /\ RealNul => ScanKept
<1> SUFFICES ASSUME ScanIInv, RealNul PROVE ScanKept
  OBVIOUS
<1> DEFINE p    == yytext_ptr + NumberToMove
           prev == yy_get_previous_state(Restored, yytext_ptr, p)
           nul  == Walk(prev, 1, p)
           jam  == nul.state = JAM
<1>1. ScanTypes /\ AtEnd /\ FileInv /\ yy_c_buf_p <= yy_n_chars
  BY DEF ScanIInv, ScanInv, RealNul
<1>2. /\ match' = IF jam THEN [nul EXCEPT !.state = prev.state] ELSE nul
      /\ yy_c_buf_p' = IF jam THEN p ELSE p + 1
      /\ yy_cp' = yy_c_buf_p' /\ yy_ch_buf' = Restored
      /\ pc' = IF jam THEN "find" ELSE "match"
  BY DEF RealNul
<1>3. /\ UNCHANGED <<text, fpos, feof, yy_buf_size, yy_n_chars, yytext_ptr, yy_hold_char, tok>>
      /\ yy_buffer_status' = "EOF_PENDING" => yy_buffer_status = "EOF_PENDING"
  BY DEF RealNul, file_vars
<1>4. /\ yytext_ptr \in Nat /\ yy_c_buf_p \in Nat /\ yy_n_chars \in Nat /\ yy_buf_size \in Nat
      /\ yytext_ptr < yy_c_buf_p /\ yy_c_buf_p <= yy_n_chars /\ yy_n_chars <= yy_buf_size
      /\ yy_cp = yy_c_buf_p /\ match \in Match
  BY <1>1 DEF ScanTypes, AtEnd
<1>5. p \in Nat /\ p + 1 = yy_c_buf_p /\ yytext_ptr <= p
  BY <1>4 DEF NumberToMove
<1>6. Restored = Held
  BY <1>4 DEF Restored, Held
<1>7. Restored \in [0..(yy_buf_size + 1) -> Char] /\ Ended(Restored)
  BY <1>1, <1>4, <1>6, HeldTyped DEF AtEnd
<1> HIDE DEF p
<1>8. prev \in Match /\ Good(prev, yytext_ptr, p) /\ prev.state # NulSeen
  <2>1. \A q \in yytext_ptr..(p - 1) : Restored[q] \in Char
    BY <1>4, <1>5, <1>7
  <2> QED BY <1>4, <1>5, <2>1, PreviousGood
<1> HIDE DEF prev
<1>9. 1 \in Class /\ 1 \in Class \ {0}
  BY DEF Class
<1>10. /\ nul \in Match /\ nul.state = yy_trans[<<prev.state, 1>>]
       /\ nul.last = IF Accepts(prev.state) THEN [state |-> prev.state, cpos |-> p] ELSE prev.last
  BY <1>5, <1>8, <1>9, WalkTyped
<1>11. Good(nul, yytext_ptr, p + 1)
  BY <1>4, <1>5, <1>8, <1>9, WalkGood
<1> HIDE DEF nul
<1>12. prev.state \in DState
  BY <1>8 DEF Match
<1>13. FileInv' /\ (feof => feof')
  BY <1>1, <1>2, <1>3 DEF FileInv
<1>14. match' \in Match
  BY <1>2, <1>8, <1>10 DEF Match
<1>15. yy_c_buf_p' \in Nat /\ yytext_ptr <= yy_c_buf_p' /\ yy_c_buf_p' <= yy_n_chars
  BY <1>2, <1>4, <1>5
<1>16. ScanTypes'
  BY <1>1, <1>2, <1>3, <1>7, <1>14, <1>15 DEF ScanTypes
<1>17. Ended(yy_ch_buf)'
  BY <1>2, <1>3, <1>7 DEF Ended
<1>18. CASE jam
  <2>1. p # yytext_ptr
    <3>1. p = yytext_ptr => prev.state = yy_start
      BY <1>5, <1>8 DEF Good
    <3> QED BY <1>10, <1>18, <3>1, WalkFacts, Zenon
  <2>2. match'.state = prev.state /\ match'.last = nul.last
    BY <1>2, <1>8, <1>10, <1>18 DEF Match
  <2>3. Good(match, yytext_ptr, yy_cp)'
    BY <1>2, <1>3, <1>8, <1>10, <1>18, <2>1, <2>2 DEF Good
  <2>4. Finding'
    BY <1>2, <1>3, <1>4, <1>5, <1>15, <1>17, <1>18, <2>1, <2>3 DEF Finding
  <2> QED BY <1>2, <1>13, <1>16, <1>18, <2>4 DEF ScanKept, ScanIInv, ScanInv
<1>19. CASE ~jam
  <2>1. Good(match, yytext_ptr, yy_cp)'
    BY <1>2, <1>3, <1>11, <1>19 DEF Good
  <2>2. Matching'
    BY <1>2, <1>3, <1>4, <1>5, <1>15, <1>17, <1>19, <2>1 DEF Matching
  <2> QED BY <1>2, <1>13, <1>16, <1>19, <2>2 DEF ScanKept, ScanIInv, ScanInv
<1> QED
  BY <1>18, <1>19

\* yy_get_next_buffer moves what was matched to the front.
LEMMA MoveToFrontKeeps == ScanIInv /\ MoveToFront => ScanKept
<1> SUFFICES ASSUME ScanIInv, MoveToFront PROVE ScanKept
  OBVIOUS
<1>1. ScanTypes /\ AtEnd /\ FileInv
  BY DEF ScanIInv, ScanInv, MoveToFront
<1>2. /\ yy_ch_buf' = [i \in DOMAIN yy_ch_buf |->
                          IF i < NumberToMove THEN Restored[yytext_ptr + i] ELSE Restored[i]]
      /\ yytext_ptr' = 0 /\ yy_c_buf_p' = NumberToMove + 1 /\ pc' = "refill"
  BY DEF MoveToFront
<1>3. /\ UNCHANGED <<text, fpos, feof, yy_buf_size, yy_n_chars, yy_hold_char, yy_cp, match, tok>>
      /\ yy_buffer_status' = "EOF_PENDING" => yy_buffer_status = "EOF_PENDING"
  BY DEF MoveToFront, file_vars
<1>4. /\ yytext_ptr \in Nat /\ yy_c_buf_p \in Nat /\ yy_n_chars \in Nat /\ yy_buf_size \in Nat
      /\ yytext_ptr < yy_c_buf_p /\ yy_c_buf_p <= yy_n_chars + 1 /\ yy_n_chars <= yy_buf_size
      /\ yy_cp = yy_c_buf_p
  BY <1>1 DEF ScanTypes, AtEnd
<1>5. NumberToMove \in 0..yy_n_chars /\ NumberToMove = yy_c_buf_p - yytext_ptr - 1
  BY <1>4 DEF NumberToMove
<1>6. Restored = Held
  BY <1>4 DEF Restored, Held
<1>7. Restored \in [0..(yy_buf_size + 1) -> Char] /\ DOMAIN yy_ch_buf = 0..(yy_buf_size + 1)
  BY <1>1, <1>4, <1>6, HeldTyped DEF ScanTypes
<1> HIDE DEF Restored, NumberToMove
<1>8. ASSUME NEW i \in 0..(yy_buf_size + 1)
      PROVE  (IF i < NumberToMove THEN Restored[yytext_ptr + i] ELSE Restored[i]) \in Char
  <2>1. i < NumberToMove => yytext_ptr + i \in 0..(yy_buf_size + 1)
    BY <1>4, <1>5
  <2> QED BY <1>7, <2>1
<1>9. yy_ch_buf' \in [0..(yy_buf_size + 1) -> Char]
  BY <1>2, <1>7, <1>8
<1>10. yy_c_buf_p' \in 1..(yy_n_chars + 1) /\ yy_c_buf_p' \in Nat
  BY <1>2, <1>4, <1>5
<1>11. ScanTypes'
  BY <1>1, <1>2, <1>3, <1>9, <1>10 DEF ScanTypes
<1>12. Refilling' /\ FileInv' /\ (feof => feof')
  BY <1>1, <1>2, <1>3, <1>10 DEF Refilling, FileInv
<1> QED
  BY <1>2, <1>11, <1>12 DEF ScanKept, ScanIInv, ScanInv

\* A token that fills the buffer doubles it.
LEMMA GrowKeeps == ScanIInv /\ Grow => ScanKept
<1> SUFFICES ASSUME ScanIInv, Grow PROVE ScanKept
  OBVIOUS
<1>1. ScanTypes /\ Refilling /\ FileInv /\ pc = "refill"
  BY DEF ScanIInv, ScanInv, Grow
<1>2. /\ yy_buf_size' = 2 * yy_buf_size
      /\ yy_ch_buf' = [i \in 0..(yy_buf_size' + 1) |-> IF i \in DOMAIN yy_ch_buf THEN yy_ch_buf[i] ELSE NUL]
      /\ UNCHANGED <<text, fpos, feof, yy_n_chars, yy_buffer_status, yy_c_buf_p, yytext_ptr,
                     yy_hold_char, yy_cp, match, tok, pc>>
  BY DEF Grow, Grown, file_vars
<1>3. yy_buf_size \in Nat \ {0} /\ yy_buf_size' \in Nat \ {0} /\ yy_n_chars \in 0..yy_buf_size'
  BY <1>1, <1>2 DEF ScanTypes
<1>4. yy_ch_buf' \in [0..(yy_buf_size' + 1) -> Char]
  BY <1>1, <1>2, NulIsChar DEF ScanTypes
<1>5. ScanTypes'
  BY <1>1, <1>2, <1>3, <1>4 DEF ScanTypes
<1>6. Refilling' /\ FileInv' /\ (feof => feof')
  BY <1>1, <1>2 DEF Refilling, FileInv
<1> QED
  BY <1>1, <1>2, <1>5, <1>6 DEF ScanKept, ScanIInv, ScanInv

\* What a read leaves in the buffer: the characters read after the moved ones,
\* and the end-of-buffer characters after them.
LEMMA FilledFacts ==
  ASSUME ScanTypes, Refilling, NEW k \in Nat, NumberToMove + k <= yy_buf_size, fpos + k <= Len(text)
  PROVE  /\ Filled(k) \in [0..(yy_buf_size + 1) -> Char]
         /\ Filled(k)[NumberToMove + k] = NUL /\ Filled(k)[NumberToMove + k + 1] = NUL
<1> DEFINE m == NumberToMove
<1>1. m \in Nat /\ yy_buf_size \in Nat /\ fpos \in Nat
  BY DEF ScanTypes, Refilling, NumberToMove
<1>2. /\ Filled(k) = [i \in 0..(yy_buf_size + 1) |->
                         IF i >= m /\ i < m + k THEN text[fpos + (i - m) + 1]
                         ELSE IF i \in {m + k, m + k + 1} THEN NUL ELSE yy_ch_buf[i]]
      /\ m + k <= yy_buf_size
  BY DEF Filled, ScanTypes
<1> HIDE DEF m
<1>3. ASSUME NEW i \in 0..(yy_buf_size + 1), i >= m, i < m + k PROVE text[fpos + (i - m) + 1] \in Char
  <2>1. fpos + (i - m) + 1 \in 1..Len(text)
    BY <1>1, <1>3 DEF ScanTypes
  <2>2. text \in Seq(Char)
    BY DEF ScanTypes
  <2> QED BY <2>1, <2>2
<1>4. ASSUME NEW i \in 0..(yy_buf_size + 1) PROVE yy_ch_buf[i] \in Char
  BY <1>4 DEF ScanTypes
<1>5. Filled(k) \in [0..(yy_buf_size + 1) -> Char]
  BY <1>2, <1>3, <1>4, NulIsChar
<1>6. m + k \in 0..(yy_buf_size + 1) /\ m + k + 1 \in 0..(yy_buf_size + 1)
  BY <1>1, <1>2
<1>7. Filled(k)[m + k] = NUL /\ Filled(k)[m + k + 1] = NUL
  BY <1>1, <1>2, <1>6
<1> QED
  BY <1>5, <1>7 DEF m

\* After a read: the buffer holds n characters, the first NumberToMove of them
\* moved, and the walk has been repeated over those.
LEMMA RefillFacts ==
  ASSUME ScanTypes, Refilling, NEW k \in Nat, NumberToMove + k <= yy_buf_size, fpos + k <= Len(text),
         yy_ch_buf' = Filled(k), yy_n_chars' = NumberToMove + k, yy_buf_size' = yy_buf_size,
         yy_c_buf_p' = NumberToMove, yy_cp' = NumberToMove, yytext_ptr' = yytext_ptr,
         match' = yy_get_previous_state(yy_ch_buf', 0, NumberToMove)
  PROVE  /\ yy_ch_buf' \in [0..(yy_buf_size' + 1) -> Char] /\ match' \in Match
         /\ yy_n_chars' \in 0..yy_buf_size' /\ yy_c_buf_p' \in Nat /\ yy_cp' \in Nat
         /\ yytext_ptr' = 0 /\ yytext_ptr' \in 0..yy_c_buf_p' /\ yy_c_buf_p' <= yy_n_chars'
         /\ Ended(yy_ch_buf)' /\ Good(match, yytext_ptr, yy_cp)'
<1>1. NumberToMove \in Nat /\ yy_buf_size \in Nat /\ yytext_ptr = 0 /\ match \in Match
  BY DEF ScanTypes, Refilling, NumberToMove
<1>2. /\ Filled(k) \in [0..(yy_buf_size + 1) -> Char]
      /\ Filled(k)[NumberToMove + k] = NUL /\ Filled(k)[NumberToMove + k + 1] = NUL
  BY FilledFacts
<1>3. yy_ch_buf' \in [0..(yy_buf_size' + 1) -> Char] /\ Ended(yy_ch_buf)'
  BY <1>2 DEF Ended
<1>4. \A q \in 0..(NumberToMove - 1) : yy_ch_buf'[q] \in Char
  BY <1>1, <1>3
<1>5. 0 \in Nat /\ 0 <= NumberToMove
  BY <1>1
<1>6. match' \in Match /\ Good(match', 0, NumberToMove)
  BY <1>1, <1>4, <1>5, PreviousGood
<1>7. Good(match, yytext_ptr, yy_cp)'
  BY <1>1, <1>6
<1> QED
  BY <1>1, <1>3, <1>6, <1>7

\* A read leaves room for the two end-of-buffer characters.
LEMMA ReadMoreKeeps == ScanIInv /\ ReadMore => ScanKept
<1> SUFFICES ASSUME ScanIInv, ReadMore PROVE ScanKept
  OBVIOUS
<1> DEFINE asked == Least(NumToRead, YY_READ_BUF_SIZE)
           left  == Len(text) - fpos
<1>1. ScanTypes /\ Refilling /\ FileInv /\ NumToRead > 0 /\ fpos < Len(text)
  BY DEF ScanIInv, ScanInv, ReadMore
<1>2. PICK k \in 1..Least(asked, left) :
           /\ yy_ch_buf' = Filled(k) /\ yy_n_chars' = NumberToMove + k /\ fpos' = fpos + k
           /\ feof' \in {FALSE, k = left /\ k < asked}
  BY Zenon DEF ReadMore
<1>3. /\ yy_c_buf_p' = NumberToMove /\ yy_cp' = NumberToMove /\ pc' = "match"
      /\ match' = yy_get_previous_state(yy_ch_buf', 0, NumberToMove)
      /\ yy_buffer_status # "EOF_PENDING"
      /\ UNCHANGED <<text, yy_buf_size, yy_buffer_status, yytext_ptr, yy_hold_char, tok>>
  BY DEF ReadMore
<1>4. NumberToMove \in Nat /\ yy_buf_size \in Nat /\ fpos \in Nat /\ Len(text) \in Nat /\ ~feof
  BY <1>1 DEF ScanTypes, Refilling, NumberToMove, FileInv
<1>5. k \in Nat /\ k >= 1 /\ k <= NumToRead /\ k <= left
  BY <1>1, <1>4, ScannerSizes DEF Least, NumToRead
<1>6. NumberToMove + k <= yy_buf_size /\ fpos + k <= Len(text)
  BY <1>4, <1>5 DEF NumToRead
<1>7. /\ yy_ch_buf' \in [0..(yy_buf_size' + 1) -> Char] /\ match' \in Match
      /\ yy_n_chars' \in 0..yy_buf_size' /\ yy_c_buf_p' \in Nat /\ yy_cp' \in Nat
      /\ yytext_ptr' = 0 /\ yytext_ptr' \in 0..yy_c_buf_p' /\ yy_c_buf_p' <= yy_n_chars'
      /\ Ended(yy_ch_buf)' /\ Good(match, yytext_ptr, yy_cp)'
  BY <1>1, <1>2, <1>3, <1>5, <1>6, RefillFacts
<1>8. feof' \in BOOLEAN /\ (feof' => fpos' = Len(text))
  <2>1. feof' \in BOOLEAN /\ (feof' => k = left)
    <3> HIDE DEF left, asked
    <3> QED BY <1>2, Zenon
  <2>2. k = left => fpos' = Len(text)
    BY <1>2, <1>4
  <2> QED BY <2>1, <2>2, Zenon
<1>9. ScanTypes'
  BY <1>1, <1>2, <1>3, <1>4, <1>5, <1>6, <1>7, <1>8 DEF ScanTypes
<1>10. FileInv' /\ (feof => feof')
  BY <1>3, <1>4, <1>8 DEF FileInv
<1>11. Matching'
  BY <1>2, <1>3, <1>4, <1>5, <1>7 DEF Matching
<1> QED
  BY <1>3, <1>9, <1>10, <1>11 DEF ScanKept, ScanIInv, ScanInv

\* Nothing more is read only at the end of the file.
LEMMA NothingMoreFacts ==
  ASSUME ScanTypes, FileInv, NothingMore
  PROVE  feof' = TRUE /\ fpos = Len(text)
BY DEF ScanTypes, FileInv, NothingMore

\* The unfinished token is matched by what was read of it.
LEMMA LastMatchKeeps == ScanIInv /\ LastMatch => ScanKept
<1> SUFFICES ASSUME ScanIInv, LastMatch PROVE ScanKept
  OBVIOUS
<1>1. ScanTypes /\ Refilling /\ FileInv /\ NothingMore /\ NumberToMove > 0
  BY DEF ScanIInv, ScanInv, LastMatch
<1>2. /\ yy_ch_buf' = Filled(0) /\ yy_n_chars' = NumberToMove
      /\ yy_c_buf_p' = NumberToMove /\ yy_cp' = NumberToMove /\ pc' = "find"
      /\ match' = yy_get_previous_state(yy_ch_buf', 0, NumberToMove)
      /\ UNCHANGED <<text, fpos, yy_buf_size, yytext_ptr, yy_hold_char, tok>>
  BY DEF LastMatch
<1>3. NumberToMove \in Nat /\ yy_buf_size \in Nat /\ fpos \in Nat /\ Len(text) \in Nat
      /\ NumberToMove <= yy_buf_size /\ fpos <= Len(text)
  BY <1>1 DEF ScanTypes, Refilling, NumberToMove
<1>4. 0 \in Nat /\ NumberToMove + 0 = NumberToMove /\ fpos + 0 = fpos
  BY <1>3
<1>5. /\ yy_ch_buf' \in [0..(yy_buf_size' + 1) -> Char] /\ match' \in Match
      /\ yy_n_chars' \in 0..yy_buf_size' /\ yy_c_buf_p' \in Nat /\ yy_cp' \in Nat
      /\ yytext_ptr' = 0 /\ yytext_ptr' \in 0..yy_c_buf_p' /\ yy_c_buf_p' <= yy_n_chars'
      /\ Ended(yy_ch_buf)' /\ Good(match, yytext_ptr, yy_cp)'
  BY <1>1, <1>2, <1>3, <1>4, RefillFacts
<1>6. feof' = TRUE /\ fpos = Len(text)
  BY <1>1, NothingMoreFacts
<1>7. ScanTypes'
  BY <1>1, <1>2, <1>5, <1>6 DEF ScanTypes
<1>8. FileInv' /\ (feof => feof')
  BY <1>2, <1>6 DEF FileInv
<1>9. Finding'
  BY <1>1, <1>2, <1>3, <1>5 DEF Finding
<1> QED
  BY <1>2, <1>7, <1>8, <1>9 DEF ScanKept, ScanIInv, ScanInv

\* yyrestart empties the buffer.
LEMMA EndOfFileKeeps == ScanIInv /\ EndOfFile => ScanKept
<1> SUFFICES ASSUME ScanIInv, EndOfFile PROVE ScanKept
  OBVIOUS
<1>1. ScanTypes /\ Refilling /\ FileInv /\ NothingMore /\ NumberToMove = 0
  BY DEF ScanIInv, ScanInv, EndOfFile
<1>2. /\ yy_ch_buf' = Filled(0) /\ yy_n_chars' = 0 /\ yy_buffer_status' = "NEW"
      /\ yy_c_buf_p' = 0 /\ yy_hold_char' = NUL /\ tok' = EOF /\ pc' = "return"
      /\ UNCHANGED <<text, fpos, yy_buf_size, yytext_ptr, yy_cp, match>>
  BY DEF EndOfFile
<1>3. yy_buf_size \in Nat /\ fpos \in Nat /\ Len(text) \in Nat /\ fpos <= Len(text) /\ yytext_ptr = 0
  BY <1>1 DEF ScanTypes, Refilling
<1>4. /\ Filled(0) \in [0..(yy_buf_size + 1) -> Char] /\ Filled(0)[0] = NUL /\ Filled(0)[1] = NUL
  <2>1. 0 \in Nat /\ NumberToMove + 0 = 0 /\ fpos + 0 = fpos /\ NumberToMove + 0 + 1 = 1
    BY <1>1, <1>3
  <2> QED BY <1>1, <1>3, <2>1, FilledFacts
<1>5. feof' = TRUE /\ fpos = Len(text)
  BY <1>1, NothingMoreFacts
<1>6. tok'.type \in TokenType
  BY <1>2 DEF TokenType
<1>7. ScanTypes'
  BY <1>1, <1>2, <1>3, <1>4, <1>5, <1>6, NulIsChar DEF ScanTypes
<1>8. Held' = Filled(0)
  BY <1>2, <1>4 DEF Held
<1>9. AtRest' /\ FileInv' /\ (feof => feof')
  BY <1>2, <1>4, <1>5, <1>8 DEF AtRest, Ended, FileInv
<1> QED
  BY <1>2, <1>7, <1>9 DEF ScanKept, ScanIInv, ScanInv

\* A fatal error leaves the buffer as it is.
LEMMA FatalErrorKeeps == ScanIInv /\ FatalError => ScanKept
<1> SUFFICES ASSUME ScanIInv, FatalError PROVE ScanKept
  OBVIOUS
<1>1. ScanTypes /\ Refilling /\ FileInv
  BY DEF ScanIInv, ScanInv, FatalError
<1>2. /\ pc' = "fatal"
      /\ UNCHANGED <<text, fpos, feof, yy_ch_buf, yy_buf_size, yy_n_chars, yy_buffer_status, yy_c_buf_p,
                     yytext_ptr, yy_hold_char, yy_cp, match, tok>>
  BY DEF FatalError, file_vars, buf_vars
<1>3. ScanTypes' /\ FileInv' /\ (feof => feof')
  BY <1>1, <1>2 DEF ScanTypes, FileInv
<1>4. yy_c_buf_p' <= yy_n_chars' + 1
  BY <1>1, <1>2 DEF ScanTypes, Refilling
<1> QED
  BY <1>2, <1>3, <1>4 DEF ScanKept, ScanIInv, ScanInv

\* Every step of the scanner.
LEMMA ScannerKeeps == ScanIInv /\ ScanNext => ScanKept
BY StartTokenKeeps, MatchCharKeeps, FindActionKeeps, RealNulKeeps, MoveToFrontKeeps, GrowKeeps,
   ReadMoreKeeps, LastMatchKeeps, EndOfFileKeeps, FatalErrorKeeps DEF ScanNext

-----------------------------------------------------------------------------
\* A step of the parser leaves the scanner alone.
LEMMA ScannerRests ==
  ASSUME ScanIInv, pc \in {"return", "parse", "main"},
         UNCHANGED <<file_vars, buf_vars, yy_c_buf_p, yytext_ptr, yy_hold_char, yy_cp, match, tok>>,
         pc' \notin {"match", "find", "eob", "refill", "fatal", "return"}
  PROVE  ScanIInv' /\ feof' = feof
<1>1. ScanTypes /\ AtRest /\ FileInv
  BY DEF ScanIInv, ScanInv
<1>2. UNCHANGED <<text, fpos, feof, yy_ch_buf, yy_buf_size, yy_n_chars, yy_buffer_status, yy_c_buf_p,
                  yytext_ptr, yy_hold_char, yy_cp, match, tok>>
  BY DEF file_vars, buf_vars
<1>3. ScanTypes' /\ FileInv'
  BY <1>1, <1>2 DEF ScanTypes, FileInv
<1>4. AtRest'
  BY <1>1, <1>2 DEF AtRest, Ended, Held
<1> QED
  BY <1>2, <1>3, <1>4 DEF ScanIInv, ScanInv

-----------------------------------------------------------------------------
(***************************************************************************)
(* The buffer is a window on the file: nothing of the text is lost, read   *)
(* twice or changed on its way to the tokens.                              *)
(***************************************************************************)
\* The characters from .. to - 1 of the buffer are those of the file before fp.
Shows(buf, from, to, fp) ==
    /\ from <= to /\ to - from <= fp
    /\ \A i \in from..(to - 1) : buf[i] = text[fp - to + i + 1]

InPlace == Shows(UnreadBuf, UnreadFrom, UnreadTo, fpos)

\* How much of the file has been cut into tokens.
Scanned == fpos - (UnreadTo - UnreadFrom)

\* What the buffer shows at each label.
LEMMA UnreadAt ==
  /\ pc \in {"match", "find"} => UnreadBuf = yy_ch_buf /\ UnreadFrom = yytext_ptr /\ UnreadTo = yy_n_chars
  /\ pc \in {"refill", "fatal"} => UnreadBuf = yy_ch_buf /\ UnreadFrom = yytext_ptr /\ UnreadTo = NumberToMove
  /\ pc = "eob" => UnreadBuf = Held /\ UnreadFrom = yytext_ptr /\ UnreadTo = yy_n_chars
  /\ pc \notin {"match", "find", "eob", "refill", "fatal"} =>
        UnreadBuf = Held /\ UnreadFrom = yy_c_buf_p /\ UnreadTo = yy_n_chars
BY DEF UnreadBuf, UnreadFrom, UnreadTo, Walking, Held

\* The same after a step.
LEMMA UnreadNext ==
  /\ pc' \in {"match", "find"} => UnreadBuf' = yy_ch_buf' /\ UnreadFrom' = yytext_ptr' /\ UnreadTo' = yy_n_chars'
  /\ pc' \in {"refill", "fatal"} => UnreadBuf' = yy_ch_buf' /\ UnreadFrom' = yytext_ptr' /\ UnreadTo' = NumberToMove'
  /\ pc' = "eob" => UnreadBuf' = Held' /\ UnreadFrom' = yytext_ptr' /\ UnreadTo' = yy_n_chars'
  /\ pc' \notin {"match", "find", "eob", "refill", "fatal"} =>
        UnreadBuf' = Held' /\ UnreadFrom' = yy_c_buf_p' /\ UnreadTo' = yy_n_chars'
BY DEF UnreadBuf, UnreadFrom, UnreadTo, Walking, Held

\* A step that cuts nothing.
Kept == InPlace' /\ text' = text /\ Scanned' = Scanned

\* Nothing the buffer shows has changed.
LEMMA SameKept ==
  ASSUME InPlace, text' = text, fpos' = fpos, UnreadBuf' = UnreadBuf, UnreadFrom' = UnreadFrom, UnreadTo' = UnreadTo
  PROVE  Kept
BY DEF Kept, InPlace, Shows, Scanned

\* The buffer shows the end of what was read, from its front on.
LEMMA ShowsNext ==
  ASSUME NEW t \in Nat, NEW fp \in Nat, NEW b, t <= fp, \A i \in 0..(t - 1) : b[i] = text[fp - t + i + 1],
         UnreadBuf' = b, UnreadFrom' = 0, UnreadTo' = t, fpos' = fp, text' = text
  PROVE  InPlace'
BY DEF InPlace, Shows

\* The held character goes back to its place.
LEMMA StartTokenKept == ScanIInv /\ InPlace /\ StartToken => Kept
<1> SUFFICES ASSUME ScanIInv, InPlace, StartToken PROVE Kept
  OBVIOUS
<1>1. /\ pc = "start" /\ pc' = "match" /\ yy_ch_buf' = Held /\ yytext_ptr' = yy_c_buf_p
      /\ text' = text /\ fpos' = fpos /\ yy_n_chars' = yy_n_chars
  BY DEF StartToken, Held, file_vars
<1> QED
  BY <1>1, UnreadAt, UnreadNext, SameKept

\* The walk does not write.
LEMMA MatchCharKept == ScanIInv /\ InPlace /\ MatchChar => Kept
<1> SUFFICES ASSUME ScanIInv, InPlace, MatchChar PROVE Kept
  OBVIOUS
<1>1. /\ pc = "match" /\ pc' \in {"match", "find"} /\ yy_ch_buf' = yy_ch_buf /\ yytext_ptr' = yytext_ptr
      /\ text' = text /\ fpos' = fpos /\ yy_n_chars' = yy_n_chars
  BY DEF MatchChar, file_vars, buf_vars
<1> QED
  BY <1>1, UnreadAt, UnreadNext, SameKept, SMTT(30)

\* Nor does a NUL of the text.
LEMMA RealNulKept == ScanIInv /\ InPlace /\ RealNul => Kept
<1> SUFFICES ASSUME ScanIInv, InPlace, RealNul PROVE Kept
  OBVIOUS
<1>1. AtEnd
  BY DEF ScanIInv, ScanInv, RealNul
<1>2. /\ pc = "eob" /\ pc' \in {"match", "find"} /\ yy_ch_buf' = Restored /\ yytext_ptr' = yytext_ptr
      /\ text' = text /\ fpos' = fpos /\ yy_n_chars' = yy_n_chars
  BY DEF RealNul, file_vars
<1>3. Restored = Held
  BY <1>1 DEF Restored, Held, AtEnd
<1> QED
  BY <1>2, <1>3, UnreadAt, UnreadNext, SameKept

\* Nor does a failure.
LEMMA FatalErrorKept == ScanIInv /\ InPlace /\ FatalError => Kept
<1> SUFFICES ASSUME ScanIInv, InPlace, FatalError PROVE Kept
  OBVIOUS
<1>1. /\ pc = "refill" /\ pc' = "fatal" /\ yy_ch_buf' = yy_ch_buf /\ yytext_ptr' = yytext_ptr
      /\ text' = text /\ fpos' = fpos /\ yy_c_buf_p' = yy_c_buf_p
  BY DEF FatalError, file_vars, buf_vars
<1>2. NumberToMove' = NumberToMove
  BY <1>1 DEF NumberToMove
<1> QED
  BY <1>1, <1>2, UnreadAt, UnreadNext, SameKept

\* yy_get_next_buffer moves the unfinished token: all that is left in the buffer.
LEMMA MoveToFrontKept == ScanIInv /\ InPlace /\ MoveToFront => Kept
<1> SUFFICES ASSUME ScanIInv, InPlace, MoveToFront PROVE Kept
  OBVIOUS
<1>1. ScanTypes /\ AtEnd /\ yy_c_buf_p > yy_n_chars
  BY DEF ScanIInv, ScanInv, MoveToFront
<1>2. /\ yy_ch_buf' = [i \in DOMAIN yy_ch_buf |->
                          IF i < NumberToMove THEN Restored[yytext_ptr + i] ELSE Restored[i]]
      /\ yytext_ptr' = 0 /\ yy_c_buf_p' = NumberToMove + 1 /\ pc = "eob" /\ pc' = "refill"
      /\ text' = text /\ fpos' = fpos
  BY DEF MoveToFront, file_vars
<1>3. /\ yytext_ptr \in Nat /\ yy_n_chars \in Nat /\ fpos \in Nat /\ yy_n_chars <= yy_buf_size /\ yy_buf_size \in Nat
      /\ yytext_ptr <= yy_n_chars /\ DOMAIN yy_ch_buf = 0..(yy_buf_size + 1)
      /\ NumberToMove = yy_n_chars - yytext_ptr /\ yy_c_buf_p = yy_n_chars + 1
  BY <1>1 DEF ScanTypes, AtEnd, NumberToMove
<1>4. Restored = Held
  BY <1>1 DEF Restored, Held, AtEnd
<1>5. NumberToMove' = NumberToMove
  BY <1>2, <1>3 DEF NumberToMove
<1>6. \A i \in yytext_ptr..(yy_n_chars - 1) : Held[i] = text[fpos - yy_n_chars + i + 1]
  BY <1>2, UnreadAt DEF InPlace, Shows
<1>7. yy_n_chars - yytext_ptr <= fpos
  BY <1>2, UnreadAt DEF InPlace, Shows
<1> HIDE DEF NumberToMove, Restored
<1>8. ASSUME NEW i \in 0..(NumberToMove - 1) PROVE yy_ch_buf'[i] = text[fpos - NumberToMove + i + 1]
  <2>1. yytext_ptr + i \in yytext_ptr..(yy_n_chars - 1) /\ i \in 0..(yy_buf_size + 1) /\ i < NumberToMove
    BY <1>3
  <2>2. yy_ch_buf'[i] = Held[yytext_ptr + i]
    BY <1>2, <1>3, <1>4, <2>1
  <2>3. fpos - yy_n_chars + (yytext_ptr + i) + 1 = fpos - NumberToMove + i + 1
    BY <1>3
  <2> QED BY <1>6, <2>1, <2>2, <2>3
<1>9. UnreadBuf' = yy_ch_buf' /\ UnreadFrom' = 0 /\ UnreadTo' = NumberToMove
  BY <1>2, <1>5, UnreadNext
<1>10. InPlace'
  <2>1. NumberToMove \in Nat /\ NumberToMove <= fpos
    BY <1>3, <1>7
  <2>2. fpos \in Nat /\ fpos' = fpos /\ text' = text
    BY <1>2, <1>3
  <2> QED BY <1>8, <1>9, <2>1, <2>2, ShowsNext, ZenonT(30)
<1>11. Scanned' = Scanned
  BY <1>2, <1>3, <1>9, UnreadAt DEF Scanned
<1> QED
  BY <1>2, <1>10, <1>11 DEF Kept

\* The larger buffer begins with the smaller.
LEMMA GrowKept == ScanIInv /\ InPlace /\ Grow => Kept
<1> SUFFICES ASSUME ScanIInv, InPlace, Grow PROVE Kept
  OBVIOUS
<1>1. ScanTypes /\ Refilling
  BY DEF ScanIInv, ScanInv, Grow
<1>2. /\ yy_ch_buf' = [i \in 0..(yy_buf_size' + 1) |-> IF i \in DOMAIN yy_ch_buf THEN yy_ch_buf[i] ELSE NUL]
      /\ yy_buf_size' = 2 * yy_buf_size /\ yytext_ptr' = yytext_ptr /\ yy_c_buf_p' = yy_c_buf_p
      /\ pc = "refill" /\ pc' = "refill" /\ text' = text /\ fpos' = fpos
  BY DEF Grow, Grown, file_vars
<1>3. /\ yytext_ptr = 0 /\ yy_buf_size \in Nat /\ NumberToMove \in 0..yy_buf_size
      /\ DOMAIN yy_ch_buf = 0..(yy_buf_size + 1) /\ NumberToMove' = NumberToMove
  BY <1>1, <1>2 DEF ScanTypes, Refilling, NumberToMove
<1> HIDE DEF NumberToMove
<1>4. ASSUME NEW i \in 0..(NumberToMove - 1) PROVE yy_ch_buf'[i] = yy_ch_buf[i]
  BY <1>2, <1>3
<1>5. /\ UnreadBuf' = yy_ch_buf' /\ UnreadFrom' = 0 /\ UnreadTo' = NumberToMove
      /\ UnreadBuf = yy_ch_buf /\ UnreadFrom = 0 /\ UnreadTo = NumberToMove
  BY <1>2, <1>3, UnreadAt, UnreadNext, SMTT(30)
<1>6. InPlace' /\ Scanned' = Scanned
  BY <1>2, <1>4, <1>5, Zenon DEF InPlace, Shows, Scanned
<1> QED
  BY <1>2, <1>6 DEF Kept

\* What was read comes after what was moved.
LEMMA FilledKept ==
  ASSUME ScanTypes, Refilling, InPlace, pc = "refill", NEW k \in Nat, NumberToMove + k <= yy_buf_size,
         yy_ch_buf' = Filled(k), yy_n_chars' = NumberToMove + k, fpos' = fpos + k, text' = text,
         UnreadBuf' = yy_ch_buf', UnreadFrom' = 0, UnreadTo' = yy_n_chars'
  PROVE  Kept
<1> DEFINE m == NumberToMove
<1>1. m \in Nat /\ yy_buf_size \in Nat /\ fpos \in Nat /\ yytext_ptr = 0
  BY DEF ScanTypes, Refilling, NumberToMove
<1>2. /\ Filled(k) = [i \in 0..(yy_buf_size + 1) |->
                         IF i >= m /\ i < m + k THEN text[fpos + (i - m) + 1]
                         ELSE IF i \in {m + k, m + k + 1} THEN NUL ELSE yy_ch_buf[i]]
      /\ m + k <= yy_buf_size
  BY DEF Filled, ScanTypes
<1>3. UnreadBuf = yy_ch_buf /\ UnreadFrom = 0 /\ UnreadTo = m
  BY <1>1, UnreadAt, SMTT(30)
<1> HIDE DEF m
<1>4. m - 0 <= fpos /\ \A i \in 0..(m - 1) : yy_ch_buf[i] = text[fpos - m + i + 1]
  BY <1>3 DEF InPlace, Shows
<1> DEFINE t  == m + k
           fp == fpos + k
           b  == Filled(k)
<1>5. ASSUME NEW i \in 0..(t - 1) PROVE b[i] = text[fp - t + i + 1]
  <2>1. i \in 0..(yy_buf_size + 1) /\ fp - t + i + 1 = fpos - m + i + 1
    BY <1>1, <1>2
  <2>2. CASE i < m
    <3>1. b[i] = yy_ch_buf[i] /\ i \in 0..(m - 1)
      BY <1>1, <1>2, <2>1, <2>2, SMTT(30)
    <3> QED BY <1>4, <2>1, <3>1, SMTT(30)
  <2>3. CASE i >= m
    <3>1. b[i] = text[fpos + (i - m) + 1] /\ fpos + (i - m) + 1 = fpos - m + i + 1
      BY <1>1, <1>2, <2>1, <2>3
    <3> QED BY <2>1, <3>1, SMTT(30)
  <2> QED BY <1>1, <2>2, <2>3
<1>6. UnreadTo' = t /\ UnreadBuf' = b /\ fpos' = fp
  BY DEF m
<1>7. InPlace'
  <2>1. t \in Nat /\ fp \in Nat /\ t <= fp
    BY <1>1, <1>4
  <2> HIDE DEF t, fp, b
  <2> QED BY <1>5, <1>6, <2>1, ShowsNext, Zenon
<1>8. Scanned' = Scanned
  <2>1. (fpos + k) - ((m + k) - 0) = fpos - (m - 0)
    BY <1>1
  <2> QED BY <1>3, <1>6, <2>1, Zenon DEF Scanned
<1> QED
  BY <1>7, <1>8 DEF Kept

\* yy_get_next_buffer reads more.
LEMMA ReadMoreKept == ScanIInv /\ InPlace /\ ReadMore => Kept
<1> SUFFICES ASSUME ScanIInv, InPlace, ReadMore PROVE Kept
  OBVIOUS
<1>1. ScanTypes /\ Refilling /\ pc = "refill"
  BY DEF ScanIInv, ScanInv, ReadMore
<1>2. PICK k \in 1..Least(Least(NumToRead, YY_READ_BUF_SIZE), Len(text) - fpos) :
           yy_ch_buf' = Filled(k) /\ yy_n_chars' = NumberToMove + k /\ fpos' = fpos + k
  BY Zenon DEF ReadMore
<1>3. pc' = "match" /\ yytext_ptr' = yytext_ptr /\ text' = text /\ yytext_ptr = 0
  BY <1>1 DEF ReadMore, Refilling
<1>4. /\ yy_buf_size \in Nat /\ NumberToMove \in Nat /\ fpos \in Nat /\ Len(text) \in Nat
  BY <1>1 DEF ScanTypes, Refilling, NumberToMove
<1>5. k \in Nat /\ NumberToMove + k <= yy_buf_size
  BY <1>2, <1>4, ScannerSizes DEF Least, NumToRead
<1>6. UnreadBuf' = yy_ch_buf' /\ UnreadFrom' = 0 /\ UnreadTo' = yy_n_chars'
  BY <1>3, UnreadNext
<1> QED
  BY <1>1, <1>2, <1>3, <1>5, <1>6, FilledKept, SMTT(30)

\* Nothing is left to read.
LEMMA LastMatchKept == ScanIInv /\ InPlace /\ LastMatch => Kept
<1> SUFFICES ASSUME ScanIInv, InPlace, LastMatch PROVE Kept
  OBVIOUS
<1>1. ScanTypes /\ Refilling /\ pc = "refill"
  BY DEF ScanIInv, ScanInv, LastMatch
<1>2. /\ yy_ch_buf' = Filled(0) /\ yy_n_chars' = NumberToMove /\ fpos' = fpos /\ text' = text
      /\ pc' = "find" /\ yytext_ptr' = 0
  BY <1>1 DEF LastMatch, Refilling
<1>3. 0 \in Nat /\ NumberToMove + 0 = NumberToMove /\ NumberToMove + 0 <= yy_buf_size /\ fpos + 0 = fpos
  BY <1>1 DEF ScanTypes, Refilling, NumberToMove
<1>4. UnreadBuf' = yy_ch_buf' /\ UnreadFrom' = 0 /\ UnreadTo' = yy_n_chars'
  BY <1>2, UnreadNext
<1> QED
  BY <1>1, <1>2, <1>3, <1>4, FilledKept

\* Nothing is left at all.
LEMMA EndOfFileKept == ScanIInv /\ InPlace /\ EndOfFile => Kept /\ Scanned' = Len(text)
<1> SUFFICES ASSUME ScanIInv, InPlace, EndOfFile PROVE Kept /\ Scanned' = Len(text)
  OBVIOUS
<1>1. ScanTypes /\ Refilling /\ FileInv /\ NothingMore /\ pc = "refill" /\ NumberToMove = 0
  BY DEF ScanIInv, ScanInv, EndOfFile
<1>2. /\ yy_n_chars' = 0 /\ yy_c_buf_p' = 0 /\ fpos' = fpos /\ text' = text /\ pc' = "return"
  BY DEF EndOfFile
<1>3. fpos = Len(text) /\ fpos \in Nat /\ yytext_ptr = 0
  BY <1>1, NothingMoreFacts DEF ScanTypes, Refilling
<1>4. UnreadFrom' = 0 /\ UnreadTo' = 0 /\ UnreadFrom = 0 /\ UnreadTo = 0
  BY <1>1, <1>2, <1>3, UnreadAt, UnreadNext
<1>5. Scanned' = Scanned /\ Scanned' = Len(text)
  BY <1>2, <1>3, <1>4 DEF Scanned
<1>6. InPlace'
  BY <1>2, <1>3, <1>4 DEF InPlace, Shows
<1> QED
  BY <1>2, <1>5, <1>6 DEF Kept

\* The step that cuts: the text of the token is what comes next in the file.
Cuts ==
    /\ FindAction /\ yy_accept[Found.state + 1] # YY_END_OF_BUFFER
    /\ Scanned' \in 0..Len(text) /\ Scanned' > Scanned
    /\ Scanned' - Scanned = Found.cpos - yytext_ptr
    /\ \A i \in yytext_ptr..(Found.cpos - 1) : yy_ch_buf[i] = text[Scanned + (i - yytext_ptr) + 1]

\* A rule of the scanner cuts the text that it matched.
LEMMA FindActionKept == ScanIInv /\ InPlace /\ FindAction => (Kept /\ tok' = tok) \/ (InPlace' /\ text' = text /\ Cuts)
<1> SUFFICES ASSUME ScanIInv, InPlace, FindAction
             PROVE  (Kept /\ tok' = tok) \/ (InPlace' /\ text' = text /\ Cuts)
  OBVIOUS
<1> DEFINE q == Found.cpos
<1>1. ScanTypes /\ Finding /\ pc = "find"
  BY Zenon DEF ScanIInv, ScanInv, FindAction
<1>2. /\ yy_hold_char' = yy_ch_buf[q] /\ yy_ch_buf' = [yy_ch_buf EXCEPT ![q] = NUL]
      /\ yy_c_buf_p' = q /\ yytext_ptr' = yytext_ptr /\ yy_n_chars' = yy_n_chars
      /\ text' = text /\ fpos' = fpos
  BY Zenon DEF FindAction, file_vars
<1>3. \/ pc' = "eob" /\ tok' = tok
      \/ pc' \in {"start", "return"} /\ yy_accept[Found.state + 1] # YY_END_OF_BUFFER
  BY Zenon DEF FindAction
<1>4. /\ q \in Nat /\ yytext_ptr < q /\ q <= yy_n_chars + 1
      /\ q > yy_n_chars => yy_accept[Found.state + 1] = YY_END_OF_BUFFER
  BY <1>1, FoundFacts, AcceptFacts
<1> HIDE DEF q
<1>5. /\ yy_ch_buf \in [0..(yy_buf_size + 1) -> Char] /\ q \in 0..(yy_buf_size + 1)
      /\ yytext_ptr \in Nat /\ yy_n_chars \in Nat /\ fpos \in Nat /\ fpos <= Len(text) /\ Len(text) \in Nat
  BY <1>1, <1>4 DEF ScanTypes
<1>6. Held' = yy_ch_buf
  BY <1>2, <1>5, Zenon DEF Held
<1>7. UnreadBuf = yy_ch_buf /\ UnreadFrom = yytext_ptr /\ UnreadTo = yy_n_chars
  BY <1>1, UnreadAt
<1>8. CASE pc' = "eob" /\ tok' = tok
  BY <1>2, <1>6, <1>7, <1>8, UnreadNext, SameKept
<1>9. CASE pc' \in {"start", "return"} /\ yy_accept[Found.state + 1] # YY_END_OF_BUFFER
  <2>1. UnreadBuf' = yy_ch_buf /\ UnreadFrom' = q /\ UnreadTo' = yy_n_chars /\ q <= yy_n_chars
    BY <1>2, <1>4, <1>5, <1>6, <1>9, UnreadNext
  <2>2. /\ yy_n_chars - yytext_ptr <= fpos
        /\ \A i \in yytext_ptr..(yy_n_chars - 1) : yy_ch_buf[i] = text[fpos - yy_n_chars + i + 1]
    BY <1>7 DEF InPlace, Shows
  <2>3. q <= yy_n_chars /\ yy_n_chars - q <= fpos /\ q..(yy_n_chars - 1) \subseteq yytext_ptr..(yy_n_chars - 1)
    BY <1>4, <1>5, <2>1, <2>2, SMTT(30)
  <2>4. InPlace'
    BY <1>2, <2>1, <2>2, <2>3, SMTT(30) DEF InPlace, Shows
  <2>5. Scanned = fpos - yy_n_chars + yytext_ptr /\ Scanned' = fpos - yy_n_chars + q
    BY <1>2, <1>4, <1>5, <1>7, <2>1, SMTT(30) DEF Scanned
  <2>6. Scanned' > Scanned /\ Scanned' \in 0..Len(text) /\ Scanned' - Scanned = q - yytext_ptr
    BY <1>4, <1>5, <2>1, <2>3, <2>5
  <2>7. ASSUME NEW i \in yytext_ptr..(q - 1) PROVE yy_ch_buf[i] = text[Scanned + (i - yytext_ptr) + 1]
    <3>1. i \in yytext_ptr..(yy_n_chars - 1) /\ Scanned + (i - yytext_ptr) + 1 = fpos - yy_n_chars + i + 1
      BY <1>4, <1>5, <2>1, <2>5, SMTT(30)
    <3> QED BY <2>2, <3>1
  <2> QED BY <1>2, <1>9, <2>4, <2>6, <2>7, SMTT(30) DEF Cuts, q
<1> QED
  BY <1>3, <1>8, <1>9
\* Between two calls of yylex nothing is read.
LEMMA RestKept ==
  ASSUME InPlace, UNCHANGED <<file_vars, buf_vars, yy_c_buf_p, yytext_ptr, yy_hold_char, yy_cp, match, tok>>,
         pc \notin {"match", "find", "eob", "refill", "fatal"}, pc' \notin {"match", "find", "eob", "refill", "fatal"}
  PROVE  Kept
<1>1. Held' = Held /\ text' = text /\ fpos' = fpos /\ yy_c_buf_p' = yy_c_buf_p /\ yy_n_chars' = yy_n_chars
  BY DEF Held, file_vars, buf_vars
<1> QED
  BY <1>1, UnreadAt, UnreadNext, SameKept

\* What was cut, what is left in the buffer and what was not read make up the
\* text, and the end is only told when everything was cut.
Whole ==
    /\ InPlace /\ text \in Seq(Char)
    /\ pc = "return" /\ tok.type = EOF.type => Scanned = Len(text)

\* The text not yet cut is always the rest of the file, whatever pieces the
\* reads came in and however the buffer was moved, filled and enlarged
\* (yy_get_next_buffer), and yylex only tells the end when nothing is left.
TextComplete ==
    /\ Scanned \in 0..Len(text)
    /\ Unread = SubSeq(text, Scanned + 1, Len(text))
    /\ pc = "return" /\ tok.type = EOF.type => Unread = <<>>

\* The buffer and what was not read are the rest of the text.
LEMMA WholeComplete ==
  ASSUME ScanIInv, Whole
  PROVE  TextComplete
<1> DEFINE n == UnreadTo - UnreadFrom
           s == Scanned
           k == Len(text) - fpos
           w == yytext(UnreadBuf, UnreadFrom, UnreadTo)
<1>1. text \in Seq(Char) /\ fpos \in 0..Len(text) /\ Len(text) \in Nat
  BY DEF ScanIInv, ScanTypes
<1>2. UnreadFrom \in Nat /\ UnreadTo \in Int
  BY UnreadAt DEF ScanIInv, ScanTypes, NumberToMove
<1>3. n \in Nat /\ s \in Nat /\ k \in Nat /\ Len(text) = s + n + k /\ fpos = s + n
  BY <1>1, <1>2 DEF Whole, InPlace, Shows, Scanned
<1>4. ASSUME NEW i \in 1..n PROVE UnreadBuf[UnreadFrom + i - 1] = text[s + i]
  <2> DEFINE j == UnreadFrom + i - 1
  <2>1. j \in UnreadFrom..(UnreadTo - 1) /\ fpos - UnreadTo + j + 1 = s + i
    BY <1>1, <1>2 DEF Scanned
  <2> HIDE DEF j
  <2>2. UnreadBuf[j] = text[fpos - UnreadTo + j + 1]
    BY <2>1 DEF Whole, InPlace, Shows
  <2> QED BY <2>1, <2>2 DEF j
<1>5. w = [i \in 1..n |-> text[s + i]]
  BY <1>4, Zenon DEF yytext
<1>6. Unread = w \o SubSeq(text, fpos + 1, Len(text))
  BY DEF Unread
<1> HIDE DEF n, s, k, w
<1>7. Unread = SubSeq(text, s + 1, Len(text))
  BY <1>1, <1>3, <1>5, <1>6, TwoParts
<1>8. s = Len(text) => Unread = <<>>
  BY <1>1, <1>3, <1>7
<1> QED
  BY <1>1, <1>3, <1>7, <1>8 DEF TextComplete, Whole, s

\* Every character of the file goes into one token, or is skipped, in the order
\* of the file: each step of the compiler leaves what is still to be cut alone,
\* or it is the action of a rule, and cuts the characters that come next.
EachCharOnce ==
    \/ Scanned' = Scanned
    \/ /\ FindAction /\ Scanned' > Scanned
       /\ yytext(yy_ch_buf, yytext_ptr, Found.cpos) = SubSeq(text, Scanned + 1, Scanned')

\* The characters a step cuts, as a sequence.
LEMMA CutText ==
  ASSUME ScanIInv, Whole, Cuts
  PROVE  EachCharOnce
<1> DEFINE w == yytext(yy_ch_buf, yytext_ptr, Found.cpos)
<1>1. /\ text \in Seq(Char) /\ Len(text) \in Nat /\ yytext_ptr \in Nat /\ fpos \in 0..Len(text)
      /\ UnreadFrom \in Nat /\ UnreadTo \in Int
  BY UnreadAt DEF ScanIInv, ScanTypes, NumberToMove
<1>2. Found.cpos \in Nat
  <2>1. ScanTypes /\ Finding
    BY Zenon DEF ScanIInv, ScanInv, Cuts, FindAction
  <2> QED BY <2>1, FoundFacts
<1>3. PICK s \in Nat : Scanned = s
  BY <1>1 DEF Whole, InPlace, Shows, Scanned
<1>4. PICK e \in 0..Len(text) : Scanned' = e
  BY DEF Cuts
<1>5. PICK n \in Nat : n = Found.cpos - yytext_ptr /\ n = e - s /\ n > 0
  BY <1>1, <1>2, <1>3, <1>4 DEF Cuts
<1>6. ASSUME NEW i \in 1..n PROVE yy_ch_buf[yytext_ptr + i - 1] = text[s + i]
  <2> DEFINE j == yytext_ptr + i - 1
  <2>1. j \in yytext_ptr..(Found.cpos - 1) /\ s + (j - yytext_ptr) + 1 = s + i
    BY <1>1, <1>2, <1>5
  <2> HIDE DEF j
  <2>2. yy_ch_buf[j] = text[s + (j - yytext_ptr) + 1]
    BY <1>3, <2>1 DEF Cuts
  <2> QED BY <2>1, <2>2 DEF j
<1>7. w = [i \in 1..n |-> text[s + i]]
  BY <1>5, <1>6, Zenon DEF yytext
<1>8. SubSeq(text, s + 1, e) = [i \in 1..n |-> text[s + i]]
  BY <1>1, <1>5
<1>9. FindAction /\ Scanned' > Scanned /\ w = SubSeq(text, Scanned + 1, Scanned')
  BY <1>3, <1>4, <1>7, <1>8, Zenon DEF Cuts
<1> QED
  BY <1>9, Zenon DEF EachCharOnce

-----------------------------------------------------------------------------
(***************************************************************************)
(* The walk of yylex over the buffer reads the text of the next token.     *)
(***************************************************************************)
\* yy_get_previous_state is such a walk.
LEMMA PreviousWalked ==
  ASSUME match \in Match, NEW from \in Nat, NEW to \in Nat, from <= to,
         NEW buf, \A p \in from..(to - 1) : buf[p] \in Char
  PROVE  Walked(yy_get_previous_state(buf, from, to), buf, from, to)
<1> DEFINE n    == to - from
           base == [match EXCEPT !.state = yy_start]
<1>1. PICK W : /\ yy_get_previous_state(buf, from, to) = W[to]
               /\ W[from] = base
               /\ \A p \in (from + 1)..to : W[p] = Walk(W[p - 1], ClassOf(buf, p - 1), p - 1)
  BY PreviousWalk
<1>2. base \in Match /\ base.state = yy_start
  BY WalkStarts
<1> HIDE DEF base
<1> DEFINE S == {k \in Nat : from + k <= to => W[from + k] \in Match /\ Walked(W[from + k], buf, from, from + k)}
<1>3. 0 \in S
  <2>1. Walked(base, buf, from, from)
    BY <1>2, WalkedStart
  <2>2. from + 0 = from
    OBVIOUS
  <2> QED BY <1>1, <1>2, <2>1, <2>2
<1>4. ASSUME NEW k \in Nat, k \in S PROVE k + 1 \in S
  <2> SUFFICES ASSUME from + k + 1 <= to
               PROVE  W[from + k + 1] \in Match /\ Walked(W[from + k + 1], buf, from, from + k + 1)
    OBVIOUS
  <2> DEFINE p == from + k
             m == W[p]
  <2>1. p \in Nat /\ from <= p /\ p \in from..(to - 1) /\ p + 1 \in (from + 1)..to /\ from..p \subseteq from..(to - 1)
        /\ (p + 1) - 1 = p
    OBVIOUS
  <2>2. m \in Match /\ Walked(m, buf, from, p)
    BY <1>4
  <2>3. W[p + 1] = Walk(m, TextClass(buf[p]), p)
    <3>1. W[p + 1] = Walk(W[(p + 1) - 1], ClassOf(buf, (p + 1) - 1), (p + 1) - 1)
      BY <1>1, <2>1, Zenon
    <3>2. ClassOf(buf, p) = TextClass(buf[p])
      BY Zenon DEF ClassOf, TextClass
    <3> HIDE DEF p
    <3> QED BY <2>1, <3>1, <3>2, Zenon DEF m
  <2>4. p = from => m.state = yy_start
    BY <1>1, <1>2
  <2>5. p + 1 = from + k + 1
    OBVIOUS
  <2> HIDE DEF p, m
  <2>6. TextClass(buf[p]) \in Class /\ \A q \in from..p : buf[q] \in Char
    BY <2>1, ClassOfFacts DEF ClassOf, TextClass
  <2>7. W[p + 1] \in Match
    BY <2>1, <2>2, <2>3, <2>6, WalkTyped, Zenon
  <2>8. Walked(W[p + 1], buf, from, p + 1)
    BY <2>1, <2>2, <2>3, <2>4, <2>6, WalkedNext, Zenon
  <2> QED BY <2>5, <2>7, <2>8
<1>5. \A k \in Nat : k \in S
  <2> HIDE DEF S
  <2> QED BY <1>3, <1>4, SetInduction
<1>6. n \in S /\ from + n = to
  BY <1>5
<1> QED
  BY <1>1, <1>6

\* No rule matches more of the text than the part of the buffer up to q: none
\* matches what comes after it in the buffer up to e, and either the walk has
\* stopped there or it is the end of the file.
NoLonger(buf, from, q) ==
    \E e \in q..yy_n_chars :
        /\ \A k \in (q + 1)..e : Tokens!Rules(yytext(buf, from, k)) = {}
        /\ \/ \A v \in Seq(Char) : v # <<>> => Tokens!Rules(yytext(buf, from, e) \o v) = {}
           \/ e = yy_n_chars /\ fpos = Len(text)

\* The walk has read the text of the token, or has met a NUL at its end; and what
\* it finds is the longest match, or that NUL.
Tracked ==
    /\ pc = "match" => IF match.state = NulSeen THEN yytext_ptr < yy_cp /\ yy_ch_buf[yy_cp - 1] = NUL
                       ELSE Walked(match, yy_ch_buf, yytext_ptr, yy_cp)
    /\ pc = "find" => IF Found.state = NulSeen THEN yy_ch_buf[Found.cpos - 1] = NUL
                      ELSE /\ Reads(Found.state, yytext(yy_ch_buf, yytext_ptr, Found.cpos))
                           /\ NoLonger(yy_ch_buf, yytext_ptr, Found.cpos)
    /\ pc = "eob" => Held[yy_c_buf_p - 1] = NUL

\* A walk starts.
LEMMA StartTokenTracked == ScanIInv /\ StartToken => Tracked'
<1> SUFFICES ASSUME ScanIInv, StartToken PROVE Tracked'
  OBVIOUS
<1>1. match \in Match /\ yy_c_buf_p \in Nat
  BY DEF ScanIInv, ScanTypes
<1>2. pc' = "match" /\ yytext_ptr' = yy_c_buf_p /\ yy_cp' = yy_c_buf_p /\ match' = [match EXCEPT !.state = yy_start]
  BY DEF StartToken
<1>3. match'.state = yy_start /\ yy_start # NulSeen
  BY <1>1, <1>2, WalkStarts DEF yy_start, NulSeen
<1>4. Walked(match', yy_ch_buf', yytext_ptr', yy_cp')
  BY <1>1, <1>2, <1>3, WalkedStart, Zenon
<1> QED
  BY <1>2, <1>3, <1>4, Zenon DEF Tracked

\* A walk that has stopped, or read to the end of the file, finds the longest match.
LEMMA WalkFinds ==
  ASSUME NEW m \in Match, NEW buf, NEW from \in Nat, NEW to \in Nat, NEW n \in Nat, from < to, to <= n,
         \A p \in from..(to - 1) : buf[p] \in Char, Walked(m, buf, from, to),
         Stops(m.state) \/ (to = n /\ fpos' = Len(text')),
         match' = m, yy_ch_buf' = buf, yytext_ptr' = from, yy_cp' = to, yy_n_chars' = n, pc' = "find"
  PROVE  Tracked'
<1> DEFINE w == yytext(buf, from, to)
           f == FoundIn(m, to)
<1>1. Found' = f
  BY Zenon DEF Found, FoundIn, Accepts
<1>2. /\ f.cpos \in (from + 1)..to /\ f.state # NulSeen
      /\ Reads(f.state, yytext(buf, from, f.cpos))
      /\ \A k \in (f.cpos + 1)..to : Tokens!Rules(yytext(buf, from, k)) = {}
  BY FoundWalked, Zenon
<1> HIDE DEF f
<1>3. to \in f.cpos..n /\ to \in (from + 1)..to
  BY <1>2
<1>4. Stops(m.state) => \A v \in Seq(Char) : v # <<>> => Tokens!Rules(w \o v) = {}
  <2>1. w \in Seq(Char) /\ w # <<>>
    BY <1>3, TextSome, Zenon
  <2>2. Reads(m.state, w)
    BY Zenon DEF Walked
  <2> HIDE DEF w
  <2> QED BY <2>1, <2>2, StopsLast, Zenon
<1>5. NoLonger(yy_ch_buf, yytext_ptr, Found.cpos)'
  BY <1>1, <1>2, <1>3, <1>4, Zenon DEF NoLonger
<1> QED
  BY <1>1, <1>2, <1>5, Zenon DEF Tracked

\* The walk reads a character of the text, or a NUL, or jams after one.
LEMMA MatchCharTracked == ScanIInv /\ Tracked /\ MatchChar => Tracked'
<1> SUFFICES ASSUME ScanIInv, Tracked, MatchChar PROVE Tracked'
  OBVIOUS
<1> DEFINE a == yy_ch_buf[yy_cp]
           c == yy_ec[a]
<1>1. ScanTypes /\ Matching /\ pc = "match"
  BY DEF ScanIInv, ScanInv, MatchChar
<1>2. /\ match' = Walk(match, c, yy_cp) /\ yy_cp' = yy_cp + 1
      /\ pc' = IF Stops(match'.state) THEN "find" ELSE "match"
      /\ yy_ch_buf' = yy_ch_buf /\ yytext_ptr' = yytext_ptr /\ yy_n_chars' = yy_n_chars
  BY DEF MatchChar, Stops, buf_vars
<1>3. /\ match \in Match /\ yy_cp \in Nat /\ yytext_ptr \in Nat /\ yy_n_chars \in Nat /\ match.state \in DState
      /\ yy_ch_buf \in [0..(yy_buf_size + 1) -> Char] /\ yytext_ptr <= yy_cp /\ yy_cp <= yy_n_chars + 1
      /\ yy_n_chars <= yy_buf_size /\ yy_buf_size \in Nat
  BY <1>1 DEF ScanTypes, Match, Matching
<1>4. a \in Char /\ c \in Class /\ (a = NUL => c = 0) /\ (a # NUL => c = TextClass(a) /\ c # 0)
  <2>1. a \in Char
    BY <1>3
  <2>2. 0 \in Class
    BY SMTT(30) DEF Class
  <2> QED BY <2>1, <2>2, ClassFacts DEF TextClass
<1> HIDE DEF a, c
<1>5. /\ match' \in Match /\ match'.state = yy_trans[<<match.state, c>>]
      /\ match'.last = IF Accepts(match.state) THEN [state |-> match.state, cpos |-> yy_cp] ELSE match.last
  BY <1>2, <1>3, <1>4, WalkTyped
<1>6. CASE match.state = NulSeen
  <2>1. match'.state = JAM /\ Stops(JAM) /\ ~Accepts(JAM) /\ Accepts(NulSeen)
    BY <1>4, <1>5, <1>6, WalkFacts, AcceptFacts, SMTT(30) DEF Accepts, YY_END_OF_BUFFER
  <2>2. pc' = "find" /\ match'.last.state = NulSeen /\ match'.last.cpos = yy_cp
    BY <1>2, <1>5, <1>6, <2>1
  <2>3. Found' = match'.last
    BY <2>1, Zenon DEF Found, Accepts
  <2>4. yy_ch_buf[yy_cp - 1] = NUL
    BY <1>1, <1>6, Zenon DEF Tracked
  <2> QED BY <1>2, <2>2, <2>3, <2>4, Zenon DEF Tracked
<1>7. CASE match.state # NulSeen /\ a = NUL
  <2>1. match'.state = NulSeen /\ ~Stops(NulSeen)
    BY <1>3, <1>4, <1>5, <1>7, WalkFacts, AcceptFacts, SMTT(30)
  <2>2. pc' = "match" /\ yytext_ptr' < yy_cp' /\ yy_cp' - 1 = yy_cp
    BY <1>2, <1>3, <2>1
  <2>3. yy_ch_buf[yy_cp] = NUL
    BY <1>7 DEF a
  <2> QED BY <1>2, <2>1, <2>2, <2>3, Zenon DEF Tracked
<1>8. CASE match.state # NulSeen /\ a # NUL
  <2>1. Walked(match, yy_ch_buf, yytext_ptr, yy_cp)
    BY <1>1, <1>8, Zenon DEF Tracked
  <2>2. yy_cp < yy_n_chars /\ (yy_cp = yytext_ptr => match.state = yy_start)
    <3>1. yy_cp # yy_n_chars
      BY <1>1, <1>8 DEF Matching, Ended, a
    <3> QED BY <1>1, <1>3, <1>8, <3>1, SMTT(30) DEF Matching, Good
  <2>3. \A p \in yytext_ptr..yy_cp : yy_ch_buf[p] \in Char
    BY <1>3
  <2>4. Walked(match', yy_ch_buf, yytext_ptr, yy_cp + 1)
    <3>1. match' = Walk(match, TextClass(yy_ch_buf[yy_cp]), yy_cp)
      BY <1>2, <1>4, <1>8, SMTT(30) DEF a
    <3> QED BY <1>3, <2>1, <2>2, <2>3, <3>1, WalkedNext, Zenon
  <2>5. match'.state # NulSeen
    BY <1>3, <1>4, <1>5, <1>8, WalkFacts
  <2>6. CASE Stops(match'.state)
    <3>1. yy_cp + 1 \in Nat /\ yytext_ptr < yy_cp + 1 /\ yy_cp + 1 <= yy_n_chars /\ (yy_cp + 1) - 1 = yy_cp
      BY <1>3, <2>2
    <3>2. \A p \in yytext_ptr..((yy_cp + 1) - 1) : yy_ch_buf[p] \in Char
      BY <2>3, <3>1, Zenon
    <3>3. pc' = "find"
      BY <1>2, <2>6
    <3> QED BY <1>2, <1>3, <1>5, <2>4, <2>6, <3>1, <3>2, <3>3, WalkFinds, Zenon
  <2>7. CASE ~Stops(match'.state)
    BY <1>2, <2>4, <2>5, <2>7, Zenon DEF Tracked
  <2> QED BY <2>6, <2>7
<1> QED
  BY <1>6, <1>7, <1>8

\* The rule found is that of the text matched; only a NUL has the end-of-buffer rule.
LEMMA FindFacts ==
  ASSUME ScanIInv, Tracked, FindAction
  PROVE  \/ yy_accept[Found.state + 1] = YY_END_OF_BUFFER /\ Found.state = NulSeen
         \/ /\ yy_accept[Found.state + 1] # YY_END_OF_BUFFER /\ Found.state # NulSeen /\ Accepts(Found.state)
            /\ yytext(yy_ch_buf, yytext_ptr, Found.cpos) \in Seq(Char)
            /\ Tells(Found.state, yytext(yy_ch_buf, yytext_ptr, Found.cpos))
            /\ Found.cpos \in (yytext_ptr + 1)..yy_n_chars
            /\ NoLonger(yy_ch_buf, yytext_ptr, Found.cpos)
<1>1. ScanTypes /\ Finding /\ pc = "find"
  BY Zenon DEF ScanIInv, ScanInv, FindAction
<1>2. CASE Found.state = NulSeen
  BY <1>2, AcceptFacts
<1>3. CASE Found.state # NulSeen
  <2> DEFINE w == yytext(yy_ch_buf, yytext_ptr, Found.cpos)
  <2>1. /\ Accepts(Found.state) /\ Found.cpos \in (yytext_ptr + 1)..yy_n_chars
        /\ yytext_ptr \in Nat /\ yy_n_chars \in Nat /\ yy_n_chars <= yy_buf_size /\ yy_buf_size \in Nat
        /\ yy_ch_buf \in [0..(yy_buf_size + 1) -> Char]
    BY <1>1, <1>3, FoundFacts DEF ScanTypes
  <2>2. \A p \in yytext_ptr..(yy_n_chars - 1) : yy_ch_buf[p] \in Char
    BY <2>1
  <2>3. w \in Seq(Char) /\ w # <<>>
    BY <2>1, <2>2, TextSome, Zenon
  <2>4. Reads(Found.state, w) /\ NoLonger(yy_ch_buf, yytext_ptr, Found.cpos)
    BY <1>1, <1>3, Zenon DEF Tracked
  <2> HIDE DEF w
  <2>5. Tells(Found.state, w)
    BY <2>3, <2>4, ReadsTells, Zenon
  <2> QED BY <1>3, <2>1, <2>3, <2>4, <2>5, Zenon DEF Tells, w
<1> QED
  BY <1>2, <1>3, SMTT(30)

\* The end-of-buffer rule is for a NUL.
LEMMA FindActionTracked == ScanIInv /\ Tracked /\ FindAction => Tracked'
<1> SUFFICES ASSUME ScanIInv, Tracked, FindAction PROVE Tracked'
  OBVIOUS
<1>1. ScanTypes /\ Finding /\ pc = "find"
  BY Zenon DEF ScanIInv, ScanInv, FindAction
<1>2. /\ yy_hold_char' = yy_ch_buf[Found.cpos] /\ yy_ch_buf' = [yy_ch_buf EXCEPT ![Found.cpos] = NUL]
      /\ yy_c_buf_p' = Found.cpos
  BY Zenon DEF FindAction
<1>3. \/ pc' = "eob" /\ yy_accept[Found.state + 1] = YY_END_OF_BUFFER
      \/ pc' \in {"start", "return"}
  BY Zenon DEF FindAction
<1>4. CASE pc' = "eob" /\ yy_accept[Found.state + 1] = YY_END_OF_BUFFER
  <2>1. Found.state = NulSeen
    BY <1>4, FindFacts, Zenon
  <2>2. yy_ch_buf[Found.cpos - 1] = NUL
    BY <1>1, <2>1, Zenon DEF Tracked
  <2>3. Found.cpos \in 0..(yy_buf_size + 1) /\ yy_ch_buf \in [0..(yy_buf_size + 1) -> Char]
    BY <1>1, FoundFacts DEF ScanTypes
  <2>4. Held' = yy_ch_buf
    BY <1>2, <2>3, Zenon DEF Held
  <2> QED BY <1>2, <1>4, <2>2, <2>4, Zenon DEF Tracked
<1>5. CASE pc' \in {"start", "return"}
  BY <1>5, Zenon DEF Tracked
<1> QED
  BY <1>3, <1>4, <1>5, Zenon

\* A NUL of the text: the walk reads it, or jams on it and finds what was before.
LEMMA RealNulTracked == ScanIInv /\ Tracked /\ RealNul => Tracked'
<1> SUFFICES ASSUME ScanIInv, Tracked, RealNul PROVE Tracked'
  OBVIOUS
<1> DEFINE p    == yytext_ptr + NumberToMove
           prev == yy_get_previous_state(Restored, yytext_ptr, p)
           nul  == Walk(prev, 1, p)
           jam  == nul.state = JAM
<1>1. ScanTypes /\ AtEnd /\ yy_c_buf_p <= yy_n_chars /\ pc = "eob"
  BY DEF ScanIInv, ScanInv, RealNul
<1>2. /\ match' = IF jam THEN [nul EXCEPT !.state = prev.state] ELSE nul
      /\ yy_cp' = IF jam THEN p ELSE p + 1
      /\ yy_ch_buf' = Restored /\ yytext_ptr' = yytext_ptr /\ yy_n_chars' = yy_n_chars
      /\ pc' = IF jam THEN "find" ELSE "match"
  BY DEF RealNul
<1>3. /\ yytext_ptr \in Nat /\ yy_c_buf_p \in Nat /\ yy_n_chars \in Nat /\ yy_buf_size \in Nat
      /\ yytext_ptr < yy_c_buf_p /\ yy_n_chars <= yy_buf_size
      /\ yy_cp = yy_c_buf_p /\ match \in Match
  BY <1>1 DEF ScanTypes, AtEnd
<1>4. p \in Nat /\ p + 1 <= yy_n_chars /\ yytext_ptr <= p /\ p = yy_c_buf_p - 1
  BY <1>1, <1>3 DEF NumberToMove
<1>5. Restored = Held
  BY <1>3 DEF Restored, Held
<1>6. Restored[p] = NUL
  BY <1>1, <1>4, <1>5, Zenon DEF Tracked
<1> HIDE DEF p
<1>7. \A q \in yytext_ptr..p : Restored[q] \in Char
  <2>1. Held \in [0..(yy_buf_size + 1) -> Char]
    BY <1>1, <1>3, HeldTyped
  <2> QED BY <1>3, <1>4, <1>5, <2>1
<1>8. \A q \in yytext_ptr..(p - 1) : Restored[q] \in Char
  BY <1>3, <1>4, <1>7
<1>9. prev \in Match /\ Good(prev, yytext_ptr, p)
  BY <1>3, <1>4, <1>8, PreviousGood
<1>10. Walked(prev, Restored, yytext_ptr, p)
  BY <1>3, <1>4, <1>8, PreviousWalked, Zenon
<1> HIDE DEF prev
<1>11. p = yytext_ptr => prev.state = yy_start
  BY <1>3, <1>4, <1>9 DEF Good
<1>12. Walked(nul, Restored, yytext_ptr, p + 1)
  <2>1. TextClass(Restored[p]) = 1
    BY <1>6, Zenon DEF TextClass
  <2>2. Walked(Walk(prev, TextClass(Restored[p]), p), Restored, yytext_ptr, p + 1)
    BY <1>3, <1>4, <1>7, <1>9, <1>10, <1>11, WalkedNext, Zenon
  <2> QED BY <2>1, <2>2, Zenon
<1>13. 1 \in Class /\ 1 \in Class \ {0} /\ prev.state \in DState
  BY <1>9 DEF Class, Match
<1>14. /\ nul \in Match /\ nul.state = yy_trans[<<prev.state, 1>>]
       /\ nul.last = IF Accepts(prev.state) THEN [state |-> prev.state, cpos |-> p] ELSE prev.last
  BY <1>4, <1>9, <1>13, WalkTyped
<1> HIDE DEF nul
<1>15. CASE ~jam
  <2>1. nul.state # NulSeen
    BY <1>13, <1>14, WalkFacts
  <2> QED BY <1>2, <1>12, <1>15, <2>1, Zenon DEF Tracked
<1>16. CASE jam
  <2>1. yytext_ptr < p
    <3>1. p # yytext_ptr
      BY <1>11, <1>14, <1>16, WalkFacts, Zenon
    <3> QED BY <1>3, <1>4, <3>1
  <2> DEFINE f == FoundIn(prev, p)
             w == yytext(Restored, yytext_ptr, p + 1)
  <2>2. /\ f.cpos \in (yytext_ptr + 1)..p /\ f.state # NulSeen
        /\ Reads(f.state, yytext(Restored, yytext_ptr, f.cpos))
        /\ \A k \in (f.cpos + 1)..p : Tokens!Rules(yytext(Restored, yytext_ptr, k)) = {}
    BY <1>3, <1>4, <1>8, <1>9, <1>10, <2>1, FoundWalked, Zenon
  <2>3. Found' = f
    <3>1. match'.state = prev.state /\ match'.last = nul.last /\ yy_cp' = p
      BY <1>2, <1>14, <1>16 DEF Match
    <3> QED BY <1>14, <3>1, Zenon DEF Found, FoundIn, Accepts
  <2> HIDE DEF f
  <2>4. w \in Seq(Char) /\ w # <<>>
    <3>1. p + 1 \in Nat /\ yytext_ptr <= p + 1 /\ yytext_ptr # p + 1 /\ (p + 1) - 1 = p
      BY <1>3, <1>4
    <3>2. \A q \in yytext_ptr..((p + 1) - 1) : Restored[q] \in Char
      BY <1>7, <3>1, Zenon
    <3> QED BY <1>3, <3>1, <3>2, TextFacts, ZenonT(30)
  <2>5. Reads(JAM, w)
    BY <1>12, <1>16, Zenon DEF Walked
  <2> HIDE DEF w
  <2>6. DeadText(w)
    BY <2>4, <2>5, JamDead
  <2>7. Tokens!Rules(w) = {}
    <3>1. <<>> \in Seq(Char) /\ w \o <<>> = w
      BY <2>4
    <3> QED BY <2>6, <3>1, Zenon DEF DeadText
  <2>8. p + 1 \in f.cpos..yy_n_chars /\ \A k \in (f.cpos + 1)..(p + 1) : k = p + 1 \/ k \in (f.cpos + 1)..p
    BY <1>3, <1>4, <2>2
  <2>9. \A k \in (f.cpos + 1)..(p + 1) : Tokens!Rules(yytext(Restored, yytext_ptr, k)) = {}
    BY <2>2, <2>7, <2>8, Zenon DEF w
  <2>10. \A v \in Seq(Char) : Tokens!Rules(yytext(Restored, yytext_ptr, p + 1) \o v) = {}
    BY <2>6, Zenon DEF DeadText, w
  <2>11. NoLonger(yy_ch_buf, yytext_ptr, Found.cpos)'
    BY <1>2, <2>3, <2>8, <2>9, <2>10, Zenon DEF NoLonger
  <2> QED BY <1>2, <1>16, <2>2, <2>3, <2>11, Zenon DEF Tracked
<1> QED
  BY <1>15, <1>16

\* After a read the walk is repeated over what was moved.
LEMMA ReadMoreTracked == ScanIInv /\ ReadMore => Tracked'
<1> SUFFICES ASSUME ScanIInv, ReadMore PROVE Tracked'
  OBVIOUS
<1> DEFINE n == NumberToMove
<1>1. ScanTypes /\ Refilling
  BY DEF ScanIInv, ScanInv, ReadMore
<1>2. /\ yy_cp' = n /\ pc' = "match" /\ match' = yy_get_previous_state(yy_ch_buf', 0, n)
      /\ yytext_ptr' = yytext_ptr /\ yy_buf_size' = yy_buf_size
  BY DEF ReadMore
<1>3. n \in Nat /\ yytext_ptr = 0 /\ match \in Match /\ 0 \in Nat /\ 0 <= n
  BY <1>1 DEF ScanTypes, Refilling, NumberToMove
<1>4. \A q \in 0..(n - 1) : yy_ch_buf'[q] \in Char
  <2>1. ScanTypes'
    BY ReadMoreKeeps DEF ScanKept, ScanIInv
  <2>2. yy_ch_buf' \in [0..(yy_buf_size + 1) -> Char]
    BY <1>2, <2>1 DEF ScanTypes
  <2>3. n <= yy_buf_size + 1 /\ yy_buf_size \in Nat
    BY <1>1 DEF ScanTypes, Refilling, NumberToMove
  <2> HIDE DEF n
  <2> QED BY <1>3, <2>2, <2>3
<1> HIDE DEF n
<1>5. match'.state # NulSeen
  BY <1>2, <1>3, <1>4, PreviousGood
<1>6. Walked(match', yy_ch_buf', 0, n)
  BY <1>2, <1>3, <1>4, PreviousWalked, Zenon
<1> QED
  BY <1>2, <1>3, <1>5, <1>6, Zenon DEF Tracked

\* At the end of the file the unfinished token is all there is.
LEMMA LastMatchTracked == ScanIInv /\ LastMatch => Tracked'
<1> SUFFICES ASSUME ScanIInv, LastMatch PROVE Tracked'
  OBVIOUS
<1> DEFINE n == NumberToMove
<1>1. ScanTypes /\ Refilling /\ FileInv /\ NothingMore /\ n > 0
  BY DEF ScanIInv, ScanInv, LastMatch
<1>2. /\ yy_cp' = n /\ pc' = "find" /\ match' = yy_get_previous_state(yy_ch_buf', 0, n)
      /\ yytext_ptr' = yytext_ptr /\ yy_n_chars' = n /\ yy_buf_size' = yy_buf_size /\ text' = text /\ fpos' = fpos
  BY DEF LastMatch
<1>3. n \in Nat /\ yytext_ptr = 0 /\ match \in Match /\ 0 \in Nat /\ 0 <= n /\ 0 < n /\ n <= n
  BY <1>1 DEF ScanTypes, Refilling, NumberToMove
<1>4. fpos' = Len(text')
  BY <1>1, <1>2, NothingMoreFacts
<1>5. \A q \in 0..(n - 1) : yy_ch_buf'[q] \in Char
  <2>1. ScanTypes'
    BY LastMatchKeeps DEF ScanKept, ScanIInv
  <2>2. yy_ch_buf' \in [0..(yy_buf_size + 1) -> Char] /\ n <= yy_buf_size + 1 /\ yy_buf_size \in Nat
    BY <1>2, <2>1 DEF ScanTypes
  <2> HIDE DEF n
  <2> QED BY <1>3, <2>2
<1> HIDE DEF n
<1>6. match' \in Match
  BY <1>2, <1>3, <1>5, PreviousGood
<1>7. Walked(match', yy_ch_buf', 0, n)
  BY <1>2, <1>3, <1>5, PreviousWalked, Zenon
<1> QED
  BY <1>2, <1>3, <1>4, <1>5, <1>6, <1>7, WalkFinds, Zenon

-----------------------------------------------------------------------------
(***************************************************************************)
(* The action of a rule cuts what TokenStream cuts.                        *)
(***************************************************************************)
\* What a walk has gone over is the beginning of the text not yet cut.
LEMMA UnreadPrefix ==
  ASSUME ScanIInv, pc = "find", yytext_ptr <= yy_n_chars
  PROVE  /\ Unread \in Seq(Char) /\ Len(Unread) = (yy_n_chars - yytext_ptr) + (Len(text) - fpos)
         /\ \A q \in yytext_ptr..yy_n_chars : yytext(yy_ch_buf, yytext_ptr, q) = SubSeq(Unread, 1, q - yytext_ptr)
<1> DEFINE x == yytext(yy_ch_buf, yytext_ptr, yy_n_chars)
           y == SubSeq(text, fpos + 1, Len(text))
           u == x \o y
<1>1. /\ yytext_ptr \in Nat /\ yy_n_chars \in Nat /\ yy_n_chars <= yy_buf_size /\ yy_buf_size \in Nat
      /\ yy_ch_buf \in [0..(yy_buf_size + 1) -> Char] /\ text \in Seq(Char) /\ fpos \in 0..Len(text)
  BY DEF ScanIInv, ScanTypes
<1>2. Unread = u
  BY UnreadAt, Zenon DEF Unread
<1>3. \A p \in yytext_ptr..(yy_n_chars - 1) : yy_ch_buf[p] \in Char
  BY <1>1
<1>4. /\ x \in Seq(Char) /\ Len(x) = yy_n_chars - yytext_ptr
      /\ \A i \in 1..(yy_n_chars - yytext_ptr) : x[i] = yy_ch_buf[yytext_ptr + i - 1]
  <2>1. x \in Seq(Char) /\ Len(x) = yy_n_chars - yytext_ptr
    BY <1>1, <1>3, TextFacts
  <2>2. \A i \in 1..(yy_n_chars - yytext_ptr) : x[i] = yy_ch_buf[yytext_ptr + i - 1]
    BY DEF yytext
  <2> QED BY <2>1, <2>2
<1>5. y \in Seq(Char) /\ Len(y) = Len(text) - fpos
  BY <1>1
<1> HIDE DEF x, y
<1>6. u \in Seq(Char) /\ Len(u) = Len(x) + Len(y) /\ \A i \in 1..Len(x) : u[i] = x[i]
  <2>1. u \in Seq(Char) /\ Len(u) = Len(x) + Len(y)
    BY <1>4, <1>5, ConcatFacts, Zenon
  <2>2. \A i \in 1..Len(x) : u[i] = x[i]
    BY <1>4, <1>5
  <2> QED BY <2>1, <2>2
<1> HIDE DEF u
<1>7. ASSUME NEW q \in yytext_ptr..yy_n_chars
      PROVE  yytext(yy_ch_buf, yytext_ptr, q) = SubSeq(u, 1, q - yytext_ptr)
  <2> DEFINE w == yytext(yy_ch_buf, yytext_ptr, q)
             l == q - yytext_ptr
             v == SubSeq(u, 1, l)
  <2>1. q \in Nat /\ yytext_ptr <= q /\ l \in Nat /\ l \in 0..Len(x) /\ l <= Len(u) /\ Len(u) \in Nat
    BY <1>1, <1>4, <1>5, <1>6
  <2>2. \A p \in yytext_ptr..(q - 1) : yy_ch_buf[p] \in Char
    BY <1>1, <1>3, <2>1
  <2>3. w \in Seq(Char) /\ Len(w) = l
    BY <1>1, <2>1, <2>2, TextFacts
  <2>4. \A i \in 1..l : w[i] = yy_ch_buf[yytext_ptr + i - 1]
    BY DEF yytext
  <2> HIDE DEF w, l
  <2>5. v \in Seq(Char) /\ Len(v) = l /\ \A i \in 1..l : v[i] = u[i]
    BY <1>6, <2>1
  <2> HIDE DEF v
  <2>6. \A i \in 1..l : w[i] = v[i]
    <3>1. \A i \in 1..l : i \in 1..Len(x) /\ i \in 1..(yy_n_chars - yytext_ptr)
      BY <1>1, <1>4, <2>1
    <3> QED BY <1>4, <1>6, <2>4, <2>5, <3>1, Zenon
  <2>7. w = v
    BY <2>1, <2>3, <2>5, <2>6, SameSeq
  <2> QED BY <2>7 DEF w, v, l
<1> QED
  BY <1>2, <1>4, <1>5, <1>6, <1>7, SMTT(30)

\* The action of a rule cuts the longest match and hands its token over.
LEMMA CutRefines ==
  ASSUME ScanIInv, TextComplete, TextComplete', text' = text, Tracked, Cuts
  PROVE  Tokens!Cut
<1> DEFINE q == Found.cpos
           s == Found.state
           n == q - yytext_ptr
           w == yytext(yy_ch_buf, yytext_ptr, q)
           u == Unread
<1>1. FindAction /\ pc = "find" /\ yy_accept[s + 1] # YY_END_OF_BUFFER /\ ScanIInv
  BY Zenon DEF Cuts, FindAction, ScanIInv
<1>2. /\ Accepts(s) /\ w \in Seq(Char) /\ Tells(s, w) /\ q \in (yytext_ptr + 1)..yy_n_chars
      /\ NoLonger(yy_ch_buf, yytext_ptr, q)
  BY <1>1, FindFacts, Zenon
<1>3. /\ IF RuleToken[yy_accept[s + 1]] = Silent THEN tok' = tok
         ELSE tok' = [type |-> RuleToken[yy_accept[s + 1]], val |-> YylvalOf(RuleToken[yy_accept[s + 1]], w)]
  BY <1>1, Zenon DEF FindAction, Silent
<1>4. yytext_ptr \in Nat /\ yy_n_chars \in Nat /\ text \in Seq(Char) /\ fpos \in 0..Len(text)
  BY DEF ScanIInv, ScanTypes
<1> HIDE DEF q, s
<1>5. q \in Nat /\ yytext_ptr <= yy_n_chars /\ q \in yytext_ptr..yy_n_chars /\ n \in Nat /\ n >= 1 /\ q = yytext_ptr + n
  BY <1>2, <1>4
<1>6. /\ u \in Seq(Char) /\ Len(u) = (yy_n_chars - yytext_ptr) + (Len(text) - fpos)
      /\ \A k \in yytext_ptr..yy_n_chars : yytext(yy_ch_buf, yytext_ptr, k) = SubSeq(u, 1, k - yytext_ptr)
  BY <1>1, <1>5, UnreadPrefix, Zenon
<1>7. w = SubSeq(u, 1, n) /\ n \in 1..Len(u)
  <2>1. w = SubSeq(u, 1, n)
    BY <1>5, <1>6, Zenon
  <2>2. n \in 1..Len(u)
    BY <1>2, <1>4, <1>5, <1>6
  <2> QED BY <2>1, <2>2
<1> HIDE DEF u, w
<1>8. Tokens!Rules(SubSeq(u, 1, n)) # {}
  BY <1>2, <1>7, Zenon DEF Tells
<1>9. ASSUME NEW m \in (n + 1)..Len(u) PROVE Tokens!Rules(SubSeq(u, 1, m)) = {}
  <2>1. PICK e \in q..yy_n_chars :
           /\ \A k \in (q + 1)..e : Tokens!Rules(yytext(yy_ch_buf, yytext_ptr, k)) = {}
           /\ \/ \A v \in Seq(Char) : v # <<>> => Tokens!Rules(yytext(yy_ch_buf, yytext_ptr, e) \o v) = {}
              \/ e = yy_n_chars /\ fpos = Len(text)
    BY <1>2, Zenon DEF NoLonger
  <2> DEFINE a == e - yytext_ptr
  <2>2. /\ m \in Nat /\ e \in Nat /\ e \in yytext_ptr..yy_n_chars /\ a \in Nat /\ a \in 0..Len(u)
        /\ m <= a => yytext_ptr + m \in (q + 1)..e /\ yytext_ptr + m \in yytext_ptr..yy_n_chars
        /\ (yytext_ptr + m) - yytext_ptr = m
        /\ ~(m <= a) => m \in (a + 1)..Len(u) /\ ~(e = yy_n_chars /\ fpos = Len(text))
    BY <1>4, <1>5, <1>6
  <2>3. yytext(yy_ch_buf, yytext_ptr, e) = SubSeq(u, 1, a)
    BY <1>6, <2>2, Zenon
  <2> HIDE DEF a
  <2>4. CASE m <= a
    <3>1. yytext(yy_ch_buf, yytext_ptr, yytext_ptr + m) = SubSeq(u, 1, m)
      BY <1>6, <2>2, <2>4, Zenon
    <3>2. Tokens!Rules(yytext(yy_ch_buf, yytext_ptr, yytext_ptr + m)) = {}
      BY <2>1, <2>2, <2>4, Zenon
    <3> QED BY <3>1, <3>2, Zenon
  <2>5. CASE ~(m <= a)
    <3>1. \A v \in Seq(Char) : v # <<>> => Tokens!Rules(SubSeq(u, 1, a) \o v) = {}
      BY <2>1, <2>2, <2>3, <2>5, Zenon
    <3>2. /\ SubSeq(u, a + 1, m) \in Seq(Char) /\ SubSeq(u, a + 1, m) # <<>>
          /\ SubSeq(u, 1, m) = SubSeq(u, 1, a) \o SubSeq(u, a + 1, m)
      BY <1>6, <2>2, <2>5, PrefixParts, Zenon
    <3> QED BY <3>1, <3>2, Zenon
  <2> QED BY <2>4, <2>5
<1>10. Tokens!Longest(u) = n
  <2> HIDE DEF n
  <2> QED BY <1>6, <1>7, <1>8, <1>9, LongestIs, Zenon
<1>11. Unread' = SubSeq(u, n + 1, Len(u)) /\ Unread' # u
  <2>1. PICK a \in 0..Len(text) : a = Scanned
    BY DEF TextComplete
  <2>2. PICK b \in 0..Len(text) : b = Scanned' /\ b - a = n
    BY <2>1, Zenon DEF Cuts, q
  <2>3. Scanned' = a + n /\ a + n <= Len(text)
    <3> HIDE DEF n
    <3>1. Len(text) \in Nat /\ n \in Nat
      BY <1>4, <1>5
    <3>2. a \in Nat /\ b \in Nat /\ b <= Len(text)
      BY <3>1
    <3>3. b = a + n
      BY <2>2, <3>1, <3>2, Difference, Zenon
    <3> QED BY <2>2, <3>2, <3>3, Zenon
  <2>4. u = SubSeq(text, a + 1, Len(text)) /\ Unread' = SubSeq(text, (a + n) + 1, Len(text))
    BY <2>1, <2>3, Zenon DEF TextComplete, u
  <2>5. Unread' = SubSeq(u, n + 1, Len(u)) /\ Len(u) = Len(text) - a
    <3> HIDE DEF n
    <3> QED BY <1>4, <1>5, <2>3, <2>4, RestOfRest
  <2>6. Len(SubSeq(u, n + 1, Len(u))) # Len(u)
    BY <1>5, <1>6, <1>7
  <2> QED BY <2>5, <2>6, Zenon
<1>12. Len(w) = n /\ u # <<>>
  BY <1>6, <1>7
<1>13. /\ Tokens!Kind(w) \in Tokens!Skipped => tok' = tok
       /\ Tokens!Kind(w) \notin Tokens!Skipped => tok' = Tokens!Token(w)
  BY <1>2, <1>3, TokenIs, Zenon
<1> HIDE DEF n
<1>14. SubSeq(u, 1, Tokens!Longest(u)) = w
  BY <1>7, <1>10, Zenon
<1> QED
  BY <1>11, <1>12, <1>13, <1>14, Zenon DEF Tokens!Cut, u
=============================================================================
