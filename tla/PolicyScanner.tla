--------------------------- MODULE PolicyScanner ---------------------------
(***************************************************************************)
(* The scanner of the policy compiler (compiler/lex.yy.c): yylex walks the *)
(* tables over a buffer that yy_get_next_buffer fills from the policy file *)
(* in pieces, moving an unfinished token to the front and doubling the     *)
(* buffer when the token fills it.  yy_bp and yytext_ptr are one variable, *)
(* and so are the two copies of yy_n_chars: they differ only where neither *)
(* is read.                                                                *)
(*                                                                         *)
(* Operators marked "Mutant:" state a plausible mistake in the definition  *)
(* after them; they are not part of the specification.                     *)
(***************************************************************************)
EXTENDS PolicyText

CONSTANTS
    YY_BUF_SIZE, YY_READ_BUF_SIZE   \* the first buffer, and the most one read asks for

ASSUME ScannerSizes == YY_BUF_SIZE \in Nat \ {0} /\ YY_READ_BUF_SIZE \in Nat \ {0}

VARIABLES
    text, fpos, feof,               \* the policy file, how much of it was read, its flag
    yy_ch_buf, yy_buf_size, yy_n_chars, yy_buffer_status,
    yy_c_buf_p, yytext_ptr, yy_hold_char,
    yy_cp, match,                   \* the table walk: its state and the last accepting one
    tok,                            \* the token yylex returned
    pc

file_vars == <<text, fpos, feof>>
buf_vars  == <<yy_ch_buf, yy_buf_size, yy_n_chars, yy_buffer_status>>
scan_vars == <<file_vars, buf_vars, yy_c_buf_p, yytext_ptr, yy_hold_char, yy_cp, match, tok, pc>>

-----------------------------------------------------------------------------
(***************************************************************************)
(* The tables.  A table's entry n is number n + 1 of the tuple.            *)
(***************************************************************************)
\* The equivalence classes of characters, from 1 on; NUL has class 0.
Classes ==
    <<{"."}, {" ", "\t"}, {"\n"}, {"%"}, {"("}, {")"}, {"*"}, {"+"}, {"-"}, {"/"}, {"0"}, {"1"}, {"2"},
      {"3"}, {"4"}, {"5"}, {"6"}, {"7"}, {"8"}, {"9"}, {":"}, {"<"}, {"="}, {">"}, {"x"}, {"["}, {"]"},
      {"a"}, {"c"}, {"d"}, {"e"}, {"f"}, {"h"}, {"i"}, {"l"}, {"m"}, {"n"}, {"o"}, {"p"}, {"r"}, {"s"},
      {"t"}, {"u"}, {"w"}>>

yy_ec == [c \in Char |-> IF c = NUL THEN 0 ELSE CHOOSE n \in DOMAIN Classes : c \in Classes[n]]

yy_accept ==
    <<0, 0, 0, 49, 47, 44, 44, 43, 28, 29, 42, 40, 41, 47, 45, 47, 32, 47, 34, 46, 30,
      31, 46, 46, 46, 46, 46, 46, 46, 46, 46, 46, 46, 1, 45, 46, 23, 33, 36, 35, 46,
      46, 46, 46, 46, 46, 2, 24, 46, 46, 46, 46, 38, 46, 1, 37, 46, 21, 46, 46, 46, 46,
      46, 46, 39, 46, 46, 5, 4, 6, 7, 8, 9, 10, 11, 12, 13, 14, 46, 46, 46, 46, 3, 26,
      15, 16, 17, 18, 19, 22, 20, 46, 25, 46, 27, 0>>

yy_meta ==
    <<0, 1, 1, 2, 1, 1, 1, 1, 1, 1, 1, 3, 3, 3, 3, 3, 3, 3, 3, 3, 3, 1, 1, 1, 1, 3, 1,
      1, 3, 3, 3, 3, 3, 3, 3, 3, 3, 3, 3, 3, 3, 3, 3, 3, 3>>

yy_base ==
    <<0, 0, 0, 136, 137, 137, 137, 137, 137, 137, 137, 137, 137, 125, 34, 111, 110,
      109, 108, 0, 137, 137, 93, 91, 24, 93, 83, 24, 92, 29, 87, 84, 90, 0, 57, 0, 137,
      137, 137, 137, 92, 78, 88, 81, 77, 87, 0, 0, 75, 73, 77, 71, 0, 81, 0, 0, 74, 0,
      71, 78, 66, 66, 78, 72, 71, 66, 24, 0, 0, 76, 0, 0, 0, 0, 0, 0, 0, 0, 81, 32, 21,
      25, 0, 0, 0, 0, 0, 0, 0, 0, 0, 22, 0, 19, 0, 137, 55, 101>>

yy_def ==
    <<0, 95, 1, 95, 95, 95, 95, 95, 95, 95, 95, 95, 95, 95, 96, 95, 95, 95, 95, 96, 95,
      95, 96, 96, 96, 96, 96, 96, 96, 96, 96, 96, 96, 97, 96, 96, 95, 95, 95, 95, 96,
      96, 96, 96, 96, 96, 96, 96, 96, 96, 96, 96, 96, 96, 97, 96, 96, 96, 96, 96, 96,
      96, 96, 96, 96, 96, 96, 96, 96, 96, 96, 96, 96, 96, 96, 96, 96, 96, 96, 96, 96,
      96, 96, 96, 96, 96, 96, 96, 96, 96, 96, 96, 96, 96, 96, 0, 95, 95>>

yy_nxt ==
    <<0, 4, 5, 6, 7, 8, 9, 10, 11, 12, 13, 14, 14, 14, 14, 14, 14, 14, 14, 14, 14, 15,
      16, 17, 18, 19, 20, 21, 22, 23, 24, 25, 26, 19, 27, 28, 29, 30, 31, 19, 19, 19,
      32, 19, 19, 34, 34, 34, 34, 34, 34, 34, 34, 34, 34, 42, 46, 49, 35, 94, 93, 47,
      92, 91, 43, 90, 83, 50, 34, 34, 34, 34, 34, 34, 34, 34, 34, 34, 69, 70, 71, 72,
      73, 74, 75, 76, 77, 84, 85, 86, 87, 88, 89, 89, 89, 89, 89, 89, 89, 89, 89, 89,
      54, 82, 54, 81, 80, 79, 78, 68, 67, 66, 65, 64, 63, 62, 61, 60, 59, 58, 57, 56,
      55, 53, 52, 51, 48, 45, 44, 41, 40, 39, 38, 37, 36, 33, 95, 3, 95, 95, 95, 95,
      95, 95, 95, 95, 95, 95, 95, 95, 95, 95, 95, 95, 95, 95, 95, 95, 95, 95, 95, 95,
      95, 95, 95, 95, 95, 95, 95, 95, 95, 95, 95, 95, 95, 95, 95, 95, 95, 95, 95, 95>>

yy_chk ==
    <<0, 1, 1, 1, 1, 1, 1, 1, 1, 1, 1, 1, 1, 1, 1, 1, 1, 1, 1, 1, 1, 1, 1, 1, 1, 1, 1,
      1, 1, 1, 1, 1, 1, 1, 1, 1, 1, 1, 1, 1, 1, 1, 1, 1, 1, 14, 14, 14, 14, 14, 14, 14,
      14, 14, 14, 24, 27, 29, 96, 93, 91, 27, 81, 80, 24, 79, 66, 29, 34, 34, 34, 34,
      34, 34, 34, 34, 34, 34, 60, 60, 60, 60, 60, 60, 60, 60, 60, 69, 69, 69, 69, 69,
      78, 78, 78, 78, 78, 78, 78, 78, 78, 78, 97, 65, 97, 64, 63, 62, 61, 59, 58, 56,
      53, 51, 50, 49, 48, 45, 44, 43, 42, 41, 40, 32, 31, 30, 28, 26, 25, 23, 22, 18,
      17, 16, 15, 13, 3, 95, 95, 95, 95, 95, 95, 95, 95, 95, 95, 95, 95, 95, 95, 95,
      95, 95, 95, 95, 95, 95, 95, 95, 95, 95, 95, 95, 95, 95, 95, 95, 95, 95, 95, 95,
      95, 95, 95, 95, 95, 95, 95, 95, 95, 95>>

YY_END_OF_BUFFER == 49
JAM              == 95
yy_start         == 1

\* One transition: along the default chain, with the meta-classes in the templates.
yy_trans[s \in 0..97, c \in 0..44] ==
    IF yy_chk[yy_base[s + 1] + c + 1] = s THEN yy_nxt[yy_base[s + 1] + c + 1]
    ELSE LET d == yy_def[s + 1] IN yy_trans[d, IF d >= 96 THEN yy_meta[c + 1] ELSE c]

\* The token each rule returns; no token for comments, spaces and others.
RuleToken ==
    <<"", "IF", "THEN", "ELSE", "DROP", "FWD1", "FWD2", "FWD3", "FWD4", "FWD5", "FWD6", "FWD7", "FWD8",
      "FWD9", "FWD10", "FWD11", "FWD12", "FWD13", "FWD14", "MATCH", "DEF", "LISTVAR", "ASSIGN", "IN",
      "NOTIN", "COUNT", "MONITOR", "LP", "RP", "LB", "RB", "LT", "LE", "GT", "GE", "EQ", "AND", "OR",
      "NOT", "PLUS", "MINUS", "MULTI", "MOD", "", "CONST", "VAR", "">>

-----------------------------------------------------------------------------
(***************************************************************************)
(* One call of yylex, from yy_match to the action of the rule.             *)
(***************************************************************************)
StartToken ==
    /\ pc = "start"
    /\ yy_ch_buf' = [yy_ch_buf EXCEPT ![yy_c_buf_p] = yy_hold_char]
    /\ yy_cp' = yy_c_buf_p /\ yytext_ptr' = yy_c_buf_p
    /\ match' = [match EXCEPT !.state = yy_start]
    /\ pc' = "match"
    /\ UNCHANGED <<file_vars, yy_buf_size, yy_n_chars, yy_buffer_status, yy_c_buf_p, yy_hold_char, tok>>

Accepting(m, p) == IF yy_accept[m.state + 1] # 0 THEN [state |-> m.state, cpos |-> p] ELSE m.last

Walk(m, c, p) == [state |-> yy_trans[<<m.state, c>>], last |-> Accepting(m, p)]

MatchChar ==
    /\ pc = "match"
    /\ match' = Walk(match, yy_ec[yy_ch_buf[yy_cp]], yy_cp)
    /\ yy_cp' = yy_cp + 1
    /\ pc' = IF yy_base[match'.state + 1] = 137 THEN "find" ELSE "match"
    /\ UNCHANGED <<file_vars, buf_vars, yy_c_buf_p, yytext_ptr, yy_hold_char, tok>>

yytext(buf, from, to) == [i \in 1..(to - from) |-> buf[from + i - 1]]

YylvalOf(type, w) ==
    CASE type = "CONST" -> <<ToString(atoi(w))>>
      [] type \in {"VAR", "LISTVAR"} -> w
      [] OTHER -> <<>>

\* Where the walk has ended, or else where it last could have.
Found ==
    IF yy_accept[match.state + 1] = 0 THEN match.last ELSE [state |-> match.state, cpos |-> yy_cp]

FindAction ==
    /\ pc = "find"
    /\ LET act == yy_accept[Found.state + 1]
           w   == yytext(yy_ch_buf, yytext_ptr, Found.cpos)
       IN  /\ yy_hold_char' = yy_ch_buf[Found.cpos]
           /\ yy_ch_buf' = [yy_ch_buf EXCEPT ![Found.cpos] = NUL]
           /\ yy_c_buf_p' = Found.cpos /\ yy_cp' = Found.cpos
           /\ IF act = YY_END_OF_BUFFER THEN pc' = "eob" /\ tok' = tok
              ELSE IF RuleToken[act] = "" THEN pc' = "start" /\ tok' = tok
              ELSE pc' = "return" /\ tok' = [type |-> RuleToken[act], val |-> YylvalOf(RuleToken[act], w)]
    /\ UNCHANGED <<file_vars, yy_buf_size, yy_n_chars, yy_buffer_status, yytext_ptr, match>>

-----------------------------------------------------------------------------
(***************************************************************************)
(* The action of the end-of-buffer rule: a NUL of the text, or the end of  *)
(* what was read.                                                          *)
(***************************************************************************)
NumberToMove == yy_c_buf_p - yytext_ptr - 1

Restored == [yy_ch_buf EXCEPT ![yy_cp] = yy_hold_char]

\* Mutant: the match starts again after what was moved.
yy_get_previous_state_start(buf, from, to) == [match EXCEPT !.state = yy_start]

\* The state after the characters from .. to - 1 of the buffer, where a NUL
\* has the class of other characters.
yy_get_previous_state(buf, from, to) ==
    LET walk[p \in from..to] ==
            IF p = from THEN [match EXCEPT !.state = yy_start]
            ELSE Walk(walk[p - 1], IF buf[p - 1] = NUL THEN 1 ELSE yy_ec[buf[p - 1]], p - 1)
    IN  walk[to]

RealNul ==
    /\ pc = "eob" /\ yy_c_buf_p <= yy_n_chars
    /\ LET p    == yytext_ptr + NumberToMove
           prev == yy_get_previous_state(Restored, yytext_ptr, p)
           nul  == Walk(prev, 1, p)
           jam  == nul.state = JAM
       IN  /\ match' = IF jam THEN [nul EXCEPT !.state = prev.state] ELSE nul
           /\ yy_c_buf_p' = IF jam THEN p ELSE p + 1
           /\ yy_cp' = yy_c_buf_p'
           /\ pc' = IF jam THEN "find" ELSE "match"
    /\ yy_ch_buf' = Restored
    /\ yy_buffer_status' = IF yy_buffer_status = "NEW" THEN "NORMAL" ELSE yy_buffer_status
    /\ UNCHANGED <<file_vars, yy_buf_size, yy_n_chars, yytext_ptr, yy_hold_char, tok>>

\* yy_get_next_buffer, first part: the unfinished token moves to the front.
MoveToFront ==
    /\ pc = "eob" /\ yy_c_buf_p > yy_n_chars
    /\ yy_ch_buf' = [i \in DOMAIN yy_ch_buf |->
                        IF i < NumberToMove THEN Restored[yytext_ptr + i] ELSE Restored[i]]
    /\ yytext_ptr' = 0 /\ yy_c_buf_p' = NumberToMove + 1
    /\ yy_buffer_status' = IF yy_buffer_status = "NEW" THEN "NORMAL" ELSE yy_buffer_status
    /\ pc' = "refill"
    /\ UNCHANGED <<file_vars, yy_buf_size, yy_n_chars, yy_hold_char, yy_cp, match, tok>>

\* Mutant: the moved characters are not counted.
NumToReadAll == yy_buf_size - 1

NumToRead == yy_buf_size - NumberToMove - 1

\* Mutant: the new buffer is not larger.
GrownSame == yy_buf_size

Grown == 2 * yy_buf_size

Grow ==
    /\ pc = "refill" /\ yy_buffer_status # "EOF_PENDING" /\ NumToRead <= 0
    /\ yy_buf_size' = Grown
    /\ yy_ch_buf' = [i \in 0..(yy_buf_size' + 1) |->
                        IF i \in DOMAIN yy_ch_buf THEN yy_ch_buf[i] ELSE NUL]
    /\ UNCHANGED <<file_vars, yy_n_chars, yy_buffer_status, yy_c_buf_p, yytext_ptr, yy_hold_char,
                   yy_cp, match, tok, pc>>

\* The buffer with the next k characters of the file after the moved ones, and
\* two end-of-buffer characters.
Filled(k) ==
    [i \in DOMAIN yy_ch_buf |->
        IF i >= NumberToMove /\ i < NumberToMove + k THEN text[fpos + (i - NumberToMove) + 1]
        ELSE IF i \in {NumberToMove + k, NumberToMove + k + 1} THEN NUL ELSE yy_ch_buf[i]]

Least(x, y) == IF x <= y THEN x ELSE y

\* A read gives what was asked for or what is left, or less when a signal
\* interrupts it; only a read that meets the end sets the flag of the file.
ReadMore ==
    /\ pc = "refill" /\ yy_buffer_status # "EOF_PENDING" /\ NumToRead > 0 /\ fpos < Len(text)
    /\ LET asked == Least(NumToRead, YY_READ_BUF_SIZE)
           left  == Len(text) - fpos
       IN  \E k \in 1..Least(asked, left) :
              /\ yy_ch_buf' = Filled(k)
              /\ yy_n_chars' = NumberToMove + k
              /\ fpos' = fpos + k
              /\ feof' \in {FALSE, k = left /\ k < asked}
    /\ yy_c_buf_p' = NumberToMove /\ yy_cp' = NumberToMove
    /\ match' = yy_get_previous_state(yy_ch_buf', 0, NumberToMove)
    /\ pc' = "match"
    /\ UNCHANGED <<text, yy_buf_size, yy_buffer_status, yytext_ptr, yy_hold_char, tok>>

\* Mutant: the flags of the file are cleared after every read.
NothingMoreCleared ==
    \/ yy_buffer_status = "EOF_PENDING" /\ feof' = feof
    \/ yy_buffer_status # "EOF_PENDING" /\ NumToRead > 0 /\ fpos = Len(text) /\ feof' = FALSE

\* The end was met before, or this read meets it.
NothingMore ==
    \/ yy_buffer_status = "EOF_PENDING" /\ feof' = feof
    \/ yy_buffer_status # "EOF_PENDING" /\ NumToRead > 0 /\ fpos = Len(text) /\ feof' = TRUE

\* Nothing more comes: the unfinished token is the last match.
LastMatch ==
    /\ pc = "refill" /\ NumberToMove > 0 /\ NothingMore
    /\ yy_ch_buf' = Filled(0)
    /\ yy_n_chars' = NumberToMove
    /\ yy_buffer_status' = "EOF_PENDING"
    /\ yy_c_buf_p' = NumberToMove /\ yy_cp' = NumberToMove
    /\ match' = yy_get_previous_state(yy_ch_buf', 0, NumberToMove)
    /\ pc' = "find"
    /\ UNCHANGED <<text, fpos, yy_buf_size, yytext_ptr, yy_hold_char, tok>>

\* Nothing more comes and nothing is left: yyrestart, and yylex returns 0.
EndOfFile ==
    /\ pc = "refill" /\ NumberToMove = 0 /\ NothingMore
    /\ yy_ch_buf' = Filled(0)
    /\ yy_n_chars' = 0
    /\ yy_buffer_status' = "NEW"
    /\ yy_c_buf_p' = 0 /\ yy_hold_char' = NUL
    /\ tok' = EOF
    /\ pc' = "return"
    /\ UNCHANGED <<text, fpos, yy_buf_size, yytext_ptr, yy_cp, match>>

\* YY_FATAL_ERROR: no memory to grow, or a read error that is no interruption.
FatalError ==
    /\ pc = "refill" /\ yy_buffer_status # "EOF_PENDING"
    /\ pc' = "fatal"
    /\ UNCHANGED <<file_vars, buf_vars, yy_c_buf_p, yytext_ptr, yy_hold_char, yy_cp, match, tok>>

-----------------------------------------------------------------------------
\* The first call of yylex creates the buffer, empty.
ScanInit ==
    /\ fpos = 0 /\ feof = FALSE
    /\ yy_buf_size = YY_BUF_SIZE
    /\ yy_ch_buf = [i \in 0..(YY_BUF_SIZE + 1) |-> NUL]
    /\ yy_n_chars = 0 /\ yy_buffer_status = "NEW"
    /\ yy_c_buf_p = 0 /\ yytext_ptr = 0 /\ yy_hold_char = NUL
    /\ yy_cp = 0 /\ match = [state |-> yy_start, last |-> [state |-> 0, cpos |-> 0]]
    /\ tok = EOF

ScanNext ==
    \/ StartToken \/ MatchChar \/ FindAction
    \/ RealNul \/ MoveToFront \/ Grow \/ ReadMore \/ LastMatch \/ EndOfFile \/ FatalError

-----------------------------------------------------------------------------
(***************************************************************************)
(* The text not yet cut into tokens: what the buffer holds from the token  *)
(* on, the held character in place, and what was not read.                 *)
(***************************************************************************)
Walking    == pc \in {"match", "find", "refill", "fatal"}
UnreadBuf  == IF Walking THEN yy_ch_buf ELSE [yy_ch_buf EXCEPT ![yy_c_buf_p] = yy_hold_char]
UnreadFrom == IF Walking \/ pc = "eob" THEN yytext_ptr ELSE yy_c_buf_p
UnreadTo   == IF pc \in {"refill", "fatal"} THEN NumberToMove ELSE yy_n_chars

Unread == yytext(UnreadBuf, UnreadFrom, UnreadTo) \o SubSeq(text, fpos + 1, Len(text))

\* What TokenStream calls rest is Unread.
Tokens == INSTANCE TokenStream WITH rest <- Unread, out <- tok

-----------------------------------------------------------------------------
\* The scanner implements TokenStream: however the file arrives in pieces, the
\* buffer moves and grows, and the walk backs up, each rule match cuts the
\* longest prefix and the tokens come out as poise.l says.
ScannerRefines == Tokens!Spec

\* What is read stays in the buffer, which keeps room for two end-of-buffer
\* characters, and yylex never walks past the end ("end of buffer missed").
BufferFits ==
    /\ DOMAIN yy_ch_buf = 0..(yy_buf_size + 1)
    /\ yy_n_chars <= yy_buf_size
    /\ yytext_ptr <= yy_c_buf_p
    /\ pc # "refill" => yy_c_buf_p <= yy_n_chars + 1
    /\ pc = "match" => yy_cp <= yy_n_chars + 1
=============================================================================
