----------------------------- MODULE PolicyText -----------------------------
(***************************************************************************)
(* The characters of a policy file and the tokens the scanner hands to the *)
(* parser.  A character is a one-letter string; "x" stands for the letters *)
(* and "." for the other characters that no rule of poise.l names.  A      *)
(* token has a type and the text of its name or number.                    *)
(***************************************************************************)
EXTENDS Integers, Sequences, Functions, TLC

Digits == <<"0", "1", "2", "3", "4", "5", "6", "7", "8", "9">>
Digit  == Range(Digits)
Letter == {"a", "c", "d", "e", "f", "h", "i", "l", "m", "n", "o", "p", "r", "s", "t", "u", "w", "x"}
NUL    == "NUL"
Mark   == {" ", "\t", "\n", "%", "(", ")", "*", "+", "-", "/", ":", "<", "=", ">", "[", "]", ".", NUL}
Char   == Digit \cup Letter \cup Mark

atoi(w) ==
    LET value[i \in 0..Len(w)] ==
            IF i = 0 THEN 0 ELSE 10 * value[i - 1] + CHOOSE d \in 0..9 : Digits[d + 1] = w[i]
    IN  value[Len(w)]

\* The tokens with one spelling: the token and its letters.
Words ==
    {<<"IF", "i", "f">>, <<"THEN", "t", "h", "e", "n">>, <<"ELSE", "e", "l", "s", "e">>,
     <<"DROP", "d", "r", "o", "p">>, <<"FWD1", "f", "w", "d", "1">>,
     <<"FWD2", "f", "w", "d", "2">>, <<"FWD3", "f", "w", "d", "3">>,
     <<"FWD4", "f", "w", "d", "4">>, <<"FWD5", "f", "w", "d", "5">>,
     <<"FWD6", "f", "w", "d", "6">>, <<"FWD7", "f", "w", "d", "7">>,
     <<"FWD8", "f", "w", "d", "8">>, <<"FWD9", "f", "w", "d", "9">>,
     <<"FWD10", "f", "w", "d", "1", "0">>, <<"FWD11", "f", "w", "d", "1", "1">>,
     <<"FWD12", "f", "w", "d", "1", "2">>, <<"FWD13", "f", "w", "d", "1", "3">>,
     <<"FWD14", "f", "w", "d", "1", "4">>, <<"MATCH", "m", "a", "t", "c", "h">>,
     <<"DEF", "d", "e", "f">>, <<"ASSIGN", ":", "=">>, <<"IN", "i", "n">>,
     <<"NOTIN", "n", "o", "t", "i", "n">>, <<"COUNT", "c", "o", "u", "n", "t">>,
     <<"MONITOR", "m", "o", "n", "i", "t", "o", "r">>, <<"LP", "(">>, <<"RP", ")">>,
     <<"LB", "[">>, <<"RB", "]">>, <<"LT", "<">>, <<"LE", "<", "=">>, <<"GT", ">">>,
     <<"GE", ">", "=">>, <<"EQ", "=", "=">>, <<"AND", "a", "n", "d">>, <<"OR", "o", "r">>,
     <<"NOT", "n", "o", "t">>, <<"PLUS", "+">>, <<"MINUS", "-">>, <<"MULTI", "*">>,
     <<"MOD", "%">>}

Word == {p[1] : p \in Words}
Spelling == [t \in Word |-> Tail(CHOOSE p \in Words : p[1] = t)]

EOF == [type |-> "$end", val |-> <<>>]
=============================================================================
