---------------------------- MODULE TokenStream ----------------------------
(***************************************************************************)
(* What the scanner of the policy compiler promises (the rules of          *)
(* compiler/poise.l): the text of a policy file is cut from left to right, *)
(* each time into the longest prefix that a rule matches, the earlier rule *)
(* winning a tie; comments, white space and other characters yield no      *)
(* token.  How the file arrives in memory plays no part.                   *)
(***************************************************************************)
EXTENDS PolicyText

VARIABLES
    rest,               \* the text not yet cut
    out                 \* the last token handed over

-----------------------------------------------------------------------------
Rule == Word \cup {"COMMENT", "LISTVAR", "SPACE", "CONST", "VAR", "OTHER"}
Skipped == {"COMMENT", "SPACE", "OTHER"}

Matches(r, w) ==
    CASE r \in Word     -> w = Spelling[r]
      [] r = "COMMENT" -> Len(w) >= 2 /\ w[1] = "/" /\ w[2] = "/" /\ "\n" \notin Range(w)
      [] r = "LISTVAR" -> \E d \in Digit : w = <<"l", "i", "s", "t", d>>
      [] r = "SPACE"   -> w \in {<<" ">>, <<"\t">>, <<"\n">>}
      [] r = "CONST"   -> Range(w) \subseteq Digit
      [] r = "VAR"     -> Range(w) \subseteq Digit \cup Letter
      [] r = "OTHER"   -> Len(w) = 1 /\ w # <<"\n">>

Rules(w) == {r \in Rule : Matches(r, w)}

\* Of the rules that match the same text, those for names and for any other
\* character come last.
Kind(w) ==
    LET first == Rules(w) \ {"VAR", "OTHER"}
    IN  IF first # {} THEN CHOOSE r \in first : TRUE
        ELSE IF "VAR" \in Rules(w) THEN "VAR" ELSE "OTHER"

Token(w) ==
    [type |-> Kind(w),
     val  |-> CASE Kind(w) = "CONST" -> <<ToString(atoi(w))>>
                [] Kind(w) \in {"VAR", "LISTVAR"} -> w
                [] OTHER -> <<>>]

-----------------------------------------------------------------------------
Longest(s) ==
    CHOOSE n \in 1..Len(s) : /\ Rules(SubSeq(s, 1, n)) # {}
                             /\ \A m \in (n + 1)..Len(s) : Rules(SubSeq(s, 1, m)) = {}

Cut ==
    /\ rest # <<>> /\ rest' # rest
    /\ LET w == SubSeq(rest, 1, Longest(rest))
       IN  /\ rest' = SubSeq(rest, Len(w) + 1, Len(rest))
           /\ out' = IF Kind(w) \in Skipped THEN out ELSE Token(w)

End == rest = <<>> /\ out' = EOF /\ UNCHANGED rest

Next == Cut \/ End

Init == rest \in Seq(Char) /\ out = EOF

Spec == Init /\ [][Next]_<<rest, out>>
=============================================================================
