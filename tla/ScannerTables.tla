---------------------------- MODULE ScannerTables ----------------------------
(***************************************************************************)
(* What the generated tables of the policy compiler's scanner have in      *)
(* common with the automaton they encode.  Each fact is a closed formula   *)
(* over the tables, which TLC decides by evaluating it; the proofs use the *)
(* facts and never look into a table.                                      *)
(***************************************************************************)
EXTENDS PolicyScanner

(***************************************************************************)
(* The scanner.  The walk is in a state of DState; NulSeen is the state    *)
(* after an end-of-buffer character, and from it every walk jams.          *)
(***************************************************************************)
DState  == 1..JAM
Class   == 0..44
NulSeen == 3

Stops(s)   == yy_base[s + 1] = 137
Accepts(s) == yy_accept[s + 1] # 0

ASSUME ClassFacts ==
    /\ \A c \in Char \ {NUL} : yy_ec[c] \in Class \ {0}
    /\ yy_ec[NUL] = 0

ASSUME WalkFacts ==
    /\ \A s \in DState, c \in Class : yy_trans[<<s, c>>] \in DState \ {yy_start}
    /\ \A s \in DState \ {NulSeen} : yy_trans[<<s, 0>>] = NulSeen
    /\ \A c \in Class : yy_trans[<<NulSeen, c>>] = JAM
    /\ \A s \in DState, c \in Class \ {0} : yy_trans[<<s, c>>] # NulSeen
    /\ \A c \in Class : Accepts(yy_trans[<<yy_start, c>>])
    /\ yy_trans[<<yy_start, 1>>] # JAM

ASSUME AcceptFacts ==
    /\ ~Stops(NulSeen) /\ Stops(JAM) /\ ~Accepts(JAM) /\ ~Accepts(yy_start)
    /\ yy_accept[NulSeen + 1] = YY_END_OF_BUFFER
    /\ \A s \in 0..JAM : Accepts(s) => \/ s = NulSeen
                                       \/ yy_accept[s + 1] \in DOMAIN RuleToken

\* What yylex returns; a rule that returns nothing is silent, and none returns
\* the end of the file.
Silent    == ""
TokenType == {EOF.type} \cup (Range(RuleToken) \ {Silent})

ASSUME EndToken == EOF.type \notin Range(RuleToken)

-----------------------------------------------------------------------------
(***************************************************************************)
(* The texts that lead to a state.  Those that begin a word, and the       *)
(* single marks, have a state of their own (At); all numbers share some    *)
(* states, and so do all other names and all comments.                     *)
(***************************************************************************)
TextClass(c) == IF c = NUL THEN 1 ELSE yy_ec[c]
Alnum        == Digit \cup Letter

Fixed == {Spelling[t] : t \in Word} \cup {<<"l", "i", "s", "t", d>> : d \in Digit} \cup {<<c>> : c \in Mark}
Known == UNION {{SubSeq(v, 1, n) : n \in 0..Len(v)} : v \in Fixed}

At[v \in Known] ==
    IF v = <<>> THEN yy_start ELSE yy_trans[<<At[SubSeq(v, 1, Len(v) - 1)], TextClass(v[Len(v)])>>]

NumberStates  == {14, 34}
NameStates    == {19, 35}
CommentStates == {33, 54}

\* The rule of a state is the one for the text w.
Tells(s, w) ==
    /\ Accepts(s) <=> Tokens!Rules(w) # {}
    /\ Accepts(s) => /\ yy_accept[s + 1] # YY_END_OF_BUFFER
                     /\ RuleToken[yy_accept[s + 1]] = IF Tokens!Kind(w) \in Tokens!Skipped THEN Silent ELSE Tokens!Kind(w)

ASSUME FixedFacts ==
    /\ \A v \in Fixed : v \in Known /\ v \in Seq(Char) /\ v # <<>>
    /\ \A v \in Known : \A n \in 0..Len(v) : SubSeq(v, 1, n) \in Known
    /\ <<>> \in Known /\ At[<<>>] = yy_start
    /\ \A v \in Known : v # <<>> => ~(Range(v) \subseteq Digit)
    /\ \A v \in Known : Len(v) >= 2 => v[1] # "/"
    /\ Mark \cap Alnum = {} /\ Digit \cap Letter = {} /\ {"/", "\n"} \subseteq Mark
    /\ \A t \in Word : t \notin {"COMMENT", "LISTVAR", "SPACE", "CONST", "VAR", "OTHER"}
    /\ Silent \notin Word \cup {"COMMENT", "LISTVAR", "SPACE", "CONST", "VAR", "OTHER"}

\* One more character leads to the state of the longer text.
ASSUME KnownFacts ==
    \A v \in Known, c \in Char :
        LET u == Append(v, c)
            s == yy_trans[<<At[v], TextClass(c)>>]
        IN  IF u \in Known THEN s = At[u]
            ELSE \/ Range(u) \subseteq Digit /\ s \in NumberStates
                 \/ Range(u) \subseteq Alnum /\ ~(Range(u) \subseteq Digit) /\ s \in NameStates
                 \/ u = <<"/", "/">> /\ s \in CommentStates
                 \/ ~(Range(u) \subseteq Alnum) /\ u # <<"/", "/">> /\ Len(u) >= 2 /\ s = JAM

ASSUME KnownRules ==
    \A v \in Known \ {<<>>} :
        /\ At[v] \in DState \ {JAM, NulSeen} /\ Tells(At[v], v)
        /\ Stops(At[v]) => \A c \in Char : yy_trans[<<At[v], TextClass(c)>>] = JAM

ASSUME LoopFacts ==
    /\ \A s \in NumberStates : /\ \A c \in Digit : yy_trans[<<s, TextClass(c)>>] \in NumberStates
                               /\ \A c \in Letter : yy_trans[<<s, TextClass(c)>>] \in NameStates
                               /\ \A c \in Mark : yy_trans[<<s, TextClass(c)>>] = JAM
    /\ \A s \in NameStates : /\ \A c \in Alnum : yy_trans[<<s, TextClass(c)>>] \in NameStates
                             /\ \A c \in Mark : yy_trans[<<s, TextClass(c)>>] = JAM
    /\ \A s \in CommentStates : /\ \A c \in Char \ {"\n"} : yy_trans[<<s, TextClass(c)>>] \in CommentStates
                                /\ yy_trans[<<s, TextClass("\n")>>] = JAM
    /\ \A c \in Char : yy_trans[<<JAM, TextClass(c)>>] = JAM
    /\ \A s \in NumberStates \cup NameStates \cup CommentStates :
          s # NulSeen /\ ~Stops(s) /\ Accepts(s) /\ yy_accept[s + 1] # YY_END_OF_BUFFER
    /\ \A s \in NumberStates : RuleToken[yy_accept[s + 1]] = "CONST"
    /\ \A s \in NameStates : RuleToken[yy_accept[s + 1]] = "VAR"
    /\ \A s \in CommentStates : RuleToken[yy_accept[s + 1]] = Silent
==============================================================================
