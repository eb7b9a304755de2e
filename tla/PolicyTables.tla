---------------------------- MODULE PolicyTables ----------------------------
(***************************************************************************)
(* The same for the tables of the parser (see ScannerTables).              *)
(***************************************************************************)
EXTENDS PolicyParser, ScannerTables

(***************************************************************************)
(* The parser.  Edge has the transitions of the LR automaton: those the    *)
(* tables shift along, and those they take after a reduction.              *)
(***************************************************************************)
PState   == 0..90
Terminal == 0..(YYNTOKENS - 1)

ShiftsOn(p, t) ==
    /\ yypact[p + 1] # YYPACT_NINF
    /\ 0 <= yypact[p + 1] + t /\ yypact[p + 1] + t <= YYLAST
    /\ yycheck[yypact[p + 1] + t + 1] = t

ShiftEdge ==
    UNION {{<<p, yytable[yypact[p + 1] + t + 1]>> : t \in {u \in Terminal : ShiftsOn(p, u)}} : p \in PState}

GotoEdge ==
    {<<0, 4>>, <<0, 5>>, <<0, 6>>, <<1, 8>>, <<5, 12>>, <<13, 20>>, <<13, 21>>, <<13, 22>>, <<14, 38>>,
     <<14, 39>>, <<15, 41>>, <<19, 22>>, <<19, 58>>, <<19, 59>>, <<19, 60>>, <<22, 22>>, <<22, 58>>,
     <<22, 63>>, <<22, 64>>, <<40, 67>>, <<42, 69>>, <<43, 70>>, <<54, 22>>, <<54, 71>>, <<57, 22>>,
     <<57, 58>>, <<57, 59>>, <<57, 60>>, <<58, 77>>, <<65, 84>>, <<77, 22>>, <<77, 90>>}

Edge == ShiftEdge \cup GotoEdge

Before(S) == {p \in PState : \E s \in S : <<p, s>> \in Edge}

\* The states that can be k below s on the stack.
Below(s, k) ==
    LET b1 == Before({s}) b2 == Before(b1) b3 == Before(b2) b4 == Before(b3) b5 == Before(b4) b6 == Before(b5)
    IN  <<{s}, b1, b2, b3, b4, b5, b6>>[k + 1]

Symbol(s) == yytname[yystos[s + 1] + 1]

ASSUME TokenFacts == \A type \in TokenType : YYTRANSLATE(type) \in Terminal
ASSUME EndFacts   == \A type \in TokenType : YYTRANSLATE(type) = 0 => type = EOF.type

ASSUME ShiftFacts ==
    /\ \A p \in PState, t \in Terminal : ShiftsOn(p, t) =>
           LET s == yytable[yypact[p + 1] + t + 1]
           IN  s \in PState /\ <<p, s>> \in Edge /\ (s = YYFINAL => t = 0)
    /\ \A e \in Edge : e[1] \in PState /\ e[2] \in PState \ {0}

\* Where a state reduces by a rule, the states below it spell the rule's right
\* side, and what is uncovered has a transition on its left side.
ASSUME ReduceFacts ==
    \A s \in PState \ {YYFINAL} :
        LET r == yydefact[s + 1]
            n == yyr2[r + 1]
        IN  r # 0 =>
               /\ r \in DOMAIN RightSide /\ n \in 1..6
               /\ n = Len(RightSide[r]) /\ DOMAIN RightSide[r] = 1..n
               /\ \A k \in 0..(n - 1) : \A p \in Below(s, k) : p # 0 /\ Symbol(p) = RightSide[r][n - k]
               /\ \A p \in Below(s, n) : yygoto(r, p) # YYFINAL /\ <<p, yygoto(r, p)>> \in Edge
=============================================================================
