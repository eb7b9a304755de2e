---------------------------- MODULE PolicyParser ----------------------------
(***************************************************************************)
(* The parser of the policy compiler (compiler/poise.tab.c) on top of its  *)
(* scanner: main calls yyparse until the end of the policy file; yyparse   *)
(* walks the LALR tables over its two stacks, which it doubles up to       *)
(* YYMAXDEPTH, and the action of each rule changes the globals that        *)
(* collect the program.  yyerror ends the compiler, so the error recovery  *)
(* after it is never entered.  NULL pointers are empty sequences.          *)
(*                                                                         *)
(* Operators marked "Mutant:" state a plausible mistake in the definition  *)
(* after them; they are not part of the specification.                     *)
(***************************************************************************)
EXTENDS PolicyScanner

CONSTANTS
    Sources,                    \* policy files, and the programs written in them
    YYINITDEPTH, YYMAXDEPTH     \* the first and the largest parser stack

ASSUME SourceTexts == \A s \in Sources : s.text \in Seq(Char)
ASSUME StackDepths == YYINITDEPTH \in Nat /\ YYMAXDEPTH \in Nat /\ 1 < YYINITDEPTH /\ YYINITDEPTH <= YYMAXDEPTH

VARIABLES
    program,                    \* the statements of the policy file, <<>> if it is any text
    yyss, yyvs, yystacksize,    \* the state and value stacks
    yychar,                     \* the lookahead: <<>> (YYEMPTY) or one token
    ast                         \* the globals the actions change

parse_vars == <<program, yyss, yyvs, yystacksize, yychar, ast>>
vars       == <<scan_vars, parse_vars>>

-----------------------------------------------------------------------------
(***************************************************************************)
(* The tables.  A table's entry n is number n + 1 of the tuple.            *)
(***************************************************************************)
ActionName ==
    <<"DROP", "FWD1", "FWD2", "FWD3", "FWD4", "FWD5", "FWD6", "FWD7", "FWD8", "FWD9", "FWD10", "FWD11",
      "FWD12", "FWD13", "FWD14">>

yytname ==
    <<"$end", "error", "$undefined", "IF", "THEN", "ELSE", "MATCH", "COUNT", "MONITOR">> \o ActionName
    \o <<"LP", "RP", "LB", "RB", "LT", "GT", "GE", "LE", "EQ", "PLUS", "MINUS", "MULTI", "MOD", "AND",
         "OR", "NOT", "ASSIGN", "DEF", "IN", "NOTIN", "LISTVAR", "CONST", "VAR", "$accept", "poise",
         "statements", "matchexpr", "statement", "listbody", "listcontent", "action", "listexpr",
         "binaryexpr", "arithexpr", "arithop", "binaryop", "boolop">>

YYTRANSLATE(type) == (CHOOSE n \in DOMAIN yytname : yytname[n] = type) - 1

YYFINAL     == 11
YYLAST      == 110
YYNTOKENS   == 47
YYPACT_NINF == -42

yypact ==
    <<-1, 30, -41, 7, 38, -1, -42, 43, 87, 52, 16, -42, -42, -40, -2, 67, 70, 71, -42,
      23, 72, 73, -3, -42, -42, -42, -42, -42, -42, -42, -42, -42, -42, -42, -42, -42,
      -42, -42, -42, 91, 54, -42, 55, 55, -42, -42, -42, -42, -42, -42, -42, -42, -42,
      -42, -11, 56, 58, -3, 24, 57, 4, -42, -42, 40, 59, 61, -42, -23, 45, 80, 81, 82,
      -42, -42, -42, -42, -42, -11, -42, -42, -42, -42, -42, -42, -42, -42, -42, -42,
      -42, -42, -42>>

yydefact ==
    <<0, 0, 0, 0, 0, 2, 4, 0, 0, 0, 0, 1, 3, 0, 0, 0, 0, 0, 41, 0, 0, 0, 0, 18, 19, 20,
      21, 22, 23, 24, 25, 26, 27, 28, 29, 30, 31, 32, 11, 9, 0, 14, 0, 0, 7, 47, 46,
      49, 48, 50, 42, 43, 44, 45, 0, 0, 0, 0, 0, 0, 0, 6, 5, 0, 0, 0, 16, 0, 0, 0, 0,
      0, 33, 34, 52, 53, 54, 0, 38, 35, 36, 40, 39, 37, 10, 15, 17, 12, 13, 8, 51>>

yypgoto ==
    <<-42, -42, -42, -42, 32, -42, -42, 44, 47, -13, -42, 86, 88, -42>>

yydefgoto ==
    <<-1, 4, 5, 8, 6, 41, 67, 39, 20, 58, 22, 59, 60, 77>>

yytable ==
    <<21, 1, 1, 9, 85, 18, 19, 23, 24, 25, 26, 27, 28, 29, 30, 31, 32, 33, 34, 35, 36,
      37, 86, 16, 17, 45, 46, 47, 48, 49, 50, 51, 52, 53, 18, 57, 7, 12, 11, 2, 2, 71,
      18, 57, 3, 3, 38, 10, 44, 79, 80, 45, 46, 47, 48, 49, 50, 51, 52, 53, 54, 74, 75,
      76, 90, 55, 56, 13, 18, 57, 23, 24, 25, 26, 27, 28, 29, 30, 31, 32, 33, 34, 35,
      36, 37, 81, 82, 55, 56, 69, 70, 14, 15, 40, 42, 43, 65, 61, 62, 66, 72, 68, 73,
      78, 83, 87, 88, 89, 63, 84, 64>>

yycheck ==
    <<13, 3, 3, 44, 27, 45, 46, 9, 10, 11, 12, 13, 14, 15, 16, 17, 18, 19, 20, 21, 22,
      23, 45, 7, 8, 28, 29, 30, 31, 32, 33, 34, 35, 36, 45, 46, 6, 5, 0, 41, 41, 54,
      45, 46, 46, 46, 14, 40, 25, 45, 46, 28, 29, 30, 31, 32, 33, 34, 35, 36, 37, 37,
      38, 39, 77, 42, 43, 24, 45, 46, 9, 10, 11, 12, 13, 14, 15, 16, 17, 18, 19, 20,
      21, 22, 23, 45, 46, 42, 43, 42, 43, 4, 40, 26, 24, 24, 5, 25, 25, 45, 44, 46, 44,
      46, 45, 25, 25, 25, 22, 65, 22>>

yystos ==
    <<0, 3, 41, 46, 48, 49, 51, 6, 50, 44, 40, 0, 51, 24, 4, 40, 7, 8, 45, 46, 55, 56,
      57, 9, 10, 11, 12, 13, 14, 15, 16, 17, 18, 19, 20, 21, 22, 23, 51, 54, 26, 52,
      24, 24, 25, 28, 29, 30, 31, 32, 33, 34, 35, 36, 37, 42, 43, 46, 56, 58, 59, 25,
      25, 58, 59, 5, 45, 53, 46, 55, 55, 56, 44, 44, 37, 38, 39, 60, 46, 45, 46, 45,
      46, 45, 54, 27, 45, 25, 25, 25, 56>>

yyr1 ==
    <<0, 47, 48, 49, 49, 50, 50, 50, 50, 51, 51, 51, 51, 51, 51, 52, 53, 53, 54, 54,
      54, 54, 54, 54, 54, 54, 54, 54, 54, 54, 54, 54, 54, 55, 55, 56, 56, 56, 57, 57,
      57, 57, 58, 58, 58, 58, 59, 59, 59, 59, 59, 59, 60, 60, 60>>

yyr2 ==
    <<0, 2, 1, 2, 1, 4, 4, 4, 6, 4, 6, 4, 6, 6, 4, 3, 1, 2, 1, 1, 1, 1, 1, 1, 1, 1, 1,
      1, 1, 1, 1, 1, 1, 3, 3, 3, 3, 3, 3, 3, 3, 1, 1, 1, 1, 1, 1, 1, 1, 1, 1, 3, 1, 1,
      1>>

-----------------------------------------------------------------------------
(***************************************************************************)
(* The actions of the rules.  d holds the values $1, $2, ... of the right  *)
(* side; stop tells how the process ended if the action ended it.          *)
(***************************************************************************)
NULL == <<>>

Top(stack)    == stack[Len(stack)]
Popped(stack) == SubSeq(stack, 1, Len(stack) - 1)

EmptyAst ==
    [lp |-> NULL, bp |-> NULL, thebinaryop |-> "", ae_stack |-> <<>>, ao |-> "", action_v |-> <<>>,
     list_items |-> <<>>, listexpr_v |-> <<>>, matchexpr_v |-> <<>>, monitor_v |-> <<>>,
     header_v |-> <<>>, stop |-> ""]

IsName(letter, w)  == w # <<>> /\ w[1] = letter /\ Range(Tail(w)) \subseteq Digit
is_header_name(w)  == IsName("h", w)
is_monitor_name(w) == IsName("m", w)

assert(cond, a) == IF cond THEN a ELSE [a EXCEPT !.stop = "assert"]

MatchExpr(type, pred, mvar) == [type |-> type, pred |-> pred, mvar |-> mvar, acts |-> <<>>]
add_matchexpr(me)           == [ast EXCEPT !.matchexpr_v = Append(@, me)]

matchexpr(n, d) ==
    CASE n = 5 -> assert(ast.bp # NULL, [add_matchexpr(MatchExpr("PRED", ast.bp, NULL)) EXCEPT !.bp = NULL])
      [] n = 6 -> assert(ast.lp # NULL, [add_matchexpr(MatchExpr("LIST", ast.lp, NULL)) EXCEPT !.lp = NULL])
      [] n = 7 -> assert(is_monitor_name(d[3]), add_matchexpr(MatchExpr("MONITOR", NULL, d[3])))
      [] n = 8 -> assert(ast.bp # NULL /\ is_monitor_name(d[3]),
                         [add_matchexpr(MatchExpr("MONITOR", ast.bp, d[3])) EXCEPT !.bp = NULL])

\* Mutant: the actions of a statement stay for the next one.
NoActionsKept == ast.action_v

\* The list of actions for the next statement.
NoActions == <<>>

if_then_else ==
    LET last == Len(ast.matchexpr_v)
    IN  assert(last > 0 /\ ast.matchexpr_v[last].acts = <<>>,
               [ast EXCEPT !.matchexpr_v[last].acts = <<ast.action_v[1], ast.action_v[2]>>,
                           !.action_v = NoActions])

statement(n, d) ==
    CASE n \in {9, 11} -> ast
      [] n = 10 -> if_then_else
      [] n = 12 -> assert(FALSE, ast)
      [] n = 13 -> assert(~is_header_name(d[1]),
                          [ast EXCEPT !.monitor_v = Append(@, [mvar |-> d[1], lp |-> ast.lp])])
      [] n = 14 -> [ast EXCEPT !.listexpr_v = Append(@, [name |-> d[2], items |-> ast.list_items]),
                               !.list_items = <<>>]

listcontent(d) == [ast EXCEPT !.list_items = Append(@, Top(d))]

action(n) == [ast EXCEPT !.action_v = Append(@, ActionName[n - 17])]

listexpr(n, d) ==
    assert(is_header_name(d[1]),
           [ast EXCEPT !.lp = <<d[1], IF n = 33 THEN "in" ELSE "notin", d[3]>>,
                       !.header_v = Append(@, d[1])])

\* ArithExpr::stringify: the left side of a longer expression is not in it.
stringify(ae) == ae.lhs_str \o <<" ", ae.op, " ">> \o ae.rhs

undefined == [ast EXCEPT !.stop = "undefined"]

binaryexpr(n, d) ==
    LET bp(lhs) == <<lhs, ast.thebinaryop, d[3]>> IN
    CASE n = 35 -> assert(is_header_name(d[1]) \/ is_monitor_name(d[1]),
                          [ast EXCEPT !.bp = bp(d[1]), !.header_v = Append(@, d[1])])
      [] n = 36 -> assert(is_header_name(d[1]) /\ is_header_name(d[3]),
                          [ast EXCEPT !.bp = bp(d[1]), !.header_v = @ \o <<d[1], d[3]>>])
      [] n = 37 -> IF ast.ae_stack = <<>> THEN undefined
                   ELSE [ast EXCEPT !.bp = bp(stringify(Top(ast.ae_stack))), !.ae_stack = Popped(@)]

ArithExpr(lhs_str, rhs) == [lhs_str |-> lhs_str, op |-> ast.ao, rhs |-> rhs]

arithexpr(n, d) ==
    CASE n = 38 -> assert(is_header_name(d[1]) /\ is_header_name(d[3]),
                          [ast EXCEPT !.ae_stack = Append(@, ArithExpr(d[1], d[3])),
                                      !.header_v = @ \o <<d[1], d[3]>>])
      [] n \in {39, 40} ->
             IF ast.ae_stack = <<>> THEN undefined
             ELSE assert(n = 40 \/ is_header_name(d[3]),
                         [ast EXCEPT !.ae_stack = Append(Popped(@), ArithExpr(<<>>, d[3])),
                                     !.header_v = IF n = 39 THEN Append(@, d[3]) ELSE @])

Reduced(n, d) ==
    CASE n \in 5..8   -> matchexpr(n, d)
      [] n \in 9..14  -> statement(n, d)
      [] n \in 16..17 -> listcontent(d)
      [] n \in 18..32 -> action(n)
      [] n \in 33..34 -> listexpr(n, d)
      [] n \in 35..37 -> binaryexpr(n, d)
      [] n \in 38..40 -> arithexpr(n, d)
      [] n \in 42..45 -> [ast EXCEPT !.ao = <<"+", "-", "*", "%">>[n - 41]]
      [] n \in 46..50 -> [ast EXCEPT !.thebinaryop = <<">", "<", "<=", ">=", "==">>[n - 45]]
      [] OTHER -> ast

-----------------------------------------------------------------------------
(***************************************************************************)
(* yyparse.                                                                *)
(***************************************************************************)
yystate == Top(yyss)

\* The decision of yybackup: shift to a state, or reduce by a rule (0: error).
IsDefault == yypact[yystate + 1] = YYPACT_NINF
Lookup    == yypact[yystate + 1] + YYTRANSLATE(yychar[1].type)

\* Mutant: the entry of the table is taken without yycheck's word that it is
\* one of this state.
ShiftsUnchecked == ~IsDefault /\ 0 <= Lookup /\ Lookup <= YYLAST

Shifts    == /\ ~IsDefault /\ 0 <= Lookup /\ Lookup <= YYLAST
             /\ yycheck[Lookup + 1] = YYTRANSLATE(yychar[1].type)
Decided   == pc = "parse" /\ (IsDefault \/ yychar # <<>>)
Rule      == yydefact[yystate + 1]

\* Mutant: the stack grows beyond its largest size.
LargerUnbounded == 2 * yystacksize

Larger == Least(2 * yystacksize, YYMAXDEPTH)

\* yynewstate: push st; a full stack doubles, but not beyond YYMAXDEPTH.
yynewstate(ss, vs, st) ==
    /\ yyss' = Append(ss, st) /\ yyvs' = vs
    /\ LET full == Len(yyss') >= yystacksize
       IN  /\ yystacksize' = IF full THEN Larger ELSE yystacksize
           /\ \/ /\ ~(full /\ yystacksize = YYMAXDEPTH)
                 /\ pc' = IF st = YYFINAL THEN "main" ELSE "parse"
              \/ full /\ pc' = "exhausted"

CallLex ==
    /\ pc = "parse" /\ ~Decided
    /\ pc' = "start"
    /\ UNCHANGED <<file_vars, buf_vars, yy_c_buf_p, yytext_ptr, yy_hold_char, yy_cp, match, tok, parse_vars>>

LexReturns ==
    /\ pc = "return"
    /\ yychar' = <<tok>>
    /\ pc' = "parse"
    /\ UNCHANGED <<file_vars, buf_vars, yy_c_buf_p, yytext_ptr, yy_hold_char, yy_cp, match, tok,
                   program, yyss, yyvs, yystacksize, ast>>

still == <<file_vars, buf_vars, yy_c_buf_p, yytext_ptr, yy_hold_char, yy_cp, match, tok, program>>

Shift ==
    /\ Decided /\ Shifts
    /\ yynewstate(yyss, Append(yyvs, yychar[1].val), yytable[Lookup + 1])
    /\ yychar' = <<>>
    /\ UNCHANGED <<still, ast>>

yygoto(n, top) ==
    LET i == yyr1[n + 1] - YYNTOKENS + 1
        k == yypgoto[i] + top
    IN  IF 0 <= k /\ k <= YYLAST /\ yycheck[k + 1] = top THEN yytable[k + 1] ELSE yydefgoto[i]

Reduce ==
    /\ Decided /\ ~Shifts /\ Rule # 0
    /\ LET len  == yyr2[Rule + 1]
           d    == SubSeq(yyvs, Len(yyvs) - len + 1, Len(yyvs))
           ss   == SubSeq(yyss, 1, Len(yyss) - len)
           vs   == SubSeq(yyvs, 1, Len(yyvs) - len)
       IN  /\ ast' = Reduced(Rule, d)
           /\ IF ast'.stop = "" THEN yynewstate(ss, Append(vs, d[1]), yygoto(Rule, Top(ss)))
              ELSE pc' = ast'.stop /\ UNCHANGED <<yyss, yyvs, yystacksize>>
    /\ UNCHANGED <<still, yychar>>

SyntaxError ==
    /\ Decided /\ ~Shifts /\ Rule = 0
    /\ pc' = "syntax error"
    /\ UNCHANGED <<still, yyss, yyvs, yystacksize, yychar, ast>>

\* main: the next yyparse, or the code generator.
Main ==
    /\ pc = "main"
    /\ pc' = IF feof THEN "compile" ELSE "parse"
    /\ yyss' = <<0>> /\ yyvs' = <<NULL>> /\ yystacksize' = YYINITDEPTH /\ yychar' = <<>>
    /\ UNCHANGED <<still, ast>>

-----------------------------------------------------------------------------
Init ==
    /\ \E s \in Sources : text = s.text /\ program = s.program
    /\ ScanInit
    /\ yyss = <<0>> /\ yyvs = <<NULL>> /\ yystacksize = YYINITDEPTH /\ yychar = <<>>
    /\ ast = EmptyAst
    /\ pc = "parse"

Next ==
    \/ (ScanNext /\ UNCHANGED parse_vars)
    \/ CallLex \/ LexReturns \/ Shift \/ Reduce \/ SyntaxError \/ Main

\* The compiler is one thread that runs unless a call it makes fails: that it
\* ends must not depend on a failure.
Working == Next /\ pc' # "fatal"

Spec == Init /\ [][Next]_vars /\ WF_vars(Working)

-----------------------------------------------------------------------------
(***************************************************************************)
(* The grammar of poise.y: the right side of each rule.                    *)
(***************************************************************************)
RightSide ==
    <<<<"poise", "$end">>, <<"statements">>, <<"statements", "statement">>, <<"statement">>,
      <<"MATCH", "LP", "binaryexpr", "RP">>, <<"MATCH", "LP", "listexpr", "RP">>,
      <<"MATCH", "LP", "VAR", "RP">>, <<"MATCH", "LP", "VAR", "AND", "binaryexpr", "RP">>,
      <<"IF", "matchexpr", "THEN", "action">>, <<"IF", "matchexpr", "THEN", "action", "ELSE", "action">>,
      <<"IF", "matchexpr", "THEN", "statement">>, <<"VAR", "ASSIGN", "COUNT", "LP", "listexpr", "RP">>,
      <<"VAR", "ASSIGN", "MONITOR", "LP", "listexpr", "RP">>, <<"DEF", "LISTVAR", "ASSIGN", "listbody">>,
      <<"LB", "listcontent", "RB">>, <<"CONST">>, <<"listcontent", "CONST">>>>
    \o [n \in 1..15 |-> <<ActionName[n]>>]
    \o <<<<"VAR", "IN", "LISTVAR">>, <<"VAR", "NOTIN", "LISTVAR">>, <<"VAR", "binaryop", "CONST">>,
         <<"VAR", "binaryop", "VAR">>, <<"arithexpr", "binaryop", "CONST">>, <<"VAR", "arithop", "VAR">>,
         <<"arithexpr", "arithop", "VAR">>, <<"arithexpr", "arithop", "CONST">>, <<"CONST">>, <<"PLUS">>,
         <<"MINUS">>, <<"MULTI">>, <<"MOD">>, <<"GT">>, <<"LT">>, <<"LE">>, <<"GE">>, <<"EQ">>,
         <<"binaryexpr", "boolop", "binaryexpr">>, <<"AND">>, <<"OR">>, <<"NOT">>>>

Running == pc \in {"start", "match", "find", "eob", "refill", "return", "parse", "main"}

\* Whenever yyparse reduces by a rule, the symbols on top of its stack are the
\* right side of that rule in poise.y: what the tables accept has a derivation.
HandleOnTop ==
    Decided /\ ~Shifts /\ Rule # 0 =>
        LET rhs == RightSide[Rule]
            n   == Len(yyss) - Len(rhs)
        IN  /\ n > 0
            /\ \A i \in DOMAIN rhs : yytname[yystos[yyss[n + i] + 1] + 1] = rhs[i]

\* While the parser runs its stacks fit into what was allocated for them, and
\* that never exceeds YYMAXDEPTH.
StackFits ==
    /\ yystacksize <= YYMAXDEPTH
    /\ Running => Len(yyss) < yystacksize \/ Len(yyss) = 1
    /\ Len(yyvs) = Len(yyss)

\* yyparse accepts only when the scanner has met the end of the file, so main
\* does not parse what follows an accepted policy, which would be an error.
ParsedOnce == pc = "main" => feof

\* Every policy file is read to its end or refused: the scanner's refills, the
\* growing buffer and main's loop all come to an end.
CompilerEnds == <>[](~Running)
=============================================================================
