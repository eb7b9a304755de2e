------------------------ MODULE PolicyParser_proofs ------------------------
(***************************************************************************)
(* The safety of the policy compiler's front end, for every policy file,   *)
(* every buffer size and every depth of the parser's stacks; and that the  *)
(* scanner implements TokenStream.                                         *)
(*                                                                         *)
(* IInv is the inductive invariant.  Its scanner part is ScanIInv.  Its    *)
(* parser part says that the states on the stack are a path of the LR      *)
(* automaton, so what is below a state is one of the few things Below      *)
(* lists, and that only the end of the file leads to YYFINAL.              *)
(***************************************************************************)
EXTENDS PolicyTables, PolicyScanner_proofs

\* The end token, and acceptance, come after the end of the file.
EndInv ==
    /\ yychar # <<>> /\ yychar[1].type = EOF.type => feof
    /\ pc = "main" => feof

\* The states on the stack are a path of the LR automaton from its start.
Path(ss) ==
    /\ ss \in Seq(PState) /\ ss # <<>> /\ ss[1] = 0
    /\ \A i \in 1..(Len(ss) - 1) : <<ss[i], ss[i + 1]>> \in Edge

\* The parser's stacks, and its lookahead.
StackInv ==
    /\ Path(yyss)
    /\ \E V : yyvs \in Seq(V)
    /\ Len(yyvs) = Len(yyss)
    /\ yystacksize \in 2..YYMAXDEPTH
    /\ Running => Len(yyss) < yystacksize /\ ast.stop = ""
    /\ Running /\ pc # "main" => Top(yyss) # YYFINAL
    /\ yychar = <<>> \/ (yychar = <<yychar[1]>> /\ yychar[1].type \in TokenType)
    /\ "stop" \in DOMAIN ast

IInv == ScanIInv /\ EndInv /\ StackInv

-----------------------------------------------------------------------------
\* The state below one of S on a path.
LEMMA StateBefore ==
  ASSUME NEW ss, Path(ss), NEW i \in 1..(Len(ss) - 1), NEW S, ss[i + 1] \in S
  PROVE  ss[i] \in Before(S)
<1>1. <<ss[i], ss[i + 1]>> \in Edge /\ ss[i] \in PState
  BY DEF Path
<1> QED
  BY <1>1 DEF Before

\* What can be k below the top of a path.
LEMMA StateBelow ==
  ASSUME NEW ss, Path(ss), NEW k \in 0..6, k < Len(ss)
  PROVE  ss[Len(ss) - k] \in Below(Top(ss), k)
<1> DEFINE n  == Len(ss)
           s  == Top(ss)
           b1 == Before({s})
           b2 == Before(b1)
           b3 == Before(b2)
           b4 == Before(b3)
           b5 == Before(b4)
           b6 == Before(b5)
<1>1. Below(s, k) = <<{s}, b1, b2, b3, b4, b5, b6>>[k + 1]
  BY DEF Below
<1>2. n \in Nat \ {0} /\ ss[n] \in {s}
  BY DEF Path, Top
<1> HIDE DEF n, s
<1>3. n > 1 => ss[n - 1] \in b1
  BY <1>2, StateBefore DEF n
<1> HIDE DEF b1
<1>4. n > 2 => ss[n - 2] \in b2
  BY <1>2, <1>3, StateBefore DEF n
<1> HIDE DEF b2
<1>5. n > 3 => ss[n - 3] \in b3
  BY <1>2, <1>4, StateBefore DEF n
<1> HIDE DEF b3
<1>6. n > 4 => ss[n - 4] \in b4
  BY <1>2, <1>5, StateBefore DEF n
<1> HIDE DEF b4
<1>7. n > 5 => ss[n - 5] \in b5
  BY <1>2, <1>6, StateBefore DEF n
<1> HIDE DEF b5
<1>8. n > 6 => ss[n - 6] \in b6
  BY <1>2, <1>7, StateBefore DEF n
<1> HIDE DEF b6
<1>9. ss[n - k] \in <<{s}, b1, b2, b3, b4, b5, b6>>[k + 1]
  BY <1>2, <1>3, <1>4, <1>5, <1>6, <1>7, <1>8 DEF n
<1> QED
  BY <1>1, <1>9 DEF n, s

\* Where yyparse reduces, the right side of the rule is on the stack and its
\* left side leads on from what is below.
LEMMA HandleFacts ==
  ASSUME StackInv, pc = "parse", Rule # 0
  PROVE  LET rhs == RightSide[Rule]
             len == yyr2[Rule + 1]
             n   == Len(yyss) - len
         IN  /\ len = Len(rhs) /\ len \in 1..6 /\ DOMAIN rhs = 1..len /\ n \in 1..(Len(yyss) - 1)
             /\ \A i \in 1..len : Symbol(yyss[n + i]) = rhs[i]
             /\ yygoto(Rule, yyss[n]) # YYFINAL /\ <<yyss[n], yygoto(Rule, yyss[n])>> \in Edge
<1> DEFINE rhs == RightSide[Rule]
           len == yyr2[Rule + 1]
           L   == Len(yyss)
           n   == L - len
           s   == Top(yyss)
<1>1. Path(yyss) /\ s # YYFINAL
  BY Zenon DEF StackInv, Running
<1>2. L \in Nat \ {0} /\ s \in PState /\ yyss[1] = 0
  <2>1. yyss \in Seq(PState) /\ yyss # <<>> /\ yyss[1] = 0
    BY <1>1, Zenon DEF Path
  <2>2. L \in Nat \ {0} /\ yyss[L] \in PState
    BY <2>1, SMTT(30)
  <2> QED BY <2>1, <2>2, Zenon DEF Top
<1>3. /\ len = Len(rhs) /\ len \in 1..6 /\ DOMAIN rhs = 1..len
      /\ \A k \in 0..(len - 1) : \A p \in Below(s, k) : p # 0 /\ Symbol(p) = rhs[len - k]
      /\ \A p \in Below(s, len) : yygoto(Rule, p) # YYFINAL /\ <<p, yygoto(Rule, p)>> \in Edge
  BY <1>1, <1>2, ReduceFacts DEF Rule, yystate
<1>4. ASSUME NEW k \in 0..6, k < L PROVE yyss[L - k] \in Below(s, k)
  BY <1>1, <1>4, StateBelow
<1> HIDE DEF L, len, rhs, s
<1>5. len \in 1..6 /\ L \in Nat \ {0}
  BY <1>2, <1>3, SMTT(30)
<1>6. L > len
  <2> SUFFICES ASSUME L <= len PROVE FALSE
    BY <1>2, <1>3
  <2>1. L - 1 \in 0..6 /\ L - 1 \in 0..(len - 1) /\ L - 1 < L /\ L - (L - 1) = 1
    BY <1>2, <1>3
  <2>2. yyss[1] \in Below(s, L - 1)
    BY <1>4, <2>1
  <2> QED BY <1>2, <1>3, <2>1, <2>2
<1>7. n \in 1..(L - 1)
  BY <1>2, <1>3, <1>6
<1>8. ASSUME NEW i \in 1..len PROVE Symbol(yyss[n + i]) = rhs[i]
  <2>1. len - i \in 0..6 /\ len - i \in 0..(len - 1) /\ len - i < L /\ L - (len - i) = n + i /\ len - (len - i) = i
    BY <1>5, <1>6
  <2>2. yyss[n + i] \in Below(s, len - i)
    BY <1>4, <2>1
  <2> QED BY <1>3, <2>1, <2>2
<1>9. yyss[n] \in Below(s, len)
  BY <1>5, <1>4, <1>6
<1>10. yygoto(Rule, yyss[n]) # YYFINAL /\ <<yyss[n], yygoto(Rule, yyss[n])>> \in Edge
  BY <1>3, <1>9
<1> HIDE DEF n
<1>11. \A i \in 1..len : Symbol(yyss[n + i]) = rhs[i]
  BY <1>8
<1>12. len = Len(rhs) /\ len \in 1..6 /\ DOMAIN rhs = 1..len
  BY <1>3, SMTT(30)
<1> QED
  BY <1>7, <1>10, <1>11, <1>12, Zenon DEF L, len, rhs, n

\* The globals of a process that goes on, and of one that may have ended.
GoesOn(a) == "stop" \in DOMAIN a /\ a.stop = ""
Ends(a)   == "stop" \in DOMAIN a /\ a.stop \in {"", "assert", "undefined"}

\* An assertion goes on or ends the process.
LEMMA AssertEnds ==
  ASSUME NEW c, NEW a, GoesOn(a)
  PROVE  Ends(assert(c, a)) /\ Ends(a)
<1>1. CASE c
  BY <1>1, Zenon DEF assert, GoesOn, Ends
<1>2. CASE ~c
  BY <1>2, Zenon DEF assert, GoesOn, Ends
<1> QED BY <1>1, <1>2

\* The action of a rule goes on or ends the process.
LEMMA ReducedEnds ==
  ASSUME GoesOn(ast), NEW n, NEW d
  PROVE  Ends(Reduced(n, d))
<1>1. n \in 5..8 => Ends(matchexpr(n, d))
  <2>1. n \in 5..8 => n = 5 \/ n = 6 \/ n = 7 \/ n = 8
    OBVIOUS
  <2>2. ASSUME NEW me PROVE /\ GoesOn(add_matchexpr(me))
                            /\ GoesOn([add_matchexpr(me) EXCEPT !.bp = NULL])
                            /\ GoesOn([add_matchexpr(me) EXCEPT !.lp = NULL])
    BY Zenon DEF GoesOn, add_matchexpr
  <2> QED BY <2>1, <2>2, AssertEnds, Zenon DEF matchexpr
<1>2. n \in 9..14 => Ends(statement(n, d))
  <2>1. n \in 9..14 => n \in {9, 11} \/ n = 10 \/ n = 12 \/ n = 13 \/ n = 14
    OBVIOUS
  <2>2. ASSUME NEW l, NEW v PROVE GoesOn([ast EXCEPT !.matchexpr_v[l].acts = v, !.action_v = NoActions])
    BY Zenon DEF GoesOn
  <2>3. Ends(if_then_else)
    BY <2>2, AssertEnds, Zenon DEF if_then_else
  <2>4. ASSUME NEW v PROVE GoesOn([ast EXCEPT !.monitor_v = v])
    BY Zenon DEF GoesOn
  <2>5. ASSUME NEW v PROVE GoesOn([ast EXCEPT !.listexpr_v = v, !.list_items = <<>>])
    BY Zenon DEF GoesOn
  <2> QED BY <2>1, <2>3, <2>4, <2>5, AssertEnds, Zenon DEF statement
<1>3. Ends(listcontent(d)) /\ Ends(action(n))
  BY Zenon DEF GoesOn, Ends, listcontent, action
<1>4. Ends(listexpr(n, d))
  <2>1. ASSUME NEW v, NEW w PROVE GoesOn([ast EXCEPT !.lp = v, !.header_v = w])
    BY Zenon DEF GoesOn
  <2> QED BY <2>1, AssertEnds, Zenon DEF listexpr
<1>5. Ends(undefined)
  BY Zenon DEF GoesOn, Ends, undefined
<1>6. n \in 35..37 => Ends(binaryexpr(n, d))
  <2>1. n \in 35..37 => n = 35 \/ n = 36 \/ n = 37
    OBVIOUS
  <2>2. ASSUME NEW v, NEW w PROVE /\ GoesOn([ast EXCEPT !.bp = v, !.header_v = w])
                                  /\ GoesOn([ast EXCEPT !.bp = v, !.ae_stack = w])
    BY Zenon DEF GoesOn
  <2> QED BY <2>1, <2>2, <1>5, AssertEnds, Zenon DEF binaryexpr
<1>7. n \in 38..40 => Ends(arithexpr(n, d))
  <2>1. n \in 38..40 => n = 38 \/ n \in {39, 40}
    OBVIOUS
  <2>2. ASSUME NEW v, NEW w PROVE GoesOn([ast EXCEPT !.ae_stack = v, !.header_v = w])
    BY Zenon DEF GoesOn
  <2> QED BY <2>1, <2>2, <1>5, AssertEnds, Zenon DEF arithexpr
<1>8. ASSUME NEW v PROVE Ends([ast EXCEPT !.ao = v]) /\ Ends([ast EXCEPT !.thebinaryop = v]) /\ Ends(ast)
  BY Zenon DEF GoesOn, Ends
<1> QED
  BY <1>1, <1>2, <1>3, <1>4, <1>6, <1>7, <1>8, Zenon DEF Reduced

-----------------------------------------------------------------------------
\* Pushing a state the top of the stack leads to keeps the stack in order.
LEMMA PushKeeps ==
  ASSUME NEW ss, NEW vs, NEW st, NEW V, Path(ss), <<Top(ss), st>> \in Edge,
         vs \in Seq(V), Len(vs) = Len(ss) + 1,
         yystacksize \in 2..YYMAXDEPTH, Len(ss) < yystacksize, yynewstate(ss, vs, st)
  PROVE  /\ Path(yyss') /\ Top(yyss') = st /\ yyvs' \in Seq(V) /\ Len(yyvs') = Len(yyss')
         /\ yystacksize' \in 2..YYMAXDEPTH
         /\ pc' \in {"parse", "main", "exhausted"}
         /\ pc' # "exhausted" => Len(yyss') < yystacksize'
         /\ pc' = "parse" => st # YYFINAL
         /\ pc' = "main" => st = YYFINAL
<1>1. ss \in Seq(PState) /\ Len(ss) \in Nat \ {0} /\ st \in PState /\ YYMAXDEPTH \in Nat
  BY ShiftFacts, StackDepths DEF Path
<1>2. yyss' = Append(ss, st) /\ yyvs' = vs
  BY DEF yynewstate
<1>3. yyss' \in Seq(PState) /\ Len(yyss') = Len(ss) + 1 /\ yyss'[1] = ss[1] /\ Top(yyss') = st
  BY <1>1, <1>2 DEF Top
<1>4. ASSUME NEW i \in 1..(Len(yyss') - 1) PROVE <<yyss'[i], yyss'[i + 1]>> \in Edge
  <2>1. CASE i < Len(ss)
    BY <1>1, <1>2, <1>3, <2>1 DEF Path
  <2>2. CASE i = Len(ss)
    <3>1. ss[Len(ss)] = Top(ss)
      BY DEF Top
    <3>2. yyss'[i] = ss[Len(ss)] /\ yyss'[i + 1] = st
      BY <1>1, <1>2, <2>2
    <3> QED BY <3>1, <3>2
  <2> QED BY <1>1, <1>3, <2>1, <2>2
<1>5. Path(yyss')
  BY <1>1, <1>3, <1>4 DEF Path
<1>6. /\ yystacksize' = IF Len(ss) + 1 >= yystacksize THEN Larger ELSE yystacksize
      /\ \/ /\ ~(Len(ss) + 1 >= yystacksize /\ yystacksize = YYMAXDEPTH)
            /\ pc' = IF st = YYFINAL THEN "main" ELSE "parse"
         \/ pc' = "exhausted"
  BY <1>3 DEF yynewstate
<1>7. /\ yystacksize' \in 2..YYMAXDEPTH
      /\ pc' # "exhausted" => Len(ss) + 1 < yystacksize'
  BY <1>1, <1>6 DEF Larger, Least
<1> QED
  BY <1>2, <1>3, <1>5, <1>6, <1>7

\* A shift goes along an edge, and accepts only at the end of the file.
LEMMA ShiftTarget ==
  ASSUME StackInv, EndInv, Decided, Shifts
  PROVE  /\ <<Top(yyss), yytable[Lookup + 1]>> \in Edge
         /\ yytable[Lookup + 1] = YYFINAL => feof
<1> DEFINE p    == Top(yyss)
           type == yychar[1].type
           t    == YYTRANSLATE(type)
<1>1. yychar = <<yychar[1]>> /\ type \in TokenType
  BY Zenon DEF StackInv, Decided, Shifts
<1>2. p \in PState
  <2>1. Path(yyss)
    BY Zenon DEF StackInv
  <2>2. yyss \in Seq(PState) /\ Len(yyss) \in 1..Len(yyss)
    BY <2>1 DEF Path
  <2>3. yyss[Len(yyss)] \in PState
    BY <2>2
  <2> QED BY <2>3 DEF Top
<1>3. t \in Terminal /\ (t = 0 => type = EOF.type)
  BY <1>1, TokenFacts, EndFacts
<1> HIDE DEF t, p
<1>4. ShiftsOn(p, t) /\ Lookup = yypact[p + 1] + t
  BY DEF Shifts, IsDefault, Lookup, ShiftsOn, yystate, t, p
<1>5. <<p, yytable[Lookup + 1]>> \in Edge /\ (yytable[Lookup + 1] = YYFINAL => t = 0)
  BY <1>2, <1>3, <1>4, ShiftFacts
<1>6. type = EOF.type => feof
  BY DEF EndInv, Decided, Shifts
<1> QED
  BY <1>3, <1>5, <1>6 DEF p

\* Shift preserves the invariant.
LEMMA ShiftKeeps == IInv /\ Shift => IInv'
<1> SUFFICES ASSUME IInv, Shift PROVE IInv'
  OBVIOUS
<1> DEFINE st == yytable[Lookup + 1]
           vs == Append(yyvs, yychar[1].val)
<1>1. ScanIInv /\ EndInv /\ StackInv /\ pc = "parse" /\ Running
  BY DEF IInv, Shift, Decided, Running
<1>2. /\ yynewstate(yyss, vs, st) /\ yychar' = <<>> /\ ast' = ast
      /\ UNCHANGED <<file_vars, buf_vars, yy_c_buf_p, yytext_ptr, yy_hold_char, yy_cp, match, tok>>
  BY DEF Shift, still
<1>3. <<Top(yyss), st>> \in Edge /\ (st = YYFINAL => feof)
  BY <1>1, ShiftTarget DEF Shift
<1>4. /\ Path(yyss) /\ yystacksize \in 2..YYMAXDEPTH /\ Len(yyss) < yystacksize
      /\ ast.stop = "" /\ "stop" \in DOMAIN ast
  BY <1>1, Zenon DEF StackInv
<1>5. PICK V : yyvs \in Seq(V) /\ Len(yyvs) = Len(yyss)
  BY <1>1, Zenon DEF StackInv
<1> DEFINE W == V \cup {yychar[1].val}
<1>6. vs \in Seq(W) /\ Len(vs) = Len(yyss) + 1
  <2>1. yyvs \in Seq(W)
    BY <1>5
  <2> QED BY <1>5, <2>1
<1> HIDE DEF vs, st, W
<1>7. /\ Path(yyss') /\ Top(yyss') = st /\ yyvs' \in Seq(W) /\ Len(yyvs') = Len(yyss')
      /\ yystacksize' \in 2..YYMAXDEPTH
      /\ pc' \in {"parse", "main", "exhausted"}
      /\ pc' # "exhausted" => Len(yyss') < yystacksize'
      /\ pc' = "parse" => st # YYFINAL
      /\ pc' = "main" => st = YYFINAL
  BY <1>2, <1>3, <1>4, <1>6, PushKeeps, Zenon
<1>8. ScanIInv' /\ feof' = feof
  BY <1>1, <1>2, <1>7, ScannerRests
<1>9. EndInv'
  BY <1>2, <1>3, <1>7, <1>8 DEF EndInv
<1>10. StackInv'
  BY <1>2, <1>4, <1>7, Zenon DEF StackInv, Running
<1> QED
  BY <1>8, <1>9, <1>10 DEF IInv

\* Reduce preserves the invariant.
LEMMA ReduceKeeps == IInv /\ Reduce => IInv'
<1> SUFFICES ASSUME IInv, Reduce PROVE IInv'
  OBVIOUS
<1> DEFINE len == yyr2[Rule + 1]
           n   == Len(yyss) - len
           d   == SubSeq(yyvs, Len(yyvs) - len + 1, Len(yyvs))
           ss  == SubSeq(yyss, 1, n)
           vs  == SubSeq(yyvs, 1, Len(yyvs) - len)
           st  == yygoto(Rule, Top(ss))
<1>1. ScanIInv /\ EndInv /\ StackInv /\ pc = "parse" /\ Running /\ Rule # 0
  BY Zenon DEF IInv, Reduce, Decided, Running
<1>2. /\ yychar' = yychar /\ ast' = Reduced(Rule, d)
      /\ UNCHANGED <<file_vars, buf_vars, yy_c_buf_p, yytext_ptr, yy_hold_char, yy_cp, match, tok>>
  BY Zenon DEF Reduce, still
<1>3. IF ast'.stop = "" THEN yynewstate(ss, Append(vs, d[1]), st)
      ELSE pc' = ast'.stop /\ UNCHANGED <<yyss, yyvs, yystacksize>>
  BY Zenon DEF Reduce
<1>4. /\ Path(yyss) /\ yystacksize \in 2..YYMAXDEPTH /\ Len(yyss) < yystacksize
      /\ ast.stop = "" /\ "stop" \in DOMAIN ast
      /\ yychar = <<>> \/ (yychar = <<yychar[1]>> /\ yychar[1].type \in TokenType)
  BY <1>1, Zenon DEF StackInv
<1>5. Path(yyss) /\ yystacksize \in 2..YYMAXDEPTH /\ Len(yyss) < yystacksize
  BY <1>4, Zenon
<1>6. Ends(ast')
  BY <1>2, <1>4, ReducedEnds, Zenon DEF GoesOn
<1>7. CASE ast'.stop # ""
  <2>1. pc' \in {"assert", "undefined"} /\ UNCHANGED <<yyss, yyvs, yystacksize>>
    BY <1>3, <1>6, <1>7, Zenon DEF Ends
  <2>2. ScanIInv' /\ feof' = feof
    BY <1>1, <1>2, <2>1, ScannerRests
  <2>3. EndInv'
    BY <1>1, <1>2, <2>1, <2>2 DEF EndInv
  <2>4. StackInv'
    BY <1>1, <1>2, <1>6, <2>1, Zenon DEF StackInv, Running, Ends
  <2> QED BY <2>2, <2>3, <2>4 DEF IInv
<1>8. CASE ast'.stop = ""
  <2>1. yynewstate(ss, Append(vs, d[1]), st)
    BY <1>3, <1>8, Zenon
  <2>2. /\ len \in 1..6 /\ n \in 1..(Len(yyss) - 1)
        /\ yygoto(Rule, yyss[n]) # YYFINAL /\ <<yyss[n], yygoto(Rule, yyss[n])>> \in Edge
    BY <1>1, HandleFacts
  <2>3. yyss \in Seq(PState) /\ Len(yyss) \in Nat
    BY <1>5 DEF Path
  <2>4. ss \in Seq(PState) /\ Len(ss) = n /\ \A i \in 1..n : ss[i] = yyss[i]
    BY <2>2, <2>3
  <2>5. Path(ss) /\ Top(ss) = yyss[n]
    <3> HIDE DEF ss, n, len
    <3>1. n \in 1..(Len(yyss) - 1)
      BY <2>2
    <3>2. ss # <<>> /\ ss[1] = 0
      BY <1>5, <2>3, <2>4, <3>1 DEF Path
    <3>3. ASSUME NEW i \in 1..(Len(ss) - 1) PROVE <<ss[i], ss[i + 1]>> \in Edge
      <4>1. ss[i] = yyss[i] /\ ss[i + 1] = yyss[i + 1] /\ i \in 1..(Len(yyss) - 1)
        BY <2>3, <2>4, <3>1
      <4> QED BY <1>5, <4>1 DEF Path
    <3>4. ss[Len(ss)] = yyss[n]
      BY <2>4, <3>1
    <3> QED BY <2>4, <3>2, <3>3, <3>4 DEF Path, Top
  <2>6. st # YYFINAL /\ <<Top(ss), st>> \in Edge
    BY <2>2, <2>5
  <2>7. PICK V : yyvs \in Seq(V) /\ Len(yyvs) = Len(yyss)
    BY <1>1, Zenon DEF StackInv
  <2> DEFINE W == V \cup {d[1]}
             ws == Append(vs, d[1])
  <2>8. ws \in Seq(W) /\ Len(ws) = n + 1
    <3> HIDE DEF d, len
    <3>1. n \in 0..Len(yyvs) /\ vs = SubSeq(yyvs, 1, n)
      BY <2>2, <2>3, <2>7
    <3>2. yyvs \in Seq(W)
      BY <2>7
    <3> HIDE DEF n, vs
    <3>3. vs \in Seq(W) /\ Len(vs) = n
      BY <3>1, <3>2
    <3> QED BY <3>3
  <2>0. yynewstate(ss, ws, st)
    BY <2>1, Zenon
  <2> HIDE DEF ws, W, ss, st, n, len, d, vs
  <2>9. Len(ws) = Len(ss) + 1 /\ Len(ss) < yystacksize
    BY <1>5, <2>2, <2>3, <2>4, <2>8, SMTT(30)
  <2>10. /\ Path(yyss') /\ Top(yyss') = st /\ yyvs' \in Seq(W) /\ Len(yyvs') = Len(yyss')
         /\ yystacksize' \in 2..YYMAXDEPTH
         /\ pc' \in {"parse", "main", "exhausted"}
         /\ pc' # "exhausted" => Len(yyss') < yystacksize'
         /\ pc' = "main" => st = YYFINAL
    BY <1>5, <2>0, <2>5, <2>6, <2>8, <2>9, PushKeeps
  <2>11. pc' # "main"
    BY <2>6, <2>10
  <2>12. ScanIInv' /\ feof' = feof
    BY <1>1, <1>2, <2>10, ScannerRests, SMTT(30)
  <2>13. EndInv'
    BY <1>1, <1>2, <2>11, <2>12 DEF EndInv
  <2>14. StackInv'
    BY <1>2, <1>4, <1>6, <1>8, <2>6, <2>10, Zenon DEF StackInv, Running, Ends
  <2> QED BY <2>12, <2>13, <2>14 DEF IInv
<1> QED BY <1>7, <1>8, Zenon

-----------------------------------------------------------------------------
\* The variables of the scanner, and those of the parser, a step leaves alone.
LEMMA UnchangedVars ==
  /\ UNCHANGED still =>
        UNCHANGED <<file_vars, buf_vars, yy_c_buf_p, yytext_ptr, yy_hold_char, yy_cp, match, tok>>
  /\ UNCHANGED parse_vars => UNCHANGED <<yyss, yyvs, yystacksize, yychar, ast>>
BY DEF still, parse_vars

\* A step of the scanner preserves the invariant.
LEMMA ScanKeeps == IInv /\ ScanNext /\ UNCHANGED parse_vars => IInv'
<1> SUFFICES ASSUME IInv, ScanNext, UNCHANGED parse_vars PROVE IInv'
  OBVIOUS
<1>1. UNCHANGED <<yyss, yyvs, yystacksize, yychar, ast>> /\ EndInv /\ StackInv
  BY UnchangedVars DEF IInv
<1>2. ScanIInv' /\ (feof => feof') /\ pc' \in {"start", "match", "find", "eob", "refill", "return", "fatal"}
  BY ScannerKeeps DEF IInv, ScanKept
<1>3. Running /\ pc # "main"
  <2>1. StartToken => Running /\ pc # "main"
    BY Zenon DEF StartToken, Running
  <2>2. MatchChar => Running /\ pc # "main"
    BY Zenon DEF MatchChar, Running
  <2>3. FindAction => Running /\ pc # "main"
    BY Zenon DEF FindAction, Running
  <2>4. RealNul => Running /\ pc # "main"
    BY Zenon DEF RealNul, Running
  <2>5. MoveToFront => Running /\ pc # "main"
    BY Zenon DEF MoveToFront, Running
  <2>6. Grow => Running /\ pc # "main"
    BY Zenon DEF Grow, Running
  <2>7. ReadMore => Running /\ pc # "main"
    BY Zenon DEF ReadMore, Running
  <2>8. LastMatch => Running /\ pc # "main"
    BY Zenon DEF LastMatch, Running
  <2>9. EndOfFile => Running /\ pc # "main"
    BY Zenon DEF EndOfFile, Running
  <2>10. FatalError => Running /\ pc # "main"
    BY Zenon DEF FatalError, Running
  <2> QED BY <2>1, <2>2, <2>3, <2>4, <2>5, <2>6, <2>7, <2>8, <2>9, <2>10, Zenon DEF ScanNext
<1>4. EndInv'
  BY <1>1, <1>2, <1>3 DEF EndInv
<1>5. StackInv'
  BY <1>1, <1>2, <1>3, Zenon DEF StackInv, Running
<1> QED
  BY <1>2, <1>4, <1>5 DEF IInv

\* CallLex preserves the invariant.
LEMMA CallLexKeeps == IInv /\ CallLex => IInv'
<1> SUFFICES ASSUME IInv, CallLex PROVE IInv'
  OBVIOUS
<1>1. /\ UNCHANGED <<file_vars, buf_vars, yy_c_buf_p, yytext_ptr, yy_hold_char, yy_cp, match, tok>>
      /\ UNCHANGED <<yyss, yyvs, yystacksize, yychar, ast>>
      /\ pc = "parse" /\ pc' = "start" /\ ScanIInv /\ EndInv /\ StackInv
  BY UnchangedVars DEF CallLex, IInv
<1>2. ScanIInv' /\ feof' = feof
  BY <1>1, ScannerRests
<1>3. EndInv' /\ StackInv'
  BY <1>1, <1>2, Zenon DEF EndInv, StackInv, Running
<1> QED
  BY <1>2, <1>3 DEF IInv

\* LexReturns preserves the invariant.
LEMMA LexReturnsKeeps == IInv /\ LexReturns => IInv'
<1> SUFFICES ASSUME IInv, LexReturns PROVE IInv'
  OBVIOUS
<1>1. /\ UNCHANGED <<file_vars, buf_vars, yy_c_buf_p, yytext_ptr, yy_hold_char, yy_cp, match, tok>>
      /\ UNCHANGED <<yyss, yyvs, yystacksize, ast>> /\ yychar' = <<tok>>
      /\ pc = "return" /\ pc' = "parse" /\ ScanIInv /\ StackInv
  BY DEF LexReturns, IInv
<1>2. ScanIInv' /\ feof' = feof
  BY <1>1, ScannerRests
<1>3. yychar'[1] = tok /\ tok.type \in TokenType /\ (tok.type = EOF.type => feof)
  BY <1>1 DEF ScanIInv, ScanTypes, FileInv
<1>4. EndInv'
  BY <1>1, <1>2, <1>3 DEF EndInv
<1>5. StackInv'
  BY <1>1, <1>3, Zenon DEF StackInv, Running
<1> QED
  BY <1>2, <1>4, <1>5 DEF IInv

\* SyntaxError preserves the invariant.
LEMMA SyntaxErrorKeeps == IInv /\ SyntaxError => IInv'
<1> SUFFICES ASSUME IInv, SyntaxError PROVE IInv'
  OBVIOUS
<1>1. /\ UNCHANGED <<file_vars, buf_vars, yy_c_buf_p, yytext_ptr, yy_hold_char, yy_cp, match, tok>>
      /\ UNCHANGED <<yyss, yyvs, yystacksize, yychar, ast>>
      /\ pc = "parse" /\ pc' = "syntax error" /\ ScanIInv /\ EndInv /\ StackInv
  BY UnchangedVars, Zenon DEF SyntaxError, Decided, IInv
<1>2. ScanIInv' /\ feof' = feof
  BY <1>1, ScannerRests, Zenon
<1>3. EndInv' /\ StackInv'
  BY <1>1, <1>2, Zenon DEF EndInv, StackInv, Running
<1> QED
  BY <1>2, <1>3 DEF IInv

\* The stacks yyparse starts with.
LEMMA FreshStacks ==
  /\ Path(<<0>>) /\ Len(<<0>>) = 1 /\ Top(<<0>>) # YYFINAL
  /\ <<NULL>> \in Seq({NULL}) /\ Len(<<NULL>>) = 1
  /\ YYINITDEPTH \in 2..YYMAXDEPTH /\ 1 < YYINITDEPTH
<1>1. Path(<<0>>) /\ Len(<<0>>) = 1 /\ Top(<<0>>) # YYFINAL
  BY DEF Path, Top, PState, YYFINAL
<1>2. <<NULL>> \in Seq({NULL}) /\ Len(<<NULL>>) = 1
  OBVIOUS
<1>3. YYINITDEPTH \in 2..YYMAXDEPTH /\ 1 < YYINITDEPTH
  BY StackDepths
<1> QED BY <1>1, <1>2, <1>3

\* Main preserves the invariant.
LEMMA MainKeeps == IInv /\ Main => IInv'
<1> SUFFICES ASSUME IInv, Main PROVE IInv'
  OBVIOUS
<1>1. /\ UNCHANGED <<file_vars, buf_vars, yy_c_buf_p, yytext_ptr, yy_hold_char, yy_cp, match, tok>>
      /\ yyss' = <<0>> /\ yyvs' = <<NULL>> /\ yystacksize' = YYINITDEPTH /\ yychar' = <<>> /\ ast' = ast
      /\ pc = "main" /\ pc' \in {"parse", "compile"} /\ ScanIInv /\ EndInv /\ StackInv
  BY UnchangedVars DEF Main, IInv
<1>2. ScanIInv' /\ feof' = feof
  BY <1>1, ScannerRests
<1>3. EndInv'
  BY <1>1 DEF EndInv
<1>4. ast.stop = "" /\ "stop" \in DOMAIN ast
  BY <1>1, Zenon DEF StackInv, Running
<1>5. (\E V : yyvs \in Seq(V))' /\ Len(yyss') < yystacksize' /\ Len(yyvs') = Len(yyss')
  BY <1>1, FreshStacks, Zenon
<1>6. StackInv'
  BY <1>1, <1>4, <1>5, FreshStacks, Zenon DEF StackInv
<1> QED
  BY <1>2, <1>3, <1>6 DEF IInv

\* A step that changes nothing preserves the invariant.
LEMMA StutterKeeps == IInv /\ UNCHANGED vars => IInv'
<1> SUFFICES ASSUME IInv, UNCHANGED vars PROVE IInv'
  OBVIOUS
<1>1. UNCHANGED <<text, fpos, feof, yy_ch_buf, yy_buf_size, yy_n_chars, yy_buffer_status, yy_c_buf_p,
                  yytext_ptr, yy_hold_char, yy_cp, match, tok, pc, yyss, yyvs, yystacksize, yychar, ast>>
  BY DEF vars, scan_vars, file_vars, buf_vars, parse_vars
<1>2. ScanIInv'
  <2>1. ScanTypes' = ScanTypes /\ FileInv' = FileInv
    BY <1>1, Zenon DEF ScanTypes, FileInv
  <2>2. Matching' = Matching /\ Finding' = Finding
    BY <1>1 DEF Matching, Finding, Ended, Good
  <2>3. AtEnd' = AtEnd /\ Refilling' = Refilling /\ AtRest' = AtRest
    BY <1>1, Zenon DEF AtEnd, Refilling, AtRest, Ended, Held
  <2>4. ScanInv' = ScanInv
    BY <1>1, <2>2, <2>3 DEF ScanInv
  <2> QED BY <2>1, <2>4, Zenon DEF IInv, ScanIInv
<1>3. EndInv'
  BY <1>1 DEF IInv, EndInv
<1>4. StackInv'
  BY <1>1, Zenon DEF IInv, StackInv, Running
<1> QED
  BY <1>2, <1>3, <1>4 DEF IInv

\* The invariant holds when main calls yyparse the first time.
LEMMA InitHolds == Init => IInv
<1> SUFFICES ASSUME Init PROVE IInv
  OBVIOUS
<1>1. /\ text \in Seq(Char) /\ pc = "parse" /\ ScanInit
      /\ yyss = <<0>> /\ yyvs = <<NULL>> /\ yystacksize = YYINITDEPTH /\ yychar = <<>> /\ ast = EmptyAst
  BY SourceTexts DEF Init
<1>2. yy_start \in DState /\ 0 \in 0..JAM /\ NUL \in Char /\ EOF.type \in TokenType
  BY NulIsChar DEF yy_start, JAM, DState, TokenType
<1>3. ScanTypes
  <2>1. match \in Match
    BY <1>1, <1>2 DEF ScanInit, Match
  <2>2. /\ yy_buf_size \in Nat \ {0} /\ yy_ch_buf \in [0..(yy_buf_size + 1) -> Char]
        /\ yy_n_chars \in 0..yy_buf_size
    BY <1>1, <1>2, ScannerSizes, SMTT(30) DEF ScanInit
  <2>3. /\ fpos \in 0..Len(text) /\ yy_c_buf_p \in Nat /\ yytext_ptr \in 0..yy_c_buf_p /\ yy_cp \in Nat
        /\ yy_hold_char \in Char
    BY <1>1, <1>2 DEF ScanInit
  <2>4. feof \in BOOLEAN /\ tok.type \in TokenType
    BY <1>1, <1>2, Zenon DEF ScanInit
  <2> QED BY <1>1, <2>1, <2>2, <2>3, <2>4, SMTT(30) DEF ScanTypes
<1>4. AtRest
  BY <1>1, ScannerSizes DEF ScanInit, AtRest, Ended, Held
<1>5. FileInv
  BY <1>1 DEF ScanInit, FileInv
<1>6. ScanIInv
  BY <1>1, <1>3, <1>4, <1>5 DEF ScanIInv, ScanInv
<1>7. EndInv
  BY <1>1 DEF EndInv
<1>8. ast.stop = "" /\ "stop" \in DOMAIN ast
  BY <1>1, Zenon DEF EmptyAst
<1>9. (\E V : yyvs \in Seq(V)) /\ Len(yyss) < yystacksize /\ Len(yyvs) = Len(yyss)
  BY <1>1, FreshStacks, Zenon
<1>10. StackInv
  BY <1>1, <1>8, <1>9, FreshStacks, Zenon DEF StackInv
<1> QED
  BY <1>6, <1>7, <1>10 DEF IInv

\* The scanner and the parser keep their invariant: the buffer, the end of the
\* file, and the path of the LR automaton on the stack.
THEOREM FrontEndInvariant == Spec => []IInv
<1>1. IInv /\ [Next]_vars => IInv'
  BY ScanKeeps, CallLexKeeps, LexReturnsKeeps, ShiftKeeps, ReduceKeeps, SyntaxErrorKeeps, MainKeeps,
     StutterKeeps, Zenon DEF Next
<1> QED
  BY InitHolds, <1>1, PTL DEF Spec

\* BufferFits for every file and every buffer size: the scanner's pointers stay
\* inside the buffer, whose end is always marked.
THEOREM BufferAlwaysFits == Spec => []BufferFits
<1>1. IInv => BufferFits
  BY DEF IInv, ScanIInv, ScanTypes, ScanInv, Matching, Finding, AtEnd, Refilling, AtRest, BufferFits
<1> QED
  BY FrontEndInvariant, <1>1, PTL

\* HandleOnTop for every file: yyparse reduces only by a rule whose right side
\* is on top of its stack.
THEOREM HandleAlwaysOnTop == Spec => []HandleOnTop
<1>1. IInv => HandleOnTop
  <2> SUFFICES ASSUME StackInv, pc = "parse", Rule # 0
               PROVE  LET rhs == RightSide[Rule]
                          n   == Len(yyss) - Len(rhs)
                      IN  /\ n > 0
                          /\ \A i \in DOMAIN rhs : Symbol(yyss[n + i]) = rhs[i]
    BY Zenon DEF IInv, HandleOnTop, Decided, Symbol
  <2> DEFINE rhs == RightSide[Rule]
             len == yyr2[Rule + 1]
             n   == Len(yyss) - len
  <2>1. /\ len = Len(rhs) /\ DOMAIN rhs = 1..len /\ n \in 1..(Len(yyss) - 1)
        /\ \A i \in 1..len : Symbol(yyss[n + i]) = rhs[i]
    BY HandleFacts
  <2>2. Len(yyss) - Len(rhs) = n
    BY <2>1
  <2> HIDE DEF n, len
  <2>3. n > 0
    BY <2>1
  <2> QED BY <2>1, <2>2, <2>3, Zenon
<1> QED
  BY FrontEndInvariant, <1>1, PTL

\* StackFits for every file and every depth: the two stacks are equally high
\* and fit into what was allocated for them.
THEOREM StackAlwaysFits == Spec => []StackFits
<1>1. IInv => StackFits
  <2> SUFFICES ASSUME StackInv PROVE StackFits
    BY DEF IInv
  <2>1. yystacksize \in 2..YYMAXDEPTH /\ Len(yyvs) = Len(yyss) /\ (Running => Len(yyss) < yystacksize)
    BY Zenon DEF StackInv
  <2>2. yystacksize <= YYMAXDEPTH
    BY <2>1, StackDepths, SMTT(30)
  <2> QED BY <2>1, <2>2 DEF StackFits
<1> QED
  BY FrontEndInvariant, <1>1, PTL

\* ParsedOnce for every file: yyparse accepts only at the end of the file.
THEOREM AlwaysParsedOnce == Spec => []ParsedOnce
<1>1. IInv => ParsedOnce
  BY DEF IInv, EndInv, ParsedOnce
<1> QED
  BY FrontEndInvariant, <1>1, PTL

-----------------------------------------------------------------------------
(***************************************************************************)
(* No step loses, repeats or changes a character of the file.              *)
(***************************************************************************)
\* No step of the parser touches the scanner.
LEMMA ParserSteps ==
  ASSUME IInv, CallLex \/ LexReturns \/ Shift \/ Reduce \/ SyntaxError \/ Main
  PROVE  /\ UNCHANGED <<file_vars, buf_vars, yy_c_buf_p, yytext_ptr, yy_hold_char, yy_cp, match, tok>>
         /\ pc \in {"return", "parse", "main"}
         /\ pc' \in {"start", "parse", "main", "exhausted", "syntax error", "compile", "assert", "undefined"}
<1>1. CASE CallLex
  BY <1>1, UnchangedVars DEF CallLex
<1>2. CASE LexReturns
  BY <1>2 DEF LexReturns
<1>3. CASE Shift
  <2>1. yynewstate(yyss, Append(yyvs, yychar[1].val), yytable[Lookup + 1]) /\ UNCHANGED still /\ pc = "parse"
    BY <1>3, Zenon DEF Shift, Decided
  <2>2. pc' \in {"parse", "main", "exhausted"}
    BY <2>1, Zenon DEF yynewstate
  <2> QED BY <2>1, <2>2, UnchangedVars, Zenon
<1>4. CASE Reduce
  <2>1. \/ \E ss, vs, st : yynewstate(ss, vs, st)
        \/ ast'.stop # "" /\ pc' = ast'.stop
    BY <1>4, Zenon DEF Reduce
  <2>2. /\ \E n, d : ast' = Reduced(n, d)
        /\ UNCHANGED still /\ pc = "parse"
    BY <1>4, Zenon DEF Reduce, Decided
  <2>3. ast.stop = "" /\ "stop" \in DOMAIN ast
    BY <2>2, Zenon DEF IInv, StackInv, Running
  <2>4. ast'.stop \in {"", "assert", "undefined"}
    BY <2>2, <2>3, ReducedEnds, Zenon DEF GoesOn, Ends
  <2>5. pc' \in {"parse", "main", "exhausted", "assert", "undefined"}
    BY <2>1, <2>4, Zenon DEF yynewstate
  <2> QED BY <2>2, <2>5, UnchangedVars, Zenon
<1>5. CASE SyntaxError
  BY <1>5, UnchangedVars, Zenon DEF SyntaxError, Decided
<1>6. CASE Main
  BY <1>6, UnchangedVars DEF Main
<1> QED
  BY <1>1, <1>2, <1>3, <1>4, <1>5, <1>6, Zenon

\* No step of the parser reads.
LEMMA ParserKept ==
  ASSUME IInv, InPlace, CallLex \/ LexReturns \/ Shift \/ Reduce \/ SyntaxError \/ Main
  PROVE  Kept /\ pc' # "return"
BY ParserSteps, RestKept, Zenon

\* Every step keeps that, and either cuts nothing or cuts the next characters.
LEMMA StepKeepsWhole ==
  ASSUME IInv, Whole, [Next]_vars
  PROVE  Whole' /\ text' = text /\ (Scanned' = Scanned \/ Cuts)
<1>1. CASE ScanNext
  <2>1. ScanIInv
    BY DEF IInv
  <2>2. CASE FindAction
    <3>1. pc' = "return" => tok'.type # EOF.type
      BY <2>1, <2>2, TokenTyped, SMTT(30)
    <3>2. InPlace' /\ text' = text /\ (Scanned' = Scanned \/ Cuts)
      BY <2>1, <2>2, FindActionKept DEF Whole, Kept
    <3> QED BY <3>1, <3>2 DEF Whole
  <2>3. CASE EndOfFile
    BY <2>1, <2>3, EndOfFileKept DEF Whole, Kept
  <2>4. CASE StartToken \/ MatchChar \/ RealNul \/ MoveToFront \/ Grow \/ ReadMore \/ LastMatch \/ FatalError
    <3>1. Kept
      BY <2>1, <2>4, StartTokenKept, MatchCharKept, RealNulKept, MoveToFrontKept, GrowKept, ReadMoreKept,
         LastMatchKept, FatalErrorKept DEF Whole
    <3>2. pc' # "return"
      <4>1. CASE StartToken
        BY <4>1, Zenon DEF StartToken
      <4>2. CASE MatchChar
        BY <4>2 DEF MatchChar
      <4>3. CASE RealNul
        BY <4>3 DEF RealNul
      <4>4. CASE MoveToFront
        BY <4>4, Zenon DEF MoveToFront
      <4>5. CASE Grow
        BY <4>5, Zenon DEF Grow
      <4>6. CASE ReadMore
        BY <4>6, Zenon DEF ReadMore
      <4>7. CASE LastMatch
        BY <4>7, Zenon DEF LastMatch
      <4>8. CASE FatalError
        BY <4>8, Zenon DEF FatalError
      <4> QED BY <2>4, <4>1, <4>2, <4>3, <4>4, <4>5, <4>6, <4>7, <4>8, Zenon
    <3> QED BY <3>1, <3>2 DEF Whole, Kept
  <2> QED BY <1>1, <2>2, <2>3, <2>4, Zenon DEF ScanNext
<1>2. CASE CallLex \/ LexReturns \/ Shift \/ Reduce \/ SyntaxError \/ Main
  BY <1>2, ParserKept DEF Whole, Kept
<1>3. CASE UNCHANGED vars
  <2>1. UNCHANGED <<text, fpos, yy_ch_buf, yy_n_chars, yy_c_buf_p, yytext_ptr, yy_hold_char, tok, pc>>
    BY <1>3 DEF vars, scan_vars, file_vars, buf_vars
  <2>2. UnreadBuf' = UnreadBuf /\ UnreadFrom' = UnreadFrom /\ UnreadTo' = UnreadTo
    BY <2>1, Zenon DEF UnreadBuf, UnreadFrom, UnreadTo, Walking, NumberToMove
  <2>3. Kept
    BY <2>1, <2>2, SameKept, SMTT(30) DEF Whole
  <2> QED BY <2>1, <2>3 DEF Whole, Kept
<1> QED
  BY <1>1, <1>2, <1>3, Zenon DEF Next

\* Nothing was read yet.
LEMMA InitWhole == Init => Whole
<1> SUFFICES ASSUME Init PROVE Whole
  OBVIOUS
<1>1. text \in Seq(Char) /\ pc = "parse" /\ fpos = 0 /\ yy_c_buf_p = 0 /\ yy_n_chars = 0
  BY SourceTexts DEF Init, ScanInit
<1>2. UnreadFrom = 0 /\ UnreadTo = 0
  BY <1>1, UnreadAt, SMTT(30)
<1> QED
  BY <1>1, <1>2 DEF Whole, InPlace, Shows

\* The scanner loses nothing of the policy file and repeats nothing of it: for
\* every file, every size of the buffer and every length the reads return, what
\* yylex has still to cut is the rest of the file, and it tells the end of the
\* file only when nothing of it is left.
THEOREM TextAlwaysComplete == Spec => []TextComplete
<1>1. IInv /\ Whole /\ [Next]_vars => Whole'
  BY StepKeepsWhole
<1>2. IInv /\ Whole => TextComplete
  BY WholeComplete DEF IInv
<1> QED
  BY <1>1, <1>2, InitWhole, FrontEndInvariant, PTL DEF Spec

\* yylex cuts the file from left to right: a step of the compiler either cuts
\* nothing, or it is the action of a rule and yytext is the part of the file
\* that follows what was cut before.
THEOREM EveryCharOnce == Spec => [][EachCharOnce]_vars
<1>1. IInv /\ Whole /\ [Next]_vars => Whole'
  BY StepKeepsWhole
<1>2. IInv /\ Whole /\ [Next]_vars => [EachCharOnce]_vars
  BY StepKeepsWhole, CutText, Zenon DEF EachCharOnce, IInv
<1> QED
  BY <1>1, <1>2, InitWhole, FrontEndInvariant, PTL DEF Spec

-----------------------------------------------------------------------------
(***************************************************************************)
(* The scanner implements TokenStream.                                     *)
(***************************************************************************)
\* Every step keeps the walk on its text.
LEMMA StepKeepsTracked ==
  ASSUME IInv, Tracked, [Next]_vars
  PROVE  Tracked'
<1>0. ScanIInv
  BY DEF IInv
<1>1. CASE ScanNext
  <2>1. CASE MoveToFront \/ Grow \/ EndOfFile \/ FatalError
    <3>1. pc' \in {"refill", "return", "fatal"}
      <4>1. CASE MoveToFront
        BY <4>1, Zenon DEF MoveToFront
      <4>2. CASE Grow
        BY <4>2, Zenon DEF Grow
      <4>3. CASE EndOfFile
        BY <4>3, Zenon DEF EndOfFile
      <4>4. CASE FatalError
        BY <4>4, Zenon DEF FatalError
      <4> QED BY <2>1, <4>1, <4>2, <4>3, <4>4, Zenon
    <3> QED BY <3>1, Zenon DEF Tracked
  <2> QED
    BY <1>0, <1>1, <2>1, StartTokenTracked, MatchCharTracked, FindActionTracked, RealNulTracked, ReadMoreTracked,
       LastMatchTracked, Zenon DEF ScanNext
<1>2. CASE CallLex \/ LexReturns \/ Shift \/ Reduce \/ SyntaxError \/ Main
  <2>1. pc' \in {"start", "parse", "main", "exhausted", "syntax error", "compile", "assert", "undefined"}
    BY <1>2, ParserSteps, Zenon
  <2> QED BY <2>1, Zenon DEF Tracked
<1>3. CASE UNCHANGED vars
  <2>1. /\ text' = text /\ fpos' = fpos /\ yy_ch_buf' = yy_ch_buf /\ yy_n_chars' = yy_n_chars /\ yy_c_buf_p' = yy_c_buf_p
        /\ yytext_ptr' = yytext_ptr /\ yy_hold_char' = yy_hold_char /\ yy_cp' = yy_cp /\ match' = match /\ pc' = pc
    BY <1>3 DEF vars, scan_vars, file_vars, buf_vars
  <2>2. Found' = Found /\ Held' = Held
    BY <2>1, Zenon DEF Found, Held
  <2>3. NoLonger(yy_ch_buf, yytext_ptr, Found.cpos)' <=> NoLonger(yy_ch_buf, yytext_ptr, Found.cpos)
    BY <2>1, <2>2, Zenon DEF NoLonger
  <2> QED BY <2>1, <2>2, <2>3, Zenon DEF Tracked
<1> QED
  BY <1>1, <1>2, <1>3, Zenon DEF Next

\* Only the action of a rule and the end of the file hand a token over.
LEMMA TokenKept ==
  ASSUME IInv, [Next]_vars
  PROVE  tok' = tok \/ FindAction \/ EndOfFile
<1>1. CASE ScanNext
  <2>1. CASE StartToken
    BY <2>1, Zenon DEF StartToken
  <2>2. CASE MatchChar
    BY <2>2, Zenon DEF MatchChar
  <2>3. CASE RealNul
    BY <2>3, Zenon DEF RealNul
  <2>4. CASE MoveToFront
    BY <2>4, Zenon DEF MoveToFront
  <2>5. CASE Grow
    BY <2>5, Zenon DEF Grow
  <2>6. CASE ReadMore
    BY <2>6, Zenon DEF ReadMore
  <2>7. CASE LastMatch
    BY <2>7, Zenon DEF LastMatch
  <2>8. CASE FatalError
    BY <2>8, Zenon DEF FatalError
  <2> QED BY <1>1, <2>1, <2>2, <2>3, <2>4, <2>5, <2>6, <2>7, <2>8, Zenon DEF ScanNext
<1>2. CASE CallLex \/ LexReturns \/ Shift \/ Reduce \/ SyntaxError \/ Main
  BY <1>2, ParserSteps, Zenon
<1>3. CASE UNCHANGED vars
  BY <1>3 DEF vars, scan_vars
<1> QED
  BY <1>1, <1>2, <1>3, Zenon DEF Next

\* Every step of the compiler is one of TokenStream, or leaves its variables alone.
LEMMA StepRefines ==
  ASSUME IInv, Whole, Tracked, TextComplete, TextComplete', [Next]_vars
  PROVE  [Tokens!Next]_<<Unread, tok>>
<1>1. Whole' /\ text' = text /\ (Scanned' = Scanned \/ Cuts)
  BY StepKeepsWhole, Zenon
<1>2. CASE Cuts
  <2>1. Tokens!Cut
    BY <1>1, <1>2, CutRefines, Zenon DEF IInv
  <2> QED BY <2>1, Zenon DEF Tokens!Next
<1>3. CASE Scanned' = Scanned
  <2>1. Unread' = Unread
    BY <1>1, <1>3, Zenon DEF TextComplete
  <2>2. CASE EndOfFile
    <3>1. Unread = <<>> /\ tok' = Tokens!EOF
      <4>1. Scanned' = Len(text)
        BY <2>2, EndOfFileKept DEF IInv, Whole
      <4>2. Unread = SubSeq(text, Len(text) + 1, Len(text)) /\ text \in Seq(Char)
        BY <1>3, <4>1, Zenon DEF TextComplete, Whole
      <4>3. tok' = EOF
        BY <2>2, Zenon DEF EndOfFile
      <4>4. Tokens!EOF = EOF
        BY Zenon DEF Tokens!EOF, EOF
      <4> QED BY <4>2, <4>3, <4>4
    <3> QED BY <2>1, <3>1, Zenon DEF Tokens!Next, Tokens!End
  <2>3. CASE FindAction
    <3>1. tok' = tok \/ Cuts
      BY <2>3, FindActionKept, Zenon DEF IInv, Whole
    <3> QED BY <1>2, <2>1, <3>1, Zenon
  <2>4. CASE tok' = tok
    BY <2>1, <2>4, Zenon
  <2> QED BY <2>2, <2>3, <2>4, TokenKept, Zenon
<1> QED
  BY <1>1, <1>2, <1>3

\* At first nothing was read and no token handed over.
LEMMA InitRefines ==
  ASSUME Init
  PROVE  Tokens!Init /\ Tracked
<1>1. pc = "parse" /\ tok = EOF /\ text \in Seq(Char)
  BY InitWhole DEF Init, ScanInit, Whole
<1>2. TextComplete
  BY InitHolds, InitWhole, WholeComplete, Zenon DEF IInv
<1>3. Unread \in Seq(Char)
  <2>1. PICK a \in 0..Len(text) : Unread = SubSeq(text, a + 1, Len(text))
    BY <1>2 DEF TextComplete
  <2> QED BY <1>1, <2>1
<1>4. Tokens!EOF = EOF /\ Tokens!Char = Char
  BY SameWords, Zenon DEF Tokens!EOF, EOF
<1> QED
  BY <1>1, <1>3, <1>4, Zenon DEF Tokens!Init, Tracked

\* The scanner implements TokenStream, for every policy file, every size of the
\* buffer and every length the reads return: each action of a rule in yylex cuts
\* the longest prefix of the remaining text that a rule of poise.l matches, sets
\* tok to the token of the rule that comes first, and nothing else changes what
\* is left to cut or the token.
THEOREM ScannerImplements == Spec => ScannerRefines
<1>1. IInv /\ Whole /\ [Next]_vars => Whole'
  BY StepKeepsWhole
<1>2. IInv /\ Tracked /\ [Next]_vars => Tracked'
  BY StepKeepsTracked
<1>3. IInv /\ Whole => TextComplete
  BY WholeComplete DEF IInv
<1>4. IInv /\ Whole /\ Tracked /\ TextComplete /\ TextComplete' /\ [Next]_vars => [Tokens!Next]_<<Unread, tok>>
  BY StepRefines
<1>5. Init => Tokens!Init /\ Tracked
  BY InitRefines
<1> QED
  BY <1>1, <1>2, <1>3, <1>4, <1>5, InitWhole, FrontEndInvariant, PTL DEF Spec, ScannerRefines, Tokens!Spec
============================================================================
