--------------------------- MODULE PolicyExamples ---------------------------
(***************************************************************************)
(* The policies of policies/*.poise and the programs committed for them in *)
(* p4/p1.p4 .. p7.p4 with their commands p1.cmd .. p7.cmd.                 *)
(***************************************************************************)
EXTENDS PolicyCompiler

CONSTANT m0

Pred(h, op, v, a) == [kind |-> "pred", header |-> h, op |-> op, rhs |-> v, acts |-> <<a, "FWD1">>]

OnList(h, op, l, a) ==
    [kind |-> "list", header |-> h, op |-> op, items |-> l, acts |-> <<a, "FWD1">>]

Monitored(m) == [kind |-> "monitor", mon |-> m, extra |-> <<>>, acts |-> <<"FWD1", "DROP">>]

MonitoredIf(m, h, v) ==
    [Monitored(m) EXCEPT !.extra = <<[header |-> h, op |-> "==", rhs |-> v]>>]

Between(h, a, b) == [x \in {h} |-> <<a, b>>]

FieldTable(h, id, size, es, x) ==
    [name |-> <<h, 0, id>>, rec |-> 0, mon |-> NoMon, reads |-> {h}, size |-> size,
     entries |-> es, action_x |-> x]

Program(fields, ts) == [fields |-> fields, RECIR_TIMES |-> 0, tables |-> ts]

p1_poise == <<Pred(1, "<", 9, "DROP"), Pred(1, ">", 17, "DROP")>>
p1_p4 ==
    Program({1}, {FieldTable(1, 0, 2, {Between(1, 0, 9)}, 15),
                  FieldTable(1, 1, 2, {Between(1, 17, 10000)}, 15)})

p2_poise == <<OnList(1, "in", <<1, 2, 3>>, "FWD2")>>
p2_p4 == Program({1}, {FieldTable(1, 0, 3, {Between(1, v, v) : v \in 1..3}, 2)})

p3_poise ==
    <<Pred(1, "<", 100, "DROP"), Pred(1, ">", 105, "DROP"),
      Pred(2, "<", 200, "DROP"), Pred(2, ">", 210, "DROP")>>
p3_p4 ==
    Program({1, 2}, {FieldTable(1, 0, 2, {Between(1, 0, 100)}, 15),
                     FieldTable(1, 1, 2, {Between(1, 105, 10000)}, 15),
                     FieldTable(2, 2, 2, {Between(2, 0, 200)}, 15),
                     FieldTable(2, 3, 2, {Between(2, 210, 10000)}, 15)})

p4_poise == <<Monitored(m0)>>
p4_p4 ==
    Program({1}, {[name |-> <<m0, 0, 0>>, rec |-> 0, mon |-> m0, reads |-> {}, size |-> 2,
                   entries |-> {<<>>}, action_x |-> 15]})

p5_poise == <<Pred(1, "==", 0, "DROP")>>
p5_p4 == Program({1}, {FieldTable(1, 0, 2, {Between(1, 0, 0)}, 15)})

p6_poise == <<Pred(1, "==", 1, "FWD2")>>
p6_p4 == Program({1}, {FieldTable(1, 0, 2, {Between(1, 1, 1)}, 2)})

Examples ==
    {<<p1_poise, p1_p4>>, <<p2_poise, p2_p4>>, <<p3_poise, p3_p4>>, <<p4_poise, p4_p4>>,
     <<p5_poise, p5_p4>>, <<p6_poise, p6_p4>>}

\* The compiler produces exactly the programs and commands the repository
\* holds for its example policies, whichever way std::sort orders equals.
ExamplesReproduced ==
    \A e \in Examples : phase = "done" /\ policy = e[1] =>
        [p4 EXCEPT !.tables = Range(p4.tables)] = e[2]
=============================================================================
