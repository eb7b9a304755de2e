-------------------------- MODULE MCPolicyCompiler --------------------------
(***************************************************************************)
(* Small instances of PolicyCompiler: every policy of up to three          *)
(* statements from a pool that mixes equal and different priorities,       *)
(* exact, list and range checks of one header, an operator the compiler    *)
(* does not support, a statement without else and a monitor, placed into   *)
(* passes of three stages, so that a monitor fills a pass.                 *)
(***************************************************************************)
EXTENDS PolicyExamples

MCHeader == {1, 2}
MCValue  == 0..3
MCMon    == {m0}
WatchedBy2 == [m \in MCMon |-> 2]
WatchedBy1 == [m \in MCMon |-> 1]

Pool ==
    {Pred(1, "==", 1, "DROP"), Pred(1, "==", 2, "DROP"), OnList(1, "in", <<1, 3>>, "DROP"),
     Pred(1, "==", 2, "FWD2"), Pred(1, "<", 1, "FWD2"), Pred(2, ">", 2, "DROP"),
     Pred(2, "<=", 1, "DROP"), Pred(2, "==", 2, "DROP"), OnList(2, "in", <<1>>, "FWD2"),
     [Pred(2, "==", 1, "DROP") EXCEPT !.acts = <<"DROP">>],
     Monitored(m0), MonitoredIf(m0, 1, 2)}

MergePolicies == UNION {[1..n -> Pool] : n \in 1..3}

ExamplePolicies == {e[1] : e \in Examples}
RangePolicies   == {p1_poise}
HourValues      == {0, 8, 9, 17, 18, 23}
NotinPolicies   == {<<OnList(1, "notin", <<1, 2>>, "DROP")>>}
SharedHeader    == {<<Monitored(m0), Pred(1, "==", 1, "DROP"), Pred(1, "==", 2, "DROP")>>}
MonitorPolicies == {<<MonitoredIf(m0, 1, 1), MonitoredIf(m0, 1, 2)>>}
NoElsePolicies  == {<<[Monitored(m0) EXCEPT !.acts = <<"FWD2">>], Pred(1, "==", 1, "DROP")>>}
RangeFirst      == {<<Pred(1, "<", 1, "DROP"), Pred(1, "==", 2, "DROP"), Pred(1, "==", 3, "DROP")>>}
ExtraPolicies   == {<<MonitoredIf(m0, 1, 1)>>}
=============================================================================
