--------------------------- MODULE PolicyCompiler ---------------------------
(***************************************************************************)
(* The policy compiler (compiler/poise.y, ast.h, ast-tofino.c): it parses  *)
(* a policy into match expressions, turns each into a check, merges the    *)
(* checks that can share a table, sorts them by priority, places them into *)
(* the stages of one or more passes and generates the tables and their     *)
(* entries.  A header hN is the number N; list literals are in the         *)
(* statements that use them.                                               *)
(*                                                                         *)
(* Operators marked "Mutant:" state a plausible mistake in the definition  *)
(* after them; they are not part of the specification.                     *)
(***************************************************************************)
EXTENDS StageAllocator, FiniteSets, Functions

CONSTANTS
    Policies,               \* the policies to compile: sequences of if-statements
    Header, Value,          \* context headers and what they hold
    Mon, NoMon, MonHeader,  \* declared monitors and the header each watches
    DEFAULT_HIGH

VARIABLES
    policy,                 \* the policy being compiled
    phase, todo,            \* the compiler's current pass, and the item it is at
    rest,                   \* the headers, or monitors, a merging loop has yet to visit
    action_v,               \* the parser's list of actions seen
    matchexpr_v, check_v,
    p4,                     \* the generated program and table entries
    parsed                  \* history: the checks before any optimisation

front_vars == <<policy, action_v, matchexpr_v>>
back_vars  == <<alloc_vars, p4>>
vars       == <<phase, todo, rest, check_v, parsed, front_vars, back_vars>>

-----------------------------------------------------------------------------
DEFAULT_LOW       == 0
NORMAL_ACTION_VAL == 1

DROP_ACTION_VAL   == 15

action_to_val ==
    [FWD1 |-> 1, FWD2 |-> 2, FWD3 |-> 3, FWD4 |-> 4, FWD5 |-> 5, FWD6 |-> 6, FWD7 |-> 7,
     FWD8 |-> 8, FWD9 |-> 9, FWD10 |-> 10, FWD11 |-> 11, FWD12 |-> 12, FWD13 |-> 13,
     FWD14 |-> 14, DROP |-> DROP_ACTION_VAL]

NoAction == "NONE"

ActionName == DOMAIN action_to_val
Comparison == {"==", "<", ">", "<=", ">="}

\* The statements the grammar produces.
PredStatement ==
    [kind : {"pred"}, header : Header, op : Comparison, rhs : Nat, acts : Seq(ActionName)]
ListStatement ==
    [kind : {"list"}, header : Header, op : {"in", "notin"}, items : Seq(Nat), acts : Seq(ActionName)]
MonStatement ==
    [kind : {"monitor"}, mon : Mon, extra : Seq([header : Header, op : Comparison, rhs : Nat]),
     acts : Seq(ActionName)]
Statement == PredStatement \cup ListStatement \cup MonStatement

ASSUME PolicyAssumption == \A p \in Policies : p \in Seq(Statement) /\ p # <<>>
ASSUME HeaderAssumption == Header \subseteq Nat /\ Value \subseteq Nat /\ DEFAULT_HIGH \in Nat
ASSUME MonAssumption    == NoMon \notin Mon /\ MonHeader \in [Mon -> Header]

NumStages(type) ==
    CASE type = "MONITOR" -> NUM_STAGE_MONITOR
      [] type = "EXACT"   -> NUM_STAGE_EXACT
      [] OTHER            -> NUM_STAGE_RANGE

\* A fresh Check: the member initialisers of the class.
NewCheck ==
    [type |-> "INVALID", id |-> 0, header |-> 0, if_val |-> 0, else_val |-> 0, priority |-> 0,
     table_size |-> 2, pred_lo |-> 0, pred_hi |-> 0, list |-> <<>>,
     mon_name |-> NoMon, extra_check |-> FALSE, extra_header |-> <<>>,
     h_to_val |-> [h \in Header |-> 0]]

-----------------------------------------------------------------------------
(***************************************************************************)
(* Parsing.  The grammar collects the actions of a statement in action_v   *)
(* and empties it only after an if-then-else.  A nested if is a statement  *)
(* without actions of its own.                                             *)
(***************************************************************************)
MatchExpr(s) == [stmt |-> s, if_action |-> NoAction, else_action |-> NoAction]

ParseStatement ==
    /\ phase = "parse" /\ todo <= Len(policy)
    /\ LET s == policy[todo]
           a == action_v \o s.acts
       IN  IF Len(s.acts) = 2
           THEN /\ matchexpr_v' = Append(matchexpr_v,
                       [MatchExpr(s) EXCEPT !.if_action = a[1], !.else_action = a[2]])
                /\ action_v' = <<>>
           ELSE /\ matchexpr_v' = Append(matchexpr_v, MatchExpr(s))
                /\ action_v' = a
    /\ todo' = todo + 1
    /\ UNCHANGED <<policy, phase, rest, check_v, parsed, back_vars>>

ParseDone ==
    /\ phase = "parse" /\ todo > Len(policy)
    /\ phase' = "process" /\ todo' = 1
    /\ UNCHANGED <<rest, front_vars, check_v, parsed, back_vars>>

-----------------------------------------------------------------------------
(***************************************************************************)
(* process_matchexprs.                                                     *)
(***************************************************************************)
HasElse(me) == me.if_action # NoAction /\ me.else_action # NoAction

\* What parse_match_pred and parse_match_list refuse, failing the assertion.
ActionsAccepted(me) ==
    /\ HasElse(me)
    /\ action_to_val[me.else_action] = NORMAL_ACTION_VAL
    /\ me.if_action # me.else_action

\* Mutant: the actions are swapped.
WithActionsSwapped(c, me) ==
    [c EXCEPT !.if_val = action_to_val[me.else_action], !.else_val = action_to_val[me.if_action],
              !.priority = action_to_val[me.else_action]]

WithActions(c, me) ==
    [c EXCEPT !.if_val = action_to_val[me.if_action], !.else_val = action_to_val[me.else_action],
              !.priority = action_to_val[me.if_action]]

parse_match_mon(s) ==
    LET c == [NewCheck EXCEPT !.type = "MONITOR", !.mon_name = s.mon, !.header = MonHeader[s.mon],
                 !.if_val = NORMAL_ACTION_VAL, !.else_val = DROP_ACTION_VAL,
                 !.priority = DROP_ACTION_VAL]
    IN  IF s.extra = <<>> THEN c
        ELSE [c EXCEPT !.extra_check = TRUE, !.extra_header = <<s.extra[1].header>>,
                       !.h_to_val[s.extra[1].header] = s.extra[1].rhs]

parse_match_list(s) ==
    [NewCheck EXCEPT !.type = "LIST", !.header = s.header, !.list = s.items,
                     !.table_size = Len(s.items)]

\* Mutant: the range of > starts at the default low.
parse_match_pred_low(s) ==
    LET c == [NewCheck EXCEPT !.header = s.header] IN
    CASE s.op = "==" -> [c EXCEPT !.type = "EXACT", !.pred_lo = s.rhs, !.pred_hi = s.rhs]
      [] s.op \in {"<", ">"} -> [c EXCEPT !.type = "RANGE", !.pred_lo = DEFAULT_LOW, !.pred_hi = s.rhs]
      [] OTHER -> c

parse_match_pred(s) ==
    LET c == [NewCheck EXCEPT !.header = s.header] IN
    CASE s.op = "==" -> [c EXCEPT !.type = "EXACT", !.pred_lo = s.rhs, !.pred_hi = s.rhs]
      [] s.op = "<"  -> [c EXCEPT !.type = "RANGE", !.pred_lo = DEFAULT_LOW, !.pred_hi = s.rhs]
      [] s.op = ">"  -> [c EXCEPT !.type = "RANGE", !.pred_lo = s.rhs, !.pred_hi = DEFAULT_HIGH]
      [] OTHER -> c

Accepted(me) == me.stmt.kind = "monitor" \/ ActionsAccepted(me)

CheckOf(me) ==
    CASE me.stmt.kind = "monitor" -> parse_match_mon(me.stmt)
      [] me.stmt.kind = "list"    -> WithActions(parse_match_list(me.stmt), me)
      [] me.stmt.kind = "pred"    -> WithActions(parse_match_pred(me.stmt), me)

ProcessMatchexpr ==
    /\ phase = "process" /\ todo <= Len(matchexpr_v)
    /\ Accepted(matchexpr_v[todo])
    /\ check_v' = Append(check_v, [CheckOf(matchexpr_v[todo]) EXCEPT !.id = todo - 1])
    /\ todo' = todo + 1
    /\ UNCHANGED <<phase, rest, parsed, front_vars, back_vars>>

RejectMatchexpr ==
    /\ phase = "process" /\ todo <= Len(matchexpr_v)
    /\ ~Accepted(matchexpr_v[todo])
    /\ phase' = "aborted"
    /\ UNCHANGED <<todo, rest, check_v, parsed, front_vars, back_vars>>

header_v ==
    {policy[i].header : i \in {j \in DOMAIN policy : policy[j].kind # "monitor"}}
    \cup {MonHeader[m] : m \in Mon}
    \cup UNION {{policy[i].extra[x].header : x \in DOMAIN policy[i].extra} :
                   i \in {j \in DOMAIN policy : policy[j].kind = "monitor"}}

ProcessDone ==
    /\ phase = "process" /\ todo > Len(matchexpr_v)
    /\ phase' = "merge headers" /\ rest' = header_v
    /\ parsed' = check_v
    /\ UNCHANGED <<todo, check_v, front_vars, back_vars>>

-----------------------------------------------------------------------------
(***************************************************************************)
(* Optimisation.  merge_same_headers goes through the headers:             *)
(* merge_checks_per_header joins the exact and list checks of one header   *)
(* into one list check if all checks of the header have the same priority; *)
(* the new check takes actions and id of the first of them.                *)
(* merge_monitors joins all checks of a monitor into the first.  The order *)
(* of the headers and of the monitors is left open.                        *)
(***************************************************************************)
Smallest(S) == CHOOSE i \in S : \A j \in S : i <= j

remove_invalid_checks(cs) ==
    LET kept[n \in 0..Len(cs)] ==
            IF n = 0 THEN <<>>
            ELSE IF cs[n].type = "INVALID" THEN kept[n - 1] ELSE Append(kept[n - 1], n)
        left == kept[Len(cs)]
    IN  [n \in DOMAIN left |-> cs[left[n]]]

Listable(c) == c.type \in {"EXACT", "LIST"}

Items(c) == IF c.type = "EXACT" THEN <<c.pred_lo>> ELSE c.list

\* The items of the checks numbered in S, in the order of the checks.
ItemsOf(cs, S) ==
    LET list[n \in 0..Len(cs)] ==
            IF n = 0 THEN <<>>
            ELSE IF n \in S THEN list[n - 1] \o Items(cs[n]) ELSE list[n - 1]
    IN  list[Len(cs)]

\* Mutant: the merged table keeps the default size.
MergedListDefaultSize(first, items) ==
    [NewCheck EXCEPT !.type = "LIST", !.header = first.header, !.id = first.id,
        !.if_val = first.if_val, !.else_val = first.else_val, !.priority = first.if_val,
        !.list = items]

MergedList(first, items) ==
    [NewCheck EXCEPT !.type = "LIST", !.header = first.header, !.id = first.id,
        !.if_val = first.if_val, !.else_val = first.else_val, !.priority = first.if_val,
        !.list = items, !.table_size = Len(items)]

Invalidate(cs, S) == [i \in DOMAIN cs |-> IF i \in S THEN [cs[i] EXCEPT !.type = "INVALID"] ELSE cs[i]]

\* Mutant: checks of different priorities are merged.
merge_any_priority(cs, h) ==
    LET same  == {i \in DOMAIN cs : cs[i].header = h}
        lists == {i \in same : Listable(cs[i])}
    IN  IF Cardinality(lists) <= 1 THEN cs
        ELSE Append(Invalidate(cs, lists), MergedList(cs[Smallest(same)], ItemsOf(cs, lists)))

merge_checks_per_header(cs, h) ==
    LET same  == {i \in DOMAIN cs : cs[i].header = h}
        lists == {i \in same : Listable(cs[i])}
        first == Smallest(same)
    IN  IF \/ Cardinality(same) <= 1
           \/ \E i \in same : cs[i].priority # cs[first].priority
           \/ Cardinality(lists) <= 1
        THEN cs
        ELSE Append(Invalidate(cs, lists), MergedList(cs[first], ItemsOf(cs, lists)))

merge_same_headers ==
    /\ phase = "merge headers"
    /\ \E h \in rest : rest' = rest \ {h} /\ check_v' = merge_checks_per_header(check_v, h)
    /\ UNCHANGED <<phase, todo, parsed, front_vars, back_vars>>

HeadersMerged ==
    /\ phase = "merge headers" /\ rest = {}
    /\ check_v' = remove_invalid_checks(check_v)
    /\ phase' = "merge monitors" /\ rest' = Mon
    /\ UNCHANGED <<todo, parsed, front_vars, back_vars>>

Join(a, c) ==
    [a EXCEPT !.extra_header = @ \o c.extra_header,
              !.h_to_val = [h \in Header |-> IF h \in Range(c.extra_header) THEN c.h_to_val[h] ELSE @[h]]]

\* The first of the checks numbered in S, joined with the others.
Joined(cs, S) ==
    LET first == Smallest(S)
        join[n \in 0..Len(cs)] ==
            IF n = 0 THEN cs[first]
            ELSE IF n \in S \ {first} THEN Join(join[n - 1], cs[n]) ELSE join[n - 1]
        all == join[Len(cs)]
    IN  [all EXCEPT !.table_size = Len(all.extra_header)]

OfMonitor(c, m) == c.type = "MONITOR" /\ c.mon_name = m

MergeMonitor(cs, m) ==
    LET ofm   == {i \in DOMAIN cs : OfMonitor(cs[i], m)}
        first == Smallest(ofm)
    IN  IF Cardinality(ofm) <= 1 THEN cs
        ELSE [Invalidate(cs, ofm \ {first}) EXCEPT ![first] = Joined(cs, ofm)]

merge_monitors ==
    /\ phase = "merge monitors"
    /\ \E m \in rest : rest' = rest \ {m} /\ check_v' = MergeMonitor(check_v, m)
    /\ UNCHANGED <<phase, todo, parsed, front_vars, back_vars>>

MonitorsMerged ==
    /\ phase = "merge monitors" /\ rest = {}
    /\ check_v' = remove_invalid_checks(check_v)
    /\ phase' = "sort"
    /\ UNCHANGED <<todo, rest, parsed, front_vars, back_vars>>

-----------------------------------------------------------------------------
(***************************************************************************)
(* generate_p4: sort (std::sort promises no order among equal priorities), *)
(* allocate_resources, then the tables in the order they are applied.      *)
(***************************************************************************)
Orders(n) == {p \in [1..n -> 1..n] : \A i, j \in 1..n : p[i] = p[j] => i = j}

SortChecks ==
    /\ phase = "sort"
    /\ \E p \in Orders(Len(check_v)) :
          /\ \A i, j \in DOMAIN p : i < j => check_v[p[i]].priority <= check_v[p[j]].priority
          /\ check_v' = [i \in DOMAIN p |-> check_v[p[i]]]
    /\ phase' = "allocate"
    /\ UNCHANGED <<todo, rest, parsed, front_vars, back_vars>>

\* Mutant: the stages are taken from the size of the check's table.
AllocateBySize ==
    /\ phase = "allocate" /\ Len(placed) < Len(check_v)
    /\ Place(check_v[Len(placed) + 1].table_size)
    /\ UNCHANGED <<phase, todo, rest, check_v, parsed, p4, front_vars>>

Allocate ==
    /\ phase = "allocate" /\ Len(placed) < Len(check_v)
    /\ Place(NumStages(check_v[Len(placed) + 1].type))
    /\ UNCHANGED <<phase, todo, rest, check_v, parsed, p4, front_vars>>

OutOfPasses ==
    /\ phase = "allocate" /\ Len(placed) >= Len(check_v) /\ ~ResourcesEnough
    /\ phase' = "aborted"
    /\ UNCHANGED <<todo, rest, check_v, parsed, front_vars, back_vars>>

Exactly(h, v) == [x \in {h} |-> <<v, v>>]

\* The fields a check's table matches, and generate_cmd's entries for it: for
\* each field the range it must lie in.
Reads(c) ==
    IF c.type # "MONITOR" THEN {c.header}
    ELSE IF c.extra_check THEN Range(c.extra_header) ELSE {}

Entries(c) ==
    CASE c.type = "EXACT" -> {Exactly(c.header, c.pred_hi)}
      [] c.type = "RANGE" -> {[h \in {c.header} |-> <<c.pred_lo, c.pred_hi>>]}
      [] c.type = "LIST"  -> {Exactly(c.header, v) : v \in Range(c.list)}
      [] c.type = "MONITOR" /\ c.extra_check ->
             {Exactly(h, c.h_to_val[h]) : h \in Range(c.extra_header)}
      [] OTHER -> {<<>>}

Table(c, rec) ==
    [name |-> <<IF c.type = "MONITOR" THEN c.mon_name ELSE c.header, rec, c.id>>,
     rec |-> rec, mon |-> c.mon_name, reads |-> Reads(c), entries |-> Entries(c),
     size |-> IF c.type = "MONITOR" THEN 2 ELSE c.table_size,
     action_x |-> IF c.type = "MONITOR" THEN c.else_val ELSE c.if_val]

Generate ==
    /\ phase = "allocate" /\ Len(placed) >= Len(check_v) /\ ResourcesEnough
    /\ p4' = [RECIR_TIMES |-> curr_rec,
              fields |-> {check_v[i].header : i \in DOMAIN check_v},
              tables |-> [i \in DOMAIN check_v |-> Table(check_v[i], placed[i].rec)]]
    /\ phase' = "done"
    /\ UNCHANGED <<todo, rest, check_v, parsed, alloc_vars, front_vars>>

-----------------------------------------------------------------------------
Init ==
    /\ policy \in Policies
    /\ phase = "parse" /\ todo = 1 /\ rest = {}
    /\ action_v = <<>> /\ matchexpr_v = <<>> /\ check_v = <<>> /\ parsed = <<>>
    /\ AllocInit
    /\ p4 = [RECIR_TIMES |-> 0, fields |-> {}, tables |-> <<>>]

Next ==
    \/ ParseStatement \/ ParseDone
    \/ ProcessMatchexpr \/ RejectMatchexpr \/ ProcessDone
    \/ merge_same_headers \/ HeadersMerged \/ merge_monitors \/ MonitorsMerged
    \/ SortChecks
    \/ Allocate \/ OutOfPasses \/ Generate

Spec == Init /\ [][Next]_vars

-----------------------------------------------------------------------------
(***************************************************************************)
(* What the generated program decides for a context: in each pass the      *)
(* tables of that pass in order, the last hit wins.  A monitor's table     *)
(* matches when the monitor is not active.  An entry that does not give    *)
(* every field of its table is not installed.  0 is no decision.           *)
(***************************************************************************)
Context == [h : [Header -> Value], active : [Mon -> BOOLEAN]]

Hits(t, ctx) ==
    /\ t.mon # NoMon => ~ctx.active[t.mon]
    /\ \E e \in t.entries :
          /\ DOMAIN e = t.reads
          /\ \A h \in t.reads : e[h][1] <= ctx.h[h] /\ ctx.h[h] <= e[h][2]

EvaluateContext(ctx) ==
    LET ts   == p4.tables
        hits == {i \in DOMAIN ts : ts[i].rec <= p4.RECIR_TIMES /\ Hits(ts[i], ctx)}
        Later(i, j) == ts[j].rec < ts[i].rec \/ (ts[j].rec = ts[i].rec /\ j <= i)
    IN  IF hits = {} THEN 0
        ELSE ts[CHOOSE i \in hits : \A j \in hits : Later(i, j)].action_x

\* What a single check, before any optimisation, asks for.
CheckMatches(c, ctx) ==
    CASE c.type \in {"EXACT", "RANGE"} -> c.pred_lo <= ctx.h[c.header] /\ ctx.h[c.header] <= c.pred_hi
      [] c.type = "LIST" -> ctx.h[c.header] \in Range(c.list)
      [] c.type = "MONITOR" ->
             /\ ~ctx.active[c.mon_name]
             /\ \A h \in Range(c.extra_header) : ctx.h[h] = c.h_to_val[h]
      [] OTHER -> FALSE

Highest(S) == CHOOSE x \in S : \A y \in S : y <= x

ChecksDecide(ctx) ==
    Highest({0} \cup {parsed[i].priority : i \in {j \in DOMAIN parsed : CheckMatches(parsed[j], ctx)}})

-----------------------------------------------------------------------------
(***************************************************************************)
(* What merging relies on and the compiler does not test: an exact or list *)
(* check on the header of a monitor has another priority than the monitor, *)
(* and of several checks of one monitor the first has no extra header.     *)
(***************************************************************************)
MonitorsApart(cs) ==
    \A i, j \in DOMAIN cs :
        cs[i].type = "MONITOR" /\ Listable(cs[j]) /\ cs[i].header = cs[j].header =>
            cs[i].priority # cs[j].priority

MonitorsPlain(cs) ==
    \A i, j \in DOMAIN cs :
        i < j /\ OfMonitor(cs[i], cs[j].mon_name) /\ cs[j].type = "MONITOR" =>
            \E k \in 1..i : OfMonitor(cs[k], cs[j].mon_name) /\ cs[k].extra_header = <<>>

Mergeable == MonitorsApart(parsed) /\ MonitorsPlain(parsed)

\* Merging checks, reordering those of equal priority and spreading them over
\* passes does not change what the policy means: for every context, the
\* generated tables decide what the highest-priority check decides.
MeaningPreserved ==
    phase = "done" /\ Mergeable => \A ctx \in Context : EvaluateContext(ctx) = ChecksDecide(ctx)

\* Every table the compiler emits has room for the entries it emits for it,
\* also after lists, or monitors, have been merged.
EntriesFit ==
    \A i \in DOMAIN p4.tables :
        p4.tables[i].mon = NoMon \/ MonitorsPlain(parsed) =>
            Cardinality(p4.tables[i].entries) <= p4.tables[i].size

(***************************************************************************)
(* What the statements of a policy say: the matching branch's action, the  *)
(* highest action of all statements winning.                               *)
(***************************************************************************)
Compare(x, op, y) ==
    CASE op = "==" -> x = y [] op = "<" -> x < y [] op = ">" -> x > y
      [] op = "<=" -> x <= y [] op = ">=" -> x >= y

StatementMatches(s, ctx) ==
    CASE s.kind = "pred" -> Compare(ctx.h[s.header], s.op, s.rhs)
      [] s.kind = "list" -> (ctx.h[s.header] \in Range(s.items)) <=> (s.op = "in")
      [] s.kind = "monitor" ->
             /\ ctx.active[s.mon]
             /\ \A i \in DOMAIN s.extra : Compare(ctx.h[s.extra[i].header], s.extra[i].op, s.extra[i].rhs)

PolicySays(ctx) ==
    Highest({action_to_val[policy[i].acts[IF StatementMatches(policy[i], ctx) THEN 1 ELSE 2]] :
                i \in DOMAIN policy})

Decides(ctx) ==
    LET d == EvaluateContext(ctx) IN IF d = 0 THEN NORMAL_ACTION_VAL ELSE d

ExactStatement(s) ==
    /\ Len(s.acts) = 2
    /\ CASE s.kind = "pred" -> s.op = "=="
         [] s.kind = "list" -> s.op = "in"
         [] s.kind = "monitor" -> s.extra = <<>> /\ s.acts = <<"FWD1", "DROP">>

\* A policy of ==, in and monitor statements that can be merged and is compiled
\* at all decides every context as its statements say.
ExactPoliciesDecide ==
    phase = "done" /\ Mergeable /\ (\A i \in DOMAIN policy : ExactStatement(policy[i])) =>
        \A ctx \in Context : Decides(ctx) = PolicySays(ctx)

-----------------------------------------------------------------------------
(***************************************************************************)
(* What comments in the compiler and its policies say and it does not do.  *)
(***************************************************************************)
\* "Accept if time in [9, 17], deny otherwise": every compiled policy decides
\* as its statements say.
PolicyDecides == phase = "done" => \A ctx \in Context : Decides(ctx) = PolicySays(ctx)

\* "do optimization": merging never changes what a policy means.
OptimisationKeepsMeaning ==
    phase = "done" => \A ctx \in Context : EvaluateContext(ctx) = ChecksDecide(ctx)

\* "clear actions for the next if-else statement": an if-then-else statement
\* gets its own actions.
OwnActions ==
    \A i \in DOMAIN matchexpr_v :
        LET me == matchexpr_v[i] IN
        Len(me.stmt.acts) = 2 => <<me.if_action, me.else_action>> = me.stmt.acts

\* "can merge list/exact matches with same priority": the tables of a program
\* have different names.
TableNamesUnique ==
    \A i, j \in DOMAIN p4.tables : p4.tables[i].name = p4.tables[j].name => i = j

\* "A monitor statement with one more header": the fields a table matches are
\* declared in poise_h_t.
FieldsDeclared == \A i \in DOMAIN p4.tables : p4.tables[i].reads \subseteq p4.fields
=============================================================================
