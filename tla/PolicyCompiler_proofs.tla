------------------------ MODULE PolicyCompiler_proofs ------------------------
(***************************************************************************)
(* The allocator keeps checks apart and fills its passes, for any number   *)
(* of checks, stages and passes, and the compiler only ever uses the       *)
(* allocator that way, whatever the policy.  And the compiler is right:    *)
(* for any policy, any number of headers and monitors and any context, the *)
(* tables decide what the checks decided before they were merged, exact    *)
(* policies mean what they say, and every table has room for its entries.  *)
(***************************************************************************)
EXTENDS PolicyCompiler, WellFoundedInduction, FiniteSetTheorems, TLAPS

-----------------------------------------------------------------------------
(***************************************************************************)
(* Induction over the naturals with a set in the place of a predicate, and *)
(* what it gives for functions defined by recursion: the library's own     *)
(* theorems on both take operators as parameters.                          *)
(***************************************************************************)
\* Every set of naturals has a least element.
LEMMA LeastNat ==
  ASSUME NEW T \in SUBSET Nat, T # {}
  PROVE  \E n \in T : \A m \in T : n <= m
<1> DEFINE R == OpToRel(<, Nat)
<1>1. IsWellFoundedOn(R, Nat)
  BY NatLessThanWellFounded
<1>2. PICK x \in T : \A y \in T : ~ (<<y, x>> \in R)
  <2> HIDE DEF R
  <2> QED BY <1>1, WFMin, ZenonT(30)
<1>3. ASSUME NEW y \in T PROVE x <= y
  <2>1. ~ (<<y, x>> \in R)
    BY <1>2
  <2>2. y \in Nat /\ x \in Nat /\ ~(y < x)
    BY <2>1 DEF OpToRel
  <2> QED
    BY <2>2
<1> QED
  BY <1>3

\* A set that holds 0 and with each number the next holds every number.
LEMMA SetInduction ==
  ASSUME NEW S, 0 \in S, \A n \in Nat : n \in S => n + 1 \in S
  PROVE  \A n \in Nat : n \in S
<1> SUFFICES ASSUME NEW k \in Nat, k \notin S PROVE FALSE
  OBVIOUS
<1>1. PICK n \in Nat \ S : \A m \in Nat \ S : n <= m
  BY LeastNat, ZenonT(30)
<1>2. n # 0 /\ n - 1 \in Nat /\ n - 1 \in S
  BY <1>1
<1> QED
  BY <1>2

\* f starts with base and goes on with the step G.
Iterates(f, n, A, base, G) ==
  /\ f \in [0..n -> A]
  /\ f[0] = base
  /\ \A i \in 1..n : f[i] = G[<<f[i - 1], i>>]

\* One more iteration.
LEMMA IterateOnce ==
  ASSUME NEW A, NEW base \in A, NEW n \in Nat, NEW G \in [A \X (1..n) -> A],
         NEW k \in Nat, k + 1 <= n, NEW f, Iterates(f, k, A, base, G)
  PROVE  \E g : Iterates(g, k + 1, A, base, G)
<1> DEFINE new == G[<<f[k], k + 1>>]
           g   == [i \in 0..(k + 1) |-> IF i = k + 1 THEN new ELSE f[i]]
<1>1. f \in [0..k -> A] /\ f[0] = base /\ \A i \in 1..k : f[i] = G[<<f[i - 1], i>>]
  BY DEF Iterates
<1>2. k + 1 \in 1..n /\ f[k] \in A
  BY <1>1
<1>3. new \in A
  BY <1>2
<1> HIDE DEF new
<1>4. /\ g[k + 1] = new /\ \A i \in 0..k : g[i] = f[i]
      /\ g \in [0..(k + 1) -> A]
  <2>1. \A i \in 0..(k + 1) : i = k + 1 \/ i \in 0..k
    OBVIOUS
  <2>2. \A i \in 0..k : i # k + 1 /\ i \in 0..(k + 1)
    OBVIOUS
  <2> QED BY <1>1, <1>3, <2>1, <2>2
<1> HIDE DEF g
<1>5. ASSUME NEW i \in 1..(k + 1) PROVE g[i] = G[<<g[i - 1], i>>]
  <2>1. CASE i = k + 1
    <3>1. g[i - 1] = f[k]
      BY <2>1, <1>4
    <3> QED BY <3>1, <2>1, <1>4 DEF new
  <2>2. CASE i \in 1..k
    <3>1. i \in 0..k /\ i - 1 \in 0..k
      BY <2>2
    <3> QED BY <3>1, <2>2, <1>1, <1>4
  <2> QED BY <2>1, <2>2
<1>6. g[0] = base
  BY <1>1, <1>4
<1> QED
  BY <1>4, <1>5, <1>6 DEF Iterates

\* The recursion of a step G over 1..n has a solution.
LEMMA IterationExists ==
  ASSUME NEW A, NEW base \in A, NEW n \in Nat, NEW G \in [A \X (1..n) -> A]
  PROVE  \E f : Iterates(f, n, A, base, G)
<1> DEFINE S == {k \in Nat : k <= n => \E f : Iterates(f, k, A, base, G)}
<1>1. 0 \in S
  <2> DEFINE f == [i \in 0..0 |-> base]
  <2>1. Iterates(f, 0, A, base, G)
    BY DEF Iterates
  <2> HIDE DEF f
  <2>2. \E g : Iterates(g, 0, A, base, G)
    BY <2>1
  <2> QED BY <2>2
<1>2. ASSUME NEW k \in Nat, k \in S PROVE k + 1 \in S
  <2>1. ASSUME k + 1 <= n PROVE \E f : Iterates(f, k + 1, A, base, G)
    <3>1. PICK f : Iterates(f, k, A, base, G)
      BY <1>2, <2>1
    <3> QED BY <2>1, <3>1, IterateOnce
  <2> QED BY <2>1
<1>3. \A k \in Nat : k \in S
  <2> HIDE DEF S
  <2> QED BY <1>1, <1>2, SetInduction
<1> QED
  BY <1>3
-----------------------------------------------------------------------------

AllocTypeOK ==
    /\ placed \in Seq(Placement)
    /\ curr_rec \in Nat
    /\ curr_stage \in 0 .. stages_per_rec

\* The last check ends where the next may start: what StagesDisjoint needs of
\* the two counters to be preserved.
Frontier ==
    \A j \in DOMAIN placed :
        \/ placed[j].rec < curr_rec
        \/ placed[j].rec = curr_rec /\ End(placed[j]) <= curr_stage

\* Before the first check both counters are at their start, so the first check
\* is in pass 0.
Fresh == placed = <<>> => curr_rec = 0 /\ curr_stage = 0

AllocIInv == AllocTypeOK /\ Frontier /\ Fresh /\ StagesDisjoint /\ PassesContiguous

-----------------------------------------------------------------------------
\* One check is placed within its pass, at or after the frontier.
LEMMA PlaceFacts ==
    ASSUME AllocTypeOK, NEW need \in {1, 3}
    PROVE  /\ StartStage(need) \in Nat
           /\ StartStage(need) + need <= stages_per_rec
           /\ Rec(need) \in Nat
           /\ \/ Rec(need) = curr_rec /\ StartStage(need) = curr_stage
              \/ Rec(need) = curr_rec + 1
BY StageAssumption DEF AllocTypeOK, StartStage, Rec, NextRound, NUM_STAGE_MONITOR

\* Before the first check both counters are zero.
LEMMA AllocInitially == AllocInit => AllocIInv
<1> SUFFICES ASSUME AllocInit PROVE AllocIInv
  OBVIOUS
<1>1. AllocTypeOK
  BY StageAssumption DEF AllocInit, AllocTypeOK, NUM_STAGE_MONITOR
<1>2. DOMAIN placed = {}
  BY DEF AllocInit
<1> QED
  BY <1>1, <1>2 DEF AllocInit, AllocIInv, Frontier, Fresh, StagesDisjoint, PassesContiguous

\* Placing a check, whatever stages it needs, preserves the invariant.
LEMMA AllocStep == AllocIInv /\ [AllocNext]_alloc_vars => AllocIInv'
<1> SUFFICES ASSUME AllocIInv, [AllocNext]_alloc_vars PROVE AllocIInv'
  OBVIOUS
<1>1. CASE UNCHANGED alloc_vars
  <2> USE <1>1 DEF alloc_vars
  <2>1. AllocTypeOK' /\ Fresh'
    BY DEF AllocIInv, AllocTypeOK, Fresh
  <2>2. Frontier'
    BY DEF AllocIInv, Frontier
  <2>3. StagesDisjoint'
    BY DEF AllocIInv, StagesDisjoint
  <2>4. PassesContiguous'
    BY DEF AllocIInv, PassesContiguous
  <2> QED
    BY <2>1, <2>2, <2>3, <2>4 DEF AllocIInv
<1>2. CASE AllocNext
  <2>1. PICK need \in {1, 3} : Place(need)
    BY <1>2 DEF AllocNext, NUM_STAGE_EXACT, NUM_STAGE_RANGE, NUM_STAGE_MONITOR
  <2> DEFINE pl == [start_stage |-> StartStage(need), stage_num |-> need, rec |-> Rec(need)]
             n  == Len(placed) + 1
  <2>2. /\ placed' = Append(placed, pl)
        /\ curr_stage' = StartStage(need) + need
        /\ curr_rec' = Rec(need)
    BY <2>1 DEF Place
  <2>3. AllocTypeOK /\ Frontier /\ Fresh /\ StagesDisjoint /\ PassesContiguous
    BY DEF AllocIInv
  <2>4. /\ StartStage(need) \in Nat
        /\ StartStage(need) + need <= stages_per_rec
        /\ Rec(need) \in Nat
        /\ \/ Rec(need) = curr_rec /\ StartStage(need) = curr_stage
           \/ Rec(need) = curr_rec + 1
    BY <2>3, PlaceFacts
  <2>5. pl \in Placement /\ End(pl) = StartStage(need) + need /\ pl.rec = Rec(need)
        /\ pl.start_stage = StartStage(need)
    BY <2>4 DEF Placement, End
  <2> HIDE DEF pl
  <2>6. /\ placed \in Seq(Placement) /\ placed' \in Seq(Placement)
        /\ n \in Nat \ {0} /\ DOMAIN placed = 1 .. n - 1 /\ DOMAIN placed' = 1 .. n
        /\ placed'[n] = pl /\ placed' # <<>>
        /\ \A i \in 1 .. n - 1 : placed'[i] = placed[i] /\ placed[i] \in Placement
    BY <2>2, <2>3, <2>5 DEF AllocTypeOK
  <2> HIDE DEF n
  <2>7. AllocTypeOK'
    BY <2>2, <2>4, <2>6, StageAssumption DEF AllocTypeOK
  <2>8. Frontier'
    <3> SUFFICES ASSUME NEW j \in 1 .. n
                 PROVE  \/ placed'[j].rec < curr_rec'
                        \/ placed'[j].rec = curr_rec' /\ End(placed'[j]) <= curr_stage'
      BY <2>6 DEF Frontier, End
    <3>1. CASE j = n
      BY <3>1, <2>2, <2>4, <2>5, <2>6
    <3>2. CASE j \in 1 .. n - 1
      <4>1. \/ placed[j].rec < curr_rec
            \/ placed[j].rec = curr_rec /\ End(placed[j]) <= curr_stage
        BY <3>2, <2>3, <2>6 DEF Frontier
      <4>2. placed[j] \in Placement /\ curr_rec \in Nat
        BY <3>2, <2>3, <2>6 DEF AllocTypeOK
      <4>4. placed[j].rec \in Nat /\ End(placed[j]) \in Nat
        BY <4>2 DEF Placement, End
      <4>3. placed'[j] = placed[j] /\ curr_stage \in Nat
        BY <3>2, <2>3, <2>6, StageAssumption DEF AllocTypeOK
      <4> QED
        BY <4>1, <4>2, <4>4, <4>3, <2>2, <2>4, SMTT(30)
    <3> QED
      BY <3>1, <3>2, <2>6
  <2>9. StagesDisjoint'
    <3>1. ASSUME NEW j \in 1 .. n PROVE End(placed'[j]) <= stages_per_rec
      <4>1. CASE j = n
        BY <4>1, <2>4, <2>5, <2>6
      <4>2. CASE j \in 1 .. n - 1
        BY <4>2, <2>3, <2>6 DEF StagesDisjoint
      <4> QED
        BY <4>1, <4>2, <2>6
    <3>2. ASSUME NEW j \in 1 .. n, NEW i \in 1 .. n, i < j
          PROVE  \/ placed'[i].rec < placed'[j].rec
                 \/ /\ placed'[i].rec = placed'[j].rec
                    /\ End(placed'[i]) <= placed'[j].start_stage
      <4>1. CASE j = n
        <5>1. i \in 1 .. n - 1
          BY <4>1, <3>2, <2>6
        <5>2. \/ placed[i].rec < curr_rec
              \/ placed[i].rec = curr_rec /\ End(placed[i]) <= curr_stage
          BY <5>1, <2>3, <2>6 DEF Frontier
        <5>3. placed[i] \in Placement /\ curr_rec \in Nat
          BY <5>1, <2>3, <2>6 DEF AllocTypeOK
        <5>4. placed[i].rec \in Nat
          BY <5>3 DEF Placement
        <5>5. placed'[i] = placed[i] /\ placed'[j] = pl
          BY <4>1, <5>1, <2>6
        <5>6. (pl.rec = curr_rec /\ pl.start_stage = curr_stage) \/ pl.rec = curr_rec + 1
          BY <2>4, <2>5
        <5> QED
          BY <5>2, <5>3, <5>4, <5>5, <5>6
      <4>2. CASE j \in 1 .. n - 1
        <5>1. i \in 1 .. n - 1
          BY <4>2, <3>2, <2>6
        <5> QED
          BY <4>2, <5>1, <3>2, <2>3, <2>6 DEF StagesDisjoint
      <4> QED
        BY <4>1, <4>2, <2>6
    <3> QED
      BY <3>1, <3>2, <2>6 DEF StagesDisjoint, End
  <2>10. PassesContiguous'
    <3> SUFFICES {placed'[i].rec : i \in 1 .. n} = 0 .. curr_rec'
      BY <2>6 DEF PassesContiguous
    <3>1. {placed'[i].rec : i \in 1 .. n} = {placed[i].rec : i \in 1 .. n - 1} \cup {Rec(need)}
      BY <2>5, <2>6
    <3>2. CASE placed = <<>>
      <4>1. n = 1 /\ curr_rec = 0 /\ curr_stage = 0
        BY <3>2, <2>3 DEF Fresh, n
      <4>2. Rec(need) = 0
        BY <4>1, StageAssumption DEF Rec, NextRound, NUM_STAGE_MONITOR
      <4>3. {placed[i].rec : i \in 1 .. n - 1} = {}
        BY <4>1
      <4>4. 0 .. Rec(need) = {0}
        BY <4>2
      <4> QED
        BY <3>1, <4>2, <4>3, <4>4, <2>2, Zenon
    <3>3. CASE placed # <<>>
      <4>1. {placed[i].rec : i \in 1 .. n - 1} = 0 .. curr_rec
        BY <3>3, <2>3, <2>6 DEF PassesContiguous
      <4>2. curr_rec \in Nat /\ Rec(need) \in {curr_rec, curr_rec + 1}
        BY <2>3, <2>4 DEF AllocTypeOK
      <4>3. (0 .. curr_rec) \cup {Rec(need)} = 0 .. Rec(need)
        BY <4>2
      <4> QED
        BY <3>1, <4>1, <4>3, <2>2, Zenon
    <3> QED
      BY <3>2, <3>3
  <2>11. Fresh'
    BY <2>6 DEF Fresh
  <2> QED
    BY <2>7, <2>8, <2>9, <2>10, <2>11 DEF AllocIInv
<1> QED
  BY <1>1, <1>2

\* The allocator, for any sequence of checks, stages per pass and pass limit.
LEMMA AllocInvariant == AllocSpec => []AllocIInv
BY AllocInitially, AllocStep, PTL DEF AllocSpec

-----------------------------------------------------------------------------
\* The compiler implements the allocator: for every policy, each step of
\* compile_tofino places one check or leaves the allocation alone.
THEOREM CompilerAllocates == Spec => AllocSpec
<1>1. Init => AllocInit
  BY DEF Init
<1>2. [Next]_vars => [AllocNext]_alloc_vars
  <2> SUFFICES ASSUME [Next]_vars PROVE [AllocNext]_alloc_vars
    OBVIOUS
  <2>1. CASE Allocate
    <3>1. NumStages(check_v[Len(placed) + 1].type)
              \in {NUM_STAGE_EXACT, NUM_STAGE_RANGE, NUM_STAGE_MONITOR}
      BY DEF NumStages, NUM_STAGE_EXACT, NUM_STAGE_RANGE, NUM_STAGE_MONITOR
    <3> QED
      BY <2>1, <3>1, Zenon DEF Allocate, AllocNext
  <2>2. CASE Generate
    BY <2>2, Zenon DEF Generate
  <2>3. CASE ParseStatement \/ ParseDone
    BY <2>3, Zenon DEF ParseStatement, ParseDone, back_vars
  <2>4. CASE ProcessMatchexpr \/ RejectMatchexpr \/ ProcessDone
    BY <2>4, Zenon DEF ProcessMatchexpr, RejectMatchexpr, ProcessDone, back_vars
  <2>5. CASE merge_same_headers \/ HeadersMerged \/ merge_monitors \/ MonitorsMerged
    BY <2>5, Zenon DEF merge_same_headers, HeadersMerged, merge_monitors, MonitorsMerged, back_vars
  <2>6. CASE SortChecks \/ OutOfPasses
    BY <2>6, Zenon DEF SortChecks, OutOfPasses, back_vars
  <2>7. CASE UNCHANGED vars
    BY <2>7, Zenon DEF vars, back_vars
  <2> QED
    BY <2>1, <2>2, <2>3, <2>4, <2>5, <2>6, <2>7, Zenon DEF Next
<1> QED
  BY <1>1, <1>2, PTL DEF Spec, AllocSpec

\* For every policy and every stages_per_rec of at least a monitor's three
\* stages, allocate_resources gives no stage of a pass to two checks and keeps
\* their order.
THEOREM StagesNeverShared == Spec => []StagesDisjoint
<1>1. AllocIInv => StagesDisjoint
  BY DEF AllocIInv
<1> QED
  BY <1>1, CompilerAllocates, AllocInvariant, PTL

\* For every policy, the passes that hold a check are exactly 0 .. curr_rec, so
\* RECIR_TIMES recirculations reach every check and none is idle.
THEOREM PassesAllUsed == Spec => []PassesContiguous
<1>1. AllocIInv => PassesContiguous
  BY DEF AllocIInv
<1> QED
  BY <1>1, CompilerAllocates, AllocInvariant, PTL

-----------------------------------------------------------------------------
(***************************************************************************)
(* The invariant of the compiler.  A check that is not of type INVALID     *)
(* carries the action of its table as its priority, and what merging does  *)
(* to the checks leaves, for every context, the set of the priorities that *)
(* match it as it was.                                                     *)
(***************************************************************************)
CheckType == {"INVALID", "EXACT", "RANGE", "LIST", "MONITOR"}

Check ==
    [type : CheckType, id : Nat, header : Nat, if_val : Nat, else_val : Nat, priority : Nat,
     table_size : Nat, pred_lo : Nat, pred_hi : Nat, list : Seq(Nat), mon_name : Mon \cup {NoMon},
     extra_check : BOOLEAN, extra_header : Seq(Header), h_to_val : [Header -> Nat]]

MatchExprs ==
    [stmt : Statement, if_action : ActionName \cup {NoAction},
     else_action : ActionName \cup {NoAction}]

\* What holds of a check at every time.
Sound(c) ==
    /\ c.header \in Header
    /\ c.type = "MONITOR" =>
          /\ c.mon_name \in Mon
          /\ c.priority = DROP_ACTION_VAL /\ c.else_val = DROP_ACTION_VAL
          /\ c.extra_header = <<>> => ~c.extra_check
    /\ c.type \in {"EXACT", "RANGE", "LIST"} => c.mon_name = NoMon
    /\ c.mon_name = NoMon => c.priority = c.if_val
    /\ c.type = "EXACT" => c.pred_lo = c.pred_hi
    /\ c.type \in {"EXACT", "RANGE"} => c.table_size = 2
    /\ c.type = "LIST" => c.table_size = Len(c.list)

\* What holds of a check that no merging has touched.
Single(c) ==
    /\ c.type # "MONITOR" => c.mon_name = NoMon
    /\ c.type = "MONITOR" => c.extra_header = <<>> \/ (c.extra_check /\ Len(c.extra_header) = 1)

\* A monitor's table has at most one entry.
OneEntry(cs) ==
    \A i \in DOMAIN cs : cs[i].type = "MONITOR" /\ cs[i].extra_check => Len(cs[i].extra_header) = 1

Matches(c, ctx) == Hits(Table(c, 0), ctx)

Matched(cs, ctx) == {cs[i].priority : i \in {j \in DOMAIN cs : Matches(cs[j], ctx)}}

Optimising == {"merge headers", "merge monitors", "sort", "allocate", "done"}

Made(cs, i) ==
    Accepted(matchexpr_v[i]) /\ cs[i] = [CheckOf(matchexpr_v[i]) EXCEPT !.id = i - 1]

TwoActions == \A i \in DOMAIN policy : Len(policy[i].acts) = 2

ParseInv ==
    /\ policy \in Seq(Statement) /\ policy # <<>>
    /\ action_v \in Seq(ActionName) /\ matchexpr_v \in Seq(MatchExprs) /\ todo \in Nat \ {0}
    /\ Len(matchexpr_v) <= Len(policy)
    /\ phase = "parse" => Len(matchexpr_v) = todo - 1
    /\ phase # "parse" => Len(matchexpr_v) = Len(policy)
    /\ \A i \in DOMAIN matchexpr_v : matchexpr_v[i].stmt = policy[i]
    /\ TwoActions =>
          /\ action_v = <<>>
          /\ \A i \in DOMAIN matchexpr_v :
                 /\ matchexpr_v[i].if_action = policy[i].acts[1]
                 /\ matchexpr_v[i].else_action = policy[i].acts[2]

ProcessInv ==
    /\ phase = "parse" => check_v = <<>>
    /\ phase = "process" =>
          Len(check_v) = todo - 1 /\ Len(check_v) <= Len(matchexpr_v)
          /\ \A i \in DOMAIN check_v : Made(check_v, i)
    /\ phase \in Optimising =>
          Len(parsed) = Len(matchexpr_v) /\ \A i \in DOMAIN parsed : Made(parsed, i)

ChecksInv ==
    /\ check_v \in Seq(Check) /\ \A i \in DOMAIN check_v : Sound(check_v[i])
    /\ parsed \in Seq(Check) /\ \A i \in DOMAIN parsed : Sound(parsed[i]) /\ Single(parsed[i])
    /\ phase \in {"process", "merge headers"} =>
          \A i \in DOMAIN check_v : Single(check_v[i])
    /\ phase \in {"sort", "allocate", "done"} =>
          \A i \in DOMAIN check_v : check_v[i].type # "INVALID"

MergeInv ==
    /\ phase = "merge headers" /\ MonitorsApart(parsed) => MonitorsApart(check_v)
    /\ phase \in {"merge headers", "merge monitors"} /\ MonitorsPlain(parsed) => MonitorsPlain(check_v)
    /\ phase \in Optimising /\ MonitorsPlain(parsed) => OneEntry(check_v)
    /\ phase \in Optimising /\ Mergeable =>
          \A ctx \in Context : Matched(check_v, ctx) = Matched(parsed, ctx)

PlaceInv ==
    /\ phase \in {"allocate", "done"} =>
          \A i, j \in DOMAIN check_v : i < j => check_v[i].priority <= check_v[j].priority
    /\ phase \notin {"allocate", "done", "aborted"} => placed = <<>>
    /\ phase = "allocate" => Len(placed) <= Len(check_v)
    /\ phase # "done" => p4.tables = <<>>
    /\ phase = "done" =>
          /\ Len(placed) = Len(check_v)
          /\ p4.RECIR_TIMES = curr_rec
          /\ p4.tables = [i \in DOMAIN check_v |-> Table(check_v[i], placed[i].rec)]

IInv == ParseInv /\ ProcessInv /\ ChecksInv /\ MergeInv /\ PlaceInv

-----------------------------------------------------------------------------
(***************************************************************************)
(* What a check's table matches.                                           *)
(***************************************************************************)
\* A context gives every header a number and every monitor a state.
LEMMA ContextFacts ==
  ASSUME NEW ctx \in Context
  PROVE  /\ \A h \in Header : ctx.h[h] \in Nat
         /\ \A m \in Mon : ctx.active[m] \in BOOLEAN
BY HeaderAssumption, Zenon DEF Context

\* An exact check matches its one value.
LEMMA MatchesExact ==
  ASSUME NEW c \in Check, Sound(c), c.type = "EXACT", NEW ctx \in Context
  PROVE  Matches(c, ctx) <=> ctx.h[c.header] = c.pred_lo
<1> DEFINE t == Table(c, 0)
           e == Exactly(c.header, c.pred_hi)
<1>1. t.mon = NoMon /\ t.reads = {c.header} /\ t.entries = {e}
  BY DEF Table, Reads, Entries, Sound
<1>2. DOMAIN e = {c.header} /\ e[c.header] = <<c.pred_hi, c.pred_hi>>
  BY DEF Exactly
<1>3. c.pred_lo = c.pred_hi /\ c.pred_hi \in Nat /\ ctx.h[c.header] \in Nat
  BY ContextFacts DEF Sound, Check
<1> HIDE DEF t, e
<1>4. Hits(t, ctx) <=> c.pred_hi <= ctx.h[c.header] /\ ctx.h[c.header] <= c.pred_hi
  BY <1>1, <1>2 DEF Hits
<1> QED
  BY <1>3, <1>4 DEF Matches, t

\* A range check matches what lies between its bounds.
LEMMA MatchesRange ==
  ASSUME NEW c \in Check, Sound(c), c.type = "RANGE", NEW ctx \in Context
  PROVE  Matches(c, ctx) <=> c.pred_lo <= ctx.h[c.header] /\ ctx.h[c.header] <= c.pred_hi
<1> DEFINE t == Table(c, 0)
           e == [h \in {c.header} |-> <<c.pred_lo, c.pred_hi>>]
<1>1. t.mon = NoMon /\ t.reads = {c.header} /\ t.entries = {e}
  BY DEF Table, Reads, Entries, Sound
<1>2. DOMAIN e = {c.header} /\ e[c.header] = <<c.pred_lo, c.pred_hi>>
  OBVIOUS
<1> HIDE DEF t, e
<1>3. Hits(t, ctx) <=> c.pred_lo <= ctx.h[c.header] /\ ctx.h[c.header] <= c.pred_hi
  BY <1>1, <1>2 DEF Hits
<1> QED
  BY <1>3 DEF Matches, t

\* A list check matches its items.
LEMMA MatchesList ==
  ASSUME NEW c \in Check, Sound(c), c.type = "LIST", NEW ctx \in Context
  PROVE  Matches(c, ctx) <=> \E n \in DOMAIN c.list : ctx.h[c.header] = c.list[n]
<1> DEFINE t == Table(c, 0)
<1>1. t.mon = NoMon /\ t.reads = {c.header} /\ t.entries = {Exactly(c.header, v) : v \in Range(c.list)}
  BY DEF Table, Reads, Entries, Sound
<1>2. \A v : DOMAIN Exactly(c.header, v) = {c.header} /\ Exactly(c.header, v)[c.header] = <<v, v>>
  BY DEF Exactly
<1>3. ctx.h[c.header] \in Nat /\ \A n \in DOMAIN c.list : c.list[n] \in Nat
  BY ContextFacts, SMTT(30) DEF Check, Sound
<1> HIDE DEF t
<1>4. Hits(t, ctx) <=> \E v \in Range(c.list) : v <= ctx.h[c.header] /\ ctx.h[c.header] <= v
  <2>1. Hits(t, ctx) <=> \E e \in t.entries : /\ DOMAIN e = {c.header}
                                              /\ e[c.header][1] <= ctx.h[c.header]
                                              /\ ctx.h[c.header] <= e[c.header][2]
    BY <1>1, Zenon DEF Hits
  <2>2. Hits(t, ctx) <=> \E v \in Range(c.list) :
                             /\ DOMAIN Exactly(c.header, v) = {c.header}
                             /\ Exactly(c.header, v)[c.header][1] <= ctx.h[c.header]
                             /\ ctx.h[c.header] <= Exactly(c.header, v)[c.header][2]
    BY <1>1, <2>1, Zenon
  <2>3. \A v : Exactly(c.header, v)[c.header][1] = v /\ Exactly(c.header, v)[c.header][2] = v
    BY <1>2
  <2> QED BY <1>2, <2>2, <2>3, ZenonT(30)
<1>5. Hits(t, ctx) <=> \E n \in DOMAIN c.list : c.list[n] <= ctx.h[c.header] /\ ctx.h[c.header] <= c.list[n]
  BY <1>4 DEF Range
<1> QED
  BY <1>3, <1>5 DEF Matches, t

\* A monitor's table matches only while the monitor is not active.
LEMMA MatchesMonitor ==
  ASSUME NEW c \in Check, Sound(c), c.type = "MONITOR", NEW ctx \in Context
  PROVE  /\ Matches(c, ctx) => ~ctx.active[c.mon_name]
         /\ ~c.extra_check => (Matches(c, ctx) <=> ~ctx.active[c.mon_name])
<1> DEFINE t == Table(c, 0)
<1>1. t.mon = c.mon_name /\ c.mon_name # NoMon
  BY MonAssumption DEF Table, Sound
<1>2. ~c.extra_check => t.reads = {} /\ t.entries = {<<>>}
  BY DEF Table, Reads, Entries
<1> HIDE DEF t
<1>3. DOMAIN <<>> = {}
  OBVIOUS
<1>4. ~c.extra_check => (Hits(t, ctx) <=> ~ctx.active[c.mon_name])
  BY <1>1, <1>2, <1>3, Zenon DEF Hits
<1>5. Hits(t, ctx) => ~ctx.active[c.mon_name]
  BY <1>1, Zenon DEF Hits
<1> QED
  BY <1>4, <1>5, Zenon DEF Matches, t

\* With one extra header the table also matches the value of that header.
LEMMA MatchesExtra ==
  ASSUME NEW c \in Check, Sound(c), c.type = "MONITOR", c.extra_check, Len(c.extra_header) = 1,
         NEW ctx \in Context
  PROVE  Matches(c, ctx) <=> /\ ~ctx.active[c.mon_name]
                             /\ ctx.h[c.extra_header[1]] = c.h_to_val[c.extra_header[1]]
<1> DEFINE t == Table(c, 0)
           x == c.extra_header[1]
           e == Exactly(x, c.h_to_val[x])
<1>1. Range(c.extra_header) = {x} /\ x \in Header
  BY DEF Check, Range
<1>2. t.mon = c.mon_name /\ c.mon_name # NoMon
  BY MonAssumption DEF Table, Sound
<1>3. t.reads = {x} /\ t.entries = {e}
  <2> HIDE DEF x
  <2> QED BY <1>1 DEF Table, Reads, Entries
<1>4. DOMAIN e = {x} /\ e[x] = <<c.h_to_val[x], c.h_to_val[x]>>
  BY DEF Exactly
<1>5. c.h_to_val[x] \in Nat /\ ctx.h[x] \in Nat
  BY <1>1, ContextFacts, SMTT(30) DEF Check
<1> HIDE DEF t, e, x
<1>6. Hits(t, ctx) <=> ~ctx.active[c.mon_name] /\ c.h_to_val[x] <= ctx.h[x] /\ ctx.h[x] <= c.h_to_val[x]
  BY <1>2, <1>3, <1>4 DEF Hits
<1>7. Hits(t, ctx) <=> ~ctx.active[c.mon_name] /\ ctx.h[x] = c.h_to_val[x]
  BY <1>5, <1>6
<1> QED
  BY <1>7 DEF Matches, t, x

\* An invalid check matches nothing.
LEMMA MatchesInvalid ==
  ASSUME NEW c, c.type = "INVALID", NEW ctx
  PROVE  ~Matches(c, ctx)
<1> DEFINE t == Table(c, 0)
<1>1. t.reads = {c.header} /\ t.entries = {<<>>}
  BY DEF Table, Reads, Entries
<1> HIDE DEF t
<1>2. DOMAIN <<>> # {c.header}
  OBVIOUS
<1>3. ~Hits(t, ctx)
  BY <1>1, <1>2, Zenon DEF Hits
<1> QED
  BY <1>3 DEF Matches, t

\* What a table matches does not depend on its pass.
LEMMA MatchesAnyPass ==
  ASSUME NEW c, NEW rec, NEW ctx
  PROVE  Hits(Table(c, rec), ctx) <=> Matches(c, ctx)
BY Zenon DEF Matches, Hits, Table

\* The table of a check agrees with what the check asks for before merging.
LEMMA CheckMatchesTable ==
  ASSUME NEW c \in Check, Sound(c), Single(c), NEW ctx \in Context
  PROVE  CheckMatches(c, ctx) <=> Matches(c, ctx)
<1>1. CASE c.type = "EXACT"
  <2>1. CheckMatches(c, ctx) <=> c.pred_lo <= ctx.h[c.header] /\ ctx.h[c.header] <= c.pred_hi
    BY <1>1 DEF CheckMatches
  <2>2. c.pred_lo = c.pred_hi /\ c.pred_hi \in Nat /\ ctx.h[c.header] \in Nat
    BY <1>1, ContextFacts DEF Sound, Check
  <2> QED BY <2>1, <2>2, <1>1, MatchesExact
<1>2. CASE c.type = "RANGE"
  BY <1>2, MatchesRange DEF CheckMatches
<1>3. CASE c.type = "LIST"
  <2>1. CheckMatches(c, ctx) <=> ctx.h[c.header] \in Range(c.list)
    BY <1>3 DEF CheckMatches
  <2> QED BY <2>1, <1>3, MatchesList DEF Range
<1>4. CASE c.type = "MONITOR"
  <2>1. CheckMatches(c, ctx) <=> /\ ~ctx.active[c.mon_name]
                                 /\ \A h \in Range(c.extra_header) : ctx.h[h] = c.h_to_val[h]
    BY <1>4 DEF CheckMatches
  <2>2. CASE c.extra_header = <<>>
    <3>1. Range(c.extra_header) = {} /\ ~c.extra_check
      BY <2>2, <1>4 DEF Range, Sound
    <3> QED BY <2>1, <3>1, <1>4, MatchesMonitor
  <2>3. CASE c.extra_check /\ Len(c.extra_header) = 1
    <3>1. Range(c.extra_header) = {c.extra_header[1]}
      BY <2>3 DEF Check, Range
    <3> QED BY <2>1, <2>3, <3>1, <1>4, MatchesExtra
  <2> QED BY <1>4, <2>2, <2>3 DEF Single
<1>5. CASE c.type = "INVALID"
  BY <1>5, MatchesInvalid DEF CheckMatches
<1> QED
  BY <1>1, <1>2, <1>3, <1>4, <1>5 DEF Check, CheckType

-----------------------------------------------------------------------------
(***************************************************************************)
(* The checks process_matchexprs makes.                                    *)
(***************************************************************************)
\* Every action has a priority between that of forwarding and that of dropping.
LEMMA ActionValues == \A a \in ActionName : action_to_val[a] \in 1..15
<1> SUFFICES ASSUME NEW a \in ActionName PROVE action_to_val[a] \in 1..15
  OBVIOUS
<1>1. a \in {"FWD1", "FWD2", "FWD3", "FWD4", "FWD5", "FWD6", "FWD7", "FWD8", "FWD9", "FWD10",
             "FWD11", "FWD12", "FWD13", "FWD14", "DROP"}
  BY DEF ActionName, action_to_val
<1> QED
  BY <1>1 DEF action_to_val, DROP_ACTION_VAL

\* An accepted if-then-else has two actions.
LEMMA AcceptedActions ==
  ASSUME NEW me \in MatchExprs, ActionsAccepted(me)
  PROVE  me.if_action \in ActionName /\ me.else_action \in ActionName
BY DEF MatchExprs, ActionsAccepted, HasElse

\* The length and the first element of a sequence.
LEMMA SeqFacts ==
  ASSUME NEW S, NEW q \in Seq(S)
  PROVE  Len(q) \in Nat /\ DOMAIN q = 1..Len(q) /\ (q # <<>> => q[1] \in S)
OBVIOUS

\* A fresh check.
LEMMA FreshCheck ==
  /\ NewCheck \in Check
  /\ NewCheck.mon_name = NoMon /\ NewCheck.type = "INVALID" /\ NewCheck.table_size = 2
  /\ NewCheck.extra_header = <<>> /\ NewCheck.extra_check = FALSE
<1>1. <<>> \in Seq(Nat) /\ <<>> \in Seq(Header) /\ [h \in Header |-> 0] \in [Header -> Nat]
  OBVIOUS
<1> QED
  BY <1>1 DEF NewCheck, Check, CheckType

\* A check of a comparison is typed; == gives one value, < and > a range.
LEMMA PredCheck ==
  ASSUME NEW s \in PredStatement
  PROVE  LET c == parse_match_pred(s) IN
         /\ c \in Check /\ c.mon_name = NoMon /\ c.type \in {"EXACT", "RANGE", "INVALID"}
         /\ c.header = s.header /\ c.table_size = 2
         /\ c.type = "EXACT" => c.pred_lo = c.pred_hi
         /\ s.op = "==" => c.type = "EXACT" /\ c.pred_lo = s.rhs
<1> DEFINE n == [NewCheck EXCEPT !.header = s.header]
           c == parse_match_pred(s)
<1>1. s.header \in Nat /\ s.rhs \in Nat
  BY HeaderAssumption, Zenon DEF PredStatement
<1>2. n \in Check /\ n.mon_name = NoMon /\ n.type = "INVALID" /\ n.header = s.header /\ n.table_size = 2
  BY <1>1, FreshCheck, Zenon DEF Check
<1>3. c =
         CASE s.op = "==" -> [n EXCEPT !.type = "EXACT", !.pred_lo = s.rhs, !.pred_hi = s.rhs]
           [] s.op = "<"  -> [n EXCEPT !.type = "RANGE", !.pred_lo = DEFAULT_LOW, !.pred_hi = s.rhs]
           [] s.op = ">"  -> [n EXCEPT !.type = "RANGE", !.pred_lo = s.rhs, !.pred_hi = DEFAULT_HIGH]
           [] OTHER -> n
  BY Zenon DEF parse_match_pred
<1> HIDE DEF n, c
<1>4. CASE s.op = "=="
  <2>1. c = [n EXCEPT !.type = "EXACT", !.pred_lo = s.rhs, !.pred_hi = s.rhs]
    BY <1>3, <1>4, Zenon
  <2>2. /\ c \in Check /\ c.type = "EXACT" /\ c.pred_lo = s.rhs /\ c.pred_hi = s.rhs
        /\ c.mon_name = NoMon /\ c.header = s.header /\ c.table_size = 2
    BY <1>1, <1>2, <2>1, Zenon DEF Check, CheckType
  <2> QED BY <2>2, Zenon DEF c
<1>5. CASE s.op = "<"
  <2>1. c = [n EXCEPT !.type = "RANGE", !.pred_lo = 0, !.pred_hi = s.rhs]
    BY <1>3, <1>5 DEF DEFAULT_LOW
  <2>2. /\ c \in Check /\ c.type = "RANGE"
        /\ c.mon_name = NoMon /\ c.header = s.header /\ c.table_size = 2
    BY <1>1, <1>2, <2>1, Zenon DEF Check, CheckType
  <2> QED BY <2>2, <1>5 DEF c
<1>6. CASE s.op = ">"
  <2>1. c = [n EXCEPT !.type = "RANGE", !.pred_lo = s.rhs, !.pred_hi = DEFAULT_HIGH]
    BY <1>3, <1>6
  <2>2. /\ c \in Check /\ c.type = "RANGE"
        /\ c.mon_name = NoMon /\ c.header = s.header /\ c.table_size = 2
    BY <1>1, <1>2, <2>1, HeaderAssumption, Zenon DEF Check, CheckType
  <2> QED BY <2>2, <1>6 DEF c
<1>7. CASE s.op \notin {"==", "<", ">"}
  <2>1. c = n
    BY <1>3, <1>7
  <2> QED BY <1>2, <1>7, <2>1 DEF c
<1> QED
  BY <1>4, <1>5, <1>6, <1>7

\* A check of a list holds the list and its size.
LEMMA ListCheck ==
  ASSUME NEW s \in ListStatement
  PROVE  LET c == parse_match_list(s) IN
         /\ c \in Check /\ c.mon_name = NoMon /\ c.type = "LIST"
         /\ c.header = s.header /\ c.list = s.items /\ c.table_size = Len(s.items)
<1> DEFINE n == NewCheck
           c == parse_match_list(s)
<1>1. s.header \in Nat /\ s.items \in Seq(Nat) /\ Len(s.items) \in Nat
  <2>1. s.header \in Header /\ s.items \in Seq(Nat)
    BY DEF ListStatement
  <2> QED BY <2>1, HeaderAssumption, SeqFacts, Zenon
<1>2. n \in Check /\ n.mon_name = NoMon
  BY FreshCheck
<1>3. c = [n EXCEPT !.type = "LIST", !.header = s.header, !.list = s.items, !.table_size = Len(s.items)]
  BY DEF parse_match_list
<1> HIDE DEF n, c
<1>4. /\ c \in Check /\ c.mon_name = NoMon /\ c.type = "LIST"
      /\ c.header = s.header /\ c.list = s.items /\ c.table_size = Len(s.items)
  BY <1>1, <1>2, <1>3, Zenon DEF Check, CheckType
<1> QED
  BY <1>4, Zenon DEF c

\* A check of a monitor drops when its table hits.
LEMMA MonCheck ==
  ASSUME NEW s \in MonStatement
  PROVE  LET c == parse_match_mon(s) IN
         /\ c \in Check /\ Sound(c) /\ Single(c) /\ c.type = "MONITOR" /\ c.mon_name = s.mon
         /\ s.extra = <<>> => c.extra_header = <<>>
<1> DEFINE k == NewCheck
           n == [k EXCEPT !.type = "MONITOR", !.mon_name = s.mon, !.header = MonHeader[s.mon],
                   !.if_val = NORMAL_ACTION_VAL, !.else_val = DROP_ACTION_VAL,
                   !.priority = DROP_ACTION_VAL]
           c == parse_match_mon(s)
<1>1. s.mon \in Mon /\ MonHeader[s.mon] \in Header /\ MonHeader[s.mon] \in Nat /\ s.mon # NoMon
  BY MonAssumption, HeaderAssumption, Zenon DEF MonStatement
<1>2. k \in Check /\ k.extra_header = <<>> /\ k.extra_check = FALSE
  BY FreshCheck
<1>3. c =
        IF s.extra = <<>> THEN n
        ELSE [n EXCEPT !.extra_check = TRUE, !.extra_header = <<s.extra[1].header>>,
                       !.h_to_val[s.extra[1].header] = s.extra[1].rhs]
  BY Zenon DEF parse_match_mon
<1> HIDE DEF k, c
<1>4. /\ n \in Check /\ n.mon_name = s.mon /\ n.type = "MONITOR" /\ n.extra_header = <<>>
      /\ n.extra_check = FALSE /\ n.header = MonHeader[s.mon]
      /\ n.priority = DROP_ACTION_VAL /\ n.else_val = DROP_ACTION_VAL
  BY <1>1, <1>2, Zenon DEF Check, CheckType, NORMAL_ACTION_VAL, DROP_ACTION_VAL
<1> HIDE DEF n
<1>5. CASE s.extra = <<>>
  <2>1. c = n
    BY <1>3, <1>5, Zenon
  <2>2. Sound(c) /\ Single(c)
    BY <1>1, <1>4, <2>1, Zenon DEF Sound, Single
  <2> QED BY <1>4, <1>5, <2>1, <2>2, Zenon DEF c
<1>6. CASE s.extra # <<>>
  <2> DEFINE h == s.extra[1].header
             v == s.extra[1].rhs
  <2>1. h \in Header /\ v \in Nat
    <3>1. s.extra \in Seq([header : Header, op : Comparison, rhs : Nat])
      BY DEF MonStatement
    <3>2. s.extra[1] \in [header : Header, op : Comparison, rhs : Nat]
      BY <3>1, <1>6, SeqFacts, Zenon
    <3> QED BY <3>2
  <2> HIDE DEF h, v
  <2>2. c = [n EXCEPT !.extra_check = TRUE, !.extra_header = <<h>>, !.h_to_val[h] = v]
    BY <1>3, <1>6, Zenon DEF h, v
  <2>3. n.h_to_val \in [Header -> Nat]
    BY <1>4 DEF Check
  <2>4. [n.h_to_val EXCEPT ![h] = v] \in [Header -> Nat] /\ <<h>> \in Seq(Header)
    BY <2>1, <2>3
  <2>5. c \in Check
    BY <1>4, <2>2, <2>4, Zenon DEF Check
  <2>6. /\ c.extra_check = TRUE /\ c.extra_header = <<h>> /\ c.type = "MONITOR" /\ c.mon_name = s.mon
        /\ c.header = MonHeader[s.mon] /\ c.priority = DROP_ACTION_VAL /\ c.else_val = DROP_ACTION_VAL
    BY <1>4, <2>2 DEF Check
  <2>7. <<h>> # <<>> /\ Len(<<h>>) = 1
    OBVIOUS
  <2>8. Sound(c)
    BY <1>1, <2>6, <2>7 DEF Sound
  <2>9. Single(c)
    BY <1>1, <2>6, <2>7 DEF Single
  <2> QED
    BY <1>6, <2>5, <2>6, <2>8, <2>9, Zenon DEF c
<1> QED
  BY <1>5, <1>6

\* Setting the actions sets the priority to that of the if-action.
LEMMA WithActionsFacts ==
  ASSUME NEW c \in Check, NEW me \in MatchExprs, ActionsAccepted(me)
  PROVE  LET d == WithActions(c, me) IN
         /\ d \in Check /\ d.priority = action_to_val[me.if_action] /\ d.priority = d.if_val
         /\ d.type = c.type /\ d.mon_name = c.mon_name /\ d.table_size = c.table_size /\ d.list = c.list
         /\ d.pred_lo = c.pred_lo /\ d.pred_hi = c.pred_hi /\ d.header = c.header
<1>1. action_to_val[me.if_action] \in Nat /\ action_to_val[me.else_action] \in Nat
  BY AcceptedActions, ActionValues
<1> QED
  BY <1>1, Zenon DEF WithActions, Check

\* Numbering a check changes nothing else.
LEMMA NumberedFacts ==
  ASSUME NEW c \in Check, NEW n \in Nat
  PROVE  LET d == [c EXCEPT !.id = n] IN
         /\ d \in Check
         /\ Sound(c) => Sound(d)
         /\ Single(c) => Single(d)
         /\ d.priority = c.priority /\ d.type = c.type /\ d.mon_name = c.mon_name
         /\ d.list = c.list /\ d.pred_lo = c.pred_lo /\ d.header = c.header
         /\ d.extra_header = c.extra_header
<1> DEFINE d == [c EXCEPT !.id = n]
<1>1. /\ d \in Check /\ d.priority = c.priority /\ d.type = c.type /\ d.mon_name = c.mon_name
      /\ d.list = c.list /\ d.pred_lo = c.pred_lo /\ d.pred_hi = c.pred_hi /\ d.header = c.header
      /\ d.extra_header = c.extra_header /\ d.extra_check = c.extra_check
      /\ d.if_val = c.if_val /\ d.else_val = c.else_val /\ d.table_size = c.table_size
  BY Zenon DEF Check
<1> HIDE DEF d
<1>2. Sound(c) => Sound(d)
  BY <1>1, Zenon DEF Sound
<1>3. Single(c) => Single(d)
  BY <1>1, Zenon DEF Single
<1> QED
  BY <1>1, <1>2, <1>3 DEF d

\* The statement of a match expression is of one of the three kinds.
LEMMA KindOfStatement ==
  ASSUME NEW s \in Statement
  PROVE  \/ s \in PredStatement /\ s.kind = "pred"
         \/ s \in ListStatement /\ s.kind = "list"
         \/ s \in MonStatement /\ s.kind = "monitor"
BY DEF Statement, PredStatement, ListStatement, MonStatement

\* Every check made of an accepted match expression is sound.
LEMMA MadeSound ==
  ASSUME NEW me \in MatchExprs, Accepted(me)
  PROVE  CheckOf(me) \in Check /\ Sound(CheckOf(me)) /\ Single(CheckOf(me))
<1> DEFINE s == me.stmt
<1>1. s \in Statement
  BY DEF MatchExprs
<1>2. CASE s \in PredStatement /\ s.kind = "pred"
  <2> DEFINE c == parse_match_pred(s)
             d == WithActions(c, me)
  <2>1. ActionsAccepted(me) /\ CheckOf(me) = d
    BY <1>2 DEF Accepted, CheckOf
  <2>2. /\ c \in Check /\ c.mon_name = NoMon /\ c.type \in {"EXACT", "RANGE", "INVALID"}
        /\ c.table_size = 2 /\ c.header \in Header
        /\ c.type = "EXACT" => c.pred_lo = c.pred_hi
    <3>1. s.header \in Header
      BY <1>2 DEF PredStatement
    <3> QED BY <1>2, <3>1, PredCheck, Zenon
  <2> HIDE DEF c
  <2>3. /\ d \in Check /\ d.priority = d.if_val /\ d.type = c.type /\ d.mon_name = c.mon_name
        /\ d.table_size = c.table_size /\ d.pred_lo = c.pred_lo /\ d.pred_hi = c.pred_hi
        /\ d.header = c.header
    BY <2>1, <2>2, WithActionsFacts, Zenon
  <2> HIDE DEF d
  <2> QED BY <2>1, <2>2, <2>3 DEF Sound, Single
<1>3. CASE s \in ListStatement /\ s.kind = "list"
  <2> DEFINE c == parse_match_list(s)
             d == WithActions(c, me)
  <2>1. ActionsAccepted(me) /\ CheckOf(me) = d
    BY <1>3 DEF Accepted, CheckOf
  <2>2. c \in Check /\ c.mon_name = NoMon /\ c.type = "LIST" /\ c.table_size = Len(c.list)
        /\ c.header \in Header
    <3>1. s.header \in Header
      BY <1>3 DEF ListStatement
    <3> QED BY <1>3, <3>1, ListCheck, Zenon
  <2> HIDE DEF c
  <2>3. /\ d \in Check /\ d.priority = d.if_val /\ d.type = c.type /\ d.mon_name = c.mon_name
        /\ d.table_size = c.table_size /\ d.list = c.list /\ d.header = c.header
    BY <2>1, <2>2, WithActionsFacts, Zenon
  <2> HIDE DEF d
  <2> QED BY <2>1, <2>2, <2>3 DEF Sound, Single
<1>4. CASE s \in MonStatement /\ s.kind = "monitor"
  <2>1. CheckOf(me) = parse_match_mon(s)
    BY <1>4 DEF CheckOf
  <2> QED BY <2>1, <1>4, MonCheck, Zenon
<1> QED
  BY <1>1, <1>2, <1>3, <1>4, KindOfStatement

-----------------------------------------------------------------------------
(***************************************************************************)
(* The loops over the checks.                                              *)
(***************************************************************************)
\* The smallest of a set of positions.
LEMMA SmallestFacts ==
  ASSUME NEW S \in SUBSET Nat, S # {}
  PROVE  Smallest(S) \in S /\ \A j \in S : Smallest(S) <= j
BY LeastNat, Zenon DEF Smallest

\* remove_invalid_checks keeps the valid checks, all of them, in their order.
LEMMA RemoveFacts ==
  ASSUME NEW A, NEW cs \in Seq(A)
  PROVE  /\ remove_invalid_checks(cs) \in Seq(A)
         /\ \E p \in Seq(Nat) :
               /\ DOMAIN remove_invalid_checks(cs) = DOMAIN p
               /\ \A i \in DOMAIN p : /\ p[i] \in DOMAIN cs /\ cs[p[i]].type # "INVALID"
                                      /\ remove_invalid_checks(cs)[i] = cs[p[i]]
               /\ \A i, j \in DOMAIN p : i < j => p[i] < p[j]
               /\ \A k \in DOMAIN cs : cs[k].type # "INVALID" => \E i \in DOMAIN p : p[i] = k
<1> DEFINE N == Len(cs)
           F(w) == [n \in 0..N |-> IF n = 0 THEN <<>>
                                   ELSE IF cs[n].type = "INVALID" THEN w[n - 1] ELSE Append(w[n - 1], n)]
           W == CHOOSE w : w = F(w)
           G == [x \in Seq(Nat) \X (1..N) |->
                    IF cs[x[2]].type = "INVALID" THEN x[1] ELSE Append(x[1], x[2])]
<1>1. remove_invalid_checks(cs) = [n \in DOMAIN W[N] |-> cs[W[N][n]]]
  BY Zenon DEF remove_invalid_checks
<1>2. N \in Nat /\ DOMAIN cs = 1..N
  OBVIOUS
<1> HIDE DEF N
<1>3. <<>> \in Seq(Nat) /\ G \in [Seq(Nat) \X (1..N) -> Seq(Nat)]
  BY <1>2
<1>4. PICK f : Iterates(f, N, Seq(Nat), <<>>, G)
  <2> HIDE DEF G
  <2> QED BY <1>2, <1>3, IterationExists, Zenon
<1>5. f = F(f)
  <2>1. f \in [0..N -> Seq(Nat)] /\ f[0] = <<>> /\ \A i \in 1..N : f[i] = G[<<f[i - 1], i>>]
    BY <1>4, Zenon DEF Iterates
  <2>2. ASSUME NEW n \in 1..N
        PROVE  f[n] = IF cs[n].type = "INVALID" THEN f[n - 1] ELSE Append(f[n - 1], n)
    <3>1. n - 1 \in 0..N
      BY <1>2
    <3>2. <<f[n - 1], n>> \in Seq(Nat) \X (1..N)
      BY <2>1, <3>1
    <3>3. f[n] = G[<<f[n - 1], n>>]
      BY <2>1, Zenon
    <3> QED BY <3>2, <3>3
  <2>3. \A n \in 0..N : n = 0 \/ n \in 1..N
    BY <1>2
  <2> QED BY <2>1, <2>2, <2>3, Zenon
<1>6. W = F(W)
  <2> HIDE DEF F
  <2> QED BY <1>5
<1> HIDE DEF W, G
<1>7. /\ W[0] = <<>>
      /\ \A n \in 1..N : W[n] = IF cs[n].type = "INVALID" THEN W[n - 1] ELSE Append(W[n - 1], n)
  <2>1. \A n \in 0..N : W[n] = IF n = 0 THEN <<>>
                               ELSE IF cs[n].type = "INVALID" THEN W[n - 1] ELSE Append(W[n - 1], n)
    BY <1>6, Zenon
  <2>2. 0 \in 0..N /\ \A n \in 1..N : n \in 0..N /\ n # 0
    BY <1>2
  <2> QED BY <2>1, <2>2, Zenon
<1> DEFINE Kept(p, k) ==
             /\ p \in Seq(Nat)
             /\ \A i \in DOMAIN p : p[i] \in 1..k /\ cs[p[i]].type # "INVALID"
             /\ \A i, j \in DOMAIN p : i < j => p[i] < p[j]
             /\ \A j \in 1..k : cs[j].type # "INVALID" => \E i \in DOMAIN p : p[i] = j
           S == {k \in Nat : k <= N => Kept(W[k], k)}
<1>8. 0 \in S
  <2>1. <<>> \in Seq(Nat) /\ DOMAIN <<>> = {} /\ 1..0 = {}
    OBVIOUS
  <2>2. Kept(<<>>, 0)
    BY <2>1, Zenon
  <2> QED BY <1>7, <2>2, Zenon
<1>9. ASSUME NEW k \in Nat, k \in S PROVE k + 1 \in S
  <2> SUFFICES ASSUME k + 1 <= N PROVE Kept(W[k + 1], k + 1)
    OBVIOUS
  <2> DEFINE p == W[k]
  <2>1. Kept(p, k) /\ k + 1 \in 1..N
    BY <1>2, <1>9
  <2>2. W[k + 1] = IF cs[k + 1].type = "INVALID" THEN p ELSE Append(p, k + 1)
    BY <1>7, <2>1
  <2> HIDE DEF p
  <2>3. CASE cs[k + 1].type = "INVALID"
    BY <2>1, <2>2, <2>3
  <2>4. CASE cs[k + 1].type # "INVALID"
    <3> DEFINE q == Append(p, k + 1)
    <3>1. /\ q \in Seq(Nat) /\ DOMAIN p = 1..Len(p) /\ Len(p) \in Nat /\ DOMAIN q = 1..(Len(p) + 1)
          /\ q[Len(p) + 1] = k + 1 /\ \A i \in DOMAIN p : q[i] = p[i]
      BY <2>1
    <3>2. W[k + 1] = q
      BY <2>2, <2>4
    <3> HIDE DEF q
    <3>3. \A i \in DOMAIN q : q[i] \in 1..(k + 1) /\ cs[q[i]].type # "INVALID"
      <4>1. ASSUME NEW i \in DOMAIN p PROVE q[i] \in 1..(k + 1) /\ cs[q[i]].type # "INVALID"
        BY <2>1, <3>1
      <4>2. q[Len(p) + 1] \in 1..(k + 1) /\ cs[q[Len(p) + 1]].type # "INVALID"
        BY <2>1, <2>4, <3>1
      <4>3. \A i \in DOMAIN q : i \in DOMAIN p \/ i = Len(p) + 1
        BY <3>1
      <4> QED BY <4>1, <4>2, <4>3, Zenon
    <3>4. \A i, j \in DOMAIN q : i < j => q[i] < q[j]
      <4> SUFFICES ASSUME NEW i \in DOMAIN q, NEW j \in DOMAIN q, i < j PROVE q[i] < q[j]
        OBVIOUS
      <4>1. i \in DOMAIN p /\ p[i] \in 1..k
        BY <2>1, <3>1, SMTT(30)
      <4>2. CASE j \in DOMAIN p
        BY <2>1, <3>1, <4>1, <4>2
      <4>3. CASE j = Len(p) + 1
        BY <3>1, <4>1, <4>3
      <4> QED BY <3>1, <4>2, <4>3
    <3>5. \A j \in 1..(k + 1) : cs[j].type # "INVALID" => \E i \in DOMAIN q : q[i] = j
      <4> SUFFICES ASSUME NEW j \in 1..(k + 1), cs[j].type # "INVALID" PROVE \E i \in DOMAIN q : q[i] = j
        OBVIOUS
      <4>1. CASE j = k + 1
        BY <3>1, <4>1
      <4>2. CASE j \in 1..k
        <5>1. PICK i \in DOMAIN p : p[i] = j
          BY <2>1, <4>2
        <5> QED BY <3>1, <5>1
      <4> QED BY <4>1, <4>2
    <3> QED BY <3>1, <3>2, <3>3, <3>4, <3>5
  <2> QED BY <2>3, <2>4
<1>10. Kept(W[N], N)
  <2>1. \A k \in Nat : k \in S
    <3> HIDE DEF S
    <3> QED BY <1>8, <1>9, SetInduction
  <2>2. N \in S
    BY <2>1, <1>2, Zenon
  <2>3. N <= N
    BY <1>2
  <2> QED BY <2>2, <2>3, Zenon
<1> DEFINE p == W[N]
           r == remove_invalid_checks(cs)
<1>11. r = [n \in DOMAIN p |-> cs[p[n]]]
  BY <1>1
<1>12. Kept(p, N)
  BY <1>10
<1> HIDE DEF p, r, F
<1>13. \A i \in DOMAIN p : p[i] \in DOMAIN cs /\ cs[p[i]] \in A
  BY <1>2, <1>12
<1>14. r \in Seq(A) /\ DOMAIN r = DOMAIN p /\ \A i \in DOMAIN p : r[i] = cs[p[i]]
  <2>1. DOMAIN p = 1..Len(p) /\ Len(p) \in Nat
    BY <1>12
  <2> QED BY <1>11, <1>13, <2>1
<1>15. /\ \A i \in DOMAIN p : cs[p[i]].type # "INVALID"
       /\ \A i, j \in DOMAIN p : i < j => p[i] < p[j]
       /\ \A k \in DOMAIN cs : cs[k].type # "INVALID" => \E i \in DOMAIN p : p[i] = k
       /\ p \in Seq(Nat)
  BY <1>2, <1>12
<1> QED
  BY <1>13, <1>14, <1>15, Zenon DEF r

\* The items of one check.
LEMMA ItemsTyped ==
  ASSUME NEW c \in Check
  PROVE  Items(c) \in Seq(Nat)
<1>1. c.list \in Seq(Nat) /\ c.pred_lo \in Nat
  BY DEF Check
<1>2. <<c.pred_lo>> \in Seq(Nat)
  BY <1>1
<1> QED
  BY <1>1, <1>2, Zenon DEF Items

\* What a concatenation holds.
LEMMA ConcatHolds ==
  ASSUME NEW q \in Seq(Nat), NEW r \in Seq(Nat)
  PROVE  /\ q \o r \in Seq(Nat)
         /\ \A v : (\E n \in DOMAIN (q \o r) : (q \o r)[n] = v) <=>
                   \/ \E n \in DOMAIN q : q[n] = v
                   \/ \E n \in DOMAIN r : r[n] = v
<1> DEFINE t == q \o r
<1>1. /\ t \in Seq(Nat) /\ Len(q) \in Nat /\ Len(r) \in Nat /\ DOMAIN q = 1..Len(q) /\ DOMAIN r = 1..Len(r)
      /\ DOMAIN t = 1..(Len(q) + Len(r))
      /\ \A n \in 1..Len(q) : t[n] = q[n]
      /\ \A n \in 1..Len(r) : t[Len(q) + n] = r[n]
  OBVIOUS
<1> HIDE DEF t
<1>2. ASSUME NEW v, NEW n \in DOMAIN t, t[n] = v
      PROVE  (\E k \in DOMAIN q : q[k] = v) \/ (\E k \in DOMAIN r : r[k] = v)
  <2>1. CASE n <= Len(q)
    <3>1. n \in DOMAIN q /\ q[n] = v
      BY <1>1, <1>2, <2>1
    <3> QED BY <3>1
  <2>2. CASE n > Len(q)
    <3> DEFINE k == n - Len(q)
    <3>1. k \in DOMAIN r /\ n = Len(q) + k
      BY <1>1, <2>2
    <3> HIDE DEF k
    <3>2. r[k] = v
      BY <1>1, <1>2, <3>1
    <3> QED BY <3>1, <3>2
  <2> QED BY <1>1, <2>1, <2>2
<1>3. ASSUME NEW v, NEW n \in DOMAIN q, q[n] = v PROVE \E k \in DOMAIN t : t[k] = v
  <2>1. n \in DOMAIN t /\ t[n] = v
    BY <1>1, <1>3
  <2> QED BY <2>1
<1>4. ASSUME NEW v, NEW n \in DOMAIN r, r[n] = v PROVE \E k \in DOMAIN t : t[k] = v
  <2>1. Len(q) + n \in DOMAIN t /\ t[Len(q) + n] = v
    BY <1>1, <1>4, SMTT(30)
  <2> QED BY <2>1
<1> QED
  BY <1>1, <1>2, <1>3, <1>4, Zenon DEF t

\* The merged list holds the items of the merged checks and no others.
LEMMA ItemsFacts ==
  ASSUME NEW cs \in Seq(Check), NEW T \in SUBSET DOMAIN cs
  PROVE  /\ ItemsOf(cs, T) \in Seq(Nat)
         /\ \A v : (\E n \in DOMAIN ItemsOf(cs, T) : ItemsOf(cs, T)[n] = v) <=>
                   \E i \in T : \E n \in DOMAIN Items(cs[i]) : Items(cs[i])[n] = v
<1> DEFINE N == Len(cs)
           F(w) == [n \in 0..N |-> IF n = 0 THEN <<>>
                                   ELSE IF n \in T THEN w[n - 1] \o Items(cs[n]) ELSE w[n - 1]]
           W == CHOOSE w : w = F(w)
           G == [x \in Seq(Nat) \X (1..N) |->
                    IF x[2] \in T THEN x[1] \o Items(cs[x[2]]) ELSE x[1]]
<1>1. ItemsOf(cs, T) = W[N]
  BY Zenon DEF ItemsOf
<1>2. N \in Nat /\ DOMAIN cs = 1..N /\ \A n \in 1..N : cs[n] \in Check
  OBVIOUS
<1> HIDE DEF N
<1>3. \A n \in 1..N : Items(cs[n]) \in Seq(Nat)
  BY <1>2, ItemsTyped
<1>4. <<>> \in Seq(Nat) /\ G \in [Seq(Nat) \X (1..N) -> Seq(Nat)]
  <2>1. ASSUME NEW x \in Seq(Nat) \X (1..N)
        PROVE  (IF x[2] \in T THEN x[1] \o Items(cs[x[2]]) ELSE x[1]) \in Seq(Nat)
    <3>1. x[1] \in Seq(Nat) /\ Items(cs[x[2]]) \in Seq(Nat)
      BY <1>3
    <3>2. x[1] \o Items(cs[x[2]]) \in Seq(Nat)
      BY <3>1, ConcatHolds
    <3> QED BY <3>1, <3>2, Zenon
  <2> QED BY <2>1
<1>5. PICK f : Iterates(f, N, Seq(Nat), <<>>, G)
  <2> HIDE DEF G
  <2> QED BY <1>2, <1>4, IterationExists, Zenon
<1>6. f = F(f)
  <2>1. f \in [0..N -> Seq(Nat)] /\ f[0] = <<>> /\ \A i \in 1..N : f[i] = G[<<f[i - 1], i>>]
    BY <1>5, Zenon DEF Iterates
  <2>2. ASSUME NEW n \in 1..N
        PROVE  f[n] = IF n \in T THEN f[n - 1] \o Items(cs[n]) ELSE f[n - 1]
    <3>1. n - 1 \in 0..N
      BY <1>2
    <3>2. <<f[n - 1], n>> \in Seq(Nat) \X (1..N)
      BY <2>1, <3>1, SMTT(30)
    <3>3. f[n] = G[<<f[n - 1], n>>]
      BY <2>1, Zenon
    <3> QED BY <3>2, <3>3
  <2>3. \A n \in 0..N : n = 0 \/ n \in 1..N
    BY <1>2
  <2>4. 0 \notin 1..N
    OBVIOUS
  <2>5. \A n \in 0..N : f[n] = IF n = 0 THEN <<>>
                               ELSE IF n \in T THEN f[n - 1] \o Items(cs[n]) ELSE f[n - 1]
    BY <2>1, <2>2, <2>3, <2>4, Zenon
  <2>6. f = [n \in 0..N |-> f[n]]
    BY <2>1
  <2> QED BY <2>5, <2>6, Zenon
<1>7. W = F(W)
  <2> HIDE DEF F
  <2> QED BY <1>6
<1> HIDE DEF W, G
<1>8. /\ W[0] = <<>>
      /\ \A n \in 1..N : W[n] = IF n \in T THEN W[n - 1] \o Items(cs[n]) ELSE W[n - 1]
  <2>1. \A n \in 0..N : W[n] = IF n = 0 THEN <<>>
                               ELSE IF n \in T THEN W[n - 1] \o Items(cs[n]) ELSE W[n - 1]
    BY <1>7, Zenon
  <2>2. 0 \in 0..N /\ \A n \in 1..N : n \in 0..N /\ n # 0
    BY <1>2
  <2> QED BY <2>1, <2>2, Zenon
<1> HIDE DEF F
<1> DEFINE Holds(q, v) == \E n \in DOMAIN q : q[n] = v
           Upto(q, k) == /\ q \in Seq(Nat)
                         /\ \A v : Holds(q, v) <=> \E i \in T : i <= k /\ Holds(Items(cs[i]), v)
           S == {k \in Nat : k <= N => Upto(W[k], k)}
<1>9. 0 \in S
  <2>1. <<>> \in Seq(Nat) /\ DOMAIN <<>> = {} /\ ~ \E i \in T : i <= 0
    BY <1>2
  <2>2. Upto(<<>>, 0)
    BY <2>1, Zenon
  <2> QED BY <1>8, <2>2, Zenon
<1>10. ASSUME NEW k \in Nat, k \in S PROVE k + 1 \in S
  <2> SUFFICES ASSUME k + 1 <= N PROVE Upto(W[k + 1], k + 1)
    OBVIOUS
  <2> DEFINE q == W[k]
  <2>1. Upto(q, k) /\ k + 1 \in 1..N
    BY <1>2, <1>10
  <2>2. W[k + 1] = IF k + 1 \in T THEN q \o Items(cs[k + 1]) ELSE q
    BY <1>8, <2>1
  <2>3. \A i \in T : i <= k + 1 <=> i <= k \/ i = k + 1
    BY <1>2
  <2> HIDE DEF q
  <2>4. CASE k + 1 \notin T
    BY <2>1, <2>2, <2>3, <2>4, Zenon
  <2>5. CASE k + 1 \in T
    <3>1. Items(cs[k + 1]) \in Seq(Nat) /\ q \in Seq(Nat)
      BY <1>3, <2>1
    <3>2. /\ W[k + 1] \in Seq(Nat)
          /\ \A v : Holds(W[k + 1], v) <=> Holds(q, v) \/ Holds(Items(cs[k + 1]), v)
      <4>1. W[k + 1] = q \o Items(cs[k + 1])
        BY <2>2, <2>5, Zenon
      <4> DEFINE r == Items(cs[k + 1])
      <4>2. r \in Seq(Nat) /\ W[k + 1] = q \o r
        BY <3>1, <4>1
      <4> HIDE DEF r
      <4>3. /\ q \o r \in Seq(Nat)
            /\ \A v : (\E n \in DOMAIN (q \o r) : (q \o r)[n] = v) <=>
                      \/ \E n \in DOMAIN q : q[n] = v
                      \/ \E n \in DOMAIN r : r[n] = v
        BY <3>1, <4>2, ConcatHolds, Zenon
      <4> QED BY <4>2, <4>3, Zenon DEF r
    <3> QED BY <2>1, <2>3, <2>5, <3>2, Zenon
  <2> QED BY <2>4, <2>5
<1>11. Upto(W[N], N)
  <2>1. \A k \in Nat : k \in S
    <3> HIDE DEF S
    <3> QED BY <1>9, <1>10, SetInduction
  <2>2. N \in S
    BY <2>1, <1>2, Zenon
  <2>3. N <= N
    BY <1>2
  <2> QED BY <2>2, <2>3, Zenon
<1>12. \A i \in T : i <= N
  BY <1>2
<1> QED
  BY <1>1, <1>11, <1>12, Zenon

\* The fields that joining monitor checks leaves as they are in the first.
Like(c, d) ==
    /\ d.type = c.type /\ d.header = c.header /\ d.mon_name = c.mon_name
    /\ d.if_val = c.if_val /\ d.else_val = c.else_val /\ d.priority = c.priority
    /\ d.extra_check = c.extra_check
    /\ d.extra_header = <<>> => c.extra_header = <<>>

\* Joining one more check.
LEMMA JoinFacts ==
  ASSUME NEW a \in Check, NEW c \in Check
  PROVE  Join(a, c) \in Check /\ Like(a, Join(a, c))
<1> DEFINE hs == a.extra_header \o c.extra_header
           vs == [h \in Header |-> IF h \in Range(c.extra_header) THEN c.h_to_val[h] ELSE a.h_to_val[h]]
           j  == Join(a, c)
<1>1. hs \in Seq(Header) /\ (hs = <<>> => a.extra_header = <<>>)
  <2>1. a.extra_header \in Seq(Header) /\ c.extra_header \in Seq(Header)
    BY DEF Check
  <2>2. \A q, r \in Seq(Header) : q \o r \in Seq(Header) /\ (q \o r = <<>> => q = <<>>)
    OBVIOUS
  <2> QED BY <2>1, <2>2, Zenon
<1>2. vs \in [Header -> Nat]
  <2>1. a.h_to_val \in [Header -> Nat] /\ c.h_to_val \in [Header -> Nat]
    BY Zenon DEF Check
  <2> QED BY <2>1
<1>3. j = [a EXCEPT !.extra_header = hs, !.h_to_val = vs]
  BY Zenon DEF Join
<1> HIDE DEF hs, vs, j
<1>4. /\ j \in Check /\ j.type = a.type /\ j.header = a.header /\ j.mon_name = a.mon_name
      /\ j.if_val = a.if_val /\ j.else_val = a.else_val /\ j.priority = a.priority
      /\ j.extra_check = a.extra_check /\ j.extra_header = hs
  BY <1>1, <1>2, <1>3, Zenon DEF Check
<1> QED
  BY <1>1, <1>4, Zenon DEF Like, j

\* The joined check is the first but for its extra headers, their values and
\* its size.
LEMMA JoinedFacts ==
  ASSUME NEW cs \in Seq(Check), NEW T \in SUBSET DOMAIN cs, T # {}
  PROVE  Joined(cs, T) \in Check /\ Like(cs[Smallest(T)], Joined(cs, T))
<1> DEFINE N == Len(cs)
           first == Smallest(T)
           base == cs[first]
           A == {d \in Check : Like(base, d)}
           F(w) == [n \in 0..N |-> IF n = 0 THEN base
                                   ELSE IF n \in T \ {first} THEN Join(w[n - 1], cs[n]) ELSE w[n - 1]]
           W == CHOOSE w : w = F(w)
           G == [x \in A \X (1..N) |-> IF x[2] \in T \ {first} THEN Join(x[1], cs[x[2]]) ELSE x[1]]
<1>1. Joined(cs, T) = [W[N] EXCEPT !.table_size = Len(W[N].extra_header)]
  BY Zenon DEF Joined
<1>2. N \in Nat /\ DOMAIN cs = 1..N /\ \A n \in 1..N : cs[n] \in Check
  OBVIOUS
<1> HIDE DEF N
<1>3. first \in T /\ base \in Check
  <2>1. T \in SUBSET Nat
    BY <1>2
  <2>2. first \in T
    BY <2>1, SmallestFacts
  <2> QED BY <1>2, <2>2
<1> HIDE DEF first, base
<1>4. base \in A
  BY <1>3, Zenon DEF Like
<1>5. ASSUME NEW d \in A, NEW n \in 1..N PROVE Join(d, cs[n]) \in A
  <2>1. d \in Check /\ Like(base, d) /\ cs[n] \in Check
    BY <1>2
  <2>2. Join(d, cs[n]) \in Check /\ Like(d, Join(d, cs[n]))
    BY <2>1, JoinFacts
  <2>3. Like(base, Join(d, cs[n]))
    BY <2>1, <2>2, Zenon DEF Like
  <2> QED BY <2>2, <2>3, Zenon
<1>6. \A d \in A : d \in Check /\ Like(base, d)
  OBVIOUS
<1> HIDE DEF A
<1>7. G \in [A \X (1..N) -> A]
  <2>1. ASSUME NEW x \in A \X (1..N)
        PROVE  (IF x[2] \in T \ {first} THEN Join(x[1], cs[x[2]]) ELSE x[1]) \in A
    <3>1. x[1] \in A /\ x[2] \in 1..N
      OBVIOUS
    <3> QED BY <3>1, <1>5, Zenon
  <2> QED BY <2>1
<1>8. PICK f : Iterates(f, N, A, base, G)
  <2> HIDE DEF G
  <2> QED BY <1>2, <1>4, <1>7, IterationExists, Zenon
<1>9. f = F(f) /\ f[N] \in A
  <2>1. f \in [0..N -> A] /\ f[0] = base /\ \A i \in 1..N : f[i] = G[<<f[i - 1], i>>]
    BY <1>8, Zenon DEF Iterates
  <2>2. ASSUME NEW n \in 1..N
        PROVE  f[n] = IF n \in T \ {first} THEN Join(f[n - 1], cs[n]) ELSE f[n - 1]
    <3>1. n - 1 \in 0..N
      BY <1>2
    <3>2. <<f[n - 1], n>> \in A \X (1..N)
      BY <2>1, <3>1
    <3>3. f[n] = G[<<f[n - 1], n>>]
      BY <2>1, Zenon
    <3> QED BY <3>2, <3>3
  <2>3. \A n \in 0..N : n = 0 \/ n \in 1..N
    BY <1>2
  <2>4. 0 \notin 1..N /\ N \in 0..N
    BY <1>2
  <2>5. \A n \in 0..N : f[n] = IF n = 0 THEN base
                               ELSE IF n \in T \ {first} THEN Join(f[n - 1], cs[n]) ELSE f[n - 1]
    BY <2>1, <2>2, <2>3, <2>4, Zenon
  <2>6. f = [n \in 0..N |-> f[n]] /\ f[N] \in A
    BY <2>1, <2>4
  <2> QED BY <2>5, <2>6, Zenon
<1>10. W = F(W)
  <2> HIDE DEF F
  <2> QED BY <1>9
<1> HIDE DEF W, G
<1>11. /\ W[0] = base
       /\ \A n \in 1..N : W[n] = IF n \in T \ {first} THEN Join(W[n - 1], cs[n]) ELSE W[n - 1]
  <2>1. \A n \in 0..N : W[n] = IF n = 0 THEN base
                               ELSE IF n \in T \ {first} THEN Join(W[n - 1], cs[n]) ELSE W[n - 1]
    BY <1>10, Zenon
  <2>2. 0 \in 0..N /\ \A n \in 1..N : n \in 0..N /\ n # 0
    BY <1>2
  <2> QED BY <2>1, <2>2, Zenon
<1> HIDE DEF F
<1> DEFINE S == {k \in Nat : k <= N => W[k] \in A}
<1>12. 0 \in S
  BY <1>4, <1>11
<1>13. ASSUME NEW k \in Nat, k \in S PROVE k + 1 \in S
  <2> SUFFICES ASSUME k + 1 <= N PROVE W[k + 1] \in A
    OBVIOUS
  <2>1. W[k] \in A /\ k + 1 \in 1..N /\ k + 1 - 1 = k
    BY <1>2, <1>13
  <2>2. W[k + 1] = IF k + 1 \in T \ {first} THEN Join(W[k], cs[k + 1]) ELSE W[k]
    BY <1>11, <2>1
  <2> QED BY <1>5, <2>1, <2>2, Zenon
<1>14. W[N] \in A
  <2>1. \A k \in Nat : k \in S
    <3> HIDE DEF S
    <3> QED BY <1>12, <1>13, SetInduction
  <2>2. N \in S
    BY <2>1, <1>2, Zenon
  <2>3. N <= N
    BY <1>2
  <2> QED BY <2>2, <2>3, Zenon
<1> DEFINE all == W[N]
           j   == Joined(cs, T)
<1>15. all \in Check /\ Like(base, all) /\ j = [all EXCEPT !.table_size = Len(all.extra_header)]
  BY <1>1, <1>6, <1>14, Zenon
<1> HIDE DEF all, j
<1>16. Len(all.extra_header) \in Nat
  <2>1. all.extra_header \in Seq(Header)
    BY <1>15 DEF Check
  <2> QED BY <2>1, SeqFacts
<1>17. /\ j \in Check /\ j.type = all.type /\ j.header = all.header /\ j.mon_name = all.mon_name
       /\ j.if_val = all.if_val /\ j.else_val = all.else_val /\ j.priority = all.priority
       /\ j.extra_check = all.extra_check /\ j.extra_header = all.extra_header
  BY <1>15, <1>16, Zenon DEF Check
<1> QED
  BY <1>15, <1>17, Zenon DEF Like, j, first, base

\* Invalidating checks changes nothing but their type.
LEMMA InvalidateFacts ==
  ASSUME NEW cs \in Seq(Check), NEW T \in SUBSET DOMAIN cs
  PROVE  LET r == Invalidate(cs, T) IN
         /\ r \in Seq(Check) /\ DOMAIN r = DOMAIN cs /\ Len(r) = Len(cs)
         /\ \A i \in DOMAIN cs \ T : r[i] = cs[i]
         /\ \A i \in T : /\ r[i].type = "INVALID" /\ r[i].header = cs[i].header
                         /\ r[i].priority = cs[i].priority /\ r[i].if_val = cs[i].if_val
                         /\ r[i].mon_name = cs[i].mon_name
<1> DEFINE r == Invalidate(cs, T)
           Off(c) == [c EXCEPT !.type = "INVALID"]
<1>1. ASSUME NEW c \in Check
      PROVE  /\ Off(c) \in Check /\ Off(c).type = "INVALID" /\ Off(c).header = c.header
             /\ Off(c).priority = c.priority /\ Off(c).if_val = c.if_val /\ Off(c).mon_name = c.mon_name
  BY Zenon DEF Check, CheckType
<1>2. r = [i \in DOMAIN cs |-> IF i \in T THEN Off(cs[i]) ELSE cs[i]]
  BY Zenon DEF Invalidate
<1>3. DOMAIN cs = 1..Len(cs) /\ Len(cs) \in Nat /\ \A i \in DOMAIN cs : cs[i] \in Check
  OBVIOUS
<1> HIDE DEF r, Off
<1>4. ASSUME NEW i \in DOMAIN cs PROVE r[i] = (IF i \in T THEN Off(cs[i]) ELSE cs[i]) /\ r[i] \in Check
  <2>1. r[i] = (IF i \in T THEN Off(cs[i]) ELSE cs[i])
    BY <1>2, Zenon
  <2> QED BY <1>1, <1>3, <2>1
<1>5. r \in Seq(Check) /\ DOMAIN r = DOMAIN cs /\ Len(r) = Len(cs)
  <2>1. r \in [1..Len(cs) -> Check]
    BY <1>2, <1>3, <1>4
  <2> QED BY <1>3, <2>1
<1>6. \A i \in T : /\ r[i].type = "INVALID" /\ r[i].header = cs[i].header
                   /\ r[i].priority = cs[i].priority /\ r[i].if_val = cs[i].if_val
                   /\ r[i].mon_name = cs[i].mon_name
  <2> SUFFICES ASSUME NEW i \in T
               PROVE  /\ r[i].type = "INVALID" /\ r[i].header = cs[i].header
                      /\ r[i].priority = cs[i].priority /\ r[i].if_val = cs[i].if_val
                      /\ r[i].mon_name = cs[i].mon_name
    OBVIOUS
  <2>1. cs[i] \in Check /\ r[i] = Off(cs[i])
    BY <1>3, <1>4
  <2> QED BY <1>1, <2>1, Zenon
<1> QED
  BY <1>4, <1>5, <1>6, Zenon DEF r

-----------------------------------------------------------------------------
(***************************************************************************)
(* What merging does.                                                      *)
(***************************************************************************)
\* Two lists of checks decide alike when each matching check of one has a
\* matching check of its priority in the other.
LEMMA MatchedSame ==
  ASSUME NEW r, NEW cs, NEW ctx,
         \A i \in DOMAIN r : Matches(r[i], ctx) =>
             \E j \in DOMAIN cs : Matches(cs[j], ctx) /\ cs[j].priority = r[i].priority,
         \A j \in DOMAIN cs : Matches(cs[j], ctx) =>
             \E i \in DOMAIN r : Matches(r[i], ctx) /\ cs[j].priority = r[i].priority
  PROVE  Matched(r, ctx) = Matched(cs, ctx)
<1>1. ASSUME NEW x \in Matched(r, ctx) PROVE x \in Matched(cs, ctx)
  BY ZenonT(30) DEF Matched
<1>2. ASSUME NEW x \in Matched(cs, ctx) PROVE x \in Matched(r, ctx)
  BY ZenonT(30) DEF Matched
<1> QED
  BY <1>1, <1>2, Zenon

\* A set with more than one element.
LEMMA MoreThanOne ==
  ASSUME NEW T, ~(Cardinality(T) <= 1)
  PROVE  T # {} /\ \A x \in T : T # {x}
<1>1. T # {}
  <2> SUFFICES ASSUME T = {} PROVE FALSE
    OBVIOUS
  <2>1. Cardinality(T) = 0
    BY FS_EmptySet, Zenon
  <2> QED BY <2>1
<1>2. ASSUME NEW x \in T, T = {x} PROVE FALSE
  <2>1. Cardinality(T) = 1
    BY <1>2, FS_Singleton, Zenon
  <2> QED BY <2>1
<1> QED
  BY <1>1, <1>2

\* merge_checks_per_header leaves the checks alone, or replaces the exact and
\* list checks of a header, all of whose checks have one priority.
LEMMA MergedHeader ==
  ASSUME NEW cs \in Seq(Check), NEW h
  PROVE  LET T == {i \in DOMAIN cs : cs[i].header = h /\ Listable(cs[i])} IN
         \/ merge_checks_per_header(cs, h) = cs
         \/ /\ T # {}
            /\ \E f \in DOMAIN cs :
                  /\ cs[f].header = h
                  /\ \A i \in DOMAIN cs : cs[i].header = h => cs[i].priority = cs[f].priority
                  /\ merge_checks_per_header(cs, h) =
                        Append(Invalidate(cs, T), MergedList(cs[f], ItemsOf(cs, T)))
<1> DEFINE same  == {i \in DOMAIN cs : cs[i].header = h}
           lists == {i \in same : Listable(cs[i])}
           T     == {i \in DOMAIN cs : cs[i].header = h /\ Listable(cs[i])}
           first == Smallest(same)
           Kept  == \/ Cardinality(same) <= 1
                    \/ \E i \in same : cs[i].priority # cs[first].priority
                    \/ Cardinality(lists) <= 1
<1>1. T = lists
  BY Zenon
<1>2. merge_checks_per_header(cs, h) =
         IF Kept THEN cs ELSE Append(Invalidate(cs, lists), MergedList(cs[first], ItemsOf(cs, lists)))
  BY Zenon DEF merge_checks_per_header
<1>3. ASSUME ~Kept
      PROVE  /\ T # {} /\ first \in DOMAIN cs /\ cs[first].header = h
             /\ \A i \in DOMAIN cs : cs[i].header = h => cs[i].priority = cs[first].priority
  <2>1. /\ ~(Cardinality(same) <= 1) /\ ~(Cardinality(lists) <= 1)
        /\ \A i \in same : cs[i].priority = cs[first].priority
    BY <1>3, Zenon
  <2>2. same # {} /\ lists # {}
    <3> HIDE DEF same, lists
    <3> QED BY <2>1, MoreThanOne
  <2>3. same \in SUBSET Nat
    <3>1. DOMAIN cs \in SUBSET Nat
      OBVIOUS
    <3> QED BY <3>1, Zenon
  <2>4. first \in same
    <3> HIDE DEF same
    <3> QED BY <2>2, <2>3, SmallestFacts, Zenon
  <2>5. first \in DOMAIN cs /\ cs[first].header = h
    BY <2>4, Zenon
  <2> QED BY <1>1, <2>1, <2>2, <2>5, Zenon
<1> HIDE DEF Kept, lists, T, first
<1>4. CASE Kept
  BY <1>2, <1>4, Zenon
<1>5. CASE ~Kept
  <2>1. merge_checks_per_header(cs, h) = Append(Invalidate(cs, T), MergedList(cs[first], ItemsOf(cs, T)))
    BY <1>1, <1>2, <1>5, Zenon
  <2> QED BY <1>3, <1>5, <2>1, Zenon DEF T
<1> QED
  BY <1>4, <1>5, Zenon DEF T

\* The merged list check.
LEMMA MergedListFacts ==
  ASSUME NEW c \in Check, Sound(c), NEW q \in Seq(Nat)
  PROVE  LET d == MergedList(c, q) IN
         /\ d \in Check /\ Sound(d) /\ Single(d)
         /\ d.type = "LIST" /\ d.header = c.header /\ d.list = q /\ d.priority = c.if_val
<1> DEFINE k == NewCheck
           d == MergedList(c, q)
<1>1. k \in Check /\ k.mon_name = NoMon
  BY FreshCheck
<1>2. d = [k EXCEPT !.type = "LIST", !.header = c.header, !.id = c.id,
                    !.if_val = c.if_val, !.else_val = c.else_val, !.priority = c.if_val,
                    !.list = q, !.table_size = Len(q)]
  BY Zenon DEF MergedList
<1>3. /\ Len(q) \in Nat /\ c.header \in Nat /\ c.id \in Nat /\ c.if_val \in Nat /\ c.else_val \in Nat
      /\ c.header \in Header
  BY DEF Check, Sound
<1> HIDE DEF k, d
<1>4. /\ d \in Check /\ d.type = "LIST" /\ d.header = c.header /\ d.list = q /\ d.priority = c.if_val
      /\ d.if_val = c.if_val /\ d.mon_name = NoMon /\ d.table_size = Len(q)
  BY <1>1, <1>2, <1>3, Zenon DEF Check, CheckType
<1>5. Sound(d)
  BY <1>3, <1>4 DEF Sound
<1>6. Single(d)
  BY <1>4 DEF Single
<1> QED
  BY <1>4, <1>5, <1>6, Zenon DEF d

\* An exact or list check matches its items.
LEMMA ItemsMatch ==
  ASSUME NEW c \in Check, Sound(c), Listable(c), NEW ctx \in Context
  PROVE  Matches(c, ctx) <=> \E n \in DOMAIN Items(c) : Items(c)[n] = ctx.h[c.header]
<1>1. CASE c.type = "EXACT"
  <2>1. Items(c) = <<c.pred_lo>>
    BY <1>1, Zenon DEF Items
  <2>2. DOMAIN Items(c) = {1} /\ Items(c)[1] = c.pred_lo
    BY <2>1
  <2>3. Matches(c, ctx) <=> ctx.h[c.header] = c.pred_lo
    BY <1>1, MatchesExact
  <2> QED BY <2>2, <2>3, Zenon
<1>2. CASE c.type = "LIST"
  <2>1. Items(c) = c.list
    BY <1>2 DEF Items
  <2>2. Matches(c, ctx) <=> \E n \in DOMAIN c.list : ctx.h[c.header] = c.list[n]
    BY <1>2, MatchesList
  <2> QED BY <2>1, <2>2, Zenon
<1> QED
  BY <1>1, <1>2 DEF Listable

\* Merging the checks of a header keeps every check sound, puts no list check
\* beside a monitor of its priority, and does not touch the monitors' checks.
LEMMA HeaderStep ==
  ASSUME NEW cs \in Seq(Check), \A i \in DOMAIN cs : Sound(cs[i]) /\ Single(cs[i]), NEW h
  PROVE  LET r == merge_checks_per_header(cs, h) IN
         /\ r \in Seq(Check) /\ \A i \in DOMAIN r : Sound(r[i]) /\ Single(r[i])
         /\ MonitorsApart(cs) => MonitorsApart(r)
         /\ MonitorsPlain(cs) => MonitorsPlain(r)
         /\ OneEntry(cs) => OneEntry(r)
         /\ MonitorsApart(cs) => \A ctx \in Context : Matched(r, ctx) = Matched(cs, ctx)
<1> DEFINE T == {i \in DOMAIN cs : cs[i].header = h /\ Listable(cs[i])}
           r == merge_checks_per_header(cs, h)
           v == Invalidate(cs, T)
           N == Len(cs)
<1>1. CASE r = cs
  BY <1>1
<1>2. CASE r # cs
  <2> DEFINE ListMade == /\ T # {}
                         /\ \E f \in DOMAIN cs :
                               /\ cs[f].header = h
                               /\ \A i \in DOMAIN cs : cs[i].header = h => cs[i].priority = cs[f].priority
                               /\ r = Append(v, MergedList(cs[f], ItemsOf(cs, T)))
  <2>m. r = cs \/ ListMade
    BY MergedHeader, ZenonT(30)
  <2>1. ListMade
    <3> HIDE DEF ListMade, r
    <3> QED BY <1>2, <2>m, Zenon
  <2>2. PICK f \in DOMAIN cs :
              /\ cs[f].header = h
              /\ \A i \in DOMAIN cs : cs[i].header = h => cs[i].priority = cs[f].priority
              /\ r = Append(v, MergedList(cs[f], ItemsOf(cs, T)))
    BY <2>1, Zenon
  <2> DEFINE items == ItemsOf(cs, T)
             new   == MergedList(cs[f], items)
  <2>3. \A i \in T : i \in DOMAIN cs /\ cs[i].header = h /\ Listable(cs[i])
    OBVIOUS
  <2>4. T \in SUBSET DOMAIN cs
    BY <2>3
  <2>5. \A i \in DOMAIN cs : cs[i] \in Check /\ i \in 1..N
    OBVIOUS
  <2>6. N \in Nat /\ DOMAIN cs = 1..N
    OBVIOUS
  <2> HIDE DEF T, N
  <2>7. /\ items \in Seq(Nat)
        /\ \A x : (\E n \in DOMAIN items : items[n] = x) <=>
                  \E i \in T : \E n \in DOMAIN Items(cs[i]) : Items(cs[i])[n] = x
    BY <2>4, ItemsFacts, ZenonT(30)
  <2> HIDE DEF items
  <2>8. /\ new \in Check /\ Sound(new) /\ Single(new) /\ new.type = "LIST" /\ new.header = h
        /\ new.list = items /\ new.priority = cs[f].if_val
    BY <2>2, <2>5, <2>7, MergedListFacts, Zenon
  <2>9. r = Append(v, new)
    BY <2>2, Zenon DEF items
  <2> HIDE DEF new, r
  <2>10. /\ v \in Seq(Check) /\ DOMAIN v = DOMAIN cs /\ Len(v) = Len(cs)
         /\ \A i \in DOMAIN cs \ T : v[i] = cs[i]
         /\ \A i \in T : /\ v[i].type = "INVALID" /\ v[i].header = cs[i].header
                         /\ v[i].priority = cs[i].priority /\ v[i].if_val = cs[i].if_val
                         /\ v[i].mon_name = cs[i].mon_name
    BY <2>4, InvalidateFacts, Zenon
  <2> HIDE DEF v
  <2>11. /\ r \in Seq(Check) /\ DOMAIN r = 1..(N + 1) /\ r[N + 1] = new
         /\ \A i \in DOMAIN cs : r[i] = v[i]
    <3>1. Len(v) = N /\ v \in Seq(Check) /\ DOMAIN v = 1..N
      BY <2>6, <2>10 DEF N
    <3>2. r \in Seq(Check) /\ DOMAIN r = 1..(N + 1) /\ r[N + 1] = new /\ \A i \in 1..N : r[i] = v[i]
      BY <2>6, <2>8, <2>9, <3>1
    <3> QED BY <2>6, <3>2
  <2>12. \A i \in DOMAIN r : i \in DOMAIN cs \/ i = N + 1
    BY <2>6, <2>11
  <2>13. \A i \in DOMAIN cs \ T : r[i] = cs[i]
    BY <2>10, <2>11
  <2>14. \A i \in T : /\ r[i].type = "INVALID" /\ r[i].header = cs[i].header
                      /\ r[i].priority = cs[i].priority /\ r[i].if_val = cs[i].if_val
                      /\ r[i].mon_name = cs[i].mon_name
    BY <2>4, <2>10, <2>11, Zenon
  <2>15. DOMAIN cs \subseteq DOMAIN r /\ N + 1 \in DOMAIN r
    BY <2>6, <2>11, SMTT(30)
  <2>16. ASSUME NEW i \in T PROVE cs[i].mon_name = NoMon /\ cs[i].type # "MONITOR"
    <3>1. Sound(cs[i]) /\ cs[i].type \in {"EXACT", "LIST"}
      BY <2>3 DEF Listable
    <3> QED BY <3>1 DEF Sound
  <2>17. \A i \in DOMAIN r : Sound(r[i]) /\ Single(r[i])
    <3>1. ASSUME NEW i \in T PROVE Sound(r[i]) /\ Single(r[i])
      <4>1. cs[i].header \in Header /\ cs[i].priority = cs[i].if_val /\ cs[i].mon_name = NoMon
        BY <2>3, <2>16 DEF Sound
      <4> QED BY <2>14, <4>1, SMTT(30) DEF Sound, Single
    <3> QED BY <2>8, <2>11, <2>12, <2>13, <3>1, Zenon
  \* The monitors' checks stay where they are.
  <2>18. ASSUME NEW i \in DOMAIN r, r[i].type = "MONITOR"
         PROVE  i \in DOMAIN cs /\ i \notin T /\ r[i] = cs[i]
    BY <2>8, <2>11, <2>12, <2>13, <2>14, <2>18, SMTT(30)
  <2>19. ASSUME NEW i \in DOMAIN cs, cs[i].type = "MONITOR" PROVE r[i] = cs[i]
    BY <2>13, <2>16, <2>19
  <2>20. ASSUME MonitorsApart(cs), NEW i \in DOMAIN cs, cs[i].type = "MONITOR", cs[i].header = h PROVE FALSE
    <3>1. PICK t \in T : TRUE
      BY <2>1
    <3>2. t \in DOMAIN cs /\ cs[t].header = h /\ Listable(cs[t])
      BY <2>3
    <3>3. cs[i].priority = cs[f].priority /\ cs[t].priority = cs[f].priority
      BY <2>2, <2>20, <3>2
    <3> QED BY <2>20, <3>2, <3>3, Zenon DEF MonitorsApart
  <2>21. MonitorsApart(cs) => MonitorsApart(r)
    <3> SUFFICES ASSUME MonitorsApart(cs), NEW i \in DOMAIN r, NEW j \in DOMAIN r,
                        r[i].type = "MONITOR", Listable(r[j]), r[i].header = r[j].header
                 PROVE  r[i].priority # r[j].priority
      BY Zenon DEF MonitorsApart
    <3>1. i \in DOMAIN cs /\ r[i] = cs[i]
      BY <2>18, SMTT(30)
    <3>2. CASE j = N + 1
      BY <2>8, <2>11, <2>20, <3>1, <3>2
    <3>3. CASE j \in DOMAIN cs
      <4>1. j \notin T
        BY <2>14 DEF Listable
      <4>2. r[j] = cs[j]
        BY <2>13, <3>3, <4>1
      <4> QED BY <3>1, <3>3, <4>2, Zenon DEF MonitorsApart
    <3> QED BY <2>12, <3>2, <3>3
  <2>22. MonitorsPlain(cs) => MonitorsPlain(r)
    <3> SUFFICES ASSUME MonitorsPlain(cs), NEW i \in DOMAIN r, NEW j \in DOMAIN r, i < j,
                        OfMonitor(r[i], r[j].mon_name), r[j].type = "MONITOR"
                 PROVE  \E k \in 1..i : OfMonitor(r[k], r[j].mon_name) /\ r[k].extra_header = <<>>
      BY Zenon DEF MonitorsPlain
    <3>1. i \in DOMAIN cs /\ r[i] = cs[i] /\ j \in DOMAIN cs /\ r[j] = cs[j]
      BY <2>18 DEF OfMonitor
    <3>2. PICK k \in 1..i : OfMonitor(cs[k], cs[j].mon_name) /\ cs[k].extra_header = <<>>
      BY <3>1, Zenon DEF MonitorsPlain
    <3>3. k \in DOMAIN cs
      BY <2>6, <3>1
    <3>4. r[k] = cs[k]
      BY <2>19, <3>2, <3>3 DEF OfMonitor
    <3> QED BY <3>1, <3>2, <3>4, Zenon
  <2>23. OneEntry(cs) => OneEntry(r)
    BY <2>18, Zenon DEF OneEntry
  <2>24. ASSUME MonitorsApart(cs), NEW ctx \in Context PROVE Matched(r, ctx) = Matched(cs, ctx)
    <3>1. new.priority = cs[f].priority
      <4>1. cs[f].type # "MONITOR"
        BY <2>2, <2>20, <2>24, SMTT(30)
      <4>2. cs[f].mon_name = NoMon
        BY <4>1 DEF Single
      <4> QED BY <2>8, <4>2, SMTT(30) DEF Sound
    <3>2. \A i \in T : cs[i].priority = new.priority
      BY <2>2, <2>3, <3>1
    <3>3. \A i \in T : Matches(cs[i], ctx) <=> \E n \in DOMAIN Items(cs[i]) : Items(cs[i])[n] = ctx.h[h]
      <4> SUFFICES ASSUME NEW i \in T
                   PROVE  Matches(cs[i], ctx) <=> \E n \in DOMAIN Items(cs[i]) : Items(cs[i])[n] = ctx.h[h]
        BY Zenon
      <4>1. cs[i] \in Check /\ Sound(cs[i]) /\ Listable(cs[i]) /\ cs[i].header = h
        BY <2>3, <2>5
      <4> QED BY <4>1, ItemsMatch, Zenon
    <3>4. Matches(new, ctx) <=> \E n \in DOMAIN items : ctx.h[h] = items[n]
      BY <2>8, MatchesList
    <3>5. Matches(new, ctx) <=> \E i \in T : Matches(cs[i], ctx)
      BY <2>7, <3>3, <3>4, Zenon
    <3>6. \A i \in T : ~Matches(r[i], ctx)
      BY <2>14, MatchesInvalid
    <3>7. ASSUME NEW i \in DOMAIN r, Matches(r[i], ctx)
          PROVE  \E j \in DOMAIN cs : Matches(cs[j], ctx) /\ cs[j].priority = r[i].priority
      <4>1. CASE i = N + 1
        BY <2>3, <2>11, <3>2, <3>5, <3>7, <4>1, Zenon
      <4>2. CASE i \in DOMAIN cs
        BY <2>13, <3>6, <3>7, <4>2, Zenon
      <4> QED BY <2>12, <4>1, <4>2
    <3>8. ASSUME NEW j \in DOMAIN cs, Matches(cs[j], ctx)
          PROVE  \E i \in DOMAIN r : Matches(r[i], ctx) /\ cs[j].priority = r[i].priority
      <4>1. CASE j \in T
        BY <2>11, <2>15, <3>2, <3>5, <3>8, <4>1, Zenon
      <4>2. CASE j \notin T
        BY <2>13, <2>15, <3>8, <4>2, Zenon
      <4> QED BY <4>1, <4>2
    <3>9. /\ \A i \in DOMAIN r : Matches(r[i], ctx) =>
                 \E j \in DOMAIN cs : Matches(cs[j], ctx) /\ cs[j].priority = r[i].priority
          /\ \A j \in DOMAIN cs : Matches(cs[j], ctx) =>
                 \E i \in DOMAIN r : Matches(r[i], ctx) /\ cs[j].priority = r[i].priority
      BY <3>7, <3>8, Zenon
    <3> QED BY <3>9, MatchedSame, SMTT(30)
  <2> QED BY <2>11, <2>17, <2>21, <2>22, <2>23, <2>24, Zenon DEF r
<1> QED
  BY <1>1, <1>2

\* merge_monitors leaves the checks of a monitor alone, or joins them, two at
\* least, into the first.
LEMMA MergedMonitor ==
  ASSUME NEW cs \in Seq(Check), NEW m
  PROVE  LET T == {i \in DOMAIN cs : OfMonitor(cs[i], m)}
             f == Smallest(T)
         IN  \/ MergeMonitor(cs, m) = cs
             \/ /\ f \in T /\ \A j \in T : f <= j
                /\ \E j \in T : j # f
                /\ MergeMonitor(cs, m) = [Invalidate(cs, T \ {f}) EXCEPT ![f] = Joined(cs, T)]
<1> DEFINE T == {i \in DOMAIN cs : OfMonitor(cs[i], m)}
           f == Smallest(T)
<1>1. MergeMonitor(cs, m) =
         IF Cardinality(T) <= 1 THEN cs ELSE [Invalidate(cs, T \ {f}) EXCEPT ![f] = Joined(cs, T)]
  BY Zenon DEF MergeMonitor
<1>2. T \in SUBSET Nat
  <2>1. DOMAIN cs \in SUBSET Nat
    OBVIOUS
  <2> QED BY <2>1, Zenon
<1> HIDE DEF T
<1>3. ASSUME ~(Cardinality(T) <= 1)
      PROVE  f \in T /\ (\A j \in T : f <= j) /\ \E j \in T : j # f
  <2>1. T # {} /\ \A x \in T : T # {x}
    BY <1>3, MoreThanOne
  <2>2. f \in T /\ \A j \in T : f <= j
    BY <1>2, <2>1, SmallestFacts
  <2> HIDE DEF f
  <2>3. T # {f}
    BY <2>1, <2>2
  <2>4. \E j \in T : j # f
    BY <2>2, <2>3
  <2> QED BY <2>2, <2>4
<1> QED
  BY <1>1, <1>3, Zenon DEF T

\* Joining the checks of a monitor keeps every check sound and, if the first
\* has no extra header, what the checks match.
LEMMA MonitorStep ==
  ASSUME NEW cs \in Seq(Check), \A i \in DOMAIN cs : Sound(cs[i]), NEW m
  PROVE  LET r == MergeMonitor(cs, m) IN
         /\ r \in Seq(Check) /\ \A i \in DOMAIN r : Sound(r[i])
         /\ MonitorsPlain(cs) => MonitorsPlain(r)
         /\ MonitorsPlain(cs) /\ OneEntry(cs) => OneEntry(r)
         /\ MonitorsPlain(cs) => \A ctx \in Context : Matched(r, ctx) = Matched(cs, ctx)
<1> DEFINE T == {i \in DOMAIN cs : OfMonitor(cs[i], m)}
           f == Smallest(T)
           r == MergeMonitor(cs, m)
           v == Invalidate(cs, T \ {f})
           J == Joined(cs, T)
<1>1. CASE r = cs
  BY <1>1
<1>2. CASE r # cs
  <2>1. /\ f \in T /\ \A j \in T : f <= j
        /\ \E j \in T : j # f
        /\ r = [v EXCEPT ![f] = J]
    BY <1>2, MergedMonitor, Zenon
  <2>2. \A i \in DOMAIN cs : i \in T <=> cs[i].type = "MONITOR" /\ cs[i].mon_name = m
    BY Zenon DEF OfMonitor
  <2>3. T \in SUBSET DOMAIN cs /\ T # {}
    BY <2>1
  <2>4. DOMAIN cs = 1..Len(cs) /\ Len(cs) \in Nat /\ \A i \in DOMAIN cs : cs[i] \in Check
    OBVIOUS
  <2>5. J \in Check /\ Like(cs[f], J)
    BY <2>3, JoinedFacts, Zenon
  <2>6. T \ {f} \in SUBSET DOMAIN cs
    BY <2>3
  <2> HIDE DEF T, f, J, r
  <2>7. /\ v \in Seq(Check) /\ DOMAIN v = DOMAIN cs /\ Len(v) = Len(cs)
        /\ \A i \in DOMAIN cs \ (T \ {f}) : v[i] = cs[i]
        /\ \A i \in T \ {f} : /\ v[i].type = "INVALID" /\ v[i].header = cs[i].header
                              /\ v[i].priority = cs[i].priority /\ v[i].if_val = cs[i].if_val
                              /\ v[i].mon_name = cs[i].mon_name
    BY <2>6, InvalidateFacts, Zenon
  <2> HIDE DEF v
  <2>8. r \in Seq(Check) /\ DOMAIN r = DOMAIN cs
    <3>1. r \in [1..Len(cs) -> Check]
      <4>1. v \in [1..Len(cs) -> Check]
        BY <2>4, <2>7
      <4> QED BY <2>1, <2>5, <4>1, Zenon
    <3> QED BY <2>4, <3>1
  <2>9. r[f] = J /\ \A i \in DOMAIN cs \ {f} : r[i] = v[i]
    BY <2>1, <2>3, <2>7
  <2>10. \A i \in DOMAIN cs \ T : r[i] = cs[i]
    BY <2>1, <2>7, <2>9
  <2>11. \A i \in T \ {f} : r[i].type = "INVALID" /\ r[i].header = cs[i].header /\ r[i].mon_name = cs[i].mon_name
    <3>1. \A i \in T \ {f} : i \in DOMAIN cs \ {f}
      BY <2>6
    <3> QED BY <2>7, <2>9, <3>1, Zenon
  <2>12. f \in DOMAIN cs /\ cs[f].type = "MONITOR" /\ cs[f].mon_name = m /\ Sound(cs[f]) /\ m # NoMon
    <3>1. f \in DOMAIN cs /\ cs[f].type = "MONITOR" /\ cs[f].mon_name = m /\ Sound(cs[f])
      BY <2>1, <2>2, <2>3
    <3>2. m \in Mon
      BY <3>1, Zenon DEF Sound
    <3> QED BY <3>1, <3>2, MonAssumption
  <2>13. Sound(J) /\ J.type = "MONITOR" /\ J.mon_name = m
    BY <2>5, <2>12 DEF Sound, Like
  <2>14. \A i \in DOMAIN r : Sound(r[i])
    <3>1. ASSUME NEW i \in T \ {f} PROVE Sound(r[i])
      <4>1. cs[i].header \in Header /\ cs[i].mon_name # NoMon
        BY <2>2, <2>6, <2>12, SMTT(30) DEF Sound
      <4> QED BY <2>11, <4>1, SMTT(30) DEF Sound
    <3> QED BY <2>8, <2>9, <2>10, <2>13, <3>1, Zenon
  <2>15. ASSUME NEW i \in DOMAIN r, r[i].type = "MONITOR"
         PROVE  i \in DOMAIN cs /\ (i = f \/ (i \notin T /\ r[i] = cs[i] /\ cs[i].mon_name # m))
    BY <2>2, <2>8, <2>10, <2>11, <2>15, SMTT(30)
  <2>16. ASSUME MonitorsPlain(cs) PROVE cs[f].extra_header = <<>> /\ ~cs[f].extra_check
    <3>1. PICK j \in T : j # f
      BY <2>1
    <3>2. f < j /\ j \in DOMAIN cs /\ cs[j].type = "MONITOR" /\ cs[j].mon_name = m
      <4>1. f <= j /\ f \in 1..Len(cs) /\ j \in 1..Len(cs) /\ j \in DOMAIN cs
        BY <2>1, <2>3, <2>4, <3>1
      <4>2. f < j
        BY <3>1, <4>1
      <4> QED BY <2>2, <4>1, <4>2
    <3>3. OfMonitor(cs[f], cs[j].mon_name)
      BY <2>12, <3>2, Zenon DEF OfMonitor
    <3>4. PICK k \in 1..f : OfMonitor(cs[k], cs[j].mon_name) /\ cs[k].extra_header = <<>>
      BY <2>12, <2>16, <3>2, <3>3, Zenon DEF MonitorsPlain
    <3>5. k \in DOMAIN cs /\ k <= f
      BY <2>4, <2>12
    <3>6. k \in T
      BY <2>2, <3>2, <3>4, <3>5, Zenon DEF OfMonitor
    <3>7. k = f
      BY <2>1, <2>4, <2>12, <3>5, <3>6
    <3>8. cs[f].extra_header = <<>>
      BY <3>4, <3>7
    <3> QED BY <2>12, <3>8 DEF Sound
  <2>17. MonitorsPlain(cs) => MonitorsPlain(r)
    <3> SUFFICES ASSUME MonitorsPlain(cs), NEW i \in DOMAIN r, NEW j \in DOMAIN r, i < j,
                        OfMonitor(r[i], r[j].mon_name), r[j].type = "MONITOR"
                 PROVE  \E k \in 1..i : OfMonitor(r[k], r[j].mon_name) /\ r[k].extra_header = <<>>
      BY Zenon DEF MonitorsPlain
    <3>1. i # j
      BY <2>4, <2>8
    <3>2. r[i].type = "MONITOR" /\ r[i].mon_name = r[j].mon_name
      BY Zenon DEF OfMonitor
    <3>3. /\ i \in DOMAIN cs /\ r[i] = cs[i]
          /\ j \in DOMAIN cs /\ r[j] = cs[j] /\ cs[j].mon_name # m
      <4>1. r[f].mon_name = m
        BY <2>9, <2>13
      <4> QED BY <2>15, <3>1, <3>2, <4>1
    <3>4. PICK k \in 1..i : OfMonitor(cs[k], cs[j].mon_name) /\ cs[k].extra_header = <<>>
      BY <3>3, Zenon DEF MonitorsPlain
    <3>5. k \in DOMAIN cs
      BY <2>4, <3>3
    <3>6. k \notin T
      BY <2>2, <3>3, <3>4, <3>5, Zenon DEF OfMonitor
    <3>7. r[k] = cs[k]
      BY <2>10, <3>5, <3>6
    <3> QED BY <3>3, <3>4, <3>7, Zenon
  <2>18. MonitorsPlain(cs) /\ OneEntry(cs) => OneEntry(r)
    <3> SUFFICES ASSUME MonitorsPlain(cs), OneEntry(cs), NEW i \in DOMAIN r,
                        r[i].type = "MONITOR", r[i].extra_check
                 PROVE  Len(r[i].extra_header) = 1
      BY Zenon DEF OneEntry
    <3>1. i # f
      BY <2>5, <2>9, <2>16, Zenon DEF Like
    <3>2. i \in DOMAIN cs /\ r[i] = cs[i]
      BY <2>15, <3>1
    <3> QED BY <3>2, Zenon DEF OneEntry
  <2>19. ASSUME MonitorsPlain(cs), NEW ctx \in Context PROVE Matched(r, ctx) = Matched(cs, ctx)
    <3>1. Matches(J, ctx) <=> ~ctx.active[m]
      <4>1. ~J.extra_check
        BY <2>5, <2>16, <2>19, Zenon DEF Like
      <4> QED BY <2>5, <2>13, <4>1, MatchesMonitor, Zenon
    <3>2. Matches(cs[f], ctx) <=> ~ctx.active[m]
      BY <2>4, <2>12, <2>16, <2>19, MatchesMonitor, Zenon
    <3>3. J.priority = cs[f].priority
      BY <2>5, Zenon DEF Like
    <3>4. ASSUME NEW i \in T, Matches(cs[i], ctx) PROVE ~ctx.active[m] /\ cs[i].priority = cs[f].priority
      <4>1. i \in DOMAIN cs /\ cs[i].type = "MONITOR" /\ cs[i].mon_name = m
        BY <2>2, <2>3, <3>4
      <4>2. ~ctx.active[m]
        BY <2>4, <3>4, <4>1, MatchesMonitor, Zenon
      <4>3. cs[i].priority = DROP_ACTION_VAL /\ cs[f].priority = DROP_ACTION_VAL
        BY <2>12, <4>1, Zenon DEF Sound
      <4> QED BY <4>2, <4>3
    <3>5. \A i \in T \ {f} : ~Matches(r[i], ctx)
      BY <2>11, MatchesInvalid
    <3>6. ASSUME NEW i \in DOMAIN r, Matches(r[i], ctx)
          PROVE  \E j \in DOMAIN cs : Matches(cs[j], ctx) /\ cs[j].priority = r[i].priority
      <4>1. CASE i = f
        <5>1. Matches(cs[f], ctx) /\ cs[f].priority = r[i].priority
          BY <2>9, <3>1, <3>2, <3>3, <3>6, <4>1, Zenon
        <5> QED BY <2>12, <5>1
      <4>2. CASE i # f
        <5>1. i \in DOMAIN cs /\ i \notin T
          BY <2>8, <3>5, <3>6, <4>2
        <5>2. r[i] = cs[i]
          BY <2>10, <5>1
        <5> QED BY <3>6, <5>1, <5>2
      <4> QED BY <4>1, <4>2
    <3>7. ASSUME NEW j \in DOMAIN cs, Matches(cs[j], ctx)
          PROVE  \E i \in DOMAIN r : Matches(r[i], ctx) /\ cs[j].priority = r[i].priority
      <4>1. CASE j \in T
        <5>1. Matches(r[f], ctx) /\ cs[j].priority = r[f].priority /\ f \in DOMAIN r
          BY <2>8, <2>9, <2>12, <3>1, <3>3, <3>4, <3>7, <4>1, Zenon
        <5> QED BY <5>1
      <4>2. CASE j \notin T
        <5>1. r[j] = cs[j] /\ j \in DOMAIN r
          BY <2>8, <2>10, <4>2
        <5> QED BY <3>7, <5>1
      <4> QED BY <4>1, <4>2
    <3>8. /\ \A i \in DOMAIN r : Matches(r[i], ctx) =>
                 \E j \in DOMAIN cs : Matches(cs[j], ctx) /\ cs[j].priority = r[i].priority
          /\ \A j \in DOMAIN cs : Matches(cs[j], ctx) =>
                 \E i \in DOMAIN r : Matches(r[i], ctx) /\ cs[j].priority = r[i].priority
      BY <3>6, <3>7, Zenon
    <3> QED BY <3>8, MatchedSame
  <2> QED BY <2>8, <2>14, <2>17, <2>18, <2>19, Zenon DEF r
<1> QED
  BY <1>1, <1>2

\* Removing the invalid checks changes nothing for the others.
LEMMA RemoveStep ==
  ASSUME NEW cs \in Seq(Check), \A i \in DOMAIN cs : Sound(cs[i])
  PROVE  LET r == remove_invalid_checks(cs) IN
         /\ r \in Seq(Check) /\ \A i \in DOMAIN r : Sound(r[i]) /\ r[i].type # "INVALID"
         /\ MonitorsPlain(cs) => MonitorsPlain(r)
         /\ OneEntry(cs) => OneEntry(r)
         /\ \A ctx \in Context : Matched(r, ctx) = Matched(cs, ctx)
<1> DEFINE r == remove_invalid_checks(cs)
<1>1. /\ r \in Seq(Check)
      /\ \E p \in Seq(Nat) :
            /\ DOMAIN r = DOMAIN p
            /\ \A i \in DOMAIN p : p[i] \in DOMAIN cs /\ cs[p[i]].type # "INVALID" /\ r[i] = cs[p[i]]
            /\ \A i, j \in DOMAIN p : i < j => p[i] < p[j]
            /\ \A k \in DOMAIN cs : cs[k].type # "INVALID" => \E i \in DOMAIN p : p[i] = k
  BY RemoveFacts, Zenon
<1> HIDE DEF r
<1>2. PICK p \in Seq(Nat) :
            /\ DOMAIN r = DOMAIN p
            /\ \A i \in DOMAIN p : p[i] \in DOMAIN cs /\ cs[p[i]].type # "INVALID" /\ r[i] = cs[p[i]]
            /\ \A i, j \in DOMAIN p : i < j => p[i] < p[j]
            /\ \A k \in DOMAIN cs : cs[k].type # "INVALID" => \E i \in DOMAIN p : p[i] = k
  BY <1>1, Zenon
<1>3. \A i \in DOMAIN r : Sound(r[i]) /\ r[i].type # "INVALID"
  BY <1>2, Zenon
<1>4. MonitorsPlain(cs) => MonitorsPlain(r)
  <2> SUFFICES ASSUME MonitorsPlain(cs), NEW i \in DOMAIN r, NEW j \in DOMAIN r, i < j,
                      OfMonitor(r[i], r[j].mon_name), r[j].type = "MONITOR"
               PROVE  \E k \in 1..i : OfMonitor(r[k], r[j].mon_name) /\ r[k].extra_header = <<>>
    BY Zenon DEF MonitorsPlain
  <2>1. /\ p[i] \in DOMAIN cs /\ p[j] \in DOMAIN cs /\ r[i] = cs[p[i]] /\ r[j] = cs[p[j]]
        /\ p[i] < p[j] /\ i \in DOMAIN p
    BY <1>2, Zenon
  <2>2. PICK k \in 1..p[i] : OfMonitor(cs[k], cs[p[j]].mon_name) /\ cs[k].extra_header = <<>>
    BY <2>1, Zenon DEF MonitorsPlain
  <2>3. k \in DOMAIN cs /\ k <= p[i]
    BY <2>1
  <2>4. cs[k].type # "INVALID"
    BY <2>2 DEF OfMonitor
  <2>5. PICK n \in DOMAIN p : p[n] = k
    BY <1>2, <2>3, <2>4, Zenon
  <2>6. n \in 1..i
    <3>1. i < n => p[i] < p[n]
      BY <1>2, <2>1, Zenon
    <3>2. p[i] \in Nat /\ k \in Nat /\ DOMAIN p = 1..Len(p) /\ Len(p) \in Nat
      BY <2>1, <2>3
    <3> QED BY <2>1, <2>3, <2>5, <3>1, <3>2
  <2>7. r[n] = cs[k]
    BY <1>2, <2>5, Zenon
  <2> QED BY <2>1, <2>2, <2>6, <2>7, Zenon
<1>5. OneEntry(cs) => OneEntry(r)
  <2> SUFFICES ASSUME OneEntry(cs), NEW i \in DOMAIN r, r[i].type = "MONITOR", r[i].extra_check
               PROVE  Len(r[i].extra_header) = 1
    BY Zenon DEF OneEntry
  <2>1. p[i] \in DOMAIN cs /\ r[i] = cs[p[i]]
    BY <1>2, Zenon
  <2> QED BY <2>1, Zenon DEF OneEntry
<1>6. ASSUME NEW ctx \in Context PROVE Matched(r, ctx) = Matched(cs, ctx)
  <2>1. \A i \in DOMAIN r : Matches(r[i], ctx) =>
            \E j \in DOMAIN cs : Matches(cs[j], ctx) /\ cs[j].priority = r[i].priority
    BY <1>2, Zenon
  <2>2. \A j \in DOMAIN cs : Matches(cs[j], ctx) =>
            \E i \in DOMAIN r : Matches(r[i], ctx) /\ cs[j].priority = r[i].priority
    <3> SUFFICES ASSUME NEW j \in DOMAIN cs, Matches(cs[j], ctx)
                 PROVE  \E i \in DOMAIN r : Matches(r[i], ctx) /\ cs[j].priority = r[i].priority
      OBVIOUS
    <3>1. cs[j].type # "INVALID"
      BY MatchesInvalid
    <3>2. PICK i \in DOMAIN p : p[i] = j
      BY <1>2, <3>1, Zenon
    <3>3. r[i] = cs[j] /\ i \in DOMAIN r
      BY <1>2, <3>2, Zenon
    <3> QED BY <3>3
  <2> QED BY <2>1, <2>2, MatchedSame
<1> QED
  BY <1>1, <1>3, <1>4, <1>5, <1>6, Zenon DEF r

\* Sorting changes the order only: a permutation of the positions reaches each.
LEMMA SortStep ==
  ASSUME NEW cs \in Seq(Check), \A i \in DOMAIN cs : Sound(cs[i]) /\ cs[i].type # "INVALID",
         NEW p \in Orders(Len(cs))
  PROVE  LET r == [i \in DOMAIN p |-> cs[p[i]]] IN
         /\ r \in Seq(Check) /\ \A i \in DOMAIN r : Sound(r[i]) /\ r[i].type # "INVALID"
         /\ OneEntry(cs) => OneEntry(r)
         /\ \A ctx \in Context : Matched(r, ctx) = Matched(cs, ctx)
<1> DEFINE r == [i \in DOMAIN p |-> cs[p[i]]]
           n == Len(cs)
<1>1. n \in Nat /\ DOMAIN cs = 1..n /\ \A i \in 1..n : cs[i] \in Check
  OBVIOUS
<1>2. p \in [1..n -> 1..n] /\ \A i, j \in 1..n : p[i] = p[j] => i = j
  BY DEF Orders
<1> HIDE DEF n
<1>3. \A k \in 1..n : \E i \in 1..n : p[i] = k
  <2>1. p \in Injection(1..n, 1..n)
    BY <1>2, Zenon DEF Injection, IsInjective
  <2>2. IsFiniteSet(1..n)
    BY <1>1, FS_Interval
  <2>3. p \in Surjection(1..n, 1..n)
    BY <2>1, <2>2, FS_Injection
  <2> QED BY <2>3, Zenon DEF Surjection
<1>4. DOMAIN r = 1..n /\ \A i \in 1..n : p[i] \in 1..n /\ r[i] = cs[p[i]]
  BY <1>2
<1>5. r \in Seq(Check)
  BY <1>1, <1>4
<1> HIDE DEF r
<1>6. \A i \in DOMAIN r : Sound(r[i]) /\ r[i].type # "INVALID"
  BY <1>1, <1>4, Zenon
<1>7. OneEntry(cs) => OneEntry(r)
  <2> SUFFICES ASSUME OneEntry(cs), NEW i \in DOMAIN r, r[i].type = "MONITOR", r[i].extra_check
               PROVE  Len(r[i].extra_header) = 1
    BY Zenon DEF OneEntry
  <2>1. p[i] \in DOMAIN cs /\ r[i] = cs[p[i]]
    BY <1>1, <1>4, Zenon
  <2> QED BY <2>1, Zenon DEF OneEntry
<1>8. ASSUME NEW ctx \in Context PROVE Matched(r, ctx) = Matched(cs, ctx)
  <2>1. \A i \in DOMAIN r : Matches(r[i], ctx) =>
            \E j \in DOMAIN cs : Matches(cs[j], ctx) /\ cs[j].priority = r[i].priority
    BY <1>1, <1>4, Zenon
  <2>2. \A j \in DOMAIN cs : Matches(cs[j], ctx) =>
            \E i \in DOMAIN r : Matches(r[i], ctx) /\ cs[j].priority = r[i].priority
    <3> SUFFICES ASSUME NEW j \in DOMAIN cs, Matches(cs[j], ctx)
                 PROVE  \E i \in DOMAIN r : Matches(r[i], ctx) /\ cs[j].priority = r[i].priority
      OBVIOUS
    <3>1. PICK i \in 1..n : p[i] = j
      BY <1>1, <1>3
    <3>2. r[i] = cs[j] /\ i \in DOMAIN r
      BY <1>4, <3>1
    <3> QED BY <3>2
  <2> QED BY <2>1, <2>2, MatchedSame
<1> QED
  BY <1>5, <1>6, <1>7, <1>8, Zenon DEF r

-----------------------------------------------------------------------------
(***************************************************************************)
(* What the generated tables decide, and hold.                             *)
(***************************************************************************)
\* A table's action is its check's priority.
LEMMA TableAction ==
  ASSUME NEW c \in Check, Sound(c), c.type # "INVALID", NEW rec
  PROVE  Table(c, rec).action_x = c.priority /\ Table(c, rec).rec = rec
<1>1. /\ Table(c, rec).action_x = IF c.type = "MONITOR" THEN c.else_val ELSE c.if_val
      /\ Table(c, rec).rec = rec
  BY DEF Table
<1>2. CASE c.type = "MONITOR"
  BY <1>1, <1>2 DEF Sound
<1>3. CASE c.type \in {"EXACT", "RANGE", "LIST"}
  BY <1>1, <1>3 DEF Sound
<1> QED
  BY <1>2, <1>3, SMTT(30) DEF Check, CheckType

\* The largest of a set is what Highest picks.
LEMMA HighestIs ==
  ASSUME NEW S \in SUBSET Nat, NEW d \in S, \A x \in S : x <= d
  PROVE  Highest(S) = d
<1>1. \A y \in S : (\A x \in S : x <= y) => y = d
  OBVIOUS
<1> QED
  BY <1>1, Zenon DEF Highest

\* A set of positions that is not empty has a last.
LEMMA LastPosition ==
  ASSUME NEW n \in Nat, NEW H \in SUBSET (1..n), H # {}
  PROVE  \E i \in H : \A j \in H : j <= i
<1> DEFINE D == {n - i : i \in H}
<1>1. D \in SUBSET Nat /\ D # {}
  <2>1. \A i \in H : n - i \in Nat
    OBVIOUS
  <2> QED BY <2>1, Zenon
<1>2. PICK d \in D : \A e \in D : d <= e
  <2> HIDE DEF D
  <2> QED BY <1>1, LeastNat
<1>3. PICK i \in H : d = n - i
  BY <1>2
<1>4. ASSUME NEW j \in H PROVE j <= i
  <2>1. n - j \in D
    OBVIOUS
  <2>2. n - i <= n - j
    BY <1>2, <1>3, <2>1
  <2> QED BY <2>2
<1> QED
  BY <1>4

\* The generated tables decide by the highest priority of the matching checks:
\* the order of the tables is that of the priorities, within a pass and from
\* one pass to the next, and every pass is made.
LEMMA Decision ==
  ASSUME AllocIInv, ChecksInv, MergeInv, PlaceInv, phase = "done", Mergeable, NEW ctx \in Context
  PROVE  /\ Matched(parsed, ctx) \in SUBSET Nat
         /\ EvaluateContext(ctx) \in {0} \cup Matched(parsed, ctx)
         /\ \A x \in Matched(parsed, ctx) : x <= EvaluateContext(ctx)
<1> DEFINE ts == p4.tables
           n  == Len(check_v)
           hits == {i \in DOMAIN ts : ts[i].rec <= p4.RECIR_TIMES /\ Hits(ts[i], ctx)}
           Later(i, j) == ts[j].rec < ts[i].rec \/ (ts[j].rec = ts[i].rec /\ j <= i)
           d == EvaluateContext(ctx)
<1>1. d = IF hits = {} THEN 0 ELSE ts[CHOOSE i \in hits : \A j \in hits : Later(i, j)].action_x
  BY Zenon DEF EvaluateContext
<1>2. /\ check_v \in Seq(Check)
      /\ \A i \in DOMAIN check_v : Sound(check_v[i]) /\ check_v[i].type # "INVALID"
  BY DEF ChecksInv
<1>3. n \in Nat /\ DOMAIN check_v = 1..n /\ \A i \in 1..n : check_v[i] \in Check
  BY <1>2
<1>4. /\ Len(placed) = n /\ p4.RECIR_TIMES = curr_rec
      /\ ts = [i \in DOMAIN check_v |-> Table(check_v[i], placed[i].rec)]
      /\ \A i, j \in DOMAIN check_v : i < j => check_v[i].priority <= check_v[j].priority
  BY DEF PlaceInv
<1>5. placed \in Seq(Placement) /\ curr_rec \in Nat
  BY DEF AllocIInv, AllocTypeOK
<1>6. DOMAIN placed = 1..n /\ \A i \in 1..n : placed[i].rec \in Nat
  <2>1. DOMAIN placed = 1..n /\ \A i \in 1..n : placed[i] \in Placement
    BY <1>4, <1>5
  <2> QED BY <2>1 DEF Placement
<1> HIDE DEF n, ts
<1>7. ASSUME NEW i \in 1..n
      PROVE  /\ ts[i].rec = placed[i].rec /\ ts[i].action_x = check_v[i].priority
             /\ Hits(ts[i], ctx) <=> Matches(check_v[i], ctx)
  <2>1. ts[i] = Table(check_v[i], placed[i].rec)
    BY <1>3, <1>4
  <2>2. check_v[i] \in Check /\ Sound(check_v[i]) /\ check_v[i].type # "INVALID"
    BY <1>2, <1>3
  <2>3. ts[i].rec = placed[i].rec /\ ts[i].action_x = check_v[i].priority
    BY <2>1, <2>2, TableAction
  <2>4. Hits(ts[i], ctx) <=> Matches(check_v[i], ctx)
    BY <2>1, MatchesAnyPass
  <2> QED BY <2>3, <2>4
<1>8. \A i \in 1..n : placed[i].rec <= curr_rec
  <2>1. \A i \in 1..n : placed[i].rec < curr_rec \/ placed[i].rec = curr_rec
    BY <1>6, Zenon DEF AllocIInv, Frontier
  <2> QED BY <1>5, <1>6, <2>1
<1>9. \A i, j \in 1..n : i < j => placed[i].rec <= placed[j].rec
  <2> SUFFICES ASSUME NEW i \in 1..n, NEW j \in 1..n, i < j PROVE placed[i].rec <= placed[j].rec
    OBVIOUS
  <2>1. placed[i].rec < placed[j].rec \/ placed[i].rec = placed[j].rec
    BY <1>6, Zenon DEF AllocIInv, StagesDisjoint
  <2> QED BY <1>6, <2>1
<1>10. DOMAIN ts = 1..n
  BY <1>3, <1>4, SMTT(30)
<1>11. hits = {i \in 1..n : Matches(check_v[i], ctx)}
  BY <1>4, <1>7, <1>8, <1>10
<1>12. ASSUME NEW i \in 1..n, NEW j \in 1..n PROVE Later(i, j) <=> j <= i
  <2>1. ts[i].rec = placed[i].rec /\ ts[j].rec = placed[j].rec /\ placed[i].rec \in Nat /\ placed[j].rec \in Nat
    BY <1>6, <1>7
  <2>2. (i < j => placed[i].rec <= placed[j].rec) /\ (j < i => placed[j].rec <= placed[i].rec)
    BY <1>9
  <2> QED BY <1>3, <2>1, <2>2
<1>13. Matched(check_v, ctx) = Matched(parsed, ctx)
  BY DEF MergeInv, Optimising
<1>14. \A x : x \in Matched(check_v, ctx) <=> \E i \in hits : x = check_v[i].priority
  BY <1>3, <1>11, Zenon DEF Matched
<1>15. \A i \in 1..n : check_v[i].priority \in Nat
  BY <1>3 DEF Check
<1>16. hits \in SUBSET (1..n)
  BY <1>11
<1> HIDE DEF hits, Later, d
<1>17. Matched(check_v, ctx) \in SUBSET Nat
  BY <1>14, <1>15, <1>16
<1>18. CASE hits = {}
  <2>1. d = 0
    BY <1>1, <1>18
  <2> QED BY <1>13, <1>14, <1>17, <1>18, <2>1 DEF d
<1>19. CASE hits # {}
  <2> DEFINE last == CHOOSE i \in hits : \A j \in hits : Later(i, j)
  <2>1. \E i \in hits : \A j \in hits : j <= i
    BY <1>3, <1>16, <1>19, LastPosition, Zenon
  <2>2. \E i \in hits : \A j \in hits : Later(i, j)
    BY <1>12, <1>16, <2>1, Zenon
  <2>3. last \in hits /\ \A j \in hits : Later(last, j)
    BY <2>2, Zenon
  <2>4. d = ts[last].action_x
    BY <1>1, <1>19
  <2> HIDE DEF last
  <2>5. \A j \in hits : j <= last
    BY <1>12, <1>16, <2>3, Zenon
  <2>6. last \in 1..n /\ d = check_v[last].priority
    BY <1>7, <1>16, <2>3, <2>4
  <2>7. \A j \in hits : check_v[j].priority <= d
    <3> SUFFICES ASSUME NEW j \in hits PROVE check_v[j].priority <= d
      OBVIOUS
    <3>1. j \in 1..n /\ j <= last
      BY <1>16, <2>5
    <3>2. j < last => check_v[j].priority <= check_v[last].priority
      BY <1>3, <1>4, <2>6, <3>1, Zenon
    <3>3. check_v[j].priority \in Nat /\ check_v[last].priority \in Nat
      BY <1>15, <2>6, <3>1
    <3> QED BY <1>3, <2>6, <3>1, <3>2, <3>3
  <2>8. d \in Matched(check_v, ctx) /\ \A x \in Matched(check_v, ctx) : x <= d
    BY <1>14, <2>3, <2>6, <2>7, Zenon
  <2> QED BY <1>13, <1>17, <2>8 DEF d
<1> QED
  BY <1>18, <1>19

\* The checks before any optimisation decide by the priorities that match.
LEMMA ParsedDecide ==
  ASSUME ChecksInv, NEW ctx \in Context
  PROVE  ChecksDecide(ctx) = Highest({0} \cup Matched(parsed, ctx))
<1>1. \A i \in DOMAIN parsed : parsed[i] \in Check /\ Sound(parsed[i]) /\ Single(parsed[i])
  <2>1. parsed \in Seq(Check) /\ \A i \in DOMAIN parsed : Sound(parsed[i]) /\ Single(parsed[i])
    BY Zenon DEF ChecksInv
  <2>2. \A i \in DOMAIN parsed : parsed[i] \in Check
    BY <2>1
  <2> QED BY <2>1, <2>2, Zenon
<1>2. \A i \in DOMAIN parsed : CheckMatches(parsed[i], ctx) <=> Matches(parsed[i], ctx)
  BY <1>1, CheckMatchesTable
<1>3. {j \in DOMAIN parsed : CheckMatches(parsed[j], ctx)} = {j \in DOMAIN parsed : Matches(parsed[j], ctx)}
  BY <1>2, Zenon
<1> QED
  BY <1>3, Zenon DEF ChecksDecide, Matched

\* The invariant gives what MeaningPreserved says.
LEMMA MeaningFollows ==
  ASSUME AllocIInv, ChecksInv, MergeInv, PlaceInv PROVE MeaningPreserved
<1> SUFFICES ASSUME phase = "done", Mergeable, NEW ctx \in Context
             PROVE  EvaluateContext(ctx) = ChecksDecide(ctx)
  BY DEF MeaningPreserved
<1> DEFINE P == Matched(parsed, ctx)
           d == EvaluateContext(ctx)
<1>1. P \in SUBSET Nat /\ d \in {0} \cup P /\ \A x \in P : x <= d
  BY Decision
<1> HIDE DEF P, d
<1>2. {0} \cup P \in SUBSET Nat /\ d \in Nat /\ \A x \in {0} \cup P : x <= d
  BY <1>1
<1>3. Highest({0} \cup P) = d
  BY <1>1, <1>2, HighestIs
<1> QED
  BY <1>3, ParsedDecide DEF P, d

\* A table has room for its entries.
LEMMA TableFits ==
  ASSUME NEW c \in Check, Sound(c), c.type # "INVALID",
         c.type = "MONITOR" /\ c.extra_check => Len(c.extra_header) = 1, NEW rec
  PROVE  Cardinality(Table(c, rec).entries) <= Table(c, rec).size
<1> DEFINE E == Entries(c)
<1>1. /\ Table(c, rec).entries = E
      /\ Table(c, rec).size = IF c.type = "MONITOR" THEN 2 ELSE c.table_size
  BY Zenon DEF Table
<1>2. ASSUME NEW e, E = {e} PROVE Cardinality(E) = 1
  BY <1>2, FS_Singleton, Zenon
<1>3. CASE c.type = "EXACT"
  <2>1. E = {Exactly(c.header, c.pred_hi)}
    BY <1>3 DEF Entries
  <2>2. Cardinality(E) = 1
    BY <1>2, <2>1, Zenon
  <2> QED BY <1>1, <1>3, <2>2 DEF Sound
<1>4. CASE c.type = "RANGE"
  <2>1. E = {[h \in {c.header} |-> <<c.pred_lo, c.pred_hi>>]}
    BY <1>4 DEF Entries
  <2>2. Cardinality(E) = 1
    BY <1>2, <2>1, Zenon
  <2> QED BY <1>1, <1>4, <2>2 DEF Sound
<1>5. CASE c.type = "LIST"
  <2> DEFINE q == c.list
             n == Len(q)
             g == [i \in 1..n |-> Exactly(c.header, q[i])]
  <2>1. E = {Exactly(c.header, v) : v \in Range(q)}
    BY <1>5 DEF Entries
  <2>2. q \in Seq(Nat)
    BY DEF Check
  <2>3. n \in Nat /\ DOMAIN q = 1..n
    BY <2>2, SeqFacts
  <2>4. E = {Exactly(c.header, q[i]) : i \in 1..n}
    BY <2>1, <2>3, Zenon DEF Range
  <2> HIDE DEF n, q, E
  <2>5. g \in Surjection(1..n, E)
    BY <2>4, Zenon DEF Surjection
  <2>6. Cardinality(E) <= n
    <3> HIDE DEF g
    <3>1. ExistsSurjection(1..n, E)
      BY <2>5, Zenon DEF ExistsSurjection
    <3> QED BY <2>3, <3>1, FS_SurjCardinalityBound
  <2>7. c.table_size = n
    BY <1>5 DEF Sound, n, q
  <2> QED BY <1>1, <1>5, <2>6, <2>7 DEF E
<1>6. CASE c.type = "MONITOR" /\ ~c.extra_check
  <2>1. E = {<<>>}
    BY <1>6 DEF Entries
  <2>2. Cardinality(E) = 1
    BY <1>2, <2>1, Zenon
  <2> QED BY <1>1, <1>6, <2>2
<1>7. CASE c.type = "MONITOR" /\ c.extra_check
  <2>1. E = {Exactly(h, c.h_to_val[h]) : h \in Range(c.extra_header)}
    BY <1>7 DEF Entries
  <2>2. Range(c.extra_header) = {c.extra_header[1]}
    BY <1>7 DEF Check, Range
  <2>3. E = {Exactly(c.extra_header[1], c.h_to_val[c.extra_header[1]])}
    BY <2>1, <2>2, Zenon
  <2>4. Cardinality(E) = 1
    BY <1>2, <2>3, Zenon
  <2> QED BY <1>1, <1>7, <2>4
<1> QED
  BY <1>3, <1>4, <1>5, <1>6, <1>7 DEF Check, CheckType

\* The invariant gives what EntriesFit says.
LEMMA EntriesFollow ==
  ASSUME ChecksInv, MergeInv, PlaceInv PROVE EntriesFit
<1> SUFFICES ASSUME NEW i \in DOMAIN p4.tables, p4.tables[i].mon = NoMon \/ MonitorsPlain(parsed)
             PROVE  Cardinality(p4.tables[i].entries) <= p4.tables[i].size
  BY Zenon DEF EntriesFit
<1>1. phase = "done"
  <2>1. DOMAIN <<>> = {}
    OBVIOUS
  <2> QED BY <2>1, Zenon DEF PlaceInv
<1>2. p4.tables = [k \in DOMAIN check_v |-> Table(check_v[k], placed[k].rec)]
  BY <1>1 DEF PlaceInv
<1> DEFINE c == check_v[i]
<1>3. i \in DOMAIN check_v /\ p4.tables[i] = Table(c, placed[i].rec)
  BY <1>2
<1>4. c \in Check /\ Sound(c) /\ c.type # "INVALID"
  BY <1>1, <1>3 DEF ChecksInv
<1>5. c.type = "MONITOR" /\ c.extra_check => Len(c.extra_header) = 1
  <2>1. Table(c, placed[i].rec).mon = c.mon_name
    BY Zenon DEF Table
  <2>2. c.type = "MONITOR" => c.mon_name # NoMon
    BY <1>4, MonAssumption DEF Sound
  <2>3. c.type = "MONITOR" => MonitorsPlain(parsed)
    BY <1>3, <2>1, <2>2, Zenon
  <2>4. MonitorsPlain(parsed) => OneEntry(check_v)
    BY <1>1 DEF MergeInv, Optimising
  <2> QED BY <1>3, <2>3, <2>4, Zenon DEF OneEntry
<1> HIDE DEF c
<1> QED
  BY <1>3, <1>4, <1>5, TableFits, Zenon

\* An exact statement asks for the priority of its check if the check matches,
\* and for the normal action otherwise.
LEMMA ExactValue ==
  ASSUME NEW me \in MatchExprs, Accepted(me), ExactStatement(me.stmt),
         me.if_action = me.stmt.acts[1], me.else_action = me.stmt.acts[2],
         NEW n \in Nat, NEW c, c = [CheckOf(me) EXCEPT !.id = n], NEW ctx \in Context
  PROVE  /\ c.priority \in 1..15
         /\ action_to_val[me.stmt.acts[IF StatementMatches(me.stmt, ctx) THEN 1 ELSE 2]]
               = IF Matches(c, ctx) THEN c.priority ELSE 1
<1> DEFINE s == me.stmt
           k == CheckOf(me)
           Goal == /\ c.priority \in 1..15
                   /\ action_to_val[s.acts[IF StatementMatches(s, ctx) THEN 1 ELSE 2]]
                         = IF Matches(c, ctx) THEN c.priority ELSE 1
<1>1. s \in Statement
  BY DEF MatchExprs
<1>2. k \in Check /\ Sound(k) /\ Single(k)
  BY MadeSound
<1>3. /\ c \in Check /\ Sound(c) /\ Single(c)
      /\ c.priority = k.priority /\ c.type = k.type /\ c.mon_name = k.mon_name
      /\ c.list = k.list /\ c.pred_lo = k.pred_lo /\ c.header = k.header
      /\ c.extra_header = k.extra_header
  <2> HIDE DEF k
  <2> DEFINE e == [k EXCEPT !.id = n]
  <2>1. c = e
    BY DEF k
  <2>2. /\ e \in Check /\ Sound(e) /\ Single(e)
        /\ e.priority = k.priority /\ e.type = k.type /\ e.mon_name = k.mon_name
        /\ e.list = k.list /\ e.pred_lo = k.pred_lo /\ e.header = k.header
        /\ e.extra_header = k.extra_header
    BY <1>2, NumberedFacts, Zenon
  <2> HIDE DEF e
  <2> QED BY <2>1, <2>2, Zenon
<1>4. ASSUME ActionsAccepted(me), k.priority = action_to_val[me.if_action],
             Matches(c, ctx) <=> StatementMatches(s, ctx)
      PROVE  Goal
  <2>1. action_to_val[s.acts[2]] = 1 /\ k.priority = action_to_val[s.acts[1]]
    BY <1>4 DEF ActionsAccepted, NORMAL_ACTION_VAL
  <2>2. c.priority \in 1..15
    BY <1>3, <1>4, AcceptedActions, ActionValues
  <2>3. action_to_val[s.acts[IF StatementMatches(s, ctx) THEN 1 ELSE 2]]
           = IF Matches(c, ctx) THEN c.priority ELSE 1
    BY <1>3, <1>4, <2>1, Zenon
  <2> QED BY <2>2, <2>3
<1>5. CASE s \in PredStatement /\ s.kind = "pred"
  <2> DEFINE p == parse_match_pred(s)
  <2>1. ActionsAccepted(me) /\ k = WithActions(p, me) /\ s.op = "=="
    BY <1>5 DEF Accepted, CheckOf, ExactStatement
  <2>2. p \in Check /\ p.header = s.header /\ p.type = "EXACT" /\ p.pred_lo = s.rhs
    BY <1>5, <2>1, PredCheck, Zenon
  <2> HIDE DEF p
  <2>3. k.priority = action_to_val[me.if_action] /\ k.type = "EXACT" /\ k.pred_lo = s.rhs /\ k.header = s.header
    <3> DEFINE w == WithActions(p, me)
    <3>1. /\ w.priority = action_to_val[me.if_action] /\ w.type = p.type /\ w.pred_lo = p.pred_lo
          /\ w.header = p.header
      BY <2>1, <2>2, WithActionsFacts, Zenon
    <3> HIDE DEF w
    <3>2. k = w
      BY <2>1 DEF w
    <3> QED BY <2>2, <3>1, <3>2, Zenon
  <2>4. Matches(c, ctx) <=> ctx.h[s.header] = s.rhs
    <3>1. Matches(c, ctx) <=> ctx.h[c.header] = c.pred_lo
      BY <1>3, <2>3, MatchesExact, Zenon
    <3> QED BY <1>3, <2>3, <3>1, Zenon
  <2>5. StatementMatches(s, ctx) <=> ctx.h[s.header] = s.rhs
    <3>1. StatementMatches(s, ctx) <=> Compare(ctx.h[s.header], s.op, s.rhs)
      BY <1>5 DEF StatementMatches
    <3> QED BY <2>1, <3>1 DEF Compare
  <2> QED BY <1>4, <2>1, <2>3, <2>4, <2>5
<1>6. CASE s \in ListStatement /\ s.kind = "list"
  <2> DEFINE p == parse_match_list(s)
  <2>1. ActionsAccepted(me) /\ k = WithActions(p, me) /\ s.op = "in"
    BY <1>6 DEF Accepted, CheckOf, ExactStatement
  <2>2. p \in Check /\ p.header = s.header /\ p.type = "LIST" /\ p.list = s.items
    BY <1>6, <2>1, ListCheck, Zenon
  <2> HIDE DEF p
  <2>3. k.priority = action_to_val[me.if_action] /\ k.type = "LIST" /\ k.list = s.items /\ k.header = s.header
    <3> DEFINE w == WithActions(p, me)
    <3>1. /\ w.priority = action_to_val[me.if_action] /\ w.type = p.type /\ w.list = p.list
          /\ w.header = p.header
      BY <2>1, <2>2, WithActionsFacts, Zenon
    <3> HIDE DEF w
    <3>2. k = w
      BY <2>1 DEF w
    <3> QED BY <2>2, <3>1, <3>2, Zenon
  <2>4. Matches(c, ctx) <=> \E i \in DOMAIN s.items : ctx.h[s.header] = s.items[i]
    <3>1. Matches(c, ctx) <=> \E i \in DOMAIN c.list : ctx.h[c.header] = c.list[i]
      BY <1>3, <2>3, MatchesList, Zenon
    <3> QED BY <1>3, <2>3, <3>1, Zenon
  <2>5. StatementMatches(s, ctx) <=> ctx.h[s.header] \in Range(s.items)
    BY <1>6, <2>1 DEF StatementMatches
  <2>6. StatementMatches(s, ctx) <=> \E i \in DOMAIN s.items : ctx.h[s.header] = s.items[i]
    BY <2>5, Zenon DEF Range
  <2> QED BY <1>4, <2>1, <2>3, <2>4, <2>6
<1>7. CASE s \in MonStatement /\ s.kind = "monitor"
  <2>1. k = parse_match_mon(s) /\ s.extra = <<>> /\ s.acts = <<"FWD1", "DROP">>
    BY <1>7 DEF CheckOf, ExactStatement
  <2>2. k.type = "MONITOR" /\ k.mon_name = s.mon /\ k.extra_header = <<>>
    BY <1>7, <2>1, MonCheck, Zenon
  <2>3. c.type = "MONITOR" /\ c.mon_name = s.mon /\ ~c.extra_check /\ c.priority = 15
    BY <1>3, <2>2 DEF Sound, DROP_ACTION_VAL
  <2>4. Matches(c, ctx) <=> ~ctx.active[s.mon]
    BY <1>3, <2>3, MatchesMonitor, Zenon
  <2>5. StatementMatches(s, ctx) <=> ctx.active[s.mon]
    <3>1. StatementMatches(s, ctx) <=>
             /\ ctx.active[s.mon]
             /\ \A i \in DOMAIN s.extra : Compare(ctx.h[s.extra[i].header], s.extra[i].op, s.extra[i].rhs)
      BY <1>7 DEF StatementMatches
    <3>2. DOMAIN s.extra = {}
      BY <2>1
    <3> QED BY <3>1, <3>2, Zenon
  <2>6. action_to_val[s.acts[1]] = 1 /\ action_to_val[s.acts[2]] = 15
    BY <2>1 DEF action_to_val, DROP_ACTION_VAL
  <2>7. action_to_val[s.acts[IF StatementMatches(s, ctx) THEN 1 ELSE 2]]
           = IF Matches(c, ctx) THEN c.priority ELSE 1
    BY <2>3, <2>4, <2>5, <2>6, Zenon
  <2> QED BY <2>3, <2>7
<1> QED
  BY <1>1, <1>5, <1>6, <1>7, KindOfStatement

\* The invariant gives what ExactPoliciesDecide says.
LEMMA ExactFollows ==
  ASSUME AllocIInv, ParseInv, ProcessInv, ChecksInv, MergeInv, PlaceInv PROVE ExactPoliciesDecide
<1> SUFFICES ASSUME phase = "done", Mergeable, \A i \in DOMAIN policy : ExactStatement(policy[i]),
                    NEW ctx \in Context
             PROVE  Decides(ctx) = PolicySays(ctx)
  BY Zenon DEF ExactPoliciesDecide
<1> DEFINE Value_(i) == action_to_val[policy[i].acts[IF StatementMatches(policy[i], ctx) THEN 1 ELSE 2]]
           V == {Value_(i) : i \in DOMAIN policy}
           P == Matched(parsed, ctx)
           d == EvaluateContext(ctx)
<1>1. P \in SUBSET Nat /\ d \in {0} \cup P /\ \A x \in P : x <= d
  BY Decision
<1>2. /\ policy \in Seq(Statement) /\ policy # <<>> /\ matchexpr_v \in Seq(MatchExprs)
      /\ Len(matchexpr_v) = Len(policy)
      /\ \A i \in DOMAIN matchexpr_v : matchexpr_v[i].stmt = policy[i]
      /\ Len(parsed) = Len(matchexpr_v) /\ \A i \in DOMAIN parsed : Made(parsed, i)
  BY DEF ParseInv, ProcessInv, Optimising
<1>3. parsed \in Seq(Check)
  BY DEF ChecksInv
<1>4. DOMAIN matchexpr_v = DOMAIN policy /\ DOMAIN parsed = DOMAIN policy
  BY <1>2, <1>3
<1>5. TwoActions
  BY Zenon DEF TwoActions, ExactStatement
<1>6. \A i \in DOMAIN matchexpr_v : /\ matchexpr_v[i].if_action = policy[i].acts[1]
                                   /\ matchexpr_v[i].else_action = policy[i].acts[2]
  BY <1>5, Zenon DEF ParseInv
<1>7. ASSUME NEW i \in DOMAIN policy
      PROVE  parsed[i].priority \in 1..15
             /\ Value_(i) = IF Matches(parsed[i], ctx) THEN parsed[i].priority ELSE 1
  <2> DEFINE me == matchexpr_v[i]
  <2>1. me \in MatchExprs /\ i - 1 \in Nat
    <3>1. i \in DOMAIN matchexpr_v
      BY <1>4
    <3> QED BY <1>2, <3>1
  <2>2. Accepted(me) /\ parsed[i] = [CheckOf(me) EXCEPT !.id = i - 1]
    BY <1>2, <1>4, Zenon DEF Made
  <2>3. me.stmt = policy[i] /\ me.if_action = policy[i].acts[1] /\ me.else_action = policy[i].acts[2]
    BY <1>2, <1>4, <1>6, Zenon
  <2>4. ExactStatement(me.stmt)
    BY <2>3
  <2> HIDE DEF me
  <2>5. /\ parsed[i].priority \in 1..15
        /\ action_to_val[me.stmt.acts[IF StatementMatches(me.stmt, ctx) THEN 1 ELSE 2]]
               = IF Matches(parsed[i], ctx) THEN parsed[i].priority ELSE 1
    BY <2>1, <2>2, <2>3, <2>4, ExactValue, Zenon
  <2> QED BY <2>3, <2>5, Zenon
<1>8. \A x : x \in P <=> \E i \in DOMAIN policy : Matches(parsed[i], ctx) /\ x = parsed[i].priority
  BY <1>4, Zenon DEF Matched
<1>9. \E i : i \in DOMAIN policy
  BY <1>2
<1>10. Decides(ctx) = IF d = 0 THEN 1 ELSE d
  BY DEF Decides, NORMAL_ACTION_VAL
<1>11. PolicySays(ctx) = Highest(V)
  BY Zenon DEF PolicySays
<1> HIDE DEF d, P, Value_
<1>12. V \in SUBSET Nat
  <2>1. \A i \in DOMAIN policy : Value_(i) \in Nat
    BY <1>7
  <2> QED BY <2>1, Zenon
<1>13. CASE d = 0
  <2>1. \A i \in DOMAIN policy : ~Matches(parsed[i], ctx)
    <3> SUFFICES ASSUME NEW i \in DOMAIN policy, Matches(parsed[i], ctx) PROVE FALSE
      OBVIOUS
    <3>1. parsed[i].priority <= d /\ parsed[i].priority \in 1..15
      BY <1>1, <1>7, <1>8
    <3> QED BY <1>13, <3>1
  <2>2. \A i \in DOMAIN policy : Value_(i) = 1
    BY <1>7, <2>1
  <2>3. 1 \in V /\ \A x \in V : x = 1
    BY <1>9, <2>2, Zenon
  <2>4. 1 \in V /\ \A x \in V : x <= 1
    BY <2>3
  <2> HIDE DEF V
  <2>5. Highest(V) = 1
    BY <1>12, <2>4, HighestIs
  <2> QED BY <1>10, <1>11, <1>13, <2>5, SMTT(30)
<1>14. CASE d # 0
  <2>1. d \in P /\ d \in Nat
    BY <1>1, <1>14
  <2>2. PICK i \in DOMAIN policy : Matches(parsed[i], ctx) /\ d = parsed[i].priority
    BY <1>8, <2>1, Zenon
  <2>3. d = Value_(i) /\ d \in 1..15
    BY <1>7, <2>2
  <2>4. \A j \in DOMAIN policy : Value_(j) <= d
    <3> SUFFICES ASSUME NEW j \in DOMAIN policy PROVE Value_(j) <= d
      OBVIOUS
    <3>1. CASE Matches(parsed[j], ctx)
      <4>1. parsed[j].priority \in P
        BY <1>8, <3>1, Zenon
      <4> QED BY <1>1, <1>7, <3>1, <4>1
    <3>2. CASE ~Matches(parsed[j], ctx)
      <4>1. Value_(j) = 1
        BY <1>7, <3>2, Zenon
      <4> QED BY <2>3, <4>1
    <3> QED BY <3>1, <3>2
  <2>5. d \in V /\ \A x \in V : x <= d
    BY <2>3, <2>4, Zenon
  <2> HIDE DEF V
  <2>6. Highest(V) = d
    BY <1>12, <2>5, HighestIs
  <2> QED BY <1>10, <1>11, <1>14, <2>6
<1> QED
  BY <1>13, <1>14

-----------------------------------------------------------------------------
(***************************************************************************)
(* The invariant is inductive.                                             *)
(***************************************************************************)
\* Before the first statement.
LEMMA Initially == Init => IInv
<1> SUFFICES ASSUME Init PROVE IInv
  OBVIOUS
<1>1. /\ policy \in Seq(Statement) /\ policy # <<>> /\ phase = "parse" /\ todo = 1
      /\ action_v = <<>> /\ matchexpr_v = <<>> /\ check_v = <<>> /\ parsed = <<>> /\ placed = <<>>
      /\ p4.tables = <<>>
  BY PolicyAssumption DEF Init, AllocInit
<1>2. DOMAIN matchexpr_v = {} /\ DOMAIN check_v = {} /\ DOMAIN parsed = {} /\ Len(matchexpr_v) = 0
  BY <1>1
<1>3. ParseInv
  <2>1. <<>> \in Seq(ActionName) /\ <<>> \in Seq(MatchExprs) /\ Len(policy) \in Nat
    BY <1>1
  <2>2. 0 <= Len(policy) /\ 0 = todo - 1 /\ todo \in Nat \ {0}
    BY <1>1, <2>1
  <2> QED BY <1>1, <1>2, <2>1, <2>2 DEF ParseInv
<1>4. ProcessInv
  BY <1>1 DEF ProcessInv, Optimising
<1>5. ChecksInv
  <2>1. <<>> \in Seq(Check)
    OBVIOUS
  <2> QED BY <1>1, <1>2, <2>1 DEF ChecksInv
<1>6. MergeInv
  BY <1>1 DEF MergeInv, Optimising
<1>7. PlaceInv
  BY <1>1 DEF PlaceInv
<1> QED
  BY <1>3, <1>4, <1>5, <1>6, <1>7 DEF IInv

\* What parsing has built stays.
LEMMA ParseFrame ==
  ASSUME ParseInv, UNCHANGED front_vars, todo' \in Nat \ {0}, phase # "parse", phase' # "parse"
  PROVE  ParseInv'
<1>1. policy' = policy /\ action_v' = action_v /\ matchexpr_v' = matchexpr_v
  BY DEF front_vars
<1>2. TwoActions' <=> TwoActions
  BY <1>1 DEF TwoActions
<1> QED
  BY <1>1, <1>2, Zenon DEF ParseInv

\* The checks made of the match expressions stay.
LEMMA ProcessFrame ==
  ASSUME ProcessInv, UNCHANGED front_vars, UNCHANGED parsed, phase \in Optimising,
         phase' \in Optimising \cup {"aborted"}
  PROVE  ProcessInv'
<1>1. matchexpr_v' = matchexpr_v /\ parsed' = parsed
  BY DEF front_vars
<1>2. Len(parsed) = Len(matchexpr_v) /\ \A i \in DOMAIN parsed : Made(parsed, i)
  BY DEF ProcessInv
<1>3. \A i \in DOMAIN parsed : Made(parsed, i)'
  BY <1>1, <1>2, Zenon DEF Made
<1>4. phase' # "parse" /\ phase' # "process"
  BY Zenon DEF Optimising
<1> QED
  BY <1>1, <1>2, <1>3, <1>4, Zenon DEF ProcessInv

\* The checks stay sound where they are not touched.
LEMMA ChecksFrame ==
  ASSUME ChecksInv, UNCHANGED <<check_v, parsed>>,
         phase' \in {"parse", "aborted"} \/ phase' = phase
         \/ (phase = "parse" /\ check_v = <<>>) \/ (phase = "allocate" /\ phase' = "done")
  PROVE  ChecksInv'
<1>1. check_v' = check_v /\ parsed' = parsed
  OBVIOUS
<1>2. check_v = <<>> => DOMAIN check_v = {}
  OBVIOUS
<1> QED
  BY <1>1, <1>2, Zenon DEF ChecksInv

\* What merging has kept stays kept.
LEMMA MergeFrame ==
  ASSUME MergeInv, UNCHANGED <<check_v, parsed>>,
         phase' \in {"parse", "process", "aborted"} \/ phase' = phase \/ (phase = "allocate" /\ phase' = "done")
  PROVE  MergeInv'
<1>1. check_v' = check_v /\ parsed' = parsed
  OBVIOUS
<1>2. Mergeable' <=> Mergeable
  BY <1>1 DEF Mergeable
<1>3. phase' \in Optimising => phase \in Optimising
  BY Zenon DEF Optimising
<1>4. phase' \in {"merge headers", "merge monitors"} => phase' = phase
  BY Zenon
<1> QED
  BY <1>1, <1>2, <1>3, <1>4, Zenon DEF MergeInv

\* Nothing is placed and no program generated before the checks are sorted.
LEMMA PlaceFrame ==
  ASSUME PlaceInv, UNCHANGED back_vars, phase \notin {"allocate", "done", "aborted"},
         phase' \notin {"allocate", "done"}
  PROVE  PlaceInv'
<1>1. placed' = placed /\ p4' = p4
  BY DEF back_vars, alloc_vars
<1> QED
  BY <1>1 DEF PlaceInv

\* Stuttering.
LEMMA StutterStep ==
  ASSUME IInv, UNCHANGED vars
  PROVE  IInv'
<1>1. /\ phase' = phase /\ todo' = todo /\ check_v' = check_v /\ parsed' = parsed
      /\ policy' = policy /\ action_v' = action_v /\ matchexpr_v' = matchexpr_v
      /\ placed' = placed /\ curr_rec' = curr_rec /\ p4' = p4
  BY DEF vars, front_vars, back_vars, alloc_vars
<1>2. ParseInv'
  <2>1. TwoActions' <=> TwoActions
    BY <1>1 DEF TwoActions
  <2> QED BY <1>1, <2>1, Zenon DEF IInv, ParseInv
<1>3. ProcessInv'
  <2>1. /\ \A i : Made(check_v, i)' <=> Made(check_v, i)
        /\ \A i : Made(parsed, i)' <=> Made(parsed, i)
    BY <1>1, Zenon DEF Made
  <2> QED BY <1>1, <2>1, Zenon DEF IInv, ProcessInv
<1>4. ChecksInv' /\ MergeInv'
  BY <1>1, ChecksFrame, MergeFrame DEF IInv
<1>5. PlaceInv'
  BY <1>1, Zenon DEF IInv, PlaceInv
<1> QED
  BY <1>2, <1>3, <1>4, <1>5, Zenon DEF IInv

\* A statement's actions.
LEMMA StatementActs ==
  ASSUME NEW s \in Statement
  PROVE  s.acts \in Seq(ActionName)
BY KindOfStatement DEF PredStatement, ListStatement, MonStatement

\* The match expression of a statement: its own actions, if every statement
\* before it had two as well.
LEMMA ParseStatementKeeps ==
  ASSUME IInv, ParseStatement
  PROVE  IInv'
<1> DEFINE s == policy[todo]
           a == action_v \o s.acts
           two == [MatchExpr(s) EXCEPT !.if_action = a[1], !.else_action = a[2]]
           one == MatchExpr(s)
           me == IF Len(s.acts) = 2 THEN two ELSE one
           n == Len(matchexpr_v)
<1>1. /\ phase = "parse" /\ phase' = "parse" /\ todo <= Len(policy) /\ todo' = todo + 1 /\ policy' = policy
      /\ check_v' = check_v /\ parsed' = parsed /\ UNCHANGED back_vars
      /\ matchexpr_v' = Append(matchexpr_v, me)
      /\ action_v' = IF Len(s.acts) = 2 THEN <<>> ELSE a
  BY Zenon DEF ParseStatement
<1>2. /\ policy \in Seq(Statement) /\ policy # <<>> /\ action_v \in Seq(ActionName)
      /\ matchexpr_v \in Seq(MatchExprs) /\ todo \in Nat \ {0} /\ n = todo - 1
      /\ \A i \in DOMAIN matchexpr_v : matchexpr_v[i].stmt = policy[i]
      /\ TwoActions =>
            /\ action_v = <<>>
            /\ \A i \in DOMAIN matchexpr_v :
                   /\ matchexpr_v[i].if_action = policy[i].acts[1]
                   /\ matchexpr_v[i].else_action = policy[i].acts[2]
  BY <1>1, Zenon DEF IInv, ParseInv
<1>3. s \in Statement /\ todo \in DOMAIN policy
  BY <1>1, <1>2
<1>4. s.acts \in Seq(ActionName)
  BY <1>3, StatementActs
<1> HIDE DEF s
<1>5. a \in Seq(ActionName) /\ (Len(s.acts) = 2 => a[1] \in ActionName /\ a[2] \in ActionName)
      /\ (action_v = <<>> => a = s.acts)
  <2> DEFINE q == s.acts
  <2>1. q \in Seq(ActionName)
    BY <1>4
  <2> HIDE DEF q
  <2>2. /\ action_v \o q \in Seq(ActionName)
        /\ Len(q) = 2 => Len(action_v \o q) >= 2
    <3>1. action_v \in Seq(ActionName)
      BY <1>2
    <3>2. Len(action_v \o q) = Len(action_v) + Len(q) /\ action_v \o q \in Seq(ActionName)
      BY <2>1, <3>1
    <3>3. Len(action_v) \in Nat /\ Len(q) \in Nat
      BY <2>1, <3>1
    <3>4. ASSUME Len(q) = 2 PROVE Len(action_v \o q) >= 2
      BY <3>2, <3>3, <3>4
    <3> QED BY <3>2, <3>4, Zenon
  <2>3. ASSUME NEW b \in Seq(ActionName), Len(b) >= 2 PROVE b[1] \in ActionName /\ b[2] \in ActionName
    BY <2>3
  <2>4. action_v = <<>> => action_v \o q = q
    BY <2>1
  <2> QED BY <2>2, <2>3, <2>4, Zenon DEF q
<1> HIDE DEF a
<1>6. one \in MatchExprs /\ one.stmt = s
  BY <1>3 DEF MatchExpr, MatchExprs
<1>7. Len(s.acts) = 2 => two \in MatchExprs /\ two.stmt = s /\ two.if_action = a[1] /\ two.else_action = a[2]
  <2> HIDE DEF one
  <2>1. two = [one EXCEPT !.if_action = a[1], !.else_action = a[2]]
    BY DEF one
  <2> QED BY <1>5, <1>6, <2>1, Zenon DEF MatchExprs
<1> HIDE DEF one, two
<1>8. me \in MatchExprs /\ me.stmt = s
  BY <1>6, <1>7, Zenon
<1>9. TwoActions => me.if_action = s.acts[1] /\ me.else_action = s.acts[2]
  <2> SUFFICES ASSUME TwoActions PROVE me.if_action = s.acts[1] /\ me.else_action = s.acts[2]
    OBVIOUS
  <2>1. Len(s.acts) = 2 /\ a = s.acts
    BY <1>2, <1>3, <1>5, Zenon DEF TwoActions, s
  <2> QED BY <1>7, <2>1, Zenon
<1>10. TwoActions => action_v' = <<>>
  BY <1>1, <1>3, Zenon DEF TwoActions, s
<1>11. action_v' \in Seq(ActionName)
  <2>1. <<>> \in Seq(ActionName)
    OBVIOUS
  <2> QED BY <1>1, <1>5, <2>1, Zenon
<1> HIDE DEF me
<1>12. /\ matchexpr_v' \in Seq(MatchExprs) /\ Len(matchexpr_v') = n + 1 /\ n \in Nat
       /\ DOMAIN matchexpr_v = 1..n /\ DOMAIN matchexpr_v' = 1..(n + 1)
       /\ matchexpr_v'[n + 1] = me /\ \A i \in 1..n : matchexpr_v'[i] = matchexpr_v[i]
  BY <1>1, <1>2, <1>8
<1> HIDE DEF n
<1>13. n + 1 = todo /\ todo' \in Nat \ {0} /\ n + 1 <= Len(policy) /\ n + 1 = todo' - 1
  BY <1>1, <1>2, <1>12
<1>14. \A i \in 1..(n + 1) : i \in 1..n \/ i = n + 1
  BY <1>12
<1>15. ParseInv'
  <2>1. TwoActions' <=> TwoActions
    BY <1>1 DEF TwoActions
  <2>2. \A i \in DOMAIN matchexpr_v' : matchexpr_v'[i].stmt = policy'[i]
    BY <1>1, <1>2, <1>8, <1>12, <1>13, <1>14, Zenon DEF s
  <2>3. TwoActions => \A i \in DOMAIN matchexpr_v' :
            /\ matchexpr_v'[i].if_action = policy'[i].acts[1]
            /\ matchexpr_v'[i].else_action = policy'[i].acts[2]
    BY <1>1, <1>2, <1>9, <1>12, <1>13, <1>14, Zenon DEF s
  <2> QED
    BY <1>1, <1>2, <1>10, <1>11, <1>12, <1>13, <2>1, <2>2, <2>3, Zenon DEF ParseInv
<1>16. ProcessInv'
  BY <1>1 DEF IInv, ProcessInv, Optimising
<1>17. ChecksInv' /\ MergeInv' /\ PlaceInv'
  BY <1>1, ChecksFrame, MergeFrame, PlaceFrame, SMTT(30) DEF IInv
<1> QED
  BY <1>15, <1>16, <1>17, Zenon DEF IInv

\* Every statement has its match expression.
LEMMA ParseDoneKeeps ==
  ASSUME IInv, ParseDone
  PROVE  IInv'
<1>1. /\ phase = "parse" /\ phase' = "process" /\ todo > Len(policy) /\ todo' = 1
      /\ policy' = policy /\ action_v' = action_v /\ matchexpr_v' = matchexpr_v
      /\ check_v' = check_v /\ parsed' = parsed /\ UNCHANGED back_vars
  BY DEF ParseDone, front_vars
<1>2. check_v = <<>> /\ Len(matchexpr_v) \in Nat
  BY <1>1 DEF IInv, ProcessInv, ParseInv
<1>3. ParseInv'
  <2>1. TwoActions' <=> TwoActions
    BY <1>1 DEF TwoActions
  <2>2. Len(matchexpr_v) = Len(policy) /\ todo' \in Nat \ {0}
    <3>1. Len(matchexpr_v) = todo - 1 /\ Len(matchexpr_v) <= Len(policy) /\ todo \in Nat /\ policy \in Seq(Statement)
      BY <1>1 DEF IInv, ParseInv
    <3> QED BY <1>1, <3>1
  <2> QED BY <1>1, <2>1, <2>2, Zenon DEF IInv, ParseInv
<1>4. ProcessInv'
  <2>1. DOMAIN check_v = {} /\ Len(check_v) = 0
    BY <1>2
  <2>2. Len(check_v') = todo' - 1 /\ Len(check_v') <= Len(matchexpr_v')
    BY <1>1, <1>2, <2>1
  <2> QED BY <1>1, <2>1, <2>2 DEF ProcessInv, Optimising
<1>5. ChecksInv' /\ MergeInv' /\ PlaceInv'
  BY <1>1, <1>2, ChecksFrame, MergeFrame, PlaceFrame DEF IInv
<1> QED
  BY <1>3, <1>4, <1>5, Zenon DEF IInv

\* A check is made.
LEMMA ProcessMatchexprKeeps ==
  ASSUME IInv, ProcessMatchexpr
  PROVE  IInv'
<1> DEFINE me == matchexpr_v[todo]
           c  == [CheckOf(me) EXCEPT !.id = todo - 1]
           n  == Len(check_v)
<1>1. /\ phase = "process" /\ phase' = "process" /\ todo <= Len(matchexpr_v) /\ todo' = todo + 1
      /\ UNCHANGED front_vars /\ matchexpr_v' = matchexpr_v /\ parsed' = parsed /\ UNCHANGED back_vars
      /\ Accepted(me) /\ check_v' = Append(check_v, c)
  BY Zenon DEF ProcessMatchexpr, front_vars
<1>2. /\ todo \in Nat \ {0} /\ matchexpr_v \in Seq(MatchExprs) /\ n = todo - 1
      /\ n <= Len(matchexpr_v) /\ \A i \in DOMAIN check_v : Made(check_v, i)
  BY <1>1, SMTT(30) DEF IInv, ParseInv, ProcessInv
<1>3. /\ check_v \in Seq(Check) /\ \A i \in DOMAIN check_v : Sound(check_v[i]) /\ Single(check_v[i])
      /\ parsed \in Seq(Check) /\ \A i \in DOMAIN parsed : Sound(parsed[i]) /\ Single(parsed[i])
  BY <1>1 DEF IInv, ChecksInv
<1>4. me \in MatchExprs /\ todo - 1 \in Nat
  BY <1>1, <1>2
<1> HIDE DEF me
<1>5. c \in Check /\ Sound(c) /\ Single(c)
  <2> DEFINE k == CheckOf(me)
  <2>1. k \in Check /\ Sound(k) /\ Single(k)
    BY <1>1, <1>4, MadeSound
  <2> HIDE DEF k
  <2>2. /\ [k EXCEPT !.id = todo - 1] \in Check /\ Sound([k EXCEPT !.id = todo - 1])
        /\ Single([k EXCEPT !.id = todo - 1])
    BY <1>4, <2>1, NumberedFacts, Zenon
  <2> QED BY <2>2 DEF k
<1> HIDE DEF c
<1>6. /\ check_v' \in Seq(Check) /\ Len(check_v') = n + 1 /\ n \in Nat
      /\ DOMAIN check_v = 1..n /\ DOMAIN check_v' = 1..(n + 1)
      /\ check_v'[n + 1] = c /\ \A i \in 1..n : check_v'[i] = check_v[i]
  BY <1>1, <1>3, <1>5
<1> HIDE DEF n
<1>7. n + 1 = todo /\ n + 1 = todo' - 1 /\ n + 1 <= Len(matchexpr_v) /\ todo' \in Nat \ {0}
  BY <1>1, <1>2, <1>6
<1>8. \A i \in 1..(n + 1) : i \in 1..n \/ i = n + 1
  BY <1>6
<1>9. ParseInv'
  BY <1>1, <1>7, ParseFrame DEF IInv
<1>10. ProcessInv'
  <2>1. ASSUME NEW i \in DOMAIN check_v' PROVE Made(check_v, i)'
    <3>1. CASE i = n + 1
      <4>1. matchexpr_v'[i] = me /\ check_v'[i] = [CheckOf(me) EXCEPT !.id = i - 1] /\ Accepted(me)
        BY <1>1, <1>6, <1>7, <3>1, Zenon DEF me, c
      <4> QED BY <4>1, Zenon DEF Made
    <3>2. CASE i \in 1..n
      <4>1. check_v'[i] = check_v[i] /\ Made(check_v, i)
        BY <1>2, <1>6, <3>2
      <4> QED BY <1>1, <4>1, Zenon DEF Made
    <3> QED BY <1>6, <1>8, <3>1, <3>2
  <2>2. Len(check_v') = todo' - 1 /\ Len(check_v') <= Len(matchexpr_v')
    BY <1>1, <1>6, <1>7
  <2>3. phase' # "parse" /\ phase' \notin Optimising
    BY <1>1 DEF Optimising
  <2> QED BY <2>1, <2>2, <2>3, Zenon DEF ProcessInv
<1>11. ChecksInv'
  <2>1. \A i \in DOMAIN check_v' : Sound(check_v'[i]) /\ Single(check_v'[i])
    BY <1>3, <1>5, <1>6, <1>8, Zenon
  <2> QED BY <1>1, <1>3, <1>6, <2>1 DEF ChecksInv
<1>12. MergeInv'
  BY <1>1 DEF MergeInv, Optimising
<1>13. PlaceInv'
  BY <1>1, PlaceFrame DEF IInv
<1> QED
  BY <1>9, <1>10, <1>11, <1>12, <1>13, Zenon DEF IInv

\* A match expression is refused.
LEMMA RejectMatchexprKeeps ==
  ASSUME IInv, RejectMatchexpr
  PROVE  IInv'
<1>1. /\ phase = "process" /\ phase' = "aborted" /\ todo' = todo
      /\ UNCHANGED front_vars /\ check_v' = check_v /\ parsed' = parsed /\ UNCHANGED back_vars
  BY DEF RejectMatchexpr
<1>2. todo' \in Nat \ {0}
  BY <1>1 DEF IInv, ParseInv
<1>3. ParseInv'
  BY <1>1, <1>2, ParseFrame DEF IInv
<1>4. ProcessInv'
  BY <1>1 DEF ProcessInv, Optimising
<1>5. ChecksInv' /\ MergeInv' /\ PlaceInv'
  BY <1>1, ChecksFrame, MergeFrame, PlaceFrame, SMTT(30) DEF IInv
<1> QED
  BY <1>3, <1>4, <1>5, Zenon DEF IInv

\* The checks are as parsed.
LEMMA ProcessDoneKeeps ==
  ASSUME IInv, ProcessDone
  PROVE  IInv'
<1>1. /\ phase = "process" /\ phase' = "merge headers" /\ todo > Len(matchexpr_v) /\ todo' = todo
      /\ UNCHANGED front_vars /\ matchexpr_v' = matchexpr_v
      /\ check_v' = check_v /\ parsed' = check_v /\ UNCHANGED back_vars
  BY Zenon DEF ProcessDone, front_vars
<1>2. /\ todo \in Nat \ {0} /\ matchexpr_v \in Seq(MatchExprs) /\ Len(check_v) = todo - 1
      /\ Len(check_v) <= Len(matchexpr_v) /\ \A i \in DOMAIN check_v : Made(check_v, i)
  BY <1>1, Zenon DEF IInv, ParseInv, ProcessInv
<1>3. /\ check_v \in Seq(Check) /\ \A i \in DOMAIN check_v : Sound(check_v[i]) /\ Single(check_v[i])
  BY <1>1, Zenon DEF IInv, ChecksInv
<1>4. ParseInv'
  BY <1>1, <1>2, ParseFrame, Zenon DEF IInv
<1>5. ProcessInv'
  <2>1. Len(check_v) = Len(matchexpr_v)
    <3>1. Len(check_v) \in Nat /\ Len(matchexpr_v) \in Nat
      BY <1>2, <1>3
    <3>2. todo > Len(matchexpr_v) /\ todo \in Nat /\ Len(check_v) = todo - 1 /\ Len(check_v) <= Len(matchexpr_v)
      BY <1>1, <1>2, Zenon
    <3> QED BY <3>1, <3>2
  <2>2. \A i \in DOMAIN parsed' : Made(parsed, i)'
    BY <1>1, <1>2, Zenon DEF Made
  <2>3. phase' # "parse" /\ phase' # "process"
    BY <1>1, Zenon
  <2> QED BY <1>1, <2>1, <2>2, <2>3, Zenon DEF ProcessInv
<1>6. ChecksInv'
  BY <1>1, <1>3, Zenon DEF ChecksInv
<1>7. OneEntry(check_v)
  <2> SUFFICES ASSUME NEW i \in DOMAIN check_v, check_v[i].type = "MONITOR", check_v[i].extra_check
               PROVE  Len(check_v[i].extra_header) = 1
    BY Zenon DEF OneEntry
  <2>1. check_v[i].extra_header = <<>> => ~check_v[i].extra_check
    BY <1>3, Zenon DEF Sound
  <2> QED BY <1>3, <2>1, Zenon DEF Single
<1>8. MergeInv'
  BY <1>1, <1>7, Zenon DEF MergeInv
<1>9. PlaceInv'
  BY <1>1, PlaceFrame, Zenon DEF IInv
<1> QED
  BY <1>4, <1>5, <1>6, <1>8, <1>9, Zenon DEF IInv

\* Whether the policy's checks can be merged is a matter of the parsed checks.
LEMMA MergeableFrame ==
  ASSUME parsed' = parsed
  PROVE  /\ MonitorsApart(parsed)' <=> MonitorsApart(parsed)
         /\ MonitorsPlain(parsed)' <=> MonitorsPlain(parsed)
         /\ Mergeable' <=> Mergeable
<1>1. MonitorsApart(parsed)' <=> MonitorsApart(parsed)
  BY DEF MonitorsApart
<1>2. MonitorsPlain(parsed)' <=> MonitorsPlain(parsed)
  BY DEF MonitorsPlain, OfMonitor
<1> QED
  BY <1>1, <1>2, Zenon DEF Mergeable

\* A header's checks are merged.
LEMMA MergeHeadersKeeps ==
  ASSUME IInv, merge_same_headers
  PROVE  IInv'
<1>1. PICK h \in rest : check_v' = merge_checks_per_header(check_v, h)
  BY Zenon DEF merge_same_headers
<1>2. /\ phase = "merge headers" /\ phase' = "merge headers" /\ todo' = todo
      /\ UNCHANGED front_vars /\ parsed' = parsed /\ UNCHANGED back_vars
  BY Zenon DEF merge_same_headers
<1>3. /\ check_v \in Seq(Check) /\ \A i \in DOMAIN check_v : Sound(check_v[i]) /\ Single(check_v[i])
      /\ parsed \in Seq(Check) /\ \A i \in DOMAIN parsed : Sound(parsed[i]) /\ Single(parsed[i])
  BY <1>2, Zenon DEF IInv, ChecksInv
<1>4. /\ check_v' \in Seq(Check) /\ \A i \in DOMAIN check_v' : Sound(check_v'[i]) /\ Single(check_v'[i])
      /\ MonitorsApart(check_v) => MonitorsApart(check_v')
      /\ MonitorsPlain(check_v) => MonitorsPlain(check_v')
      /\ OneEntry(check_v) => OneEntry(check_v')
      /\ MonitorsApart(check_v) => \A ctx \in Context : Matched(check_v', ctx) = Matched(check_v, ctx)
  <2> DEFINE r == merge_checks_per_header(check_v, h)
  <2>1. /\ r \in Seq(Check) /\ \A i \in DOMAIN r : Sound(r[i]) /\ Single(r[i])
        /\ MonitorsApart(check_v) => MonitorsApart(r)
        /\ MonitorsPlain(check_v) => MonitorsPlain(r)
        /\ OneEntry(check_v) => OneEntry(r)
        /\ MonitorsApart(check_v) => \A ctx \in Context : Matched(r, ctx) = Matched(check_v, ctx)
    BY <1>3, HeaderStep, Zenon
  <2>2. check_v' = r
    BY <1>1
  <2> HIDE DEF r
  <2> QED BY <2>1, <2>2, Zenon
<1>5. ParseInv'
  <2>1. todo' \in Nat \ {0}
    BY <1>2, Zenon DEF IInv, ParseInv
  <2> QED BY <1>2, <2>1, ParseFrame, Zenon DEF IInv
<1>6. ProcessInv'
  BY <1>2, ProcessFrame, Zenon DEF IInv, Optimising
<1>7. ChecksInv'
  BY <1>2, <1>3, <1>4, Zenon DEF ChecksInv
<1>8. MergeInv'
  <2>1. phase \in Optimising /\ phase' \in Optimising
    BY <1>2, Zenon DEF Optimising
  <2>2. /\ MonitorsApart(parsed)' <=> MonitorsApart(parsed)
        /\ MonitorsPlain(parsed)' <=> MonitorsPlain(parsed)
        /\ Mergeable' <=> Mergeable
    BY <1>2, MergeableFrame, Zenon
  <2>3. Mergeable => MonitorsApart(parsed)
    BY Zenon DEF Mergeable
  <2>4. /\ MonitorsApart(parsed) => MonitorsApart(check_v)
        /\ MonitorsPlain(parsed) => MonitorsPlain(check_v)
        /\ MonitorsPlain(parsed) => OneEntry(check_v)
        /\ Mergeable => \A ctx \in Context : Matched(check_v, ctx) = Matched(parsed, ctx)
    BY <1>2, <2>1, Zenon DEF IInv, MergeInv
  <2>5. phase' = "merge headers" /\ MonitorsApart(parsed)' => MonitorsApart(check_v)'
    BY <1>4, <2>2, <2>4, Zenon
  <2>6. phase' \in {"merge headers", "merge monitors"} /\ MonitorsPlain(parsed)' => MonitorsPlain(check_v)'
    BY <1>4, <2>2, <2>4, Zenon
  <2>7. phase' \in Optimising /\ MonitorsPlain(parsed)' => OneEntry(check_v)'
    BY <1>4, <2>2, <2>4, Zenon
  <2>8. Mergeable' => \A ctx \in Context : Matched(check_v', ctx) = Matched(parsed', ctx)
    BY <1>2, <1>4, <2>2, <2>3, <2>4, Zenon
  <2> QED BY <2>5, <2>6, <2>7, <2>8, Zenon DEF MergeInv
<1>9. PlaceInv'
  BY <1>2, PlaceFrame, Zenon DEF IInv
<1> QED
  BY <1>5, <1>6, <1>7, <1>8, <1>9, Zenon DEF IInv

\* The checks merged into others are removed.
LEMMA HeadersMergedKeeps ==
  ASSUME IInv, HeadersMerged
  PROVE  IInv'
<1>1. /\ phase = "merge headers" /\ phase' = "merge monitors" /\ todo' = todo
      /\ UNCHANGED front_vars /\ parsed' = parsed /\ UNCHANGED back_vars
      /\ check_v' = remove_invalid_checks(check_v)
  BY Zenon DEF HeadersMerged
<1>2. /\ check_v \in Seq(Check) /\ \A i \in DOMAIN check_v : Sound(check_v[i])
      /\ parsed \in Seq(Check) /\ \A i \in DOMAIN parsed : Sound(parsed[i]) /\ Single(parsed[i])
  BY <1>1, Zenon DEF IInv, ChecksInv
<1>3. /\ check_v' \in Seq(Check) /\ \A i \in DOMAIN check_v' : Sound(check_v'[i]) /\ check_v'[i].type # "INVALID"
      /\ MonitorsPlain(check_v) => MonitorsPlain(check_v')
      /\ OneEntry(check_v) => OneEntry(check_v')
      /\ \A ctx \in Context : Matched(check_v', ctx) = Matched(check_v, ctx)
  <2> DEFINE r == remove_invalid_checks(check_v)
  <2>1. /\ r \in Seq(Check) /\ \A i \in DOMAIN r : Sound(r[i]) /\ r[i].type # "INVALID"
        /\ MonitorsPlain(check_v) => MonitorsPlain(r)
        /\ OneEntry(check_v) => OneEntry(r)
        /\ \A ctx \in Context : Matched(r, ctx) = Matched(check_v, ctx)
    BY <1>2, RemoveStep, Zenon
  <2>2. check_v' = r
    BY <1>1, Zenon
  <2> HIDE DEF r
  <2> QED BY <2>1, <2>2, Zenon
<1>4. ParseInv'
  <2>1. todo' \in Nat \ {0}
    BY <1>1, Zenon DEF IInv, ParseInv
  <2> QED BY <1>1, <2>1, ParseFrame, Zenon DEF IInv
<1>5. ProcessInv'
  BY <1>1, ProcessFrame, Zenon DEF IInv, Optimising
<1>6. ChecksInv'
  BY <1>1, <1>2, <1>3, Zenon DEF ChecksInv
<1>7. MergeInv'
  <2>1. phase \in Optimising /\ phase' \in Optimising /\ phase' # "merge headers"
    BY <1>1, Zenon DEF Optimising
  <2>2. /\ MonitorsPlain(parsed)' <=> MonitorsPlain(parsed)
        /\ Mergeable' <=> Mergeable
    BY <1>1, MergeableFrame, Zenon
  <2>4. /\ MonitorsPlain(parsed) => MonitorsPlain(check_v)
        /\ MonitorsPlain(parsed) => OneEntry(check_v)
        /\ Mergeable => \A ctx \in Context : Matched(check_v, ctx) = Matched(parsed, ctx)
    BY <1>1, <2>1, Zenon DEF IInv, MergeInv
  <2>6. phase' \in {"merge headers", "merge monitors"} /\ MonitorsPlain(parsed)' => MonitorsPlain(check_v)'
    BY <1>3, <2>2, <2>4, Zenon
  <2>7. phase' \in Optimising /\ MonitorsPlain(parsed)' => OneEntry(check_v)'
    BY <1>3, <2>2, <2>4, Zenon
  <2>8. Mergeable' => \A ctx \in Context : Matched(check_v', ctx) = Matched(parsed', ctx)
    BY <1>1, <1>3, <2>2, <2>4, Zenon
  <2> QED BY <2>1, <2>6, <2>7, <2>8, Zenon DEF MergeInv
<1>8. PlaceInv'
  BY <1>1, PlaceFrame, Zenon DEF IInv
<1> QED
  BY <1>4, <1>5, <1>6, <1>7, <1>8, Zenon DEF IInv

\* A monitor's checks are joined.
LEMMA MergeMonitorsKeeps ==
  ASSUME IInv, merge_monitors
  PROVE  IInv'
<1>1. PICK m \in rest : check_v' = MergeMonitor(check_v, m)
  BY Zenon DEF merge_monitors
<1>2. /\ phase = "merge monitors" /\ phase' = "merge monitors" /\ todo' = todo
      /\ UNCHANGED front_vars /\ parsed' = parsed /\ UNCHANGED back_vars
  BY Zenon DEF merge_monitors
<1>3. /\ check_v \in Seq(Check) /\ \A i \in DOMAIN check_v : Sound(check_v[i])
      /\ parsed \in Seq(Check) /\ \A i \in DOMAIN parsed : Sound(parsed[i]) /\ Single(parsed[i])
  BY <1>2, Zenon DEF IInv, ChecksInv
<1>4. /\ check_v' \in Seq(Check) /\ \A i \in DOMAIN check_v' : Sound(check_v'[i])
      /\ MonitorsPlain(check_v) => MonitorsPlain(check_v')
      /\ MonitorsPlain(check_v) /\ OneEntry(check_v) => OneEntry(check_v')
      /\ MonitorsPlain(check_v) => \A ctx \in Context : Matched(check_v', ctx) = Matched(check_v, ctx)
  <2> DEFINE r == MergeMonitor(check_v, m)
  <2>1. /\ r \in Seq(Check) /\ \A i \in DOMAIN r : Sound(r[i])
        /\ MonitorsPlain(check_v) => MonitorsPlain(r)
        /\ MonitorsPlain(check_v) /\ OneEntry(check_v) => OneEntry(r)
        /\ MonitorsPlain(check_v) => \A ctx \in Context : Matched(r, ctx) = Matched(check_v, ctx)
    BY <1>3, MonitorStep, Zenon
  <2>2. check_v' = r
    BY <1>1
  <2> HIDE DEF r
  <2> QED BY <2>1, <2>2, Zenon
<1>5. ParseInv'
  <2>1. todo' \in Nat \ {0}
    BY <1>2, Zenon DEF IInv, ParseInv
  <2> QED BY <1>2, <2>1, ParseFrame, Zenon DEF IInv
<1>6. ProcessInv'
  BY <1>2, ProcessFrame, Zenon DEF IInv, Optimising
<1>7. ChecksInv'
  BY <1>2, <1>3, <1>4, Zenon DEF ChecksInv
<1>8. MergeInv'
  <2>1. phase \in Optimising /\ phase' \in Optimising /\ phase' # "merge headers"
    BY <1>2, Zenon DEF Optimising
  <2>2. /\ MonitorsPlain(parsed)' <=> MonitorsPlain(parsed)
        /\ Mergeable' <=> Mergeable
    BY <1>2, MergeableFrame, Zenon
  <2>3. Mergeable => MonitorsPlain(parsed)
    BY Zenon DEF Mergeable
  <2>4. /\ MonitorsPlain(parsed) => MonitorsPlain(check_v)
        /\ MonitorsPlain(parsed) => OneEntry(check_v)
        /\ Mergeable => \A ctx \in Context : Matched(check_v, ctx) = Matched(parsed, ctx)
    BY <1>2, <2>1, Zenon DEF IInv, MergeInv
  <2>6. phase' \in {"merge headers", "merge monitors"} /\ MonitorsPlain(parsed)' => MonitorsPlain(check_v)'
    BY <1>4, <2>2, <2>4, Zenon
  <2>7. phase' \in Optimising /\ MonitorsPlain(parsed)' => OneEntry(check_v)'
    BY <1>4, <2>2, <2>4, Zenon
  <2>8. Mergeable' => \A ctx \in Context : Matched(check_v', ctx) = Matched(parsed', ctx)
    BY <1>2, <1>4, <2>2, <2>3, <2>4, Zenon
  <2> QED BY <2>1, <2>6, <2>7, <2>8, Zenon DEF MergeInv
<1>9. PlaceInv'
  BY <1>2, PlaceFrame, Zenon DEF IInv
<1> QED
  BY <1>5, <1>6, <1>7, <1>8, <1>9, Zenon DEF IInv

\* The checks joined into others are removed.
LEMMA MonitorsMergedKeeps ==
  ASSUME IInv, MonitorsMerged
  PROVE  IInv'
<1>1. /\ phase = "merge monitors" /\ phase' = "sort" /\ todo' = todo
      /\ UNCHANGED front_vars /\ parsed' = parsed /\ UNCHANGED back_vars
      /\ check_v' = remove_invalid_checks(check_v)
  BY Zenon DEF MonitorsMerged
<1>2. /\ check_v \in Seq(Check) /\ \A i \in DOMAIN check_v : Sound(check_v[i])
      /\ parsed \in Seq(Check) /\ \A i \in DOMAIN parsed : Sound(parsed[i]) /\ Single(parsed[i])
  BY <1>1, Zenon DEF IInv, ChecksInv
<1>3. /\ check_v' \in Seq(Check) /\ \A i \in DOMAIN check_v' : Sound(check_v'[i]) /\ check_v'[i].type # "INVALID"
      /\ OneEntry(check_v) => OneEntry(check_v')
      /\ \A ctx \in Context : Matched(check_v', ctx) = Matched(check_v, ctx)
  <2> DEFINE r == remove_invalid_checks(check_v)
  <2>1. /\ r \in Seq(Check) /\ \A i \in DOMAIN r : Sound(r[i]) /\ r[i].type # "INVALID"
        /\ OneEntry(check_v) => OneEntry(r)
        /\ \A ctx \in Context : Matched(r, ctx) = Matched(check_v, ctx)
    BY <1>2, RemoveStep, Zenon
  <2>2. check_v' = r
    BY <1>1, Zenon
  <2> HIDE DEF r
  <2> QED BY <2>1, <2>2, Zenon
<1>4. ParseInv'
  <2>1. todo' \in Nat \ {0}
    BY <1>1, Zenon DEF IInv, ParseInv
  <2> QED BY <1>1, <2>1, ParseFrame, Zenon DEF IInv
<1>5. ProcessInv'
  BY <1>1, ProcessFrame, Zenon DEF IInv, Optimising
<1>6. ChecksInv'
  BY <1>1, <1>2, <1>3, Zenon DEF ChecksInv
<1>7. MergeInv'
  <2>1. phase \in Optimising /\ phase' \in Optimising /\ phase' \notin {"merge headers", "merge monitors"}
    BY <1>1, Zenon DEF Optimising
  <2>2. /\ MonitorsPlain(parsed)' <=> MonitorsPlain(parsed)
        /\ Mergeable' <=> Mergeable
    BY <1>1, MergeableFrame, Zenon
  <2>4. /\ MonitorsPlain(parsed) => OneEntry(check_v)
        /\ Mergeable => \A ctx \in Context : Matched(check_v, ctx) = Matched(parsed, ctx)
    BY <1>1, <2>1, Zenon DEF IInv, MergeInv
  <2>5. phase' # "merge headers"
    BY <1>1, Zenon
  <2>7. phase' \in Optimising /\ MonitorsPlain(parsed)' => OneEntry(check_v)'
    BY <1>3, <2>2, <2>4, Zenon
  <2>8. Mergeable' => \A ctx \in Context : Matched(check_v', ctx) = Matched(parsed', ctx)
    BY <1>1, <1>3, <2>2, <2>4, Zenon
  <2> QED BY <2>1, <2>5, <2>7, <2>8, Zenon DEF MergeInv
<1>8. PlaceInv'
  BY <1>1, PlaceFrame, Zenon DEF IInv
<1> QED
  BY <1>4, <1>5, <1>6, <1>7, <1>8, Zenon DEF IInv

\* The checks are sorted.
LEMMA SortChecksKeeps ==
  ASSUME IInv, SortChecks
  PROVE  IInv'
<1>1. PICK p \in Orders(Len(check_v)) :
          /\ \A i, j \in DOMAIN p : i < j => check_v[p[i]].priority <= check_v[p[j]].priority
          /\ check_v' = [i \in DOMAIN p |-> check_v[p[i]]]
  BY Zenon DEF SortChecks
<1>2. /\ phase = "sort" /\ phase' = "allocate" /\ todo' = todo
      /\ UNCHANGED front_vars /\ parsed' = parsed /\ UNCHANGED back_vars
  BY DEF SortChecks
<1>3. /\ check_v \in Seq(Check) /\ \A i \in DOMAIN check_v : Sound(check_v[i]) /\ check_v[i].type # "INVALID"
      /\ parsed \in Seq(Check) /\ \A i \in DOMAIN parsed : Sound(parsed[i]) /\ Single(parsed[i])
  BY <1>2 DEF IInv, ChecksInv
<1>4. /\ check_v' \in Seq(Check) /\ \A i \in DOMAIN check_v' : Sound(check_v'[i]) /\ check_v'[i].type # "INVALID"
      /\ OneEntry(check_v) => OneEntry(check_v')
      /\ \A ctx \in Context : Matched(check_v', ctx) = Matched(check_v, ctx)
  <2> DEFINE r == [i \in DOMAIN p |-> check_v[p[i]]]
  <2>1. /\ r \in Seq(Check) /\ \A i \in DOMAIN r : Sound(r[i]) /\ r[i].type # "INVALID"
        /\ OneEntry(check_v) => OneEntry(r)
        /\ \A ctx \in Context : Matched(r, ctx) = Matched(check_v, ctx)
    BY <1>1, <1>3, SortStep, Zenon
  <2>2. check_v' = r
    BY <1>1
  <2> HIDE DEF r
  <2> QED BY <2>1, <2>2, Zenon
<1>5. ParseInv'
  <2>1. todo' \in Nat \ {0}
    BY <1>2 DEF IInv, ParseInv
  <2> QED BY <1>2, <2>1, ParseFrame, SMTT(30) DEF IInv
<1>6. ProcessInv'
  BY <1>2, ProcessFrame, SMTT(30) DEF IInv, Optimising
<1>7. ChecksInv'
  BY <1>2, <1>3, <1>4 DEF ChecksInv
<1>8. MergeInv'
  <2>1. phase \in Optimising /\ phase' \in Optimising /\ phase' \notin {"merge headers", "merge monitors"}
    BY <1>2 DEF Optimising
  <2>2. /\ MonitorsPlain(parsed)' <=> MonitorsPlain(parsed)
        /\ Mergeable' <=> Mergeable
    BY <1>2, MergeableFrame
  <2>4. /\ MonitorsPlain(parsed) => OneEntry(check_v)
        /\ Mergeable => \A ctx \in Context : Matched(check_v, ctx) = Matched(parsed, ctx)
    BY <1>2, <2>1, Zenon DEF IInv, MergeInv
  <2>5. phase' # "merge headers"
    BY <1>2
  <2>7. phase' \in Optimising /\ MonitorsPlain(parsed)' => OneEntry(check_v)'
    BY <1>4, <2>2, <2>4, Zenon
  <2>8. Mergeable' => \A ctx \in Context : Matched(check_v', ctx) = Matched(parsed', ctx)
    BY <1>2, <1>4, <2>2, <2>4, Zenon
  <2> QED BY <2>1, <2>5, <2>7, <2>8, Zenon DEF MergeInv
<1>9. PlaceInv'
  <2>1. \A i, j \in DOMAIN check_v' : i < j => check_v'[i].priority <= check_v'[j].priority
    <3>1. DOMAIN check_v' = DOMAIN p /\ \A i \in DOMAIN p : check_v'[i] = check_v[p[i]]
      BY <1>1, Zenon
    <3> QED BY <1>1, <3>1, Zenon
  <2>2. placed = <<>> /\ placed' = placed /\ p4' = p4 /\ p4.tables = <<>>
    BY <1>2 DEF IInv, PlaceInv, back_vars, alloc_vars
  <2>3. Len(placed') <= Len(check_v')
    <3>1. Len(placed') = 0 /\ Len(check_v') \in Nat
      BY <1>4, <2>2
    <3> QED BY <3>1, SMTT(30)
  <2>4. phase' = "allocate"
    BY <1>2
  <2> HIDE DEF IInv
  <2> QED BY <2>1, <2>2, <2>3, <2>4 DEF PlaceInv
<1> QED
  BY <1>5, <1>6, <1>7, <1>8, <1>9, Zenon DEF IInv

\* A check is placed.
LEMMA AllocateKeeps ==
  ASSUME IInv, AllocTypeOK, Allocate
  PROVE  IInv'
<1>1. /\ phase = "allocate" /\ phase' = "allocate" /\ todo' = todo /\ Len(placed) < Len(check_v)
      /\ UNCHANGED front_vars /\ check_v' = check_v /\ parsed' = parsed /\ p4' = p4
  BY DEF Allocate
<1>2. placed \in Seq(Placement) /\ check_v \in Seq(Check)
  BY Zenon DEF AllocTypeOK, IInv, ChecksInv
<1>3. Len(placed') <= Len(check_v)
  <2>1. PICK pl : placed' = Append(placed, pl)
    BY Zenon DEF Allocate, Place
  <2>2. Len(placed') = Len(placed) + 1 /\ Len(placed) \in Nat /\ Len(check_v) \in Nat
    BY <1>2, <2>1
  <2> QED BY <1>1, <2>2
<1>4. ParseInv'
  <2>1. todo' \in Nat \ {0}
    BY <1>1 DEF IInv, ParseInv
  <2> QED BY <1>1, <2>1, ParseFrame, SMTT(30) DEF IInv
<1>5. ProcessInv'
  BY <1>1, ProcessFrame DEF IInv, Optimising
<1>6. ChecksInv' /\ MergeInv'
  BY <1>1, ChecksFrame, MergeFrame, SMTT(30) DEF IInv
<1>7. PlaceInv'
  <2>1. \A i, j \in DOMAIN check_v : i < j => check_v[i].priority <= check_v[j].priority
    BY <1>1, Zenon DEF IInv, PlaceInv
  <2>2. p4.tables = <<>>
    BY <1>1 DEF IInv, PlaceInv
  <2> HIDE DEF IInv
  <2> QED BY <1>1, <1>3, <2>1, <2>2 DEF PlaceInv
<1> QED
  BY <1>4, <1>5, <1>6, <1>7, Zenon DEF IInv

\* The allocation needs too many passes.
LEMMA OutOfPassesKeeps ==
  ASSUME IInv, OutOfPasses
  PROVE  IInv'
<1>1. /\ phase = "allocate" /\ phase' = "aborted" /\ todo' = todo
      /\ UNCHANGED front_vars /\ check_v' = check_v /\ parsed' = parsed /\ p4' = p4
  BY DEF OutOfPasses, back_vars
<1>2. ParseInv'
  <2>1. todo' \in Nat \ {0}
    BY <1>1 DEF IInv, ParseInv
  <2> QED BY <1>1, <2>1, ParseFrame, SMTT(30) DEF IInv
<1>3. ProcessInv'
  BY <1>1, ProcessFrame DEF IInv, Optimising
<1>4. ChecksInv' /\ MergeInv'
  BY <1>1, ChecksFrame, MergeFrame, SMTT(30) DEF IInv
<1>5. PlaceInv'
  <2>1. p4.tables = <<>>
    BY <1>1, SMTT(30) DEF IInv, PlaceInv
  <2> HIDE DEF IInv
  <2> QED BY <1>1, <2>1, SMTT(30) DEF PlaceInv
<1> QED
  BY <1>2, <1>3, <1>4, <1>5, Zenon DEF IInv

\* The program is generated.
LEMMA GenerateKeeps ==
  ASSUME IInv, AllocTypeOK, Generate
  PROVE  IInv'
<1> DEFINE tables == [i \in DOMAIN check_v |-> Table(check_v[i], placed[i].rec)]
           fields == {check_v[i].header : i \in DOMAIN check_v}
<1>1. /\ phase = "allocate" /\ phase' = "done" /\ todo' = todo /\ Len(placed) >= Len(check_v)
      /\ UNCHANGED front_vars /\ check_v' = check_v /\ parsed' = parsed
      /\ placed' = placed /\ curr_rec' = curr_rec
      /\ p4' = [RECIR_TIMES |-> curr_rec, fields |-> fields, tables |-> tables]
  BY SMTT(30) DEF Generate, alloc_vars
<1>2. placed \in Seq(Placement) /\ check_v \in Seq(Check)
  BY Zenon DEF AllocTypeOK, IInv, ChecksInv
<1>3. Len(placed) = Len(check_v)
  <2>1. Len(placed) <= Len(check_v)
    BY <1>1, Zenon DEF IInv, PlaceInv
  <2>2. Len(placed) \in Nat /\ Len(check_v) \in Nat
    BY <1>2, SMTT(30)
  <2> QED BY <1>1, <2>1, <2>2
<1>4. ParseInv'
  <2>1. todo' \in Nat \ {0}
    BY <1>1, SMTT(30) DEF IInv, ParseInv
  <2> QED BY <1>1, <2>1, ParseFrame, SMTT(30) DEF IInv
<1>5. ProcessInv'
  BY <1>1, ProcessFrame, SMTT(30) DEF IInv, Optimising
<1>6. ChecksInv' /\ MergeInv'
  BY <1>1, ChecksFrame, MergeFrame DEF IInv
<1>7. PlaceInv'
  <2>1. \A i, j \in DOMAIN check_v' : i < j => check_v'[i].priority <= check_v'[j].priority
    BY <1>1, Zenon DEF IInv, PlaceInv
  <2>2. p4'.tables = [i \in DOMAIN check_v' |-> Table(check_v'[i], placed'[i].rec)]
    <3>1. p4'.tables = tables
      <4> HIDE DEF tables, fields
      <4> QED BY <1>1
    <3> QED BY <1>1, <3>1, Zenon
  <2>3. p4'.RECIR_TIMES = curr_rec'
    <3> HIDE DEF tables, fields
    <3> QED BY <1>1, SMTT(30)
  <2>4. phase' = "done" /\ phase' \in {"allocate", "done", "aborted"} /\ phase' # "allocate"
    BY <1>1
  <2>5. Len(placed') = Len(check_v')
    BY <1>1, <1>3, Zenon
  <2> HIDE DEF IInv
  <2> QED BY <2>1, <2>2, <2>3, <2>4, <2>5, Zenon DEF PlaceInv
<1> QED
  BY <1>4, <1>5, <1>6, <1>7, Zenon DEF IInv

-----------------------------------------------------------------------------
\* Every step of the compiler preserves the invariant.
LEMMA CompilerStep == AllocIInv /\ IInv /\ [Next]_vars => IInv'
<1> SUFFICES ASSUME AllocIInv, IInv, [Next]_vars PROVE IInv'
  OBVIOUS
<1>1. AllocTypeOK
  BY DEF AllocIInv
<1>2. CASE UNCHANGED vars
  BY <1>2, StutterStep
<1>3. CASE ParseStatement
  BY <1>3, ParseStatementKeeps
<1>4. CASE ParseDone
  BY <1>4, ParseDoneKeeps, SMTT(30)
<1>5. CASE ProcessMatchexpr
  BY <1>5, ProcessMatchexprKeeps
<1>6. CASE RejectMatchexpr
  BY <1>6, RejectMatchexprKeeps
<1>7. CASE ProcessDone
  BY <1>7, ProcessDoneKeeps
<1>8. CASE merge_same_headers
  BY <1>8, MergeHeadersKeeps
<1>9. CASE HeadersMerged
  BY <1>9, HeadersMergedKeeps
<1>10. CASE merge_monitors
  BY <1>10, MergeMonitorsKeeps
<1>11. CASE MonitorsMerged
  BY <1>11, MonitorsMergedKeeps
<1>12. CASE SortChecks
  BY <1>12, SortChecksKeeps
<1>13. CASE Allocate
  BY <1>1, <1>13, AllocateKeeps
<1>14. CASE OutOfPasses
  BY <1>14, OutOfPassesKeeps
<1>15. CASE Generate
  BY <1>1, <1>15, GenerateKeeps
<1> QED
  BY <1>2, <1>3, <1>4, <1>5, <1>6, <1>7, <1>8, <1>9, <1>10, <1>11, <1>12, <1>13, <1>14, <1>15, Zenon
     DEF Next

\* For every policy the compiler keeps its invariant: the checks stay sound
\* from process_matchexpr to generate_p4, and what remove_invalid_checks,
\* merge_same_headers, merge_monitors and std::sort leave matches every
\* context with the same priorities as what was parsed.
THEOREM CompilerInvariant == Spec => [](AllocIInv /\ IInv)
<1>1. Init => IInv
  BY Initially
<1>2. AllocIInv /\ IInv /\ [Next]_vars => IInv'
  BY CompilerStep
<1> QED
  BY <1>1, <1>2, CompilerAllocates, AllocInvariant, PTL DEF Spec

\* For every policy whose monitors merge_same_headers and merge_monitors can
\* merge, any number of checks and any context, the generated tables give the
\* packet the action the checks gave it before compile_tofino optimised them.
THEOREM MeaningAlwaysPreserved == Spec => []MeaningPreserved
<1>1. AllocIInv /\ IInv => MeaningPreserved
  BY MeaningFollows DEF IInv
<1> QED
  BY <1>1, CompilerInvariant, PTL

\* For every policy of statements the tables express exactly, the generated
\* program gives every context the strictest action a statement asks for.
THEOREM ExactAlwaysDecide == Spec => []ExactPoliciesDecide
<1>1. AllocIInv /\ IInv => ExactPoliciesDecide
  BY ExactFollows DEF IInv
<1> QED
  BY <1>1, CompilerInvariant, PTL

\* For every policy, generate_cmd writes no more entries into a table than the
\* size generate_p4 declared for it, monitors joined into one apart.
THEOREM EntriesAlwaysFit == Spec => []EntriesFit
<1>1. IInv => EntriesFit
  BY EntriesFollow DEF IInv
<1> QED
  BY <1>1, CompilerInvariant, PTL
=============================================================================
