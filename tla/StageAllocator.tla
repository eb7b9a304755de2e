--------------------------- MODULE StageAllocator ---------------------------
(***************************************************************************)
(* allocate_resources of the policy compiler: checks are placed one after  *)
(* the other into the stages of the current pass; a check that does not    *)
(* fit opens the next pass.  placed[i] holds the members start_stage,      *)
(* stage_num and rec of the i-th check.                                    *)
(***************************************************************************)
EXTENDS Integers, Sequences

CONSTANTS stages_per_rec, max_rec_times

VARIABLES curr_rec, curr_stage, placed

alloc_vars == <<curr_rec, curr_stage, placed>>

NUM_STAGE_EXACT   == 1
NUM_STAGE_RANGE   == 1
NUM_STAGE_MONITOR == 3

ASSUME StageAssumption == stages_per_rec \in Nat /\ stages_per_rec >= NUM_STAGE_MONITOR
ASSUME PassAssumption  == max_rec_times \in Nat

\* Mutant: a check that just fits moves on.
NextRoundEarly(need) == curr_stage + need >= stages_per_rec

NextRound(need) == curr_stage + need > stages_per_rec

StartStage(need) == IF NextRound(need) THEN 0 ELSE curr_stage

\* Mutant: the stage is reset but the pass is not advanced.
RecKept(need) == curr_rec

Rec(need) == IF NextRound(need) THEN curr_rec + 1 ELSE curr_rec

Place(need) ==
    /\ placed' = Append(placed,
           [start_stage |-> StartStage(need), stage_num |-> need, rec |-> Rec(need)])
    /\ curr_stage' = StartStage(need) + need
    /\ curr_rec' = Rec(need)

ResourcesEnough == curr_rec < max_rec_times

AllocInit == curr_rec = 0 /\ curr_stage = 0 /\ placed = <<>>

AllocNext == \E need \in {NUM_STAGE_EXACT, NUM_STAGE_RANGE, NUM_STAGE_MONITOR} : Place(need)

AllocSpec == AllocInit /\ [][AllocNext]_alloc_vars

-----------------------------------------------------------------------------
Placement == [start_stage : Nat, stage_num : Nat \ {0}, rec : Nat]

End(pl) == pl.start_stage + pl.stage_num

\* Every check lies within the stages of its pass, and a check placed later is
\* in a later pass or in later stages of the same one: no stage is given out
\* twice and the order of the checks is kept.
StagesDisjoint ==
    \A j \in DOMAIN placed :
        /\ End(placed[j]) <= stages_per_rec
        /\ \A i \in DOMAIN placed : i < j =>
              \/ placed[i].rec < placed[j].rec
              \/ placed[i].rec = placed[j].rec /\ End(placed[i]) <= placed[j].start_stage

\* The passes in use are 0 .. curr_rec, which becomes RECIR_TIMES: no pass is
\* without a check and no check is in a pass that is never made.
PassesContiguous ==
    placed # <<>> => {placed[i].rec : i \in DOMAIN placed} = 0 .. curr_rec
=============================================================================
