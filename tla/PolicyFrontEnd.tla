-------------------------- MODULE PolicyFrontEnd --------------------------
(***************************************************************************)
(* What the compiler's front end promises: its scanner implements the      *)
(* token stream of poise.l, and its parser understands the statements of a *)
(* policy as PolicySource writes them.                                     *)
(***************************************************************************)
EXTENDS PolicyParser, PolicySource

Collected(field) == FlattenSeq([i \in DOMAIN program |-> program[i][field]])

\* What the front end gives the code generator is what the statements of the
\* file say, one by one: nothing of one statement is left in the globals for
\* the next, and no such file is refused.  (Not so the actions of an if without
\* an else: they stay in action_v.)
ProgramUnderstood ==
    program # <<>> /\ ~Running =>
        LET said == Collected("matches")
            got  == ast.matchexpr_v
        IN  \/ pc \in {"fatal", "exhausted"}
            \/ /\ pc = "compile"
               /\ ast.listexpr_v = Collected("lists")
               /\ ast.monitor_v = Collected("mons")
               /\ ast.header_v = Collected("headers")
               /\ Len(got) = Len(said)
               /\ \A i \in DOMAIN said :
                     /\ [got[i] EXCEPT !.acts = <<>>] = [said[i] EXCEPT !.acts = <<>>]
                     /\ IF Len(said[i].acts) # 2 THEN got[i].acts = <<>>
                        ELSE (\A j \in 1..(i - 1) : Len(said[j].acts) # 1) => got[i].acts = said[i].acts
=============================================================================
