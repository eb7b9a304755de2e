--------------------------- MODULE MCControlPlane ---------------------------
(***************************************************************************)
(* Small instances of ControlPlane: two or three connections, two indexes. *)
(* Connections are interchangeable, so they are a symmetry set where no    *)
(* liveness property is checked.                                           *)
(***************************************************************************)
EXTENDS ControlPlane, TLC

Symmetry == Permutations(Key)
=============================================================================
