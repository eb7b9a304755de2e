------------------------- MODULE MCContextCollector -------------------------
(***************************************************************************)
(* Two helper processes at a time, so that the helper of an earlier        *)
(* request can still be around when the next one is started.               *)
(***************************************************************************)
EXTENDS ContextCollector

CONSTANTS h1, h2

TwoHelpers == {h1, h2}
=============================================================================
