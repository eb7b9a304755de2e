--------------------------- MODULE MCContextReply ---------------------------
(***************************************************************************)
(* Collector and reply thread with one helper process at a time, enough    *)
(* for a record to change while it is encoded.                             *)
(***************************************************************************)
EXTENDS ContextReply

CONSTANT h1

OneHelper == {h1}
=============================================================================
