---------------------------- MODULE ContextReply ----------------------------
(***************************************************************************)
(* The client's reply thread (kernel-module/mon_poise.c, mon_sk.c) beside  *)
(* the collector: it encodes the three context records into a message and  *)
(* sends it to the server over a new socket, every ms_period.  Collector   *)
(* and reply thread share the records without a lock.                      *)
(*                                                                         *)
(* The data of a helper of kind k, and its length, are represented by k.   *)
(* sock is the static stream_sock: NULL, a live socket, or the address of  *)
(* a released one.                                                         *)
(***************************************************************************)
EXTENDS ContextCollector

CONSTANTS CreateMayFail, ConnectMayFail

VARIABLES
    cxt,                \* cxt_location_info, cxt_display_info, cxt_package_info
    read_context_auto,
    rpc, rpos,          \* thread_reply_context: control point, record it is at
    entry,              \* the entry being encoded
    sock

reply_vars == <<read_context_auto, rpc, rpos, entry, sock>>
all_vars   == <<vars, cxt, reply_vars>>

ReplyOrder == <<"LOCATION", "PACKAGE", "DISPLAYSTATE">>

Empty   == [len |-> None, buf |-> None]
NoEntry == [len |-> None, size |-> None, buf |-> None]

-----------------------------------------------------------------------------
\* poise_write's second half: the record of the kind the switch found.
FillRecord(h) ==
    \/ WriteClear(h) /\ cxt' = [cxt EXCEPT ![helper[h].took] = Empty]
    \/ WriteLen(h)   /\ cxt' = [cxt EXCEPT ![helper[h].took].len = helper[h].kind]
    \/ WriteBuf(h)   /\ cxt' = [cxt EXCEPT ![helper[h].took].buf = helper[h].kind]

OtherStep(h) == poise_open(h) \/ WriteLook(h) \/ WriteTake(h) \/ poise_release(h)

CollectorSide ==
    /\ \/ Collect /\ UNCHANGED cxt
       \/ \E h \in Helper : OtherStep(h) /\ UNCHANGED cxt
       \/ \E h \in Helper : FillRecord(h)
    /\ UNCHANGED reply_vars

\* poise_exit_module stops both threads.
poise_exit_module ==
    /\ poise_rs_exit
    /\ read_context_auto' = FALSE
    /\ UNCHANGED <<cxt, rpc, rpos, entry, sock>>

-----------------------------------------------------------------------------
(***************************************************************************)
(* encode_cxt: an empty record is left out; else its length is read for    *)
(* the length field and again for the copy.                                *)
(***************************************************************************)
NextRecord ==
    IF rpos < Len(ReplyOrder) THEN rpos' = rpos + 1 /\ rpc' = "check"
                              ELSE rpos' = 1 /\ rpc' = "create"

Record == cxt[ReplyOrder[rpos]]

\* Mutant: an empty record is waited for.
EncodeCheckWaits ==
    /\ rpc = "check" /\ Record.len # None
    /\ entry' = NoEntry /\ rpc' = "length" /\ rpos' = rpos
    /\ UNCHANGED <<vars, cxt, read_context_auto, sock>>

EncodeCheck ==
    /\ rpc = "check"
    /\ entry' = NoEntry
    /\ IF Record.len = None THEN NextRecord ELSE rpc' = "length" /\ rpos' = rpos
    /\ UNCHANGED <<vars, cxt, read_context_auto, sock>>

EncodeLen ==
    /\ rpc = "length"
    /\ entry' = [NoEntry EXCEPT !.len = Record.len]
    /\ rpc' = "copy"
    /\ UNCHANGED <<vars, cxt, read_context_auto, rpos, sock>>

EncodeBuf ==
    /\ rpc = "copy"
    /\ entry' = [entry EXCEPT !.size = Record.len, !.buf = Record.buf]
    /\ NextRecord
    /\ UNCHANGED <<vars, cxt, read_context_auto, sock>>

-----------------------------------------------------------------------------
(***************************************************************************)
(* poise_reply_server.  A failed sock_create leaves stream_sock as it was. *)
(***************************************************************************)
\* The label err: a socket that is not NULL is released.
Err(s) ==
    /\ sock' = IF s = "null" THEN s ELSE "released"
    /\ rpc' = "sleep"

SockCreate ==
    /\ rpc = "create"
    /\ \/ sock' = "live" /\ rpc' = "connect"
       \/ CreateMayFail /\ Err(sock)
    /\ UNCHANGED <<vars, cxt, read_context_auto, rpos, entry>>

\* Mutant: a failed connection returns at once.
ConnectReturns ==
    /\ rpc = "connect"
    /\ \/ rpc' = "send"
       \/ ConnectMayFail /\ rpc' = "sleep"
    /\ UNCHANGED <<vars, cxt, read_context_auto, rpos, entry, sock>>

Connect ==
    /\ rpc = "connect"
    /\ \/ rpc' = "send" /\ sock' = sock
       \/ ConnectMayFail /\ Err(sock)
    /\ UNCHANGED <<vars, cxt, read_context_auto, rpos, entry>>

\* stream_msg_send gives up on any error; whatever was sent, the answer is
\* awaited for five seconds and read if there is one.
SendReceive ==
    /\ rpc = "send"
    /\ Err(sock)
    /\ UNCHANGED <<vars, cxt, read_context_auto, rpos, entry>>

EndPeriod ==
    /\ rpc = "sleep"
    /\ rpc' = IF read_context_auto THEN "check" ELSE "stopped"
    /\ UNCHANGED <<vars, cxt, read_context_auto, rpos, entry, sock>>

Reply == EncodeCheck \/ EncodeLen \/ EncodeBuf \/ SockCreate \/ Connect \/ SendReceive \/ EndPeriod

-----------------------------------------------------------------------------
ReplyInit ==
    /\ Init
    /\ cxt = [k \in Kind |-> Empty]
    /\ read_context_auto = TRUE /\ rpc = "check" /\ rpos = 1
    /\ entry = NoEntry /\ sock = "null"

ReplyNext == CollectorSide \/ poise_exit_module \/ Reply

ReplySpec == ReplyInit /\ [][ReplyNext]_all_vars

\* The reply thread runs whenever it can; every call it makes returns.
FairReplySpec == ReplySpec /\ WF_all_vars(Reply)

-----------------------------------------------------------------------------
\* Whichever call of poise_reply_server fails, the thread never sleeps, encodes
\* or ends while a socket is open.
NoSocketLeft == sock = "live" => rpc \in {"connect", "send"}

\* Heartbeats go on as long as the module is loaded.
RepliesAgain == []<>(~read_context_auto \/ rpc = "create")

-----------------------------------------------------------------------------
\* "Encode the context information into the packet buffer": the length field
\* of an entry is the length of the data after it, and the data is whole.
EntryWhole == entry.size # None => entry.len = entry.size /\ entry.buf = entry.size

\* "Create a kernel stream socket": the socket a call releases is the one it
\* created.
ReleasedLive ==
    [][rpc' = "sleep" /\ rpc # "sleep" => sock # "released"]_all_vars
=============================================================================
