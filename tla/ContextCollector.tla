-------------------------- MODULE ContextCollector --------------------------
(***************************************************************************)
(* The client's context collection (kernel-module/mon_rs.c, mon_fs.c): a   *)
(* kernel thread asks for one kind of context after the other by setting   *)
(* syn_msg and starting a user-mode helper; the helper's output arrives    *)
(* through the character device, whose handlers file it under the kind in  *)
(* syn_msg and clear syn_msg, which lets the thread go on.                 *)
(*                                                                         *)
(* One step is one access to memory the threads share.                     *)
(***************************************************************************)
EXTENDS Integers, Sequences

CONSTANTS
    Helper,         \* slots for helper processes running at one time
    MaxWrites,      \* write() calls one helper makes at most
    HelperMayFail,  \* whether call_usermodehelper may fail
    None

ASSUME HelperAssumption == None \notin {"LOCATION", "DISPLAYSTATE", "PACKAGE"}
ASSUME WritesAssumption == MaxWrites \in Nat

VARIABLES
    isRun,
    syn_msg,
    cpc, pos,       \* thread_fn: its control point and the kind it is at
    helper          \* the helper processes and where they are in a handler

vars == <<isRun, syn_msg, cpc, pos, helper>>

Kind  == {"LOCATION", "DISPLAYSTATE", "PACKAGE"}

\* The order of the calls in thread_fn.
Order == <<"LOCATION", "DISPLAYSTATE", "PACKAGE">>

Idle  == [at |-> "idle", kind |-> None, took |-> None, writes |-> 0]

IsOpen(h) == helper[h].at \in {"open", "took", "clear", "len", "buf"}

-----------------------------------------------------------------------------
(***************************************************************************)
(* thread_fn: readLocation, readDisplayState, readPackageList, msleep.     *)
(* Each reader sets syn_msg, starts the helper without waiting for it and  *)
(* polls syn_msg, leaving when it is 0 or when isRun is.                   *)
(***************************************************************************)
Request ==
    /\ cpc = "request"
    /\ syn_msg' = Order[pos]
    /\ cpc' = "start"
    /\ UNCHANGED <<isRun, pos, helper>>

StartHelper(h) ==
    /\ cpc = "start" /\ helper[h] = Idle
    /\ helper' = [helper EXCEPT ![h] = [Idle EXCEPT !.at = "run", !.kind = Order[pos]]]
    /\ cpc' = "wait"
    /\ UNCHANGED <<isRun, syn_msg, pos>>

\* The result of call_usermodehelper is logged and returned to thread_fn,
\* which ignores it: the reader waits all the same.
HelperFails ==
    /\ cpc = "start" /\ HelperMayFail
    /\ cpc' = "waitfailed"
    /\ UNCHANGED <<isRun, syn_msg, pos, helper>>

\* Mutant: the wait does not look at isRun.
WaitOverAnswered == syn_msg = None

\* Mutant: the wait is given up after a while.
WaitOverAlways == TRUE

WaitOver == syn_msg = None \/ ~isRun

EndWait ==
    /\ cpc \in {"wait", "waitfailed"} /\ WaitOver
    /\ IF pos < Len(Order) THEN pos' = pos + 1 /\ cpc' = "request"
                           ELSE pos' = 1 /\ cpc' = "sleep"
    /\ UNCHANGED <<isRun, syn_msg, helper>>

EndSleep ==
    /\ cpc = "sleep"
    /\ cpc' = IF isRun THEN "request" ELSE "stopped"
    /\ UNCHANGED <<isRun, syn_msg, pos, helper>>

Collect == Request \/ (\E h \in Helper : StartHelper(h)) \/ HelperFails \/ EndWait \/ EndSleep

-----------------------------------------------------------------------------
(***************************************************************************)
(* A helper: it opens the device, writes what dumpsys and grep produce (or *)
(* nothing) and closes it.  The device refuses to open while the module is *)
(* being removed.                                                          *)
(***************************************************************************)
poise_open(h) ==
    /\ helper[h].at = "run"
    /\ helper' = [helper EXCEPT ![h] = IF isRun THEN [@ EXCEPT !.at = "open"] ELSE Idle]
    /\ UNCHANGED <<isRun, syn_msg, cpc, pos>>

\* poise_write in five steps: the switch reads syn_msg; syn_msg is cleared;
\* the record of the kind read is zeroed; its length is set; its buffer is
\* copied.  The records themselves are in ContextReply.
WriteLook(h) ==
    /\ helper[h].at = "open" /\ helper[h].writes < MaxWrites
    /\ helper' = [helper EXCEPT ![h] =
          [at |-> IF syn_msg = None THEN "open" ELSE "took", kind |-> @.kind,
           took |-> syn_msg, writes |-> @.writes + 1]]
    /\ UNCHANGED <<isRun, syn_msg, cpc, pos>>

WriteTake(h) ==
    /\ helper[h].at = "took"
    /\ syn_msg' = None
    /\ helper' = [helper EXCEPT ![h].at = "clear"]
    /\ UNCHANGED <<isRun, cpc, pos>>

WriteClear(h) ==
    /\ helper[h].at = "clear"
    /\ helper' = [helper EXCEPT ![h].at = "len"]
    /\ UNCHANGED <<isRun, syn_msg, cpc, pos>>

WriteLen(h) ==
    /\ helper[h].at = "len"
    /\ helper' = [helper EXCEPT ![h].at = "buf"]
    /\ UNCHANGED <<isRun, syn_msg, cpc, pos>>

WriteBuf(h) ==
    /\ helper[h].at = "buf"
    /\ helper' = [helper EXCEPT ![h].at = "open", ![h].took = None]
    /\ UNCHANGED <<isRun, syn_msg, cpc, pos>>

\* Mutant: closing without having written does not end the request.
poise_release_quiet(h) ==
    /\ helper[h].at = "open"
    /\ helper' = [helper EXCEPT ![h] = Idle]
    /\ UNCHANGED <<isRun, syn_msg, cpc, pos>>

poise_release(h) ==
    /\ helper[h].at = "open"
    /\ syn_msg' = None
    /\ helper' = [helper EXCEPT ![h] = Idle]
    /\ UNCHANGED <<isRun, cpc, pos>>

Write(h) == WriteLook(h) \/ WriteTake(h) \/ WriteClear(h) \/ WriteLen(h) \/ WriteBuf(h)

HelperStep(h) == poise_open(h) \/ Write(h) \/ poise_release(h)

-----------------------------------------------------------------------------
\* poise_rs_exit; a module whose device is open cannot be removed.
poise_rs_exit ==
    /\ isRun /\ \A h \in Helper : ~IsOpen(h)
    /\ isRun' = FALSE
    /\ UNCHANGED <<syn_msg, cpc, pos, helper>>

Init ==
    /\ isRun = TRUE /\ syn_msg = None
    /\ cpc = "request" /\ pos = 1
    /\ helper = [h \in Helper |-> Idle]

Next == Collect \/ (\E h \in Helper : HelperStep(h)) \/ poise_rs_exit

Spec == Init /\ [][Next]_vars

\* The thread runs whenever it can, and a helper opens the device, leaves
\* poise_write and ends.  Helpers need not write.
Fairness ==
    /\ WF_vars(Collect)
    /\ \A h \in Helper :
          /\ WF_vars(poise_open(h))
          /\ WF_vars(WriteTake(h) \/ WriteClear(h) \/ WriteLen(h) \/ WriteBuf(h))
          /\ WF_vars(poise_release(h))

FairSpec == Spec /\ Fairness

-----------------------------------------------------------------------------
\* Control points and data keep their types; a record is written only by a
\* helper that took its kind.
TypeOK ==
    /\ isRun \in BOOLEAN
    /\ syn_msg \in Kind \cup {None}
    /\ cpc \in {"request", "start", "wait", "waitfailed", "sleep", "stopped"}
    /\ pos \in 1..3
    /\ helper \in [Helper -> [at : {"idle", "run", "open", "took", "clear", "len", "buf"},
                              kind : Kind \cup {None}, took : Kind \cup {None},
                              writes : 0..MaxWrites]]
    /\ \A h \in Helper :
          /\ helper[h].at \in {"took", "clear", "len", "buf"} => helper[h].took \in Kind
          /\ helper[h].at # "idle" => helper[h].kind \in Kind

\* While the module runs, a pending request is the one the thread is waiting
\* for: whichever helper answers, no request is left behind or overwritten.
RequestOwned ==
    isRun /\ syn_msg # None => cpc \in {"start", "wait", "waitfailed"} /\ syn_msg = Order[pos]

\* Every kind of context is asked for again and again as long as the module
\* runs and its helpers start, also if they write nothing or write late.
EveryKindRequested ==
    \A k \in Kind : []<>(~isRun \/ cpc = "waitfailed" \/ (cpc = "wait" /\ Order[pos] = k))

\* "Exit the thread that periodly reads context information": after
\* poise_rs_exit the thread ends, also if it was waiting for an answer.
ThreadStops == ~isRun ~> cpc = "stopped"

-----------------------------------------------------------------------------
\* "Read location information from system service": what is filed under a
\* kind was produced by a helper of that kind.
RightKind == \A h \in Helper : helper[h].at = "buf" => helper[h].took = helper[h].kind

\* "Thread for periodly reading context info": the thread reads the location
\* again and again.
ReadsPeriodically == []<>(~isRun \/ cpc = "sleep")
=============================================================================
