---------------------------- MODULE ControlPlane ----------------------------
(***************************************************************************)
(* The control plane, control-plane/setup.py and poise.py: the learning    *)
(* thread turns digests into conn_tab entries, the aging thread removes    *)
(* idle entries, and both use the list free_idxs without a lock.  One      *)
(* action is one call into the switch driver (p4_pd, conn_mgr: external)   *)
(* or one access to free_idxs, the points between which the two threads    *)
(* interleave.                                                             *)
(*                                                                         *)
(* Driver operations issued between begin_txn and commit_txn reach the     *)
(* hardware together at the commit.  Both threads use one driver session,  *)
(* so a deletion by the aging thread joins a transaction the learning      *)
(* thread has open.  Register writes take effect at once.                  *)
(*                                                                         *)
(* Operators marked "Mutant:" state a plausible mistake in the definition  *)
(* after them; they are not part of the specification.                     *)
(***************************************************************************)
EXTENDS Integers, Sequences

CONSTANTS
    Key, NoKey,     \* connections; none
    Dec,            \* decisions carried by digests
    CONN_TB_SIZE,
    Failing,        \* driver calls that may raise an exception
    MaxDigests      \* bound on the digests waiting in the driver

VARIABLES
    digests,        \* learning notifications waiting in the driver
    conn_tab,       \* the driver's table: key -> index or NoIdx
    hw_tab,         \* the table as packets match it
    conn_decision,  \* the decision registers
    txn, staged,    \* a transaction is open; keys of the entries added in it
    free_idxs,      \* the list of unused indexes, popped and appended at the end
    lpc, msg, lidx, \* learning thread: control point, rest of the batch, idx in poise_add
    apc, aged, akey, aidx,  \* aging thread: control point, rest of aged_entries,
                            \* the entry e of age_out's loop and its index
    \* History variables: read by no guard.
    leaked,         \* indexes dropped on an error path
    decided         \* key -> last decision written for its entry, or NoDec

driver_vars   == <<digests, conn_tab, hw_tab, conn_decision, txn, staged>>
learning_vars == <<lpc, msg, lidx>>
aging_vars    == <<apc, aged, akey, aidx>>
vars          == <<driver_vars, free_idxs, learning_vars, aging_vars, leaked, decided>>

NoIdx   == -1
NoDec   == -1
UNSEEN  == 0
ConnIdx == 0 .. CONN_TB_SIZE - 1
Digest  == [key : Key, dec : Dec, is_context : BOOLEAN]

ASSUME SizeAssumption   == CONN_TB_SIZE \in Nat
ASSUME DecAssumption    == Dec \subseteq Nat
ASSUME BoundAssumption  == MaxDigests \in Nat

FreeSet == {free_idxs[j] : j \in DOMAIN free_idxs}
UsedSet == {conn_tab[k] : k \in Key} \ {NoIdx}

\* What packets match follows the driver's table, except while a transaction
\* is open.
Publish == hw_tab' = IF txn' THEN hw_tab ELSE conn_tab'

-----------------------------------------------------------------------------
(***************************************************************************)
(* do_learn, learning_notifications_get.                                   *)
(***************************************************************************)
\* An exception that no handler below do_learn catches ends the thread.
LearningBroken(call) ==
    /\ call \in Failing
    /\ lpc' = "dead"

\* A failed get is an empty batch; a failed ack loses the batch.
GetDigest ==
    /\ lpc = "get"
    /\ \/ msg' = digests /\ digests' = <<>> /\ lpc' = "begin"
       \/ "get" \in Failing /\ msg' = <<>> /\ UNCHANGED digests /\ lpc' = "begin"
       \/ digests # <<>> /\ LearningBroken("ack") /\ digests' = <<>> /\ UNCHANGED msg
    /\ UNCHANGED <<conn_tab, hw_tab, conn_decision, txn, staged, free_idxs, lidx, aging_vars,
                   leaked, decided>>

\* Mutant: no transaction is opened.
BeginNoTxn ==
    /\ lpc = "begin"
    /\ lpc' = "loop"
    /\ UNCHANGED <<driver_vars, free_idxs, msg, lidx, aging_vars, leaked, decided>>

BeginTxn ==
    /\ lpc = "begin"
    /\ \/ txn' = TRUE /\ lpc' = "loop"
       \/ LearningBroken("begin") /\ UNCHANGED txn
    /\ UNCHANGED <<digests, conn_tab, hw_tab, conn_decision, staged, free_idxs, msg, lidx,
                   aging_vars, leaked, decided>>

(***************************************************************************)
(* learning_notifications_process and poise_add.                           *)
(***************************************************************************)
\* Mutant: the test of is_context is inverted.
SkipContext ==
    /\ lpc = "loop" /\ msg # <<>>
    /\ Head(msg).is_context \/ free_idxs = <<>>
    /\ msg' = Tail(msg)
    /\ UNCHANGED <<driver_vars, free_idxs, lpc, lidx, aging_vars, leaked, decided>>

SkipNotification ==
    /\ lpc = "loop" /\ msg # <<>>
    /\ ~Head(msg).is_context \/ free_idxs = <<>>
    /\ msg' = Tail(msg)
    /\ UNCHANGED <<driver_vars, free_idxs, lpc, lidx, aging_vars, leaked, decided>>

\* Mutant: the first index is used, the last one removed.
PopOther ==
    /\ lpc = "loop" /\ msg # <<>>
    /\ Head(msg).is_context
    /\ free_idxs # <<>>
    /\ lidx' = free_idxs[1]
    /\ free_idxs' = SubSeq(free_idxs, 1, Len(free_idxs) - 1)
    /\ lpc' = "add"
    /\ UNCHANGED <<driver_vars, msg, aging_vars, leaked, decided>>

PopIdx ==
    /\ lpc = "loop" /\ msg # <<>>
    /\ Head(msg).is_context
    /\ free_idxs # <<>>
    /\ lidx' = free_idxs[Len(free_idxs)]
    /\ free_idxs' = SubSeq(free_idxs, 1, Len(free_idxs) - 1)
    /\ lpc' = "add"
    /\ UNCHANGED <<driver_vars, msg, aging_vars, leaked, decided>>

\* The driver refuses a second entry for a key.
AddEntry ==
    LET k == Head(msg).key IN
    /\ lpc = "add"
    /\ \/ /\ conn_tab[k] = NoIdx
          /\ conn_tab' = [conn_tab EXCEPT ![k] = lidx]
          /\ staged' = staged \cup {k}
          /\ decided' = [decided EXCEPT ![k] = NoDec]
          /\ lpc' = "write"
          /\ UNCHANGED <<msg, leaked>>
       \/ /\ conn_tab[k] # NoIdx \/ "add" \in Failing
          /\ leaked' = leaked \cup {lidx}
          /\ lpc' = "loop"
          /\ msg' = Tail(msg)
          /\ UNCHANGED <<conn_tab, staged, decided>>
    /\ UNCHANGED <<digests, conn_decision, txn, free_idxs, lidx, aging_vars>>
    /\ Publish

\* On failure the handler's own print statement raises: it calls a string.
WriteDecision ==
    LET m == Head(msg) IN
    /\ lpc = "write"
    /\ \/ /\ conn_decision' = [conn_decision EXCEPT ![lidx] = m.dec]
          /\ decided' = [decided EXCEPT ![m.key] = m.dec]
          /\ lpc' = "loop"
          /\ msg' = Tail(msg)
       \/ LearningBroken("write") /\ UNCHANGED <<conn_decision, decided, msg>>
    /\ UNCHANGED <<digests, conn_tab, hw_tab, txn, staged, free_idxs, lidx, aging_vars, leaked>>

\* Mutant: a failed commit goes unnoticed.
CommitUnchecked ==
    /\ lpc = "loop" /\ msg = <<>>
    /\ lpc' = "get"
    /\ \/ txn' = FALSE /\ staged' = {}
       \/ UNCHANGED <<txn, staged>>
    /\ UNCHANGED <<digests, conn_tab, conn_decision, free_idxs, msg, lidx, aging_vars,
                   leaked, decided>>
    /\ Publish

CommitTxn ==
    /\ lpc = "loop" /\ msg = <<>>
    /\ \/ txn' = FALSE /\ staged' = {} /\ lpc' = "get"
       \/ LearningBroken("commit") /\ UNCHANGED <<txn, staged>>
    /\ UNCHANGED <<digests, conn_tab, conn_decision, free_idxs, msg, lidx, aging_vars,
                   leaked, decided>>
    /\ Publish

Learning ==
    GetDigest \/ BeginTxn \/ SkipNotification \/ PopIdx \/ AddEntry \/ WriteDecision \/ CommitTxn

-----------------------------------------------------------------------------
(***************************************************************************)
(* do_age, aging_notify, age_out.  The driver reports entries that packets *)
(* could match and did not, in any order; an entry handle stands for the   *)
(* entry's key, since only this thread deletes entries.                    *)
(***************************************************************************)
AgingBroken(call) ==
    /\ call \in Failing
    /\ apc' = "dead"

GetExpired ==
    /\ apc = "poll"
    /\ \/ /\ aged' \in SUBSET {k \in Key \ staged : conn_tab[k] # NoIdx} \ {{}}
          /\ apc' = "entry"
       \/ AgingBroken("expired") /\ UNCHANGED aged
    /\ UNCHANGED <<driver_vars, free_idxs, learning_vars, akey, aidx, leaked, decided>>

\* conn_tab_get_entry for the next entry of the list.
GetEntry(k) ==
    /\ apc = "entry" /\ k \in aged
    /\ \/ akey' = k /\ aidx' = conn_tab[k] /\ apc' = "delete"
       \/ AgingBroken("entry") /\ UNCHANGED <<akey, aidx>>
    /\ UNCHANGED <<driver_vars, free_idxs, learning_vars, aged, leaked, decided>>

DeleteEntry ==
    /\ apc = "delete"
    /\ \/ /\ conn_tab' = [conn_tab EXCEPT ![akey] = NoIdx]
          /\ apc' = "recycle"
       \/ AgingBroken("delete") /\ UNCHANGED conn_tab
    /\ UNCHANGED <<digests, conn_decision, txn, staged, free_idxs, learning_vars, aged, akey, aidx,
                   leaked, decided>>
    /\ Publish

RecycleIdx ==
    /\ apc = "recycle"
    /\ free_idxs' = Append(free_idxs, aidx)
    /\ apc' = "reset"
    /\ UNCHANGED <<driver_vars, learning_vars, aged, akey, aidx, leaked, decided>>

\* A failed register write is ignored; complete_operations ends the batch.
ResetDecision ==
    /\ apc = "reset"
    /\ \/ conn_decision' = [conn_decision EXCEPT ![aidx] = UNSEEN]
       \/ "reset" \in Failing /\ UNCHANGED conn_decision
    /\ aged' = aged \ {akey}
    /\ \/ apc' = IF aged' = {} THEN "poll" ELSE "entry"
       \/ aged' = {} /\ AgingBroken("complete")
    /\ UNCHANGED <<digests, conn_tab, hw_tab, txn, staged, free_idxs, learning_vars, akey, aidx,
                   leaked, decided>>

Aging ==
    \/ GetExpired
    \/ \E k \in Key : GetEntry(k)
    \/ DeleteEntry
    \/ RecycleIdx
    \/ ResetDecision

-----------------------------------------------------------------------------
(***************************************************************************)
(* The data plane as the control plane sees it: a context packet of a      *)
(* connection without an entry may send a digest, one of a connection with *)
(* an entry writes its decision into the entry's register.                 *)
(***************************************************************************)
NewDigest(k, d) ==
    /\ hw_tab[k] = NoIdx
    /\ Len(digests) < MaxDigests
    /\ digests' = Append(digests, [key |-> k, dec |-> d, is_context |-> TRUE])
    /\ UNCHANGED <<conn_tab, hw_tab, conn_decision, txn, staged, free_idxs, learning_vars,
                   aging_vars, leaked, decided>>

ContextUpdate(k, d) ==
    /\ hw_tab[k] # NoIdx
    /\ conn_decision' = [conn_decision EXCEPT ![hw_tab[k]] = d]
    /\ decided' = [decided EXCEPT ![k] = d]
    /\ UNCHANGED <<digests, conn_tab, hw_tab, txn, staged, free_idxs, learning_vars, aging_vars, leaked>>

DataPlane == \E k \in Key, d \in Dec : NewDigest(k, d) \/ ContextUpdate(k, d)

-----------------------------------------------------------------------------
AllIdxs == [j \in 1..CONN_TB_SIZE |-> j - 1]

\* poise.setup fills free_idxs; the threads start afterwards.
Init ==
    /\ digests = <<>>
    /\ conn_tab = [k \in Key |-> NoIdx]
    /\ hw_tab = [k \in Key |-> NoIdx]
    /\ conn_decision = [i \in ConnIdx |-> 0]
    /\ txn = FALSE /\ staged = {}
    /\ free_idxs = AllIdxs
    /\ lpc = "get" /\ msg = <<>> /\ lidx = NoIdx
    /\ apc = "poll" /\ aged = {} /\ akey = NoKey /\ aidx = NoIdx
    /\ leaked = {}
    /\ decided = [k \in Key |-> NoDec]

Next == Learning \/ Aging \/ DataPlane

Spec == Init /\ [][Next]_vars

\* Each thread is a loop the scheduler keeps running; packets need not come
\* and entries need not expire.
FairSpec == Spec /\ WF_vars(Learning) /\ WF_vars(Aging /\ apc # "poll")

-----------------------------------------------------------------------------
(***************************************************************************)
(* Indexes held by neither the list nor the table: between pop and add,    *)
(* and between delete and append.                                          *)
(***************************************************************************)
LearningHolds == IF lpc = "add" THEN {lidx} ELSE {}
AgingHolds    == IF apc = "recycle" THEN {aidx} ELSE {}

\* Threads, driver state and lists have their types.
TypeOK ==
    /\ digests \in Seq(Digest) /\ msg \in Seq(Digest)
    /\ conn_tab \in [Key -> ConnIdx \cup {NoIdx}]
    /\ hw_tab \in [Key -> ConnIdx \cup {NoIdx}]
    /\ conn_decision \in [ConnIdx -> Dec \cup {UNSEEN}]
    /\ txn \in BOOLEAN /\ staged \subseteq Key
    /\ free_idxs \in Seq(ConnIdx)
    /\ lpc \in {"get", "begin", "loop", "add", "write", "dead"}
    /\ apc \in {"poll", "entry", "delete", "recycle", "reset", "dead"}
    /\ lidx \in ConnIdx \cup {NoIdx} /\ aidx \in ConnIdx \cup {NoIdx}
    /\ aged \subseteq Key /\ akey \in Key \cup {NoKey}
    /\ leaked \subseteq ConnIdx
    /\ decided \in [Key -> Dec \cup {NoDec}]

\* No index is on free_idxs twice, or belongs to two entries.
IndexUnique ==
    /\ \A x, y \in DOMAIN free_idxs : free_idxs[x] = free_idxs[y] => x = y
    /\ \A x, y \in Key : conn_tab[x] = conn_tab[y] /\ conn_tab[x] # NoIdx => x = y

\* The free list, the table, the two threads' hands and the leaked indexes
\* are disjoint.
IndexDisjoint ==
    /\ FreeSet \cap UsedSet = {}
    /\ (FreeSet \cup UsedSet) \cap (LearningHolds \cup AgingHolds \cup leaked) = {}
    /\ LearningHolds \cap AgingHolds = {}
    /\ (LearningHolds \cup AgingHolds) \cap leaked = {}

\* Although pop, add, delete and append by the two threads interleave freely
\* and without a lock, every register index is in exactly one place: free, in
\* use by one connection, in one thread's hand, or leaked by a failed add.
IndexPartition ==
    /\ IndexUnique
    /\ IndexDisjoint
    /\ FreeSet \cup UsedSet \cup LearningHolds \cup AgingHolds \cup leaked = ConnIdx

\* Outside a transaction packets match the driver's table, and every entry
\* they can match has had its decision written: poise_add's order of adding
\* the entry before writing its register is hidden by the transaction.
CommittedDecided ==
    ~txn => /\ hw_tab = conn_tab
            /\ \A k \in Key : conn_tab[k] # NoIdx => decided[k] # NoDec

Pending(k) ==
    \/ \E j \in DOMAIN digests : digests[j].key = k
    \/ \E j \in DOMAIN msg : msg[j].key = k

\* A connection whose digest was sent gets an entry, unless the indexes run
\* out, however the aging thread interferes.
Learned == \A k \in Key : Pending(k) ~> conn_tab[k] # NoIdx \/ free_idxs = <<>>

\* Packets stop matching a removed entry (or it has been learned again), even
\* if the removal joined the learning thread's transaction.
Unmatched == \A k \in Key : conn_tab[k] = NoIdx ~> hw_tab[k] = conn_tab[k]

-----------------------------------------------------------------------------
(***************************************************************************)
(* What messages and comments say and the program does not do.             *)
(***************************************************************************)
\* "Error, no indexes available (either conn_table is full or ...)": the list
\* is empty only when all indexes are in use or in a thread's hand.
EmptyMeansFull ==
    free_idxs = <<>> => UsedSet \cup LearningHolds \cup AgingHolds = ConnIdx

\* "Try to set the decision in the register": the register of an entry
\* packets match holds the last decision written for that entry.
DecisionKept ==
    ~txn => \A k \in Key : hw_tab[k] # NoIdx => conn_decision[hw_tab[k]] = decided[k]

\* "Unable to find register": a failed register write is reported and the
\* learning thread goes on.
LearningSurvives == lpc # "dead"
=============================================================================
