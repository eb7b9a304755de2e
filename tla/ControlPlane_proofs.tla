------------------------- MODULE ControlPlane_proofs -------------------------
(***************************************************************************)
(* Theorems about ControlPlane, for every set of connections and           *)
(* decisions, every table size and every choice of failing driver calls.   *)
(***************************************************************************)
EXTENDS ControlPlane, TLAPS, SequenceTheorems

Elements(q)  == {q[j] : j \in DOMAIN q}
Injective(q) == \A x, y \in DOMAIN q : q[x] = q[y] => x = y

\* Popping the last element of a list without repetitions removes exactly
\* that element.
LEMMA PopLast ==
    ASSUME NEW S, NEW q \in Seq(S), q # <<>>, Injective(q)
    PROVE  LET r == SubSeq(q, 1, Len(q) - 1) IN
           /\ q[Len(q)] \in S
           /\ r \in Seq(S)
           /\ Injective(r)
           /\ Elements(r) = Elements(q) \ {q[Len(q)]}
           /\ q[Len(q)] \in Elements(q)
<1> DEFINE n == Len(q)
           r == SubSeq(q, 1, n - 1)
<1>1. n \in Nat /\ n > 0 /\ DOMAIN q = 1..n
  BY EmptySeq, LenProperties
<1>2. r \in Seq(S) /\ Len(r) = n - 1 /\ \A i \in 1..(n - 1) : r[i] = q[i]
  BY <1>1, SubSeqProperties
<1>3. DOMAIN r = 1..(n - 1)
  BY <1>2, LenProperties
<1>6. q[n] \in S /\ q[n] \in Elements(q)
  BY <1>1, ElementOfSeq DEF Elements
<1> HIDE DEF n, r
<1>4. Injective(r)
  BY <1>1, <1>2, <1>3 DEF Injective
<1>5. Elements(r) = Elements(q) \ {q[n]}
  <2>1. ASSUME NEW i \in 1..(n - 1) PROVE r[i] \in Elements(q) \ {q[n]}
    BY <1>1, <1>2, <2>1 DEF Elements, Injective
  <2>2. ASSUME NEW i \in 1..n, q[i] # q[n] PROVE q[i] \in Elements(r)
    BY <1>1, <1>2, <1>3, <2>2 DEF Elements
  <2> QED
    BY <1>1, <1>3, <2>1, <2>2 DEF Elements
<1> QED
  BY <1>2, <1>4, <1>5, <1>6 DEF n, r

\* Appending a new element to a list without repetitions adds exactly it.
LEMMA PushLast ==
    ASSUME NEW S, NEW q \in Seq(S), NEW e \in S, Injective(q), e \notin Elements(q)
    PROVE  /\ Append(q, e) \in Seq(S)
           /\ Injective(Append(q, e))
           /\ Elements(Append(q, e)) = Elements(q) \cup {e}
<1> DEFINE r == Append(q, e)
           n == Len(q)
<1>1. n \in Nat /\ DOMAIN q = 1..n
  BY LenProperties
<1>2. r \in Seq(S) /\ Len(r) = n + 1 /\ (\A i \in 1..n : r[i] = q[i]) /\ r[n + 1] = e
  BY AppendProperties
<1>3. DOMAIN r = 1..(n + 1)
  BY <1>2, LenProperties
<1>4. Injective(r)
  BY <1>1, <1>2, <1>3 DEF Injective, Elements
<1>5. Elements(r) = Elements(q) \cup {e}
  BY <1>1, <1>2, <1>3 DEF Elements
<1> QED
  BY <1>2, <1>4, <1>5

-----------------------------------------------------------------------------
(***************************************************************************)
(* What each thread knows at each control point.                           *)
(***************************************************************************)
LearningInv ==
    /\ lpc \in {"add", "write"} => msg # <<>> /\ lidx \in ConnIdx
    /\ lpc \in {"loop", "add", "write"} => txn
    /\ lpc = "write" => conn_tab[Head(msg).key] = lidx /\ Head(msg).key \in staged

\* A reported entry that is not yet deleted.
Expiring(k) == k \in aged /\ ~(k = akey /\ apc \in {"recycle", "reset"})

AgingInv ==
    /\ \A k \in Key : Expiring(k) => conn_tab[k] # NoIdx /\ k \notin staged
    /\ apc = "delete" => akey \in aged /\ aidx = conn_tab[akey]
    /\ apc \in {"recycle", "reset"} => akey \in Key /\ aidx \in ConnIdx

\* An entry whose decision is not written yet is the one the learning thread
\* is about to write, or was, in a transaction that never commits.
DecidedInv ==
    \A k \in Key : conn_tab[k] # NoIdx /\ decided[k] = NoDec =>
        \/ lpc = "write" /\ k = Head(msg).key
        \/ lpc = "dead" /\ txn

HardwareInv == ~txn => hw_tab = conn_tab /\ staged = {}

IInv == TypeOK /\ LearningInv /\ AgingInv /\ IndexPartition /\ DecidedInv /\ HardwareInv

LEMMA InitIInv == Init => IInv
<1> SUFFICES ASSUME Init PROVE IInv
  OBVIOUS
<1> USE SizeAssumption, DecAssumption DEF NoIdx, NoDec, ConnIdx, AllIdxs
<1>1. /\ free_idxs \in Seq(ConnIdx) /\ DOMAIN free_idxs = 1..CONN_TB_SIZE
      /\ \A j \in DOMAIN free_idxs : free_idxs[j] \in ConnIdx
  <2>1. free_idxs \in [1..CONN_TB_SIZE -> ConnIdx]
    BY DEF Init
  <2> QED
    BY <2>1, SeqDef
<1>2. FreeSet = ConnIdx
  <2>1. ASSUME NEW i \in ConnIdx PROVE i \in FreeSet
    <3>1. i + 1 \in 1..CONN_TB_SIZE /\ free_idxs[i + 1] = i
      BY DEF Init
    <3> QED
      BY <3>1, <1>1 DEF FreeSet
  <2> QED
    BY <2>1, <1>1, Zenon DEF FreeSet
<1>3. UsedSet = {} /\ LearningHolds = {} /\ AgingHolds = {} /\ leaked = {}
  BY DEF Init, UsedSet, LearningHolds, AgingHolds
<1>4. TypeOK
  BY <1>1, EmptySeq, Zenon DEF Init, TypeOK, UNSEEN
<1>5. IndexPartition
  BY <1>1, <1>2, <1>3 DEF IndexPartition, IndexUnique, IndexDisjoint, Init
<1> QED
  BY <1>4, <1>5 DEF IInv, Init, LearningInv, AgingInv, DecidedInv, HardwareInv, Expiring

-----------------------------------------------------------------------------
(***************************************************************************)
(* One lemma per action.  holds collects what IndexPartition reads, for    *)
(* the steps that move no index.                                           *)
(***************************************************************************)
holds == <<free_idxs, conn_tab, LearningHolds, AgingHolds, leaked>>

LEMMA NoIndexMoves == IndexPartition /\ UNCHANGED holds => IndexPartition'
BY DEF IndexPartition, IndexUnique, IndexDisjoint, FreeSet, UsedSet, holds

LEMMA GetDigestStep == IInv /\ GetDigest => IInv'
<1> SUFFICES ASSUME IInv, GetDigest PROVE IInv'
  OBVIOUS
<1>1. TypeOK'
  BY EmptySeq, Zenon DEF IInv, TypeOK, GetDigest, LearningBroken, aging_vars
<1>2. IndexPartition'
  BY NoIndexMoves DEF IInv, GetDigest, LearningBroken, holds, LearningHolds, AgingHolds, aging_vars
<1>3. LearningInv' /\ AgingInv' /\ DecidedInv' /\ HardwareInv'
  BY DEF IInv, GetDigest, LearningBroken, LearningInv, AgingInv, DecidedInv, HardwareInv, Expiring, aging_vars
<1> QED
  BY <1>1, <1>2, <1>3 DEF IInv

LEMMA BeginTxnStep == IInv /\ BeginTxn => IInv'
<1> SUFFICES ASSUME IInv, BeginTxn PROVE IInv'
  OBVIOUS
<1>1. TypeOK'
  BY Zenon DEF IInv, TypeOK, BeginTxn, LearningBroken, aging_vars
<1>2. IndexPartition'
  BY NoIndexMoves DEF IInv, BeginTxn, LearningBroken, holds, LearningHolds, AgingHolds, aging_vars
<1>3. LearningInv' /\ AgingInv' /\ DecidedInv' /\ HardwareInv'
  BY DEF IInv, BeginTxn, LearningBroken, LearningInv, AgingInv, DecidedInv, HardwareInv,
         Expiring, aging_vars
<1> QED
  BY <1>1, <1>2, <1>3 DEF IInv

LEMMA SkipNotificationStep == IInv /\ SkipNotification => IInv'
<1> SUFFICES ASSUME IInv, SkipNotification PROVE IInv'
  OBVIOUS
<1>1. TypeOK'
  <2>1. msg' \in Seq(Digest)
    BY HeadTailProperties DEF IInv, TypeOK, SkipNotification
  <2> QED
    BY <2>1 DEF IInv, TypeOK, SkipNotification, driver_vars, aging_vars
<1>2. IndexPartition'
  BY NoIndexMoves DEF IInv, SkipNotification, holds, LearningHolds, AgingHolds, driver_vars,
                      aging_vars
<1>3. LearningInv' /\ AgingInv' /\ DecidedInv' /\ HardwareInv'
  BY DEF IInv, SkipNotification, LearningInv, AgingInv, DecidedInv, HardwareInv, Expiring,
         driver_vars, aging_vars
<1> QED
  BY <1>1, <1>2, <1>3 DEF IInv

LEMMA PopIdxStep == IInv /\ PopIdx => IInv'
<1> SUFFICES ASSUME IInv, PopIdx PROVE IInv'
  OBVIOUS
<1>0. /\ lidx' \in ConnIdx
      /\ free_idxs' \in Seq(ConnIdx)
      /\ Injective(free_idxs')
      /\ FreeSet' = FreeSet \ {lidx'}
      /\ lidx' \in FreeSet
  <2>1. free_idxs \in Seq(ConnIdx) /\ free_idxs # <<>> /\ Injective(free_idxs)
    BY DEF IInv, TypeOK, PopIdx, IndexPartition, IndexUnique, Injective
  <2>2. FreeSet = Elements(free_idxs) /\ FreeSet' = Elements(free_idxs')
    BY DEF FreeSet, Elements
  <2> QED
    BY <2>1, <2>2, PopLast DEF PopIdx
<1>1. TypeOK'
  BY <1>0 DEF IInv, TypeOK, PopIdx, driver_vars, aging_vars
<1>2. IndexPartition'
  <2>1. UsedSet' = UsedSet /\ AgingHolds' = AgingHolds /\ LearningHolds = {}
        /\ LearningHolds' = {lidx'} /\ leaked' = leaked
    BY DEF PopIdx, UsedSet, LearningHolds, AgingHolds, driver_vars, aging_vars
  <2>2. IndexUnique'
    BY <1>0 DEF IInv, IndexPartition, IndexUnique, Injective, PopIdx, driver_vars
  <2>3. IndexDisjoint'
    BY <1>0, <2>1 DEF IInv, IndexPartition, IndexDisjoint
  <2> QED
    BY <1>0, <2>1, <2>2, <2>3 DEF IInv, IndexPartition
<1>3. LearningInv' /\ AgingInv' /\ DecidedInv' /\ HardwareInv'
  BY <1>0 DEF IInv, PopIdx, LearningInv, AgingInv, DecidedInv, HardwareInv, Expiring,
         driver_vars, aging_vars
<1> QED
  BY <1>1, <1>2, <1>3 DEF IInv

LEMMA AddEntryStep == IInv /\ AddEntry => IInv'
<1> SUFFICES ASSUME IInv, AddEntry PROVE IInv'
  OBVIOUS
<1> DEFINE k == Head(msg).key
<1>0. /\ msg \in Seq(Digest) /\ msg # <<>> /\ k \in Key /\ Tail(msg) \in Seq(Digest)
      /\ lidx \in ConnIdx /\ txn /\ txn' = txn /\ lpc = "add"
  <2>1. lpc = "add" /\ txn' = txn
    BY DEF AddEntry
  <2>2. msg \in Seq(Digest) /\ msg # <<>> /\ lidx \in ConnIdx /\ txn
    BY <2>1 DEF IInv, TypeOK, LearningInv
  <2>3. Head(msg) \in Digest /\ Tail(msg) \in Seq(Digest)
    BY <2>2, HeadTailProperties
  <2> QED
    BY <2>1, <2>2, <2>3 DEF Digest
<1> USE DEF NoIdx, NoDec, ConnIdx
<1> HIDE DEF k
<1>1. CASE /\ conn_tab[k] = NoIdx
           /\ conn_tab' = [conn_tab EXCEPT ![k] = lidx]
           /\ staged' = staged \cup {k}
           /\ decided' = [decided EXCEPT ![k] = NoDec]
           /\ lpc' = "write"
           /\ UNCHANGED <<msg, leaked>>
  <2>1. TypeOK'
    BY <1>0, <1>1 DEF IInv, TypeOK, AddEntry, Publish, aging_vars
  <2>2. IndexPartition'
    <3>1. UsedSet' = UsedSet \cup {lidx} /\ LearningHolds = {lidx} /\ LearningHolds' = {}
      <4>1. lidx # NoIdx
        BY <1>0
      <4>2. \A x \in Key : conn_tab'[x] = IF x = k THEN lidx ELSE conn_tab[x]
        BY <1>0, <1>1 DEF IInv, TypeOK
      <4> QED
        BY <1>0, <1>1, <4>1, <4>2 DEF UsedSet, LearningHolds
    <3>2. FreeSet' = FreeSet /\ AgingHolds' = AgingHolds /\ leaked' = leaked
          /\ free_idxs' = free_idxs
      BY <1>1 DEF AddEntry, FreeSet, AgingHolds, aging_vars
    <3>3. IndexUnique'
      <4>1. lidx \notin UsedSet
        BY <3>1 DEF IInv, IndexPartition, IndexDisjoint
      <4> QED
        BY <1>0, <1>1, <3>2, <4>1 DEF IInv, TypeOK, IndexPartition, IndexUnique, UsedSet
    <3>4. IndexDisjoint'
      BY <3>1, <3>2 DEF IInv, IndexPartition, IndexDisjoint
    <3> QED
      BY <3>1, <3>2, <3>3, <3>4 DEF IInv, IndexPartition
  <2>3. LearningInv' /\ DecidedInv' /\ HardwareInv'
    BY <1>0, <1>1 DEF IInv, TypeOK, AddEntry, LearningInv, DecidedInv, HardwareInv, k
  <2>4. AgingInv'
    BY <1>0, <1>1 DEF IInv, TypeOK, AddEntry, AgingInv, Expiring, aging_vars
  <2> QED
    BY <2>1, <2>2, <2>3, <2>4 DEF IInv
<1>2. CASE /\ leaked' = leaked \cup {lidx}
           /\ lpc' = "loop"
           /\ msg' = Tail(msg)
           /\ UNCHANGED <<conn_tab, staged, decided>>
  <2>1. TypeOK'
    BY <1>0, <1>2 DEF IInv, TypeOK, AddEntry, Publish, aging_vars
  <2>2. IndexPartition'
    <3>1. LearningHolds = {lidx} /\ LearningHolds' = {}
      BY <1>0, <1>2 DEF LearningHolds
    <3>2. FreeSet' = FreeSet /\ UsedSet' = UsedSet /\ AgingHolds' = AgingHolds
          /\ free_idxs' = free_idxs /\ conn_tab' = conn_tab
      BY <1>2 DEF AddEntry, FreeSet, UsedSet, AgingHolds, aging_vars
    <3> QED
      BY <1>2, <3>1, <3>2 DEF IInv, IndexPartition, IndexUnique, IndexDisjoint
  <2>3. LearningInv' /\ AgingInv' /\ DecidedInv' /\ HardwareInv'
    BY <1>0, <1>2 DEF IInv, AddEntry, LearningInv, AgingInv, DecidedInv, HardwareInv, Expiring,
       aging_vars
  <2> QED
    BY <2>1, <2>2, <2>3 DEF IInv
<1> QED
  BY <1>1, <1>2 DEF AddEntry, k

LEMMA WriteDecisionStep == IInv /\ WriteDecision => IInv'
<1> SUFFICES ASSUME IInv, WriteDecision PROVE IInv'
  OBVIOUS
<1>0. /\ Head(msg) \in Digest /\ Tail(msg) \in Seq(Digest)
      /\ lidx \in ConnIdx /\ txn /\ lpc = "write"
  BY HeadTailProperties DEF IInv, TypeOK, LearningInv, WriteDecision
<1> USE DecAssumption DEF NoDec, Digest
<1>1. TypeOK'
  BY <1>0, Zenon DEF IInv, TypeOK, WriteDecision, LearningBroken, aging_vars
<1>2. IndexPartition'
  BY NoIndexMoves DEF IInv, WriteDecision, LearningBroken, holds, LearningHolds, AgingHolds,
                      aging_vars
<1>3. LearningInv' /\ AgingInv' /\ HardwareInv'
  BY <1>0 DEF IInv, WriteDecision, LearningBroken, LearningInv, AgingInv, HardwareInv, Expiring,
     aging_vars
<1>4. DecidedInv'
  <2>1. /\ conn_tab' = conn_tab /\ txn' = txn
        /\ \/ lpc' = "dead" /\ decided' = decided
           \/ decided' = [decided EXCEPT ![Head(msg).key] = Head(msg).dec]
    BY DEF WriteDecision, LearningBroken
  <2>2. Head(msg).key \in Key /\ Head(msg).dec # NoDec
    BY <1>0
  <2>3. \A k \in Key : conn_tab[k] # NoIdx /\ decided[k] = NoDec => k = Head(msg).key
    BY <1>0 DEF IInv, DecidedInv
  <2> QED
    BY <1>0, <2>1, <2>2, <2>3 DEF IInv, TypeOK, DecidedInv
<1> QED
  BY <1>1, <1>2, <1>3, <1>4 DEF IInv

LEMMA CommitTxnStep == IInv /\ CommitTxn => IInv'
<1> SUFFICES ASSUME IInv, CommitTxn PROVE IInv'
  OBVIOUS
<1>1. TypeOK'
  BY Zenon DEF IInv, TypeOK, CommitTxn, Publish, LearningBroken, aging_vars
<1>2. IndexPartition'
  BY NoIndexMoves DEF IInv, CommitTxn, LearningBroken, holds, LearningHolds, AgingHolds, aging_vars
<1>3. LearningInv' /\ AgingInv' /\ DecidedInv' /\ HardwareInv'
  BY Zenon DEF IInv, TypeOK, CommitTxn, Publish, LearningBroken, LearningInv, AgingInv, DecidedInv,
         HardwareInv, Expiring, aging_vars
<1> QED
  BY <1>1, <1>2, <1>3 DEF IInv

LEMMA GetExpiredStep == IInv /\ GetExpired => IInv'
<1> SUFFICES ASSUME IInv, GetExpired PROVE IInv'
  OBVIOUS
<1>1. TypeOK'
  BY DEF IInv, TypeOK, GetExpired, AgingBroken, driver_vars, learning_vars
<1>2. IndexPartition'
  BY NoIndexMoves DEF IInv, GetExpired, AgingBroken, holds, LearningHolds, AgingHolds, driver_vars, learning_vars
<1>3. LearningInv' /\ AgingInv' /\ DecidedInv' /\ HardwareInv'
  BY DEF IInv, GetExpired, AgingBroken, LearningInv, AgingInv, DecidedInv, HardwareInv, Expiring,
         driver_vars, learning_vars
<1> QED
  BY <1>1, <1>2, <1>3 DEF IInv

LEMMA GetEntryStep == ASSUME NEW k \in Key PROVE IInv /\ GetEntry(k) => IInv'
<1> SUFFICES ASSUME IInv, GetEntry(k) PROVE IInv'
  OBVIOUS
<1>1. TypeOK'
  BY DEF IInv, TypeOK, GetEntry, AgingBroken, driver_vars, learning_vars
<1>2. IndexPartition'
  BY NoIndexMoves DEF IInv, GetEntry, AgingBroken, holds, LearningHolds, AgingHolds, driver_vars,
                      learning_vars
<1>3. LearningInv' /\ AgingInv' /\ DecidedInv' /\ HardwareInv'
  BY DEF IInv, GetEntry, AgingBroken, LearningInv, AgingInv, DecidedInv, HardwareInv, Expiring,
         driver_vars, learning_vars
<1> QED
  BY <1>1, <1>2, <1>3 DEF IInv

LEMMA DeleteEntryStep == IInv /\ DeleteEntry => IInv'
<1> SUFFICES ASSUME IInv, DeleteEntry PROVE IInv'
  OBVIOUS
<1>0. /\ apc = "delete" /\ akey \in Key /\ akey \in aged /\ akey \notin staged
      /\ aidx = conn_tab[akey] /\ aidx # NoIdx /\ aidx \in ConnIdx
  BY DEF IInv, TypeOK, AgingInv, Expiring, DeleteEntry
<1>1. CASE conn_tab' = [conn_tab EXCEPT ![akey] = NoIdx] /\ apc' = "recycle"
  <2>1. TypeOK'
    BY <1>0, <1>1 DEF IInv, TypeOK, DeleteEntry, Publish, learning_vars
  <2>2. IndexPartition'
    <3>1. UsedSet' = UsedSet \ {aidx} /\ aidx \in UsedSet
      <4>1. \A x \in Key : conn_tab'[x] = IF x = akey THEN NoIdx ELSE conn_tab[x]
        BY <1>0, <1>1 DEF IInv, TypeOK
      <4>2. \A x \in Key \ {akey} : conn_tab[x] # aidx
        BY <1>0, Zenon DEF IInv, IndexPartition, IndexUnique
      <4> QED
        BY <1>0, <4>1, <4>2 DEF UsedSet
    <3>2. AgingHolds = {} /\ AgingHolds' = {aidx}
      BY <1>0, <1>1 DEF DeleteEntry, AgingHolds
    <3>3. FreeSet' = FreeSet /\ LearningHolds' = LearningHolds /\ leaked' = leaked
          /\ free_idxs' = free_idxs
      BY DEF DeleteEntry, FreeSet, LearningHolds, learning_vars
    <3>4. IndexUnique'
      BY <1>0, <1>1, <3>3 DEF IInv, TypeOK, IndexPartition, IndexUnique
    <3>5. IndexDisjoint'
      BY <3>1, <3>2, <3>3 DEF IInv, IndexPartition, IndexDisjoint
    <3> QED
      BY <3>1, <3>2, <3>3, <3>4, <3>5 DEF IInv, IndexPartition
  <2>3. LearningInv'
    BY <1>0, <1>1 DEF IInv, TypeOK, LearningInv, DeleteEntry, learning_vars
  <2>4. AgingInv'
    BY <1>0, <1>1 DEF IInv, TypeOK, AgingInv, Expiring, DeleteEntry
  <2>5. DecidedInv' /\ HardwareInv'
    BY <1>0, <1>1 DEF IInv, TypeOK, DecidedInv, HardwareInv, DeleteEntry, Publish, learning_vars
  <2> QED
    BY <2>1, <2>2, <2>3, <2>4, <2>5 DEF IInv
<1>2. CASE AgingBroken("delete") /\ UNCHANGED conn_tab
  <2>1. TypeOK'
    BY <1>2 DEF IInv, TypeOK, DeleteEntry, Publish, AgingBroken, learning_vars
  <2>2. IndexPartition'
    BY <1>0, <1>2, NoIndexMoves DEF IInv, DeleteEntry, AgingBroken, holds, LearningHolds,
       AgingHolds, learning_vars
  <2>3. LearningInv' /\ AgingInv' /\ DecidedInv' /\ HardwareInv'
    BY <1>0, <1>2 DEF IInv, DeleteEntry, Publish, AgingBroken, LearningInv, AgingInv, DecidedInv,
       HardwareInv, Expiring, learning_vars
  <2> QED
    BY <2>1, <2>2, <2>3 DEF IInv
<1> QED
  BY <1>1, <1>2 DEF DeleteEntry

LEMMA RecycleIdxStep == IInv /\ RecycleIdx => IInv'
<1> SUFFICES ASSUME IInv, RecycleIdx PROVE IInv'
  OBVIOUS
<1>0. apc = "recycle" /\ apc' = "reset" /\ aidx \in ConnIdx /\ AgingHolds = {aidx}
      /\ AgingHolds' = {}
  BY DEF IInv, AgingInv, RecycleIdx, AgingHolds
<1>1. /\ free_idxs' \in Seq(ConnIdx)
      /\ Injective(free_idxs')
      /\ FreeSet' = FreeSet \cup {aidx}
  <2>1. free_idxs \in Seq(ConnIdx) /\ Injective(free_idxs)
    BY DEF IInv, TypeOK, IndexPartition, IndexUnique, Injective
  <2>2. FreeSet = Elements(free_idxs) /\ FreeSet' = Elements(free_idxs')
    BY DEF FreeSet, Elements
  <2>3. aidx \notin FreeSet
    BY <1>0 DEF IInv, IndexPartition, IndexDisjoint
  <2> QED
    BY <1>0, <2>1, <2>2, <2>3, PushLast DEF RecycleIdx
<1>2. TypeOK'
  BY <1>1 DEF IInv, TypeOK, RecycleIdx, driver_vars, learning_vars
<1>3. IndexPartition'
  <2>1. UsedSet' = UsedSet /\ LearningHolds' = LearningHolds /\ leaked' = leaked
        /\ conn_tab' = conn_tab
    BY DEF RecycleIdx, UsedSet, LearningHolds, driver_vars, learning_vars
  <2>2. IndexUnique'
    BY <1>1, <2>1 DEF IInv, IndexPartition, IndexUnique, Injective
  <2>3. IndexDisjoint'
    BY <1>0, <1>1, <2>1 DEF IInv, IndexPartition, IndexDisjoint
  <2> QED
    BY <1>0, <1>1, <2>1, <2>2, <2>3 DEF IInv, IndexPartition
<1>4. LearningInv' /\ AgingInv' /\ DecidedInv' /\ HardwareInv'
  BY <1>0 DEF IInv, RecycleIdx, LearningInv, AgingInv, DecidedInv, HardwareInv, Expiring,
     driver_vars, learning_vars
<1> QED
  BY <1>2, <1>3, <1>4 DEF IInv

LEMMA ResetDecisionStep == IInv /\ ResetDecision => IInv'
<1> SUFFICES ASSUME IInv, ResetDecision PROVE IInv'
  OBVIOUS
<1>0. apc = "reset" /\ aidx \in ConnIdx /\ apc' \in {"poll", "entry", "dead"} /\ aged' = aged \ {akey}
  BY DEF IInv, AgingInv, ResetDecision, AgingBroken
<1>1. TypeOK'
  BY <1>0, Zenon DEF IInv, TypeOK, ResetDecision, AgingBroken, learning_vars
<1>2. IndexPartition'
  BY <1>0, NoIndexMoves DEF IInv, ResetDecision, AgingBroken, holds, LearningHolds, AgingHolds, learning_vars
<1>3. LearningInv' /\ AgingInv' /\ DecidedInv' /\ HardwareInv'
  BY <1>0 DEF IInv, ResetDecision, AgingBroken, LearningInv, AgingInv, DecidedInv, HardwareInv, Expiring,
     learning_vars
<1> QED
  BY <1>1, <1>2, <1>3 DEF IInv

LEMMA NewDigestStep ==
    ASSUME NEW k \in Key, NEW d \in Dec PROVE IInv /\ NewDigest(k, d) => IInv'
<1> SUFFICES ASSUME IInv, NewDigest(k, d) PROVE IInv'
  OBVIOUS
<1>1. TypeOK'
  <2>1. digests' \in Seq(Digest)
    BY AppendProperties DEF IInv, TypeOK, NewDigest, Digest
  <2> QED
    BY <2>1 DEF IInv, TypeOK, NewDigest, learning_vars, aging_vars
<1>2. IndexPartition'
  BY NoIndexMoves DEF IInv, NewDigest, holds, LearningHolds, AgingHolds, learning_vars, aging_vars
<1>3. LearningInv' /\ AgingInv' /\ DecidedInv' /\ HardwareInv'
  BY DEF IInv, NewDigest, LearningInv, AgingInv, DecidedInv, HardwareInv, Expiring,
         learning_vars, aging_vars
<1> QED
  BY <1>1, <1>2, <1>3 DEF IInv

LEMMA ContextUpdateStep ==
    ASSUME NEW k \in Key, NEW d \in Dec PROVE IInv /\ ContextUpdate(k, d) => IInv'
<1> SUFFICES ASSUME IInv, ContextUpdate(k, d) PROVE IInv'
  OBVIOUS
<1>0. d # NoDec /\ hw_tab[k] \in ConnIdx
  BY DecAssumption DEF IInv, TypeOK, ContextUpdate, NoDec
<1>1. TypeOK'
  BY <1>0 DEF IInv, TypeOK, ContextUpdate, learning_vars, aging_vars
<1>2. IndexPartition'
  BY NoIndexMoves DEF IInv, ContextUpdate, holds, LearningHolds, AgingHolds, learning_vars,
                      aging_vars
<1>3. LearningInv' /\ AgingInv' /\ HardwareInv'
  BY DEF IInv, ContextUpdate, LearningInv, AgingInv, HardwareInv, Expiring, learning_vars,
         aging_vars
<1>4. DecidedInv'
  <2>1. \A x \in Key : decided'[x] = NoDec => decided[x] = NoDec
    BY <1>0 DEF IInv, TypeOK, ContextUpdate
  <2> QED
    BY <2>1 DEF IInv, DecidedInv, ContextUpdate, learning_vars
<1> QED
  BY <1>1, <1>2, <1>3, <1>4 DEF IInv

LEMMA StutterStep == IInv /\ UNCHANGED vars => IInv'
<1> SUFFICES ASSUME IInv, UNCHANGED vars PROVE IInv'
  OBVIOUS
<1> USE DEF vars, driver_vars, learning_vars, aging_vars
<1>1. IndexPartition'
  BY NoIndexMoves DEF IInv, holds, LearningHolds, AgingHolds
<1>2. TypeOK' /\ LearningInv' /\ AgingInv' /\ DecidedInv' /\ HardwareInv'
  BY DEF IInv, TypeOK, LearningInv, AgingInv, DecidedInv, HardwareInv, Expiring
<1> QED
  BY <1>1, <1>2 DEF IInv

\* IInv holds in every reachable state, whichever driver calls fail.
THEOREM Inductive == Spec => []IInv
<1>1. ASSUME IInv, [Next]_vars PROVE IInv'
  <2>1. CASE Learning
    BY <1>1, <2>1, GetDigestStep, BeginTxnStep, SkipNotificationStep, PopIdxStep, AddEntryStep,
       WriteDecisionStep, CommitTxnStep DEF Learning
  <2>2. CASE Aging
    BY <1>1, <2>2, GetExpiredStep, GetEntryStep, DeleteEntryStep, RecycleIdxStep, ResetDecisionStep
       DEF Aging
  <2>3. CASE DataPlane
    BY <1>1, <2>3, NewDigestStep, ContextUpdateStep DEF DataPlane
  <2> QED
    BY <1>1, <2>1, <2>2, <2>3, StutterStep DEF Next
<1> QED
  BY <1>1, InitIInv, PTL DEF Spec

-----------------------------------------------------------------------------
\* Every variable of the two threads and of the driver keeps its type.
THEOREM TypeCorrect == Spec => []TypeOK
BY Inductive, PTL DEF IInv

\* pop and append on free_idxs need no lock: the two threads never give one
\* register index to two connections and never lose one, except the index of
\* a failed table add, which is leaked.
THEOREM IndexesPartitioned == Spec => []IndexPartition
BY Inductive, PTL DEF IInv

\* Packets never match an entry whose decision has not been written.
THEOREM CommittedAreDecided == Spec => []CommittedDecided
<1>1. IInv => CommittedDecided
  BY DEF IInv, TypeOK, DecidedInv, HardwareInv, LearningInv, CommittedDecided
<1> QED
  BY <1>1, Inductive, PTL
=============================================================================
