------------------------ MODULE KernelModule_proofs ------------------------
(***************************************************************************)
(* Proofs about three parts of the client's kernel module.                 *)
(*                                                                         *)
(* ContextReply: the handshake over syn_msg keeps requests and the thread  *)
(* together for any number of helpers and writes, the reply thread leaves  *)
(* the handshake alone, and it leaves no socket open.                      *)
(*                                                                         *)
(* TxSegment: for every segment of up to 65535 bytes the copies the        *)
(* transmit hook makes carry the same payload at the same sequence         *)
(* numbers, with length fields that do not overflow and within the MTU.    *)
(*                                                                         *)
(* ModuleLifecycle, for every length of the two sleeps: the invariant says *)
(* what is set up at each step of loading and unloading.                   *)
(***************************************************************************)
EXTENDS ContextReply, TxSegment, ModuleLifecycle, SequenceTheorems, TLAPS

-----------------------------------------------------------------------------
(***************************************************************************)
(* The collector and the reply thread.                                     *)
(***************************************************************************)
\* RequestOwned, with what it needs of a request not yet made.
HandshakeInv == TypeOK /\ RequestOwned

-----------------------------------------------------------------------------
\* Nothing is pending and no helper runs at first.
LEMMA HandshakeInitially == Init => HandshakeInv
BY HelperAssumption, WritesAssumption
   DEF Init, HandshakeInv, TypeOK, RequestOwned, Idle, Kind

\* Every step of the thread, of a helper and of the module's exit keeps the
\* types.
LEMMA TypeStep == TypeOK /\ [Next]_vars => TypeOK'
<1> SUFFICES ASSUME TypeOK, [Next]_vars PROVE TypeOK'
  OBVIOUS
<1> USE HelperAssumption, WritesAssumption
<1>0. Len(Order) = 3 /\ \A i \in 1..3 : Order[i] \in Kind
  BY DEF Order, Kind
<1>1. CASE Request
  BY <1>0, <1>1 DEF Request, TypeOK
<1>2. ASSUME NEW h \in Helper, StartHelper(h) PROVE TypeOK'
  BY <1>0, <1>2, Zenon DEF StartHelper, TypeOK, Idle
<1>3. CASE HelperFails
  BY <1>3 DEF HelperFails, TypeOK
<1>4. CASE EndWait
  BY <1>0, <1>4 DEF EndWait, TypeOK
<1>5. CASE EndSleep
  BY <1>5 DEF EndSleep, TypeOK
<1>6. ASSUME NEW h \in Helper, poise_open(h) PROVE TypeOK'
  <2>1. CASE isRun
    <3>1. helper' = [helper EXCEPT ![h].at = "open"] /\ helper[h].at = "run"
      BY <1>6, <2>1 DEF poise_open, TypeOK
    <3> QED
      BY <1>6, <3>1 DEF poise_open, TypeOK
  <2>2. CASE ~isRun
    <3>1. helper' = [helper EXCEPT ![h] = Idle]
      BY <1>6, <2>2 DEF poise_open
    <3> QED
      BY <1>6, <3>1 DEF poise_open, TypeOK, Idle
  <2> QED
    BY <2>1, <2>2
<1>7. ASSUME NEW h \in Helper, WriteLook(h) PROVE TypeOK'
  <2> DEFINE st == IF syn_msg = None THEN "open" ELSE "took"
             new == [at |-> st, kind |-> helper[h].kind, took |-> syn_msg,
                     writes |-> helper[h].writes + 1]
  <2>1. /\ helper[h].writes + 1 \in 0..MaxWrites
        /\ helper[h].kind \in Kind
        /\ syn_msg \in Kind \cup {None}
    BY <1>7 DEF WriteLook, TypeOK
  <2> DEFINE R == [at : {"idle", "run", "open", "took", "clear", "len", "buf"},
                   kind : Kind \cup {None}, took : Kind \cup {None}, writes : 0..MaxWrites]
  <2>2. helper[h] \in R /\ helper \in [Helper -> R]
    BY DEF TypeOK
  <2>3. helper' = [helper EXCEPT ![h] = new]
    BY <1>7, Zenon DEF WriteLook
  <2>4. st \in {"open", "took"} /\ (st = "took" => syn_msg \in Kind)
    BY <2>1
  <2> HIDE DEF st
  <2>5. new \in R /\ new.at = st /\ new.took = syn_msg /\ new.kind \in Kind
    BY <2>1, <2>4
  <2> HIDE DEF new, R
  <2>6. helper' \in [Helper -> R] /\ helper'[h] = new /\ \A g \in Helper \ {h} : helper'[g] = helper[g]
    BY <2>2, <2>3, <2>5
  <2> QED
    BY <1>7, <2>4, <2>5, <2>6 DEF WriteLook, TypeOK, R
<1>8. ASSUME NEW h \in Helper, WriteTake(h) PROVE TypeOK'
  BY <1>8 DEF WriteTake, TypeOK
<1>9. ASSUME NEW h \in Helper, WriteClear(h) \/ WriteLen(h) PROVE TypeOK'
  BY <1>9 DEF WriteClear, WriteLen, TypeOK
<1>10. ASSUME NEW h \in Helper, WriteBuf(h) PROVE TypeOK'
  <2> DEFINE R == [at : {"idle", "run", "open", "took", "clear", "len", "buf"},
                   kind : Kind \cup {None}, took : Kind \cup {None}, writes : 0..MaxWrites]
             new == [helper[h] EXCEPT !.at = "open", !.took = None]
  <2>1. helper[h] \in R /\ helper \in [Helper -> R] /\ helper[h].kind \in Kind
    BY <1>10 DEF WriteBuf, TypeOK
  <2>2. helper' = [helper EXCEPT ![h] = new]
    BY <1>10, <2>1, Zenon DEF WriteBuf
  <2>3. new \in R /\ new.at = "open" /\ new.kind \in Kind
    BY <2>1, Zenon
  <2> HIDE DEF new, R
  <2>4. helper' \in [Helper -> R] /\ helper'[h] = new /\ \A g \in Helper \ {h} : helper'[g] = helper[g]
    BY <2>1, <2>2, <2>3
  <2> QED
    BY <1>10, <2>3, <2>4 DEF WriteBuf, TypeOK, R
<1>11. ASSUME NEW h \in Helper, poise_release(h) PROVE TypeOK'
  BY <1>11 DEF poise_release, TypeOK, Idle
<1>12. CASE poise_rs_exit
  BY <1>12, Zenon DEF poise_rs_exit, TypeOK
<1>13. CASE UNCHANGED vars
  BY <1>13 DEF vars, TypeOK
<1> QED
  BY <1>1, <1>2, <1>3, <1>4, <1>5, <1>6, <1>7, <1>8, <1>9, <1>10, <1>11, <1>12, <1>13
     DEF Next, Collect, HelperStep, Write

\* A request is only made by the thread and the thread only leaves it when it
\* was answered, or when the module stops.
LEMMA OwnedStep == HandshakeInv /\ [Next]_vars => RequestOwned'
<1> SUFFICES ASSUME TypeOK, RequestOwned, [Next]_vars PROVE RequestOwned'
  BY DEF HandshakeInv
<1>1. CASE Request
  BY <1>1 DEF Request, RequestOwned
<1>2. ASSUME NEW h \in Helper, StartHelper(h) PROVE RequestOwned'
  BY <1>2 DEF StartHelper, RequestOwned
<1>3. CASE HelperFails
  BY <1>3 DEF HelperFails, RequestOwned
<1>4. CASE EndWait
  BY <1>4 DEF EndWait, WaitOver, RequestOwned
<1>5. CASE EndSleep
  BY <1>5 DEF EndSleep, RequestOwned
<1>6. ASSUME NEW h \in Helper, HelperStep(h) PROVE RequestOwned'
  BY <1>6, Zenon DEF HelperStep, Write, poise_open, WriteLook, WriteTake, WriteClear, WriteLen,
              WriteBuf, poise_release, RequestOwned
<1>7. CASE poise_rs_exit
  BY <1>7 DEF poise_rs_exit, RequestOwned
<1>8. CASE UNCHANGED vars
  BY <1>8 DEF vars, RequestOwned
<1> QED
  BY <1>1, <1>2, <1>3, <1>4, <1>5, <1>6, <1>7, <1>8 DEF Next, Collect

\* For any number of helpers running at once and of writes each makes, the
\* collector's and the device's state keep their types.
THEOREM CollectorTyped == Spec => []TypeOK
<1>1. Init => TypeOK
  BY HandshakeInitially DEF HandshakeInv
<1> QED
  BY <1>1, TypeStep, PTL DEF Spec

\* For any number of helpers, late or not, and whether or not they can be
\* started, a request pending in syn_msg is the one thread_fn waits for.
THEOREM RequestsOwned == Spec => []RequestOwned
<1>1. HandshakeInv /\ [Next]_vars => HandshakeInv'
  BY TypeStep, OwnedStep DEF HandshakeInv
<1>2. HandshakeInv => RequestOwned
  BY DEF HandshakeInv
<1> QED
  BY <1>1, <1>2, HandshakeInitially, PTL DEF Spec

-----------------------------------------------------------------------------
\* The collector runs beside the reply thread as it does alone: every step of
\* the composition is a step of the collector or leaves its state alone.
THEOREM ReplyLeavesCollector == ReplySpec => Spec
<1>1. ReplyInit => Init
  BY DEF ReplyInit
<1>2. [ReplyNext]_all_vars => [Next]_vars
  <2> SUFFICES ASSUME [ReplyNext]_all_vars PROVE [Next]_vars
    OBVIOUS
  <2>1. CASE CollectorSide
    BY <2>1, Zenon DEF CollectorSide, OtherStep, FillRecord, Next, HelperStep, Write
  <2>2. CASE poise_exit_module
    BY <2>2, Zenon DEF poise_exit_module, Next
  <2>3. CASE Reply
    BY <2>3, Zenon DEF Reply, EncodeCheck, EncodeLen, EncodeBuf, SockCreate, Connect,
                       SendReceive, EndPeriod
  <2>4. CASE UNCHANGED all_vars
    BY <2>4, Zenon DEF all_vars
  <2> QED
    BY <2>1, <2>2, <2>3, <2>4, Zenon DEF ReplyNext
<1> QED
  BY <1>1, <1>2, PTL DEF ReplySpec, Spec

\* Whichever calls of poise_reply_server fail, and whatever the collector does
\* meanwhile, a socket is open only while it is being connected or used.
THEOREM SocketsReleased == ReplySpec => []NoSocketLeft
<1>1. ReplyInit => NoSocketLeft
  BY DEF ReplyInit, NoSocketLeft
<1>2. NoSocketLeft /\ [ReplyNext]_all_vars => NoSocketLeft'
  <2> SUFFICES ASSUME NoSocketLeft, [ReplyNext]_all_vars PROVE NoSocketLeft'
    OBVIOUS
  <2>1. CASE CollectorSide \/ poise_exit_module \/ UNCHANGED all_vars
    BY <2>1 DEF CollectorSide, poise_exit_module, reply_vars, all_vars, NoSocketLeft
  <2>2. CASE EncodeCheck \/ EncodeLen \/ EncodeBuf
    BY <2>2 DEF EncodeCheck, EncodeLen, EncodeBuf, NoSocketLeft
  <2>3. CASE SockCreate
    BY <2>3 DEF SockCreate, Err, NoSocketLeft
  <2>4. CASE Connect \/ SendReceive
    BY <2>4 DEF Connect, SendReceive, Err, NoSocketLeft
  <2>5. CASE EndPeriod
    BY <2>5 DEF EndPeriod, NoSocketLeft
  <2> QED
    BY <2>1, <2>2, <2>3, <2>4, <2>5, Zenon DEF ReplyNext, Reply
<1> QED
  BY <1>1, <1>2, PTL DEF ReplySpec

-----------------------------------------------------------------------------
(***************************************************************************)
(* The transmit hook.                                                      *)
(***************************************************************************)
\* What was sent is all copies of a segment with room for the option, or the
\* first of two.
TxIInv ==
    /\ skb \in Segments
    /\ verdict = "none" => out = <<>>
    /\ verdict = "NF_STOLEN" => HasRoom(skb) /\ out = Copies(skb)
    /\ verdict # "NF_STOLEN" =>
          \/ out = <<>>
          \/ HasRoom(skb) /\ TooLong(skb) /\ out = <<Halves(skb)[1]>>

\* What the assumption on segments says of the fields.
LEMMA SegmentFields ==
    ASSUME NEW s \in Segments
    PROVE  /\ s.ihl \in Nat /\ s.doff \in Nat /\ s.psize \in Nat
           /\ s.ihl <= 60 /\ s.doff <= 60
           /\ s.seq \in 0..SEQMOD - 1 /\ SEQMOD \in Nat \ {0}
           /\ s.ihl + s.doff + s.psize < 65536
  BY SegmentAssumption DEF Segment, tot_len

\* A number of 16 bits is not changed by truncation to them.
LEMMA FitsIn16Bits ==
    ASSUME NEW x \in Nat, x < 65536
    PROVE  x % 65536 = x
  OBVIOUS

\* A part of the payload with the option is not longer than the segment.
LEMMA PartFits ==
    ASSUME NEW h \in Nat, NEW d \in Nat, NEW p \in Nat, NEW n \in Nat, n + 16 <= p
    PROVE  /\ h + d + p < 65536 => h + d + n + 16 < 65536
           /\ h + d + p <= 1500 => h + d + n + 16 <= 1500
  OBVIOUS

\* The length of a copy of n of p bytes, as the code computes it.
LEMMA TrimmedLength ==
    ASSUME NEW h \in Nat, NEW d \in Nat, NEW p \in Nat, NEW n \in Nat, n <= p
    PROVE  /\ h + d + n + 16 \in Nat
           /\ h + d + p + 16 - (IF p - n > 0 THEN p - n ELSE 0) = h + d + n + 16
           /\ h + d + p - (IF p - n > 0 THEN p - n ELSE 0) + 16 = h + d + n + 16
           /\ h + d + n + 16 = h + (d + 16) + n
  OBVIOUS

\* Making a copy of n bytes from offset k on, when the fields do not overflow.
LEMMA CopyFields ==
    ASSUME NEW s \in Segments, HasRoom(s), NEW k \in Nat, NEW n \in Nat,
           k + n <= s.psize, k > 0 => n > 0, s.ihl + s.doff + n + 16 < 65536
    PROVE  LET c == create_cxt_skb(s, k, n)
           IN  /\ c.from = k /\ c.dlen = n /\ c.doff = s.doff + 16
               /\ c.seq = IF k > 0 THEN (s.seq + k) % SEQMOD ELSE s.seq
               /\ c.tot_len = s.ihl + s.doff + n + 16
               /\ c.skb_len = c.tot_len
  <1>1. /\ s.ihl \in Nat /\ s.doff \in Nat /\ s.psize \in Nat
        /\ s.doff <= 44
    BY SegmentFields DEF HasRoom, cxt_head_len, MAX_TCP_HDR
  <1>0. n <= s.psize
    BY <1>1
  <1>2. (s.doff + 16) % 64 = s.doff + 16
    BY <1>1
  <1>3. (s.ihl + s.doff + n + 16) % 65536 = s.ihl + s.doff + n + 16
    <2>1. s.ihl + s.doff + n + 16 \in Nat
      BY <1>1, <1>0, TrimmedLength
    <2> QED
      BY <2>1, FitsIn16Bits
  <1>4. /\ create_cxt_skb(s, k, n).from = k
        /\ create_cxt_skb(s, k, n).dlen = n
        /\ create_cxt_skb(s, k, n).doff = s.doff + 16
        /\ create_cxt_skb(s, k, n).seq = IF k > 0 THEN (s.seq + k) % SEQMOD ELSE s.seq
    BY <1>1, <1>2 DEF create_cxt_skb, cxt_head_len
  <1>5. /\ tot_len(s) + 16 - (IF s.psize - n > 0 THEN s.psize - n ELSE 0) = s.ihl + s.doff + n + 16
        /\ tot_len(s) - (IF s.psize - n > 0 THEN s.psize - n ELSE 0) + 16 = s.ihl + s.doff + n + 16
    BY <1>1, <1>0, TrimmedLength DEF tot_len
  <1>6. /\ create_cxt_skb(s, k, n).tot_len = s.ihl + s.doff + n + 16
        /\ create_cxt_skb(s, k, n).skb_len = s.ihl + s.doff + n + 16
    BY <1>3, <1>5 DEF create_cxt_skb, cxt_head_len
  <1> QED
    BY <1>4, <1>6

\* The two copies of a segment that is too long.
LEMMA HalvesFields ==
    ASSUME NEW s \in Segments, HasRoom(s), TooLong(s)
    PROVE  \E half \in Nat :
              /\ half > 0 /\ half <= s.psize /\ s.psize - half \in Nat
              /\ Halves(s) = <<create_cxt_skb(s, 0, half), create_cxt_skb(s, half, s.psize - half)>>
              /\ Halves(s)[1].from = 0 /\ Halves(s)[1].dlen = half
              /\ Halves(s)[1].seq = s.seq
              /\ Halves(s)[1].doff = s.doff + 16
              /\ Halves(s)[1].tot_len = s.ihl + s.doff + half + 16
              /\ Halves(s)[1].skb_len = Halves(s)[1].tot_len
              /\ Halves(s)[2].from = half /\ Halves(s)[2].dlen = s.psize - half
              /\ Halves(s)[2].seq = (s.seq + half) % SEQMOD
              /\ Halves(s)[2].doff = s.doff + 16
              /\ Halves(s)[2].tot_len = s.ihl + s.doff + (s.psize - half) + 16
              /\ Halves(s)[2].skb_len = Halves(s)[2].tot_len
              /\ half >= 16 /\ s.psize - half >= 16
  <1> DEFINE half == s.psize \div 2
  <1>1. /\ s.ihl \in Nat /\ s.doff \in Nat /\ s.psize \in Nat
        /\ s.ihl <= 60 /\ s.doff <= 60
        /\ s.ihl + s.doff + s.psize < 65536
    BY SegmentFields
  <1>2. s.psize >= 1000
    BY <1>1 DEF TooLong, tot_len, MTU, cxt_head_len
  <1>3. /\ half \in Nat /\ half >= 16 /\ s.psize - half >= 16
        /\ s.psize - half \in Nat
    BY <1>1, <1>2
  <1>4. Halves(s) = <<create_cxt_skb(s, 0, half), create_cxt_skb(s, half, s.psize - half)>>
    BY DEF Halves
  <1> HIDE DEF half
  <1>5. /\ create_cxt_skb(s, 0, half).from = 0
        /\ create_cxt_skb(s, 0, half).dlen = half
        /\ create_cxt_skb(s, 0, half).seq = s.seq
        /\ create_cxt_skb(s, 0, half).doff = s.doff + 16
        /\ create_cxt_skb(s, 0, half).tot_len = s.ihl + s.doff + half + 16
        /\ create_cxt_skb(s, 0, half).skb_len = create_cxt_skb(s, 0, half).tot_len
    <2>1. half + 16 <= s.psize /\ 0 + half <= s.psize
      BY <1>1, <1>3
    <2>3. s.ihl + s.doff + half + 16 < 65536
      BY <1>1, <1>3, <2>1, PartFits
    <2> QED
      BY <1>3, <2>1, <2>3, CopyFields
  <1>6. /\ create_cxt_skb(s, half, s.psize - half).from = half
        /\ create_cxt_skb(s, half, s.psize - half).dlen = s.psize - half
        /\ create_cxt_skb(s, half, s.psize - half).seq = (s.seq + half) % SEQMOD
        /\ create_cxt_skb(s, half, s.psize - half).doff = s.doff + 16
        /\ create_cxt_skb(s, half, s.psize - half).tot_len = s.ihl + s.doff + (s.psize - half) + 16
        /\ create_cxt_skb(s, half, s.psize - half).skb_len = create_cxt_skb(s, half, s.psize - half).tot_len
    <2> DEFINE rest == s.psize - half
    <2>1. rest \in Nat /\ rest > 0 /\ half > 0 /\ rest + 16 <= s.psize /\ half + rest <= s.psize
      BY <1>1, <1>3
    <2> HIDE DEF rest
    <2>3. s.ihl + s.doff + rest + 16 < 65536
      BY <1>1, <2>1, PartFits
    <2>4. /\ create_cxt_skb(s, half, rest).from = half
          /\ create_cxt_skb(s, half, rest).dlen = rest
          /\ create_cxt_skb(s, half, rest).seq = (s.seq + half) % SEQMOD
          /\ create_cxt_skb(s, half, rest).doff = s.doff + 16
          /\ create_cxt_skb(s, half, rest).tot_len = s.ihl + s.doff + rest + 16
          /\ create_cxt_skb(s, half, rest).skb_len = create_cxt_skb(s, half, rest).tot_len
      BY <1>3, <2>1, <2>3, CopyFields
    <2> QED
      BY <2>4 DEF rest
  <1>7. /\ Halves(s)[1] = create_cxt_skb(s, 0, half)
        /\ Halves(s)[2] = create_cxt_skb(s, half, s.psize - half)
    BY <1>4
  <1>8. half > 0 /\ half <= s.psize
    BY <1>1, <1>3
  <1> QED
    BY <1>3, <1>4, <1>5, <1>6, <1>7, <1>8

\* The single copy of a segment that is not.
LEMMA SingleFields ==
    ASSUME NEW s \in Segments, HasRoom(s), ~TooLong(s)
    PROVE  LET c == create_cxt_skb(s, 0, s.psize)
           IN  /\ Copies(s) = <<c>>
               /\ c.from = 0 /\ c.dlen = s.psize /\ c.seq = s.seq
               /\ c.doff = s.doff + 16
               /\ c.tot_len = s.ihl + s.doff + s.psize + 16
               /\ c.skb_len = c.tot_len /\ c.tot_len <= MTU
  <1>1. /\ s.ihl \in Nat /\ s.doff \in Nat /\ s.psize \in Nat
    BY SegmentFields
  <1>2. s.ihl + s.doff + s.psize + 16 <= 1500 /\ 0 + s.psize <= s.psize
    BY <1>1 DEF TooLong, tot_len, MTU, cxt_head_len
  <1>3. s.ihl + s.doff + s.psize + 16 < 65536
    BY <1>1, <1>2
  <1>4. Copies(s) = <<create_cxt_skb(s, 0, s.psize)>>
    BY DEF Copies
  <1>5. LET c == create_cxt_skb(s, 0, s.psize)
        IN  /\ c.from = 0 /\ c.dlen = s.psize /\ c.doff = s.doff + 16
            /\ c.seq = s.seq
            /\ c.tot_len = s.ihl + s.doff + s.psize + 16
            /\ c.skb_len = c.tot_len
    BY <1>1, <1>2, <1>3, CopyFields
  <1> QED
    BY <1>2, <1>4, <1>5 DEF MTU

\* The proper prefixes of a pair.
LEMMA FirstOfTwo ==
    ASSUME NEW a, NEW b
    PROVE  SubSeq(<<a, b>>, 1, 0) = <<>> /\ SubSeq(<<a, b>>, 1, 1) = <<a>>
  <1>1. SubSeq(<<a, b>>, 1, 0) = <<>>
    BY SubSeqEmpty
  <1>2. <<a, b>> \in Seq({a, b}) /\ Len(<<a, b>>) = 2 /\ <<a, b>>[1] = a
    OBVIOUS
  <1>3. SubSeq(<<a, b>>, 1, 1) = SubSeq(<<a, b>>, 1, 0) \o <<a>>
    <2>1. 1 \in 1 .. Len(<<a, b>>) /\ 1 \in 1 .. Len(<<a, b>>) /\ 1 - 1 = 0
      BY <1>2
    <2> QED
      BY <1>2, <2>1, SubSeqRecursiveSecond
  <1>4. <<>> \o <<a>> = <<a>>
    <2>1. <<a>> \in Seq({a})
      OBVIOUS
    <2> QED
      BY <2>1, ConcatEmptySeq
  <1> QED
    BY <1>1, <1>3, <1>4, Zenon

\* TxIInv is inductive.
LEMMA TxInvariance == TxSpec => []TxIInv
  <1>1. TxInit => TxIInv
    BY DEF TxInit, TxIInv
  <1>2. TxIInv /\ [TxNext]_tx_vars => TxIInv'
    <2> SUFFICES ASSUME TxIInv, [TxNext]_tx_vars PROVE TxIInv'
      OBVIOUS
    <2>1. CASE Accept
      BY <2>1 DEF Accept, TxIInv
    <2>2. CASE Steal
      BY <2>2 DEF Steal, Parsed, TxIInv
    <2>3. CASE CopyFails
      <3>1. HasRoom(skb) /\ skb' = skb /\ verdict' = "oops" /\ skb \in Segments
        BY <2>3 DEF CopyFails, Parsed, TxIInv
      <3>2. CASE TooLong(skb)
        <4>1. Copies(skb) = Halves(skb) /\ DOMAIN Halves(skb) = 1..2
          BY <3>2 DEF Copies, Halves
        <4>2. PICK i \in 1..2 : out' = SubSeq(Halves(skb), 1, i - 1)
          BY <2>3, <4>1 DEF CopyFails
        <4>3. out' = <<>> \/ out' = <<Halves(skb)[1]>>
          <5> DEFINE a == create_cxt_skb(skb, 0, skb.psize \div 2)
                     b == create_cxt_skb(skb, skb.psize \div 2, skb.psize - skb.psize \div 2)
          <5>1. Halves(skb) = <<a, b>>
            BY DEF Halves
          <5> HIDE DEF a, b
          <5>2. SubSeq(<<a, b>>, 1, 0) = <<>> /\ SubSeq(<<a, b>>, 1, 1) = <<a>>
            BY FirstOfTwo
          <5>3. i - 1 = 0 \/ i - 1 = 1
            OBVIOUS
          <5> QED
            BY <4>2, <5>1, <5>2, <5>3
        <4> QED
          BY <3>1, <3>2, <4>3 DEF TxIInv
      <3>3. CASE ~TooLong(skb)
        <4> DEFINE c == create_cxt_skb(skb, 0, skb.psize)
        <4>1. Copies(skb) = <<c>>
          BY <3>3 DEF Copies
        <4> HIDE DEF c
        <4>2. out' = SubSeq(<<c>>, 1, 0)
          BY <2>3, <4>1 DEF CopyFails
        <4>3. SubSeq(<<c>>, 1, 0) = <<>>
          OBVIOUS
        <4> QED
          BY <3>1, <4>2, <4>3 DEF TxIInv
      <3> QED
        BY <3>2, <3>3
    <2>4. CASE PutPanics
      BY <2>4 DEF PutPanics, Parsed, TxIInv
    <2>5. CASE UNCHANGED tx_vars
      BY <2>5 DEF tx_vars, TxIInv
    <2> QED
      BY <2>1, <2>2, <2>3, <2>4, <2>5 DEF TxNext
  <1> QED
    BY <1>1, <1>2, PTL DEF TxSpec

-----------------------------------------------------------------------------
\* For every segment, the copies create_cxt_skb makes for parse_tx_skb hold
\* the whole payload once, in order and at the right sequence numbers.
THEOREM StreamAlwaysPreserved == TxSpec => []StreamPreserved
  <1>1. TxIInv => StreamPreserved
    <2> SUFFICES ASSUME TxIInv, verdict = "NF_STOLEN"
                 PROVE  /\ out[1].from = 0 /\ out[1].seq = skb.seq
                        /\ out[Len(out)].from + out[Len(out)].dlen = skb.psize
                        /\ \A i \in 2 .. Len(out) :
                              /\ out[i].from = out[i - 1].from + out[i - 1].dlen
                              /\ out[i].seq = (out[i - 1].seq + out[i - 1].dlen) % SEQMOD
      BY DEF StreamPreserved
    <2>1. skb \in Segments /\ HasRoom(skb) /\ out = Copies(skb) /\ skb.psize \in Nat
      BY SegmentFields DEF TxIInv
    <2>2. CASE TooLong(skb)
      <3>1. out = Halves(skb) /\ Len(out) = 2
        BY <2>1, <2>2 DEF Copies, Halves
      <3>2. PICK half \in Nat :
              /\ out[1].from = 0 /\ out[1].dlen = half /\ out[1].seq = skb.seq
              /\ out[2].from = half /\ out[2].dlen = skb.psize - half
              /\ out[2].seq = (skb.seq + half) % SEQMOD
        BY <2>1, <2>2, <3>1, HalvesFields
      <3>3. ASSUME NEW i \in 2 .. Len(out) PROVE i = 2 /\ i - 1 = 1
        BY <3>1
      <3>4. half + (skb.psize - half) = skb.psize /\ 0 + half = half
        BY <2>1
      <3> QED
        BY <3>1, <3>2, <3>3, <3>4
    <2>3. CASE ~TooLong(skb)
      <3>1. /\ Len(out) = 1 /\ out[1].from = 0 /\ out[1].dlen = skb.psize
            /\ out[1].seq = skb.seq
        BY <2>1, <2>3, SingleFields
      <3>2. 2 .. 1 = {} /\ 0 + skb.psize = skb.psize
        BY <2>1
      <3> QED
        BY <3>1, <3>2
    <2> QED
      BY <2>2, <2>3
  <1> QED
    BY <1>1, TxInvariance, PTL

\* What is sent is one or two copies, with the lengths the lemmas give.
LEMMA OutFields ==
    ASSUME TxIInv, NEW i \in DOMAIN out
    PROVE  /\ out[i].dlen \in Nat
           /\ out[i].doff = skb.doff + 16
           /\ out[i].tot_len = skb.ihl + skb.doff + out[i].dlen + 16
           /\ out[i].skb_len = out[i].tot_len
           /\ out[i].tot_len <= MTU \/ out[i].dlen + 16 <= skb.psize
  <1>1. skb \in Segments /\ skb.psize \in Nat
    BY SegmentFields DEF TxIInv
  <1>2. out # <<>>
    OBVIOUS
  <1>3. HasRoom(skb)
    BY <1>2 DEF TxIInv
  <1>4. CASE TooLong(skb)
    <2>1. out = Halves(skb) \/ out = <<Halves(skb)[1]>>
      BY <1>2, <1>4 DEF TxIInv, Copies
    <2>2. DOMAIN Halves(skb) = 1..2
      BY DEF Halves
    <2>3. i \in 1..2 /\ out[i] = Halves(skb)[i]
      BY <2>1, <2>2
    <2>4. PICK half \in Nat :
            /\ skb.psize - half \in Nat
            /\ Halves(skb)[1].dlen = half
            /\ Halves(skb)[1].doff = skb.doff + 16
            /\ Halves(skb)[1].tot_len = skb.ihl + skb.doff + half + 16
            /\ Halves(skb)[1].skb_len = Halves(skb)[1].tot_len
            /\ Halves(skb)[2].dlen = skb.psize - half
            /\ Halves(skb)[2].doff = skb.doff + 16
            /\ Halves(skb)[2].tot_len = skb.ihl + skb.doff + (skb.psize - half) + 16
            /\ Halves(skb)[2].skb_len = Halves(skb)[2].tot_len
            /\ half >= 16 /\ skb.psize - half >= 16
      BY <1>1, <1>3, <1>4, HalvesFields
    <2>5. half + 16 <= skb.psize /\ (skb.psize - half) + 16 <= skb.psize
      BY <1>1, <2>4
    <2>6. CASE i = 1
      BY <2>3, <2>4, <2>5, <2>6
    <2>7. CASE i = 2
      BY <2>3, <2>4, <2>5, <2>7
    <2> QED
      BY <2>3, <2>6, <2>7
  <1>5. CASE ~TooLong(skb)
    <2>1. out = Copies(skb)
      BY <1>2, <1>5 DEF TxIInv
    <2>2. out = <<create_cxt_skb(skb, 0, skb.psize)>> /\ i = 1
      BY <2>1, <1>1, <1>3, <1>5, SingleFields
    <2> QED
      BY <1>1, <1>3, <1>5, <2>2, SingleFields
  <1> QED
    BY <1>4, <1>5

\* For every segment the length fields of each copy, in the 4 and 16 bits they
\* have, agree with what the copy holds.
THEOREM LengthsAlwaysAgree == TxSpec => []LengthsAgree
  <1>1. TxIInv => LengthsAgree
    <2> SUFFICES ASSUME TxIInv, NEW i \in DOMAIN out
                 PROVE  /\ out[i].tot_len = skb.ihl + out[i].doff + out[i].dlen
                        /\ out[i].skb_len = out[i].tot_len
      BY DEF LengthsAgree
    <2>1. skb.ihl \in Nat /\ skb.doff \in Nat
      BY SegmentFields DEF TxIInv
    <2>2. /\ out[i].dlen \in Nat /\ out[i].doff = skb.doff + 16
          /\ out[i].tot_len = skb.ihl + skb.doff + out[i].dlen + 16
          /\ out[i].skb_len = out[i].tot_len
      BY OutFields
    <2>3. skb.ihl + skb.doff + out[i].dlen + 16 = skb.ihl + (skb.doff + 16) + out[i].dlen
      BY <2>1, <2>2, TrimmedLength
    <2> QED
      BY <2>2, <2>3
  <1> QED
    BY <1>1, TxInvariance, PTL

\* For every segment within the MTU, the copies with the option are too.
THEOREM CopiesAlwaysFit == TxSpec => []CopiesFit
  <1>1. TxIInv => CopiesFit
    <2> SUFFICES ASSUME TxIInv, tot_len(skb) <= MTU, NEW i \in DOMAIN out
                 PROVE  out[i].tot_len <= MTU
      BY DEF CopiesFit
    <2>1. skb.ihl \in Nat /\ skb.doff \in Nat /\ skb.psize \in Nat
      BY SegmentFields DEF TxIInv
    <2>2. skb.ihl + skb.doff + skb.psize <= 1500
      BY DEF tot_len, MTU
    <2>3. /\ out[i].dlen \in Nat
          /\ out[i].tot_len = skb.ihl + skb.doff + out[i].dlen + 16
          /\ out[i].tot_len <= 1500 \/ out[i].dlen + 16 <= skb.psize
      BY OutFields DEF MTU
    <2>5. CASE out[i].dlen + 16 <= skb.psize
      <3>1. skb.ihl + skb.doff + out[i].dlen + 16 <= 1500
        BY <2>1, <2>2, <2>3, <2>5, PartFits
      <3> QED
        BY <2>3, <3>1 DEF MTU
    <2> QED
      BY <2>3, <2>5 DEF MTU
  <1> QED
    BY <1>1, TxInvariance, PTL

-----------------------------------------------------------------------------
(***************************************************************************)
(* Loading and unloading.                                                  *)
(***************************************************************************)
LifeTypeOK ==
    /\ pc \in {"unloaded", "register_chrdev", "class_create", "device_create", "read", "reply", "nf_init",
               "lsm_init", "loaded", "nf_exit", "lsm_exit", "stop_reply", "stop_read", "fs_fini", "wait",
               "crashed"}
    /\ registered \subseteq Device \cup {"hook", "lsm"}
    /\ hook_op \in {"NULL", "allocated", "freed"}
    /\ thread \in [Thread -> {"none", "round", "asleep", "ended"}]
    /\ timer \in [Sleeper -> Nat]

(***************************************************************************)
(* What is set up at each step, and why something is not.                  *)
(***************************************************************************)
Building == {"register_chrdev", "class_create", "device_create", "read", "reply", "nf_init"}
Loaded   == {"lsm_init", "loaded", "nf_exit"}
Absent   == registered \cap Device = {}
Whole    == Device \subseteq registered

Staged ==
    /\ pc \in {"unloaded", "crashed", "register_chrdev"} => registered = {}
    /\ pc = "class_create" => registered = {"chrdev"}
    /\ pc = "device_create" => registered = {"chrdev", "class"}
    /\ pc \in {"read", "reply", "nf_init"} => registered = Device
    /\ pc \in Loaded \cup {"lsm_exit", "stop_reply", "stop_read", "fs_fini"} =>
           \/ Whole /\ ~DBG_LSM
           \/ Absent /\ (DBG_LSM \/ Failed(FsCalls))
    /\ pc = "wait" => Absent
    /\ DBG_LSM => /\ pc \in {"unloaded", "crashed", "lsm_init", "loaded", "lsm_exit"}
                  /\ go = {} /\ \A t \in Thread : thread[t] = "none"
    /\ pc \in Building => hook_op = "NULL"
    /\ pc \in Loaded /\ Absent => hook_op = "NULL" /\ \A t \in Thread : thread[t] = "none"
    /\ pc \in Loaded => hook_op # "freed"
    /\ hook_op = "NULL" => "hook" \notin registered
    /\ pc \in Loaded /\ hook_op = "allocated" => "hook" \in registered \/ Failed({"nf_register_hook"})
    /\ pc \notin Loaded => "hook" \notin registered
    /\ pc \notin {"loaded", "nf_exit", "lsm_exit"} => "lsm" \notin registered
    /\ pc \in {"loaded", "nf_exit", "lsm_exit"} =>
           "lsm" \in registered \/ Failed(Cause["cus_unregister_security"])
    /\ pc \in {"register_chrdev", "class_create", "device_create", "read"} =>
           \A t \in Thread : thread[t] = "none"

\* When a thread has been told to stop.
Stopped == [reply |-> {"stop_read", "fs_fini", "wait", "unloaded", "crashed"},
            read  |-> {"fs_fini", "wait", "unloaded", "crashed"}]

TimedAt(t) ==
    /\ timer[t] <= Period(t)
    /\ pc \in Stopped[t] => t \notin go /\ (thread[t] = "round" => t \in busy)
    /\ thread[t] = "asleep" /\ t \notin busy /\ Period(t) <= ms_period =>
           /\ pc = "wait" => timer[t] <= timer["exit"]
           /\ pc = "unloaded" => timer[t] = 0

Timed == \A t \in Thread : TimedAt(t)

CallsStaged ==
    /\ wrong \subseteq DOMAIN Cause \cup {"class_destroy"}
    /\ RemovesWhatIsThere
    /\ pc \in Building \cup Loaded => wrong = {}

-----------------------------------------------------------------------------
\* Setting one sleeper's timer leaves a function of timers.
LEMMA SetTimer ==
  ASSUME timer \in [Sleeper -> Nat], NEW s, NEW d \in Nat
  PROVE  [timer EXCEPT ![s] = d] \in [Sleeper -> Nat]
BY Zenon

\* Every variable of the module's life keeps its type.
LEMMA Typed == LifeSpec => []LifeTypeOK
<1>1. LifeInit => LifeTypeOK
  BY DEF LifeInit, LifeTypeOK, Thread, Sleeper, Device
<1>2. LifeTypeOK /\ [LifeNext]_life_vars => LifeTypeOK'
  <2> SUFFICES ASSUME LifeTypeOK, [LifeNext]_life_vars PROVE LifeTypeOK'
    OBVIOUS
  <2> USE DEF LifeTypeOK, Thread, Sleeper, Device, thread_vars, call_vars
  <2>1. CASE Insmod
    BY <2>1 DEF Insmod
  <2>2. CASE InitModule
    <3>1. CASE register_chrdev \/ class_create \/ device_create
      BY <3>1, Zenon DEF register_chrdev, class_create, device_create, FsFails, UndoClass
    <3>2. CASE kthread_create("read", "reply") \/ kthread_create("reply", "nf_init")
      BY <3>2, Zenon DEF kthread_create
    <3>3. CASE poise_nf_init \/ poise_lsm_init
      BY <3>3, Zenon DEF poise_nf_init, poise_lsm_init
    <3> QED
      BY <2>2, <3>1, <3>2, <3>3 DEF InitModule
  <2>3. CASE Rmmod
    BY <2>3 DEF Rmmod
  <2>4. CASE ExitModule
    <3>1. CASE poise_nf_exit \/ poise_lsm_exit
      BY <3>1, Zenon DEF poise_nf_exit, poise_lsm_exit
    <3>2. CASE StopReply \/ StopRead
      BY <3>2, Zenon DEF StopReply, StopRead, Stop
    <3>3. CASE poise_fs_fini
      <4>1. timer' \in [Sleeper -> Nat]
        BY <3>3, Periods, SetTimer DEF poise_fs_fini, Wait
      <4>2. registered' \subseteq Device \cup {"hook", "lsm"}
        BY <3>3, Zenon DEF poise_fs_fini
      <4> QED
        BY <3>3, <4>1, <4>2 DEF poise_fs_fini
    <3>4. CASE Unload
      BY <3>4 DEF Unload
    <3> QED
      BY <2>4, <3>1, <3>2, <3>3, <3>4 DEF ExitModule
  <2>5. CASE Tick
    <3>1. \A s \in Sleeper : (IF timer[s] > 0 THEN timer[s] - 1 ELSE 0) \in Nat
      OBVIOUS
    <3> QED
      BY <2>5, <3>1 DEF Tick
  <2>6. ASSUME NEW t \in Thread, Run(t) PROVE LifeTypeOK'
    <3>1. Period(t) \in Nat
      BY Periods DEF Period
    <3>2. CASE EndRound(t)
      <4>1. timer' \in [Sleeper -> Nat]
        BY <2>6, <3>1, <3>2, SetTimer DEF EndRound
      <4>2. thread' \in [Thread -> {"none", "round", "asleep", "ended"}]
        BY <2>6, <3>2 DEF EndRound
      <4> QED
        BY <3>2, <4>1, <4>2 DEF EndRound
    <3>3. CASE Wake(t)
      <4>1. thread' \in [Thread -> {"none", "round", "asleep", "ended"}]
        BY <2>6, <3>3 DEF Wake
      <4> QED
        BY <3>3, <4>1 DEF Wake
    <3>4. CASE Crash(t)
      BY <3>4 DEF Crash
    <3> QED
      BY <2>6, <3>2, <3>3, <3>4 DEF Run
  <2>7. CASE UNCHANGED life_vars
    BY <2>7 DEF life_vars
  <2> QED
    BY <2>1, <2>2, <2>3, <2>4, <2>5, <2>6, <2>7 DEF LifeNext
<1> QED
  BY <1>1, <1>2, PTL DEF LifeSpec

\* No step of loading, unloading or a thread leaves the stage of poise_init_module
\* and poise_exit_module that Staged describes.
LEMMA StagedStep == LifeTypeOK /\ Staged /\ [LifeNext]_life_vars => Staged'
<1> SUFFICES ASSUME LifeTypeOK, Staged, [LifeNext]_life_vars PROVE Staged'
  OBVIOUS
<1> USE DEF LifeTypeOK, Staged, Thread, Device, thread_vars, call_vars, Building, Loaded, Absent, Whole, Failed,
            FsCalls, Cause
<1>1. CASE Insmod
  BY <1>1 DEF Insmod
<1>2. CASE register_chrdev
  BY <1>2, Zenon DEF register_chrdev, FsFails
<1>3. CASE class_create
  BY <1>3 DEF class_create, FsFails, UndoClass
<1>4. CASE device_create
  BY <1>4 DEF device_create, FsFails
<1>5. CASE kthread_create("read", "reply")
  BY <1>5 DEF kthread_create
<1>6. CASE kthread_create("reply", "nf_init")
  BY <1>6 DEF kthread_create
<1>7. CASE poise_nf_init
  BY <1>7 DEF poise_nf_init
<1>8. CASE poise_lsm_init
  BY <1>8 DEF poise_lsm_init
<1>9. CASE Rmmod
  BY <1>9 DEF Rmmod
<1>10. CASE poise_nf_exit
  BY <1>10 DEF poise_nf_exit, HasHook
<1>11. CASE poise_lsm_exit
  BY <1>11, SMTT(30) DEF poise_lsm_exit
<1>12. CASE StopReply \/ StopRead
  BY <1>12 DEF StopReply, StopRead, Stop
<1>13. CASE poise_fs_fini
  BY <1>13 DEF poise_fs_fini, FsRemoved
<1>14. CASE Unload
  BY <1>14 DEF Unload
<1>15. CASE Tick
  BY <1>15, SMTT(30) DEF Tick
<1>16. ASSUME NEW t \in Thread, EndRound(t) \/ Wake(t) PROVE Staged'
  BY <1>16 DEF EndRound, Wake
<1>17. ASSUME NEW t \in Thread, Crash(t) PROVE Staged'
  BY <1>17, SMTT(30) DEF Crash
<1>18. CASE UNCHANGED life_vars
  BY <1>18, SMTT(30) DEF life_vars
<1> QED
  BY <1>1, <1>2, <1>3, <1>4, <1>5, <1>6, <1>7, <1>8, <1>9, <1>10, <1>11, <1>12, <1>13, <1>14, <1>15, <1>16,
     <1>17, <1>18, Zenon DEF LifeNext, InitModule, ExitModule, Run

\* A call that removes what is not there is made only after a failure that
\* CallsStaged names.
LEMMA CallsStep == LifeTypeOK /\ Staged /\ CallsStaged /\ [LifeNext]_life_vars => CallsStaged'
<1> SUFFICES ASSUME LifeTypeOK, Staged, CallsStaged, [LifeNext]_life_vars PROVE CallsStaged'
  OBVIOUS
<1> USE DEF CallsStaged, RemovesWhatIsThere, Failed, thread_vars, call_vars, Building, Loaded
<1>1. CASE Insmod
  BY <1>1 DEF Insmod
<1>2. CASE register_chrdev \/ class_create \/ device_create
  BY <1>2 DEF register_chrdev, class_create, device_create, FsFails
<1>3. CASE kthread_create("read", "reply") \/ kthread_create("reply", "nf_init")
  BY <1>3 DEF kthread_create
<1>4. CASE poise_nf_init \/ poise_lsm_init
  BY <1>4 DEF poise_nf_init, poise_lsm_init
<1>5. CASE Rmmod
  BY <1>5 DEF Rmmod
<1>6. CASE poise_nf_exit
  BY <1>6 DEF poise_nf_exit, HasHook, Removes, Cause, Staged, LifeTypeOK
<1>7. CASE poise_lsm_exit
  BY <1>7 DEF poise_lsm_exit, Removes, Cause, Staged
<1>8. CASE StopReply \/ StopRead
  BY <1>8 DEF StopReply, StopRead, Stop
<1>9. CASE poise_fs_fini
  <2>1. Whole \/ Failed(FsCalls)
    BY <1>9 DEF poise_fs_fini, Staged
  <2> QED
    BY <1>9, <2>1 DEF poise_fs_fini, Removes, Cause, Whole, Device
<1>10. CASE Unload
  BY <1>10 DEF Unload
<1>11. CASE Tick
  BY <1>11 DEF Tick
<1>12. ASSUME NEW t \in Thread, Run(t) PROVE CallsStaged'
  BY <1>12, SMTT(30) DEF Run, EndRound, Wake, Crash
<1>13. CASE UNCHANGED life_vars
  BY <1>13 DEF life_vars
<1> QED
  BY <1>1, <1>2, <1>3, <1>4, <1>5, <1>6, <1>7, <1>8, <1>9, <1>10, <1>11, <1>12, <1>13
     DEF LifeNext, InitModule, ExitModule

\* Threads, their sleeps and the wait in poise_exit_module keep to Timed.
LEMMA TimedStep == LifeTypeOK /\ Staged /\ Timed /\ [LifeNext]_life_vars => Timed'
<1> SUFFICES ASSUME LifeTypeOK, Staged, Timed, [LifeNext]_life_vars, NEW u \in Thread PROVE TimedAt(u)'
  BY DEF Timed
<1>t. /\ timer[u] \in Nat /\ timer["exit"] \in Nat /\ u \in Sleeper /\ "exit" \in Sleeper /\ u # "exit"
      /\ thread[u] \in {"none", "round", "asleep", "ended"} /\ DOMAIN timer = Sleeper /\ DOMAIN thread = Thread
      /\ ms_period \in Nat /\ Period(u) \in Nat
  BY Periods DEF LifeTypeOK, Thread, Sleeper, Period
<1>i. TimedAt(u)
  BY DEF Timed
<1>s. u = "reply" \/ u = "read"
  BY DEF Thread
<1> USE DEF TimedAt, Period, Stopped, thread_vars, call_vars
<1>1. CASE Insmod
  BY <1>1, <1>t, <1>s DEF Insmod
<1>2. CASE register_chrdev \/ class_create \/ device_create
  BY <1>2, <1>i, <1>s DEF register_chrdev, class_create, device_create, FsFails
<1>3. CASE kthread_create("read", "reply") \/ kthread_create("reply", "nf_init")
  <2>1. pc' \in {"reply", "nf_init"} /\ timer' = timer
    BY <1>3, Zenon DEF kthread_create
  <2>2. timer[u] <= Period(u) /\ ~(pc' \in Stopped[u])
    BY <1>i, <1>s, <2>1
  <2> QED BY <2>1, <2>2
<1>4. CASE poise_nf_init \/ poise_lsm_init
  BY <1>4, <1>i, <1>s DEF poise_nf_init, poise_lsm_init
<1>5. CASE Rmmod
  BY <1>5, <1>i, <1>s DEF Rmmod
<1>6. CASE poise_nf_exit
  BY <1>6, <1>i, <1>s, SMTT(30) DEF poise_nf_exit
<1>7. CASE poise_lsm_exit
  BY <1>7, <1>i, <1>s, SMTT(30) DEF poise_lsm_exit, Staged
<1>8. CASE StopReply
  BY <1>8, <1>i, <1>s DEF StopReply, Stop
<1>9. CASE StopRead
  BY <1>9, <1>i, <1>s DEF StopRead, Stop
<1>10. CASE poise_fs_fini
  BY <1>10, <1>i, <1>s, <1>t DEF poise_fs_fini, Wait
<1>11. CASE Unload
  BY <1>11, <1>i, <1>s, <1>t DEF Unload
<1>12. CASE Tick
  BY <1>12, <1>i, <1>s, <1>t DEF Tick
<1>13. ASSUME NEW t \in Thread, EndRound(t) PROVE TimedAt(u)'
  <2>1. CASE t = u
    <3>1. timer'[u] = Period(u) /\ timer'["exit"] = timer["exit"] /\ thread[u] = "round" /\ thread'[u] = "asleep"
      BY <1>13, <2>1, <1>t DEF EndRound
    <3>2. pc \in Stopped[u] => u \in busy
      BY <1>i, <3>1
    <3> QED
      BY <1>13, <1>i, <1>s, <1>t, <3>1, <3>2 DEF EndRound
  <2>2. CASE t # u
    <3>1. timer'[u] = timer[u] /\ timer'["exit"] = timer["exit"] /\ thread'[u] = thread[u]
      BY <1>13, <2>2, <1>t DEF EndRound, Thread, Sleeper
    <3> QED
      BY <1>13, <1>i, <3>1 DEF EndRound
  <2> QED
    BY <2>1, <2>2
<1>14. ASSUME NEW t \in Thread, Wake(t) PROVE TimedAt(u)'
  BY <1>14, <1>i, <1>s, <1>t DEF Wake
<1>15. ASSUME NEW t \in Thread, Crash(t) PROVE TimedAt(u)'
  BY <1>15, <1>i, <1>s DEF Crash
<1>16. CASE UNCHANGED life_vars
  BY <1>16, <1>i DEF life_vars
<1> QED
  BY <1>1, <1>2, <1>3, <1>4, <1>5, <1>6, <1>7, <1>8, <1>9, <1>10, <1>11, <1>12, <1>13, <1>14, <1>15, <1>16, Zenon
     DEF LifeNext, InitModule, ExitModule, Run
-----------------------------------------------------------------------------
\* The inductive invariant holds in every reachable state of the module.
LEMMA Invariant == LifeSpec => [](LifeTypeOK /\ Staged /\ CallsStaged /\ Timed)
<1>1. LifeInit => Staged /\ CallsStaged /\ Timed
  BY Periods DEF LifeInit, Staged, CallsStaged, Timed, TimedAt, Thread, Sleeper, Device, Stopped, Period, Building,
                 Loaded, Absent, Whole, RemovesWhatIsThere
<1> QED
  BY <1>1, Typed, StagedStep, CallsStep, TimedStep, PTL DEF LifeSpec

\* However loading went, an unloaded module has nothing registered.
THEOREM UnloadRemovesAll == LifeSpec => []NothingLeft
<1>1. Staged => NothingLeft
  BY DEF Staged, NothingLeft
<1> QED
  BY <1>1, Invariant, PTL

\* A loaded module has all of its device, or neither device, threads nor hook.
THEOREM DeviceAllOrNothing == LifeSpec => []DeviceWhole
<1>1. LifeTypeOK /\ Staged => DeviceWhole
  BY DEF LifeTypeOK, Staged, DeviceWhole, Loaded, Whole, Absent, Device
<1> QED
  BY <1>1, Invariant, PTL

\* Apart from class_destroy, unloading makes no call on what is not there,
\* unless one of the calls failed that had to put it there.
THEOREM RemovalJustified == LifeSpec => []RemovesWhatIsThere
<1>1. CallsStaged => RemovesWhatIsThere
  BY DEF CallsStaged
<1> QED
  BY <1>1, Invariant, PTL

\* For all lengths of the sleeps: a thread asleep when told to stop has slept
\* to the end when the module is gone, if it sleeps no longer than the wait.
THEOREM WaitCoversSleep == LifeSpec => []AsleepDue
<1>1. Timed => AsleepDue
  BY DEF Timed, TimedAt, AsleepDue
<1> QED
  BY <1>1, Invariant, PTL
=============================================================================
