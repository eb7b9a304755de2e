------------------------- MODULE PoiseSwitch_proofs -------------------------
(***************************************************************************)
(* Theorems about PoiseSwitch, for every set of addresses, ports, packets  *)
(* and cache slots, every hash function, every policy and every register   *)
(* size, with or without a control plane.                                  *)
(***************************************************************************)
EXTENDS PoiseSwitch, TLAPS, SequenceTheorems

(***************************************************************************)
(* The inductive invariant.                                                *)
(***************************************************************************)
\* One register per installed connection, and only keys that the control
\* plane provisions are installed.
TableInv ==
    /\ \A x, y \in Key : conn_tab[x] = conn_tab[y] /\ conn_tab[x] # NoIdx => x = y
    /\ \A k \in Key : conn_tab[k] # NoIdx => k \in Installable

\* Of the packets q waiting on the recirculation port.
PassInv(q) ==
    \A j \in DOMAIN q :
        IsContext(q[j].pkt) => q[j].n <= q[j].pkt.rec /\ q[j].pkt.rec <= RECIR_TIMES

StampInv ==
    \A s \in Slots : cache_tstamp_high_32[s] = written[s] % TSMOD /\ written[s] <= clock

IInv ==
    /\ TypeOK
    /\ TableInv
    /\ RegisterHoldsAssigned
    /\ CacheHoldsLatest
    /\ EvictedDropRemembered
    /\ SourceReported
    /\ StampInv
    /\ PassInv(recirc)

-----------------------------------------------------------------------------
(***************************************************************************)
(* The operators MyIngress is built from.                                  *)
(***************************************************************************)
LEMMA ParseType == ASSUME NEW p \in Packet PROVE Parse(p) \in Key
BY AddressAssumption DEF Packet, Parse, Key, Proto

LEMMA CtxDecType == ASSUME NEW p \in Packet PROVE CtxDec(p) \in Dec
BY PolicyAssumption DEF Packet, CtxDec, Dec, NoDec

LEMMA ResidentType == ASSUME TypeOK, NEW s \in Slots PROVE Resident(s) \in Key
BY DEF TypeOK, Resident, Key

LEMMA SlotType == ASSUME NEW k \in Key PROVE CacheHash[k] \in Slots
BY HashAssumption

LEMMA EnforceType == ASSUME NEW d \in Dec PROVE Enforce(d) \in Ports
BY DEF Enforce, Ports, Dec, DEC_CLEAN, DEC_UNSEEN, DEC_DROP

\* What a pass sends is well formed, and names the table that sent it.
LEMMA DepartType ==
    ASSUME NEW tab \in Tables, NEW k \in Key, NEW d \in Dec \cup {NoDec}, NEW port \in Ports,
           Depart(tab, k, d, port)
    PROVE  egress' \in Egress /\ egress'.tab = tab /\ egress'.key = k /\ egress'.dec = d
BY DEF Depart, Egress

LEMMA TableNames ==
    /\ {"enforce_conn_dec", "enforce_cache_dec", "drop1", "drop3", "drop4", "do_bf_recirculate",
        "do_recirculate"} \subseteq Tables
    /\ {DROP_PORT, RECIR_PORT} \subseteq Ports
BY DEF Tables, Ports

LEMMA TstampType == ASSUME TypeOK PROVE Tstamp \in 0 .. TSMOD - 1
BY TimeAssumption DEF TypeOK, Tstamp

\* The filter only grows, and a key put in it is found.
LEMMA BloomGrows ==
    ASSUME TypeOK, NEW k \in Key
    PROVE  /\ BloomSet(k) \in [1..3 -> [BFIdx -> 0..1]]
           /\ bf' = BloomSet(k) => BloomHit(k)' /\ \A x \in Key : BloomHit(x) => BloomHit(x)'
<1>1. \A i \in 1..3 : BFHash[i][k] \in BFIdx
  BY HashAssumption
<1>2. BloomSet(k) \in [1..3 -> [BFIdx -> 0..1]]
  BY <1>1 DEF TypeOK, BloomSet
<1>3. ASSUME NEW i \in 1..3, NEW b \in BFIdx
      PROVE  BloomSet(k)[i][b] = IF b = BFHash[i][k] THEN 1 ELSE bf[i][b]
  BY <1>1 DEF TypeOK, BloomSet
<1>4. ASSUME bf' = BloomSet(k), NEW x \in Key, x = k \/ BloomHit(x) PROVE BloomHit(x)'
  <2> SUFFICES ASSUME NEW i \in 1..3 PROVE bf'[i][BFHash[i][x]] = 1
    BY DEF BloomHit
  <2>1. BFHash[i][x] \in BFIdx
    BY HashAssumption
  <2> QED
    BY <1>3, <1>4, <2>1 DEF BloomHit
<1> QED
  BY <1>2, <1>4

\* The two register arrays behave as one array over ConnIdx.
LEMMA ConnArray ==
    ASSUME TypeOK, NEW i \in ConnIdx, NEW d \in Dec, WriteConn(i, d)
    PROVE  /\ conn_decision_1' \in [0 .. MAX_CONN_REGS_PER_MAU - 1 -> Dec]
           /\ conn_decision_2' \in [0 .. CONN_REGS_2 - 1 -> Dec]
           /\ \A x \in ConnIdx : ConnDec(x)' = IF x = i THEN d ELSE ConnDec(x)
<1> DEFINE m == MAX_CONN_REGS_PER_MAU
<1>0. /\ conn_decision_1 \in [0 .. m - 1 -> Dec] /\ conn_decision_2 \in [0 .. CONN_REGS_2 - 1 -> Dec]
      /\ m \in Nat /\ CONN_REGS_2 \in Nat
      /\ \A x \in ConnIdx : x \in Int /\ (x < m => x \in 0 .. m - 1)
                          /\ (~(x < m) => x - m \in 0 .. CONN_REGS_2 - 1)
  BY RegisterAssumption DEF TypeOK, ConnIdx
<1> HIDE DEF m
<1>1. CASE i < m
  <2>1. conn_decision_1' = [conn_decision_1 EXCEPT ![i] = d] /\ conn_decision_2' = conn_decision_2
    BY <1>1 DEF WriteConn, Bank1, m
  <2>2. ASSUME NEW x \in ConnIdx PROVE ConnDec(x)' = IF x = i THEN d ELSE ConnDec(x)
    BY <1>0, <1>1, <2>1 DEF ConnDec, Bank1, ConnIdx2, m
  <2> QED
    BY <1>0, <1>1, <2>1, <2>2 DEF m
<1>2. CASE ~(i < m)
  <2>1. /\ conn_decision_2' = [conn_decision_2 EXCEPT ![i - m] = d]
        /\ conn_decision_1' = conn_decision_1
    BY <1>2 DEF WriteConn, Bank1, ConnIdx2, m
  <2>2. ASSUME NEW x \in ConnIdx PROVE ConnDec(x)' = IF x = i THEN d ELSE ConnDec(x)
    <3>1. x # i /\ ~(x < m) => x - m # i - m
      BY <1>0
    <3> QED
      BY <1>0, <1>2, <2>1, <3>1 DEF ConnDec, Bank1, ConnIdx2, m
  <2> QED
    BY <1>0, <1>2, <2>1, <2>2 DEF m
<1> QED
  BY <1>1, <1>2

LEMMA ConnDecType == ASSUME TypeOK, NEW i \in ConnIdx PROVE ConnDec(i) \in Dec
BY RegisterAssumption DEF TypeOK, ConnDec, Bank1, ConnIdx2, ConnIdx

-----------------------------------------------------------------------------
(***************************************************************************)
(* A pass of a context packet.                                             *)
(***************************************************************************)
\* Resident and decision of every slot after the five cache registers of one
\* slot are written.
LEMMA CacheArray ==
    ASSUME TypeOK, NEW k \in Key, NEW d \in Dec, WriteCache(k, d), NEW t \in Slots
    PROVE  /\ Resident(t)' = IF t = CacheHash[k] THEN k ELSE Resident(t)
           /\ cache_src_ip'[t] = Resident(t)'.ip
           /\ cache_dec'[t] = IF t = CacheHash[k] THEN d ELSE cache_dec[t]
<1> DEFINE s == CacheHash[k]
<1>1. s \in Slots
  BY SlotType
<1> HIDE DEF s
<1>2. /\ cache_src_ip'[t] = IF t = s THEN k.ip ELSE cache_src_ip[t]
      /\ cache_src_port'[t] = IF t = s THEN k.port ELSE cache_src_port[t]
      /\ cache_protoc'[t] = IF t = s THEN k.proto ELSE cache_protoc[t]
      /\ cache_dec'[t] = IF t = s THEN d ELSE cache_dec[t]
  BY <1>1 DEF WriteCache, TypeOK, s
<1>3. k = [ip |-> k.ip, port |-> k.port, proto |-> k.proto]
  BY DEF Key
<1> QED
  BY <1>2, <1>3 DEF Resident, s

LEMMA ContextCache ==
    ASSUME IInv, NEW k \in Key, NEW d \in Dec, WriteCache(k, d),
           latest' = [latest EXCEPT ![k] = d]
    PROVE  CacheHoldsLatest'
<1> SUFFICES ASSUME NEW t \in Slots, cache_src_ip'[t] # NoIP
             PROVE  CacheHash[Resident(t)'] = t /\ cache_dec'[t] = latest'[Resident(t)']
  BY DEF CacheHoldsLatest
<1>0. TypeOK
  BY DEF IInv
<1>1. CASE t = CacheHash[k]
  BY <1>0, <1>1, CacheArray DEF TypeOK
<1>2. CASE t # CacheHash[k]
  <2>1. /\ Resident(t)' = Resident(t) /\ cache_dec'[t] = cache_dec[t]
        /\ cache_src_ip[t] # NoIP
    <3>1. Resident(t)' = Resident(t) /\ cache_src_ip'[t] = Resident(t)'.ip
          /\ cache_dec'[t] = cache_dec[t]
      BY <1>0, <1>2, CacheArray
    <3>2. Resident(t).ip = cache_src_ip[t]
      BY DEF Resident
    <3> QED
      BY <3>1, <3>2
  <2>2. CacheHash[Resident(t)] = t /\ cache_dec[t] = latest[Resident(t)]
    BY <2>1 DEF IInv, CacheHoldsLatest
  <2>3. Resident(t) # k /\ Resident(t) \in Key /\ latest \in [Key -> Dec \cup {NoDec}]
    BY <1>0, <1>2, <2>2, ResidentType DEF TypeOK
  <2>4. latest'[Resident(t)] = latest[Resident(t)]
    BY <2>3
  <2> QED
    BY <2>1, <2>2, <2>4
<1> QED
  BY <1>1, <1>2

LEMMA ContextEvict ==
    ASSUME IInv, NEW k \in Key, EvictResident(k)
    PROVE  /\ EvictedDropRemembered'
           /\ bf' \in [1..3 -> [BFIdx -> 0..1]]
           /\ evicted' \subseteq Key
<1>0. TypeOK /\ EvictedDropRemembered
  BY DEF IInv
<1>1. PICK r \in Key : r = Resident(CacheHash[k])
  BY <1>0, SlotType, ResidentType
<1>2. CASE bf' = BloomSet(r) /\ evicted' = evicted \cup {r}
  <2>1. BloomHit(r)' /\ (\A x \in Key : BloomHit(x) => BloomHit(x)') /\ bf' \in [1..3 -> [BFIdx -> 0..1]]
    BY <1>0, <1>1, <1>2, BloomGrows
  <2>2. evicted \subseteq Key
    BY <1>0 DEF TypeOK
  <2> QED
    BY <1>0, <1>1, <1>2, <2>1, <2>2 DEF EvictedDropRemembered
<1>3. CASE UNCHANGED <<bf, evicted>>
  BY <1>0, <1>3 DEF TypeOK, EvictedDropRemembered, BloomHit
<1> QED
  BY <1>1, <1>2, <1>3 DEF EvictResident

LEMMA ContextRegister ==
    ASSUME IInv, NEW k \in Key, NEW d \in Dec, UpdateOrDigest(k, d), UNCHANGED conn_tab
    PROVE  /\ RegisterHoldsAssigned'
           /\ conn_decision_1' \in [0 .. MAX_CONN_REGS_PER_MAU - 1 -> Dec]
           /\ conn_decision_2' \in [0 .. CONN_REGS_2 - 1 -> Dec]
           /\ assigned' \in [Key -> Dec \cup {NoDec}]
           /\ digests' \in Seq(Key)
           /\ learned' \subseteq Key
<1>0. TypeOK /\ TableInv /\ RegisterHoldsAssigned
  BY DEF IInv
<1>1. CASE conn_tab[k] # NoIdx
  <2>1. conn_tab[k] \in ConnIdx /\ WriteConn(conn_tab[k], d)
        /\ assigned' = [assigned EXCEPT ![k] = d] /\ UNCHANGED <<digests, learned>>
    BY <1>0, <1>1 DEF TypeOK, UpdateOrDigest
  <2>2. ASSUME NEW x \in Key, conn_tab[x] # NoIdx PROVE ConnDec(conn_tab[x])' = assigned'[x]
    <3>1. conn_tab[x] \in ConnIdx
      BY <1>0, <2>2 DEF TypeOK
    <3>2. ConnDec(conn_tab[x])' = IF conn_tab[x] = conn_tab[k] THEN d ELSE ConnDec(conn_tab[x])
      BY <1>0, <2>1, <3>1, ConnArray DEF ConnDec
    <3> QED
      BY <1>0, <2>1, <2>2, <3>2 DEF TypeOK, TableInv, RegisterHoldsAssigned
  <2>3. RegisterHoldsAssigned'
    BY <2>2 DEF RegisterHoldsAssigned
  <2> QED
    BY <1>0, <2>1, <2>3, ConnArray DEF TypeOK
<1>2. CASE conn_tab[k] = NoIdx
  <2>1. UNCHANGED <<conn_decision_1, conn_decision_2, assigned>>
        /\ (GenerateDigest(k) \/ UNCHANGED <<digests, learned>>)
    BY <1>2 DEF UpdateOrDigest
  <2>2. digests' \in Seq(Key) /\ learned' \subseteq Key
    <3>1. CASE GenerateDigest(k)
      BY <1>0, <3>1, AppendProperties DEF TypeOK, GenerateDigest
    <3> QED
      BY <1>0, <2>1, <3>1 DEF TypeOK
  <2> QED
    BY <1>0, <2>1, <2>2 DEF TypeOK, RegisterHoldsAssigned, ConnDec
<1> QED
  BY <1>1, <1>2

LEMMA ContextReported ==
    ASSUME IInv, NEW k \in Key, NEW d \in Dec, WriteCache(k, d), UpdateOrDigest(k, d)
    PROVE  SourceReported'
<1> SUFFICES ASSUME NEW t \in Slots, cache_src_ip'[t] # NoIP
             PROVE  \E x \in learned' \cup Installable : x.ip = cache_src_ip'[t]
  BY DEF SourceReported
<1>0. TypeOK /\ TableInv /\ SourceReported
  BY DEF IInv
<1>1. learned \subseteq learned'
  BY DEF UpdateOrDigest, GenerateDigest
<1>2. CASE t # CacheHash[k]
  <2>1. cache_src_ip'[t] = cache_src_ip[t]
    <3>1. Resident(t)' = Resident(t) /\ cache_src_ip'[t] = Resident(t)'.ip
      BY <1>0, <1>2, CacheArray
    <3>2. Resident(t).ip = cache_src_ip[t]
      BY DEF Resident
    <3> QED
      BY <3>1, <3>2
  <2> QED
    BY <1>0, <1>1, <2>1 DEF SourceReported
<1>3. CASE t = CacheHash[k]
  <2>1. cache_src_ip'[t] = k.ip
    BY <1>0, <1>3, CacheArray
  <2>2. CASE conn_tab[k] # NoIdx
    BY <1>0, <2>1, <2>2 DEF TableInv
  <2>3. CASE cache_src_ip[t] = k.ip
    BY <1>0, <1>1, <2>1, <2>3 DEF SourceReported
  <2>4. CASE conn_tab[k] = NoIdx /\ cache_src_ip[t] # k.ip
    <3>1. k \in learned'
      BY <1>3, <2>4 DEF UpdateOrDigest, CacheStatus, GenerateDigest
    <3> QED
      BY <2>1, <3>1
  <2> QED
    BY <2>2, <2>3, <2>4
<1> QED
  BY <1>2, <1>3

LEMMA PassAppend ==
    ASSUME NEW q \in Seq(RecircEntry), PassInv(q), NEW e \in RecircEntry,
           IsContext(e.pkt) => e.n <= e.pkt.rec /\ e.pkt.rec <= RECIR_TIMES
    PROVE  Append(q, e) \in Seq(RecircEntry) /\ PassInv(Append(q, e))
<1> DEFINE r == Append(q, e)
<1>1. /\ r \in Seq(RecircEntry)
      /\ Len(r) = Len(q) + 1
      /\ \A j \in 1..Len(q) : r[j] = q[j]
      /\ r[Len(q) + 1] = e
  BY AppendProperties
<1>2. DOMAIN r = 1..(Len(q) + 1) /\ DOMAIN q = 1..Len(q) /\ Len(q) \in Nat
  BY <1>1, LenProperties
<1> HIDE DEF r
<1>3. ASSUME NEW j \in DOMAIN r, IsContext(r[j].pkt)
      PROVE  r[j].n <= r[j].pkt.rec /\ r[j].pkt.rec <= RECIR_TIMES
  <2>1. CASE j = Len(q) + 1
    BY <1>1, <1>3, <2>1
  <2>2. CASE j # Len(q) + 1
    <3>1. j \in DOMAIN q /\ r[j] = q[j]
      BY <1>1, <1>2, <2>2
    <3> QED
      BY <1>3, <3>1 DEF PassInv
  <2> QED
    BY <2>1, <2>2
<1>4. PassInv(r)
  BY <1>3 DEF PassInv
<1> QED
  BY <1>1, <1>4 DEF r

\* A waiting packet is taken off the queue with what PassInv says of it.
LEMMA PassTail ==
    ASSUME NEW q \in Seq(RecircEntry), q # <<>>, PassInv(q)
    PROVE  /\ Head(q) \in RecircEntry
           /\ Tail(q) \in Seq(RecircEntry)
           /\ PassInv(Tail(q))
           /\ IsContext(Head(q).pkt) => Head(q).n <= Head(q).pkt.rec
<1>1. /\ Head(q) \in RecircEntry /\ Tail(q) \in Seq(RecircEntry)
      /\ Len(Tail(q)) = Len(q) - 1
      /\ \A j \in 1..Len(Tail(q)) : Tail(q)[j] = q[j + 1]
  BY HeadTailProperties
<1>2. DOMAIN Tail(q) = 1..(Len(q) - 1) /\ DOMAIN q = 1..Len(q) /\ Len(q) \in Nat /\ Len(q) > 0
  BY <1>1, LenProperties, EmptySeq
<1>3. Head(q) = q[1]
  OBVIOUS
<1>4. PassInv(Tail(q))
  <2> SUFFICES ASSUME NEW j \in DOMAIN Tail(q), IsContext(Tail(q)[j].pkt)
               PROVE  Tail(q)[j].n <= Tail(q)[j].pkt.rec /\ Tail(q)[j].pkt.rec <= RECIR_TIMES
    BY DEF PassInv
  <2>1. j + 1 \in DOMAIN q /\ Tail(q)[j] = q[j + 1]
    BY <1>1, <1>2
  <2> QED
    BY <2>1 DEF PassInv
<1> QED
  BY <1>1, <1>2, <1>3, <1>4 DEF PassInv

LEMMA ContextStep ==
    ASSUME IInv, NEW p \in Packet, NEW n \in Nat, NEW q \in Seq(RecircEntry), PassInv(q),
           IsContext(p) => n <= p.rec, ContextIngress(p, n, q)
    PROVE  IInv'
<1>0. TypeOK /\ TableInv /\ StampInv
  BY DEF IInv
<1>1. PICK k \in Key : k = Parse(p)
  BY ParseType
<1>2. PICK d \in Dec : d = CtxDec(p)
  BY CtxDecType
<1>3. /\ WriteCache(k, d) /\ EvictResident(k) /\ UpdateOrDigest(k, d)
      /\ latest' = [latest EXCEPT ![k] = d]
      /\ UNCHANGED <<conn_tab, clock>>
      /\ \/ /\ RulesLeft(p)
            /\ recirc' = Append(q, [pkt |-> [p EXCEPT !.rec = @ + 1], n |-> n + 1])
            /\ Depart("do_recirculate", k, d, RECIR_PORT)
         \/ /\ recirc' = q
            /\ Depart("drop1", k, d, DROP_PORT)
  BY <1>1, <1>2 DEF ContextIngress
<1>4. CacheHoldsLatest' /\ EvictedDropRemembered' /\ RegisterHoldsAssigned' /\ SourceReported'
  BY <1>3, ContextCache, ContextEvict, ContextRegister, ContextReported, Zenon
<1>5. recirc' \in Seq(RecircEntry) /\ PassInv(recirc)'
  <2>1. CASE recirc' = q
    BY <2>1 DEF PassInv
  <2>2. CASE RulesLeft(p) /\ recirc' = Append(q, [pkt |-> [p EXCEPT !.rec = @ + 1], n |-> n + 1])
    <3> DEFINE e == [pkt |-> [p EXCEPT !.rec = @ + 1], n |-> n + 1]
    <3>1. IsContext(p)
      BY DEF ContextIngress
    <3>2. e \in RecircEntry /\ e.n = n + 1 /\ e.pkt.rec = p.rec + 1 /\ p.rec \in Nat
      <4>1. p.rec \in Nat /\ p.rec + 1 \in Nat
        BY DEF Packet
      <4>2. e.pkt \in Packet /\ e.pkt.rec = p.rec + 1
        BY <4>1 DEF Packet
      <4>3. e \in RecircEntry
        BY <4>2 DEF RecircEntry
      <4> QED
        BY <4>1, <4>2, <4>3
    <3>3. e.n <= e.pkt.rec /\ e.pkt.rec <= RECIR_TIMES
      BY <2>2, <3>1, <3>2, PolicyAssumption DEF RulesLeft
    <3> HIDE DEF e
    <3>4. Append(q, e) \in Seq(RecircEntry) /\ PassInv(Append(q, e))
      BY <3>2, <3>3, PassAppend
    <3> QED
      BY <2>2, <3>4, Zenon DEF e, PassInv
  <2> QED
    BY <1>3, <2>1, <2>2
<1>6. /\ cache_dec' \in [Slots -> Dec]
      /\ cache_tstamp_high_32' \in [Slots -> 0 .. TSMOD - 1]
      /\ cache_src_ip' \in [Slots -> IP]
      /\ cache_src_port' \in [Slots -> Port]
      /\ cache_protoc' \in [Slots -> Proto]
      /\ written' \in [Slots -> Nat]
  BY <1>0, <1>3, TstampType, SlotType, Zenon DEF TypeOK, WriteCache, Key
<1>7. egress' \in Egress
  BY <1>3, DepartType, TableNames
<1>8. TypeOK'
  BY <1>0, <1>3, <1>5, <1>6, <1>7, ContextEvict, ContextRegister DEF TypeOK
<1>9. StampInv'
  BY <1>0, <1>3, SlotType DEF TypeOK, StampInv, WriteCache, Tstamp
<1>10. TableInv'
  BY <1>0, <1>3 DEF TableInv
<1> QED
  BY <1>4, <1>5, <1>8, <1>9, <1>10 DEF IInv

-----------------------------------------------------------------------------
(***************************************************************************)
(* The other steps.                                                        *)
(***************************************************************************)
\* What the invariant reads of the tables, registers and history.
store == <<conn_vars, cache_vars, history>>

LEMMA StoreUnchanged ==
    ASSUME IInv, UNCHANGED store
    PROVE  /\ TableInv' /\ RegisterHoldsAssigned' /\ CacheHoldsLatest'
           /\ EvictedDropRemembered' /\ SourceReported'
<1> USE DEF IInv, store, conn_vars, cache_vars, history
<1>1. TableInv' /\ RegisterHoldsAssigned'
  BY Zenon DEF TableInv, RegisterHoldsAssigned, ConnDec
<1>2. CacheHoldsLatest' /\ SourceReported'
  BY DEF CacheHoldsLatest, SourceReported, Resident
<1>3. EvictedDropRemembered'
  BY DEF EvictedDropRemembered, BloomHit
<1> QED
  BY <1>1, <1>2, <1>3

\* Every way a data packet can leave, with the key k it was looked up by.
LEMMA DataDeparts ==
    ASSUME TypeOK, NEW p \in Packet, NEW n, NEW q, DataIngress(p, n, q)
    PROVE  egress' \in Egress
<1>1. PICK k \in Key : k = Parse(p)
  BY ParseType
<1>2. CASE EnforceConn(k)
  <2>1. PICK d \in Dec : d = ConnDec(conn_tab[k])
    BY <1>2, ConnDecType DEF EnforceConn, TypeOK
  <2> QED
    BY <1>2, <2>1, EnforceType, DepartType, TableNames DEF EnforceConn
<1>3. CASE EnforceCache(k)
  <2>1. PICK d \in Dec : d = cache_dec[CacheHash[k]]
    BY SlotType DEF TypeOK
  <2> QED
    BY <1>3, <2>1, EnforceType, DepartType, TableNames DEF EnforceCache
<1>4. CASE DropCollision(k, RecirCounter(p)) \/ DropUnknown(k) \/ RetryCollision(p, k, n, q)
  BY <1>4, DepartType, TableNames, Zenon DEF DropCollision, DropUnknown, RetryCollision
<1> QED
  BY <1>1, <1>2, <1>3, <1>4 DEF DataIngress

LEMMA DataStep ==
    ASSUME IInv, NEW p \in Packet, NEW n \in Nat, NEW q \in Seq(RecircEntry), PassInv(q),
           DataIngress(p, n, q)
    PROVE  IInv'
<1>0. TypeOK /\ StampInv
  BY DEF IInv
<1>1. UNCHANGED <<conn_vars, cache_vars, clock, digests, history>> /\ ~IsContext(p)
  BY DEF DataIngress
<1>2. recirc' \in Seq(RecircEntry) /\ PassInv(recirc)'
  <2>1. CASE recirc' = q
    BY <2>1 DEF PassInv
  <2>2. CASE RetryCollision(p, Parse(p), n, q)
    <3> DEFINE e == [pkt |-> p, n |-> IF n <= MAX_RECIR_TIMES THEN n + 1 ELSE n]
    <3>1. e \in RecircEntry /\ ~IsContext(e.pkt)
      BY <1>1 DEF RecircEntry
    <3>2. recirc' = Append(q, e)
      BY <2>2 DEF RetryCollision
    <3> HIDE DEF e
    <3>3. Append(q, e) \in Seq(RecircEntry) /\ PassInv(Append(q, e))
      BY <3>1, PassAppend
    <3> QED
      BY <3>2, <3>3 DEF PassInv
  <2> QED
    BY <2>1, <2>2 DEF DataIngress
<1>3. TypeOK'
  BY <1>0, <1>1, <1>2, DataDeparts DEF TypeOK, conn_vars, cache_vars, history
<1>4. StampInv'
  BY <1>0, <1>1, Zenon DEF StampInv, cache_vars, history
<1> QED
  BY <1>1, <1>2, <1>3, <1>4, StoreUnchanged DEF IInv, store

LEMMA PacketStep == IInv /\ (Arrive \/ Recirculate) => IInv'
<1> SUFFICES ASSUME IInv, Arrive \/ Recirculate PROVE IInv'
  OBVIOUS
<1>0. recirc \in Seq(RecircEntry) /\ PassInv(recirc)
  BY DEF IInv, TypeOK
<1>1. CASE Arrive
  <2>1. PICK p \in Packets : MyIngress(p, 0, recirc)
    BY <1>1 DEF Arrive
  <2>2. p \in Packet /\ p.rec \in Nat
    BY PacketAssumption DEF Packet
  <2> QED
    BY <1>0, <2>1, <2>2, ContextStep, DataStep DEF MyIngress
<1>2. CASE Recirculate
  <2>1. PICK e \in RecircEntry : e = Head(recirc)
    BY <1>0, <1>2, PassTail DEF Recirculate
  <2>2. PICK q \in Seq(RecircEntry) : q = Tail(recirc)
    BY <1>0, <1>2, PassTail, Zenon DEF Recirculate
  <2>3. PassInv(q) /\ (IsContext(e.pkt) => e.n <= e.pkt.rec) /\ MyIngress(e.pkt, e.n, q)
    BY <1>0, <1>2, <2>1, <2>2, PassTail DEF Recirculate
  <2>4. e.pkt \in Packet /\ e.n \in Nat
    BY DEF RecircEntry
  <2> QED
    BY <2>3, <2>4, ContextStep, DataStep, Zenon DEF MyIngress
<1> QED
  BY <1>1, <1>2

LEMMA NoEgressType ==
    NoEgress \in Egress
BY AddressAssumption DEF NoEgress, Egress, Tables, Key, Proto, Ports

LEMMA TickStep == IInv /\ Tick => IInv'
<1> SUFFICES ASSUME IInv, Tick PROVE IInv'
  OBVIOUS
<1> USE DEF conn_vars, cache_vars, history
<1>1. TypeOK'
  BY NoEgressType DEF IInv, TypeOK, Tick
<1>2. StampInv'
  BY DEF IInv, TypeOK, StampInv, Tick
<1>3. PassInv(recirc)'
  BY Zenon DEF IInv, PassInv, Tick
<1> QED
  BY <1>1, <1>2, <1>3, StoreUnchanged DEF IInv, Tick, store

LEMMA GetDigestsStep == IInv /\ (GetDigests \/ UNCHANGED vars) => IInv'
<1> SUFFICES ASSUME IInv, GetDigests \/ UNCHANGED vars PROVE IInv'
  OBVIOUS
<1> USE DEF conn_vars, cache_vars, history, vars
<1>1. TypeOK'
  <2>1. digests' \in Seq(Key)
    <3>1. digests \in Seq(Key) /\ digests' \in {<<>>, digests}
      BY DEF IInv, TypeOK, GetDigests
    <3> QED
      BY <3>1, EmptySeq, Zenon
  <2> QED
    BY <2>1, NoEgressType DEF IInv, TypeOK, GetDigests
<1>2. StampInv'
  BY Zenon DEF IInv, StampInv, GetDigests
<1>3. PassInv(recirc)'
  BY DEF IInv, PassInv, GetDigests
<1> QED
  BY <1>1, <1>2, <1>3, StoreUnchanged DEF IInv, GetDigests, store

LEMMA InstallEntryStep ==
    ASSUME NEW k \in Installable, NEW i \in ConnIdx, NEW d \in InstallDecs
    PROVE  IInv /\ InstallEntry(k, i, d) => IInv'
<1> SUFFICES ASSUME IInv, InstallEntry(k, i, d) PROVE IInv'
  OBVIOUS
<1> USE DEF cache_vars
<1>0. k \in Key /\ d \in Dec /\ i # NoIdx
  BY ControlAssumption, RegisterAssumption DEF ConnIdx, NoIdx
<1>1. TypeOK /\ TableInv /\ RegisterHoldsAssigned
  BY DEF IInv
<1>2. \A x \in Key : conn_tab'[x] = IF x = k THEN i ELSE conn_tab[x]
  BY <1>0, <1>1 DEF TypeOK, InstallEntry
<1>3. TableInv'
  <2>1. \A x \in Key : conn_tab[x] # i
    BY DEF InstallEntry
  <2>2. \A x, y \in Key : conn_tab'[x] = conn_tab'[y] /\ conn_tab'[x] # NoIdx => x = y
    BY <1>0, <1>1, <1>2, <2>1 DEF TableInv
  <2>3. \A x \in Key : conn_tab'[x] # NoIdx => x \in Installable
    BY <1>0, <1>1, <1>2 DEF TableInv
  <2> QED
    BY <2>2, <2>3 DEF TableInv
<1>4. RegisterHoldsAssigned'
  <2> SUFFICES ASSUME NEW x \in Key, conn_tab'[x] # NoIdx
               PROVE  ConnDec(conn_tab[x])' = assigned'[x]
    BY DEF RegisterHoldsAssigned
  <2>1. PICK c \in ConnIdx : c = conn_tab'[x]
    BY <1>0, <1>1, <1>2, Zenon DEF TypeOK
  <2>2. ConnDec(c)' = IF c = i THEN d ELSE ConnDec(c)
    BY <1>0, <1>1, ConnArray DEF InstallEntry
  <2>3. ConnDec(conn_tab[x])' = ConnDec(c)'
    BY <2>1 DEF ConnDec, Bank1, ConnIdx2
  <2> QED
    BY <1>0, <1>1, <1>2, <2>1, <2>2, <2>3 DEF TypeOK, RegisterHoldsAssigned, InstallEntry
<1>5. TypeOK'
  BY <1>0, <1>1, ConnArray, NoEgressType DEF TypeOK, InstallEntry
<1>6. CacheHoldsLatest' /\ EvictedDropRemembered' /\ SourceReported' /\ StampInv'
      /\ PassInv(recirc)'
  BY Zenon DEF IInv, CacheHoldsLatest, EvictedDropRemembered, SourceReported, StampInv, PassInv,
         Resident, BloomHit, InstallEntry
<1> QED
  BY <1>3, <1>4, <1>5, <1>6 DEF IInv

LEMMA RemoveEntryStep == ASSUME NEW k \in Installable PROVE IInv /\ RemoveEntry(k) => IInv'
<1> SUFFICES ASSUME IInv, RemoveEntry(k) PROVE IInv'
  OBVIOUS
<1> USE DEF cache_vars, history
<1>0. k \in Key /\ 0 \in Dec
  BY ControlAssumption DEF Dec
<1>1. TypeOK /\ TableInv /\ RegisterHoldsAssigned
  BY DEF IInv
<1>2. PICK i \in ConnIdx : i = conn_tab[k]
  BY <1>0, <1>1 DEF TypeOK, RemoveEntry
<1>3. \A x \in Key : conn_tab'[x] = IF x = k THEN NoIdx ELSE conn_tab[x]
  BY <1>0, <1>1 DEF TypeOK, RemoveEntry
<1>4. TableInv'
  BY <1>0, <1>1, <1>3 DEF TableInv
<1>5. RegisterHoldsAssigned'
  <2> SUFFICES ASSUME NEW x \in Key, conn_tab'[x] # NoIdx
               PROVE  ConnDec(conn_tab[x])' = assigned'[x]
    BY DEF RegisterHoldsAssigned
  <2>1. PICK c \in ConnIdx : c = conn_tab'[x]
    BY <1>0, <1>1, <1>3 DEF TypeOK
  <2>2. ConnDec(c)' = IF c = i THEN 0 ELSE ConnDec(c)
    BY <1>0, <1>1, <1>2, ConnArray DEF RemoveEntry
  <2>3. ConnDec(conn_tab[x])' = ConnDec(c)' /\ c # i /\ c = conn_tab[x]
    BY <1>0, <1>1, <1>2, <1>3, <2>1 DEF ConnDec, Bank1, ConnIdx2, TableInv
  <2> QED
    BY <1>1, <2>1, <2>2, <2>3 DEF RegisterHoldsAssigned, RemoveEntry
<1>6. TypeOK'
  BY <1>0, <1>1, <1>2, ConnArray, NoEgressType DEF TypeOK, RemoveEntry
<1>7. CacheHoldsLatest' /\ EvictedDropRemembered' /\ SourceReported' /\ StampInv'
      /\ PassInv(recirc)'
  BY Zenon DEF IInv, CacheHoldsLatest, EvictedDropRemembered, SourceReported, StampInv, PassInv,
         Resident, BloomHit, RemoveEntry
<1> QED
  BY <1>4, <1>5, <1>6, <1>7 DEF IInv

LEMMA InitIInv == Init => IInv
<1> SUFFICES ASSUME Init PROVE IInv
  OBVIOUS
<1>1. TypeOK
  <2>1. recirc \in Seq(RecircEntry) /\ digests \in Seq(Key) /\ egress \in Egress
    BY EmptySeq, NoEgressType DEF Init
  <2>2. cache_tstamp_high_32 \in [Slots -> 0 .. TSMOD - 1] /\ clock \in Nat
        /\ written \in [Slots -> Nat]
    BY TimeAssumption DEF Init
  <2>3. bf \in [1..3 -> [BFIdx -> 0..1]]
    BY DEF Init
  <2>4. 0 \in Dec /\ "none" \in Proto
    BY DEF Dec, Proto
  <2> QED
    BY <2>1, <2>2, <2>3, <2>4, AddressAssumption DEF Init, TypeOK
<1>2. TableInv /\ RegisterHoldsAssigned
  BY DEF Init, TableInv, RegisterHoldsAssigned
<1>3. CacheHoldsLatest /\ SourceReported /\ EvictedDropRemembered
  BY DEF Init, CacheHoldsLatest, SourceReported, EvictedDropRemembered
<1>4. StampInv
  BY TimeAssumption DEF Init, StampInv
<1>5. PassInv(recirc)
  BY DEF Init, PassInv
<1> QED
  BY <1>1, <1>2, <1>3, <1>4, <1>5 DEF IInv

\* IInv holds in every reachable state, whatever packets arrive.
THEOREM Inductive == Spec => []IInv
<1>1. ASSUME IInv, [Next]_vars PROVE IInv'
  BY <1>1, PacketStep, TickStep, InstallEntryStep, RemoveEntryStep, GetDigestsStep
     DEF Next, Environment
<1> QED
  BY <1>1, InitIInv, PTL DEF Spec

-----------------------------------------------------------------------------
(***************************************************************************)
(* The results.                                                            *)
(***************************************************************************)
\* Every register, table and queue of the pipeline keeps its width.
THEOREM TypeCorrect == Spec => []TypeOK
BY Inductive, PTL DEF IInv

\* The five cache registers written by separate ALUs never mix two
\* connections, and never hold a superseded decision, whatever the hash.
THEOREM CacheCoherent == Spec => []CacheHoldsLatest
BY Inductive, PTL DEF IInv

\* An installed connection's register, in either array, holds the last
\* decision given to it.
THEOREM RegistersCoherent == Spec => []RegisterHoldsAssigned
BY Inductive, PTL DEF IInv

\* The Bloom filter never forgets an evicted connection with DEC_DROP.
THEOREM NoFalseNegative == Spec => []EvictedDropRemembered
BY Inductive, PTL DEF IInv

\* No source address is cached without ever having been reported to the
\* control plane, although a cache hit suppresses the digest.
THEOREM Reported == Spec => []SourceReported
BY Inductive, PTL DEF IInv

\* A context packet makes at most RECIR_TIMES extra passes.
THEOREM PassesBounded == Spec => []ContextPassesBounded
<1>1. IInv => ContextPassesBounded
  <2> SUFFICES ASSUME IInv, NEW j \in DOMAIN recirc, IsContext(recirc[j].pkt)
               PROVE  recirc[j].n <= RECIR_TIMES
    BY DEF ContextPassesBounded
  <2>1. recirc[j].n <= recirc[j].pkt.rec /\ recirc[j].pkt.rec <= RECIR_TIMES
    BY DEF IInv, PassInv
  <2>2. recirc[j] \in RecircEntry
    BY LenProperties, ElementOfSeq DEF IInv, TypeOK
  <2>3. recirc[j].n \in Nat /\ recirc[j].pkt.rec \in Nat
    BY <2>2 DEF RecircEntry, Packet
  <2> QED
    BY <2>1, <2>3, PolicyAssumption
<1> QED
  BY <1>1, Inductive, PTL

\* A packet is only ever given its own entry's last decision, or the latest
\* decision of a connection from its own source address.
THEOREM EnforcesLatest == Spec => EnforcedIsLatest
<1>1. ASSUME IInv, NEW p \in Packet, NEW n, NEW q, MyIngress(p, n, q)
      PROVE  /\ egress'.tab = "enforce_conn_dec" => egress'.dec = assigned[egress'.key]
             /\ egress'.tab = "enforce_cache_dec" /\ egress'.key.ip # NoIP =>
                    \E k \in Key : k.ip = egress'.key.ip /\ egress'.dec = latest[k]
  <2>1. PICK k \in Key : k = Parse(p)
    BY ParseType
  <2>2. CASE EnforceConn(k)
    BY <1>1, <2>2 DEF EnforceConn, Depart, IInv, RegisterHoldsAssigned
  <2>3. CASE EnforceCache(k)
    <3> DEFINE s == CacheHash[k]
    <3>1. s \in Slots /\ TypeOK
      BY <1>1, SlotType DEF IInv
    <3>2. egress' = [tab |-> "enforce_cache_dec", key |-> k, dec |-> cache_dec[s],
                     port |-> Enforce(cache_dec[s])]
      BY <2>3, Zenon DEF EnforceCache, Depart
    <3>3. cache_src_ip[s] = k.ip
      BY <2>3 DEF EnforceCache, CacheStatus
    <3>4. k.ip # NoIP => cache_dec[s] = latest[Resident(s)]
      BY <1>1, <3>1, <3>3, Zenon DEF IInv, CacheHoldsLatest
    <3>5. Resident(s) \in Key /\ Resident(s).ip = k.ip
      BY <3>1, <3>3, ResidentType DEF Resident
    <3> HIDE DEF s
    <3> QED
      BY <3>2, <3>4, <3>5
  <2>4. CASE egress'.tab \notin {"enforce_conn_dec", "enforce_cache_dec"}
    BY <2>4
  <2>5. CASE ContextIngress(p, n, q)
    <3>1. egress'.tab \in {"do_recirculate", "drop1"}
      <4>1. PICK d \in Dec : d = CtxDec(p)
        BY CtxDecType
      <4>2. Depart("do_recirculate", k, d, RECIR_PORT) \/ Depart("drop1", k, d, DROP_PORT)
        BY <2>1, <2>5, <4>1 DEF ContextIngress
      <4> QED
        BY <4>2, DepartType, TableNames
    <3> QED
      BY <2>4, <3>1
  <2>6. CASE DataIngress(p, n, q)
    <3>1. CASE \/ DropCollision(k, RecirCounter(p)) \/ DropUnknown(k) \/ RetryCollision(p, k, n, q)
      <4>1. egress'.tab \in {"drop3", "drop4", "do_bf_recirculate"}
        BY <3>1, DepartType, TableNames, Zenon DEF DropCollision, DropUnknown, RetryCollision
      <4> QED
        BY <2>4, <4>1
    <3> QED
      BY <2>1, <2>2, <2>3, <2>6, <3>1, Zenon DEF DataIngress
  <2> QED
    BY <1>1, <2>5, <2>6 DEF MyIngress
<1>2. ASSUME IInv, Next PROVE EnforceStep
  <2>1. CASE Arrive
    BY <1>1, <1>2, <2>1, PacketAssumption DEF Arrive, EnforceStep
  <2>2. CASE Recirculate
    <3>1. Head(recirc) \in RecircEntry
      BY <1>2, <2>2, HeadTailProperties DEF Recirculate, IInv, TypeOK
    <3>2. Head(recirc).pkt \in Packet
      BY <3>1 DEF RecircEntry
    <3> QED
      BY <1>1, <1>2, <2>2, <3>2 DEF Recirculate, EnforceStep
  <2>3. CASE Tick \/ Environment
    <3>1. egress' = NoEgress
      BY <2>3, Zenon DEF Tick, Environment, InstallEntry, RemoveEntry, GetDigests
    <3> QED
      BY <3>1 DEF NoEgress, EnforceStep
  <2> QED
    BY <1>2, <2>1, <2>2, <2>3 DEF Next
<1> QED
  BY <1>2, Inductive, PTL DEF Spec, EnforcedIsLatest

-----------------------------------------------------------------------------
(***************************************************************************)
(* The truncated timestamp.                                                *)
(***************************************************************************)
LEMMA Division == ASSUME NEW T \in Int, T > 0, NEW w \in Int PROVE w = (w \div T) * T + (w % T)
BY Z3T(30)

\* The remainder of a later time is smaller only if the quotient is larger.
LEMMA Wrapped ==
    ASSUME NEW T \in Nat \ {0}, NEW w \in Nat, NEW c \in Nat, w <= c, c % T < w % T
    PROVE  w \div T < c \div T
<1> DEFINE wq == w \div T
           cq == c \div T
<1>1. w = wq * T + (w % T) /\ c = cq * T + (c % T) /\ wq \in Nat /\ cq \in Nat
      /\ w % T \in Nat /\ c % T \in Nat
  <2>1. w % T \in 0 .. T - 1 /\ c % T \in 0 .. T - 1
    OBVIOUS
  <2>2. wq \in Nat
    OBVIOUS
  <2>3. cq \in Nat
    OBVIOUS
  <2>0. T \in Int /\ T > 0 /\ w \in Int /\ c \in Int
    OBVIOUS
  <2>4. w = wq * T + (w % T)
    BY <2>0, Division
  <2>5. c = cq * T + (c % T)
    BY <2>0, Division
  <2> QED
    BY <2>1, <2>2, <2>3, <2>4, <2>5
<1> HIDE DEF wq, cq
<1>2. ASSUME wq >= cq PROVE FALSE
  <2>1. wq * T >= cq * T
    BY <1>1, <1>2
  <2> QED
    BY <1>1, <2>1
<1> QED
  BY <1>1, <1>2 DEF wq, cq

\* Within one period of the 16-bit timestamp no cached decision is outdated.
THEOREM LiveWithinPeriod == Spec => []OutdatedOnlyAfterWrap
<1>1. IInv => OutdatedOnlyAfterWrap
  <2> SUFFICES ASSUME IInv, NEW s \in Slots, Outdated(s)
               PROVE  written[s] \div TSMOD < clock \div TSMOD
    BY DEF OutdatedOnlyAfterWrap
  <2> DEFINE x == Tstamp
             y == cache_tstamp_high_32[s]
  <2>1. x \in 0 .. TSMOD - 1 /\ y \in 0 .. TSMOD - 1
    BY TstampType DEF IInv, TypeOK
  <2>2. (x - y + REGMOD) % REGMOD > CACHE_TIMEOUT
    BY DEF Outdated
  <2> HIDE DEF x, y
  <2>3. x < y
    <3> SUFFICES ASSUME x >= y PROVE FALSE
      BY <2>1, TimeAssumption
    <3>1. x - y \in 0 .. TSMOD - 1 /\ x - y < REGMOD
      BY <2>1, TimeAssumption
    <3>2. \A z \in Nat : z < REGMOD => (z + REGMOD) % REGMOD = z
      BY TimeAssumption
    <3>3. (x - y + REGMOD) % REGMOD = x - y
      BY <3>1, <3>2
    <3> QED
      BY <2>2, <3>1, <3>3, TimeAssumption
  <2>4. /\ written[s] \in Nat /\ clock \in Nat /\ written[s] <= clock
        /\ y = written[s] % TSMOD /\ x = clock % TSMOD
    BY DEF IInv, TypeOK, StampInv, x, y, Tstamp
  <2> QED
    BY <2>3, <2>4, Wrapped, TimeAssumption
<1> QED
  BY <1>1, Inductive, PTL
=============================================================================
