---------------------------- MODULE PoiseSwitch ----------------------------
(***************************************************************************)
(* The policy-independent data plane, p4/poise.p4: parser, connection      *)
(* table, decision cache, Bloom filter, digests, enforcement and           *)
(* recirculation.  One action is one pass of one packet through MyIngress: *)
(* a Tofino pipe processes packets in order at every stage, so two packets *)
(* never interleave within a pass, but they do between the passes of a     *)
(* recirculated packet.  The policy (EvaluateContext, generated by the     *)
(* compiler) is a constant, the control plane's writes are environment     *)
(* actions.                                                                *)
(*                                                                         *)
(* Operators marked "Mutant:" state a plausible mistake in the definition  *)
(* after them; they are not part of the specification.                     *)
(***************************************************************************)
EXTENDS Integers, Sequences

CONSTANTS
    IP, NoIP,               \* source addresses; 0, which an invalid header reads as
    Port, NoPort,           \* TCP source ports; 0 likewise
    Headers,                \* contents of poise_h
    Packets,                \* packets that hosts send
    Slots, CacheHash,       \* cache indexes, crc_16 of the 3-tuple
    BFIdx, BFHash,          \* Bloom filter indexes, one salted crc_16 per filter
    RECIR_TIMES, Eval,      \* the policy: passes - 1, effect of each pass on ctx_dec
    Installable,            \* keys for which the control plane adds conn_tab entries
    InstallDecs,            \* decisions it writes for them
    MAX_CONN_TABLE_SIZE, MAX_CONN_REGS_PER_MAU, CONN_REGS_2,
    MAX_RECIR_TIMES, CACHE_TIMEOUT,
    TSMOD, REGMOD,          \* 2^16: split_tstamp's width; 2^32: the ALU's
    MbPort,                 \* egress port of middlebox decision 2..14
    MaxClock, MaxInFlight, MaxDigests   \* bounds of the model

VARIABLES
    conn_tab,               \* key -> register index, or NoIdx
    conn_decision_1, conn_decision_2,
    cache_dec, cache_tstamp_high_32, cache_src_ip, cache_src_port, cache_protoc,
    bf,                     \* bf_1, bf_2, bf_3
    clock,                  \* the ingress timestamp before truncation
    recirc,                 \* packets on the recirculation port, with their pass count
    digests,                \* keys waiting for the control plane
    egress,                 \* what the last step sent
    \* History variables: read by no guard.
    latest,                 \* key -> decision of its last context packet, or NoDec
    assigned,               \* key -> last decision given to its conn_tab entry, or NoDec
    written,                \* when a cache slot was last written
    evicted,                \* keys that lost their slot while decided DEC_DROP
    learned                 \* keys a digest was generated for

conn_vars   == <<conn_tab, conn_decision_1, conn_decision_2>>
cache_vars  == <<cache_dec, cache_tstamp_high_32, cache_src_ip, cache_src_port,
                 cache_protoc, bf>>
history     == <<latest, assigned, written, evicted, learned>>
vars        == <<conn_vars, cache_vars, clock, recirc, digests, egress, history>>

-----------------------------------------------------------------------------
DEC_CLEAN  == 0
DEC_UNSEEN == 1
DEC_DROP   == 15
Dec        == 0..15
NoDec      == -1            \* a pass whose tables set no decision

ALLOW_PORT == 0
DROP_PORT  == 129
RECIR_PORT == 132

NoIdx    == -1
ConnIdx  == 0 .. MAX_CONN_TABLE_SIZE - 1
Proto    == {"none", "tcp", "udp"}
Key      == [ip : IP, port : Port, proto : Proto]
PktType  == {"tcp", "udp", "poise_tcp", "poise_udp", "other", "non_ip"}
Packet   == [type : PktType, ip : IP, port : Port, h : Headers, rec : Nat]
Ports    == {ALLOW_PORT, DROP_PORT, RECIR_PORT} \cup {MbPort[d] : d \in 2..14}
Tables   == {"none", "enforce_conn_dec", "enforce_cache_dec", "drop1", "drop3",
             "drop4", "do_bf_recirculate", "do_recirculate"}

ASSUME AddressAssumption == NoIP \in IP /\ NoPort \in Port
ASSUME PacketAssumption  == Packets \subseteq Packet
ASSUME HashAssumption ==
    /\ CacheHash \in [Key -> Slots]
    /\ BFHash \in [1..3 -> [Key -> BFIdx]]
ASSUME PolicyAssumption ==
    /\ RECIR_TIMES \in Nat
    /\ Eval \in [0..RECIR_TIMES -> [Headers -> Dec \cup {NoDec}]]
ASSUME ControlAssumption == Installable \subseteq Key /\ InstallDecs \subseteq Dec
ASSUME RegisterAssumption ==
    /\ MAX_CONN_REGS_PER_MAU \in Nat \ {0}
    /\ CONN_REGS_2 \in Nat \ {0}
    /\ MAX_CONN_TABLE_SIZE = MAX_CONN_REGS_PER_MAU + CONN_REGS_2
ASSUME TimeAssumption ==
    /\ TSMOD \in Nat \ {0}
    /\ CACHE_TIMEOUT \in Nat /\ CACHE_TIMEOUT >= TSMOD
    /\ REGMOD \in Nat /\ REGMOD > TSMOD + CACHE_TIMEOUT
ASSUME BoundAssumption ==
    MaxClock \in Nat /\ MaxInFlight \in Nat /\ MaxDigests \in Nat /\ MAX_RECIR_TIMES \in Nat
ASSUME PortAssumption ==
    /\ MbPort \in [2..14 -> Nat]
    /\ \A d \in 2..14 : MbPort[d] \notin {DROP_PORT, RECIR_PORT}

-----------------------------------------------------------------------------
(***************************************************************************)
(* Parser.  Metadata starts at zero, so only context packets get an        *)
(* ip_protocol, and only they have a log header to count recirculations.   *)
(***************************************************************************)
IsContext(p) == p.type \in {"poise_tcp", "poise_udp"}

Parse(p) ==
    [ip    |-> IF p.type = "non_ip" THEN NoIP ELSE p.ip,
     port  |-> IF p.type \in {"tcp", "poise_tcp"} THEN p.port ELSE NoPort,
     proto |-> CASE p.type = "poise_tcp" -> "tcp"
                 [] p.type = "poise_udp" -> "udp"
                 [] OTHER -> "none"]

RecirCounter(p) == IF IsContext(p) THEN p.rec ELSE 0

(***************************************************************************)
(* conn_decision is split over two register arrays: read_conn_dec_1_tab's  *)
(* range entry selects the first, conn_idx - conn_idx_offset indexes the   *)
(* second.                                                                 *)
(***************************************************************************)
Bank1(i)     == i < MAX_CONN_REGS_PER_MAU
ConnIdx2(i)  == i - MAX_CONN_REGS_PER_MAU
ConnDec(i)   == IF Bank1(i) THEN conn_decision_1[i] ELSE conn_decision_2[ConnIdx2(i)]

\* Mutant: read_conn_dec_2_tab is never applied.
WriteConnOneBank(i, d) ==
    /\ conn_decision_1' = IF Bank1(i) THEN [conn_decision_1 EXCEPT ![i] = d] ELSE conn_decision_1
    /\ UNCHANGED conn_decision_2

WriteConn(i, d) ==
    IF Bank1(i)
    THEN /\ conn_decision_1' = [conn_decision_1 EXCEPT ![i] = d]
         /\ UNCHANGED conn_decision_2
    ELSE /\ conn_decision_2' = [conn_decision_2 EXCEPT ![ConnIdx2(i)] = d]
         /\ UNCHANGED conn_decision_1

(***************************************************************************)
(* Cache.  split_tstamp keeps 16 bits; the comparison is 32-bit unsigned.  *)
(***************************************************************************)
Tstamp == clock % TSMOD

\* Mutant: the operands are swapped.
OutdatedSwapped(s) == (cache_tstamp_high_32[s] - Tstamp + REGMOD) % REGMOD > CACHE_TIMEOUT

Outdated(s) == (Tstamp - cache_tstamp_high_32[s] + REGMOD) % REGMOD > CACHE_TIMEOUT

Resident(s) == [ip |-> cache_src_ip[s], port |-> cache_src_port[s], proto |-> cache_protoc[s]]

\* Mutant: any used slot is a hit.
CacheStatusAnyUsed(k) == IF cache_dec[CacheHash[k]] # 0 THEN "hit" ELSE "empty"

CacheStatus(k) ==
    LET s == CacheHash[k] IN
    IF cache_src_ip[s] = k.ip THEN "hit"
    ELSE IF cache_dec[s] = 0 THEN "empty"
    ELSE "collision"

\* Mutant: the protocol's ALU does not update its register.
WriteCacheNoProtoc(k, d) ==
    LET s == CacheHash[k] IN
    /\ cache_tstamp_high_32' = [cache_tstamp_high_32 EXCEPT ![s] = Tstamp]
    /\ cache_src_ip' = [cache_src_ip EXCEPT ![s] = k.ip]
    /\ cache_src_port' = [cache_src_port EXCEPT ![s] = k.port]
    /\ cache_dec' = [cache_dec EXCEPT ![s] = d]
    /\ written' = [written EXCEPT ![s] = clock]
    /\ UNCHANGED cache_protoc

WriteCache(k, d) ==
    LET s == CacheHash[k] IN
    /\ cache_tstamp_high_32' = [cache_tstamp_high_32 EXCEPT ![s] = Tstamp]
    /\ cache_src_ip' = [cache_src_ip EXCEPT ![s] = k.ip]
    /\ cache_src_port' = [cache_src_port EXCEPT ![s] = k.port]
    /\ cache_protoc' = [cache_protoc EXCEPT ![s] = k.proto]
    /\ cache_dec' = [cache_dec EXCEPT ![s] = d]
    /\ written' = [written EXCEPT ![s] = clock]

(***************************************************************************)
(* Bloom filter, addressed by the key found in the cache.                  *)
(***************************************************************************)
BloomHit(k) == \A i \in 1..3 : bf[i][BFHash[i][k]] = 1

BloomSet(k) == [i \in 1..3 |-> [bf[i] EXCEPT ![BFHash[i][k]] = 1]]

(***************************************************************************)
(* The enforcement tables, populated as the comment above them says.       *)
(***************************************************************************)
Enforce(d) ==
    CASE d = DEC_CLEAN -> ALLOW_PORT
      [] d \in {DEC_UNSEEN, DEC_DROP} -> DROP_PORT
      [] OTHER -> MbPort[d]

NoEgress ==
    [tab |-> "none", key |-> [ip |-> NoIP, port |-> NoPort, proto |-> "none"], dec |-> NoDec,
     port |-> DROP_PORT]

Depart(tab, k, d, port) == egress' = [tab |-> tab, key |-> k, dec |-> d, port |-> port]

-----------------------------------------------------------------------------
(***************************************************************************)
(* MyIngress, context packets: evaluate this pass of the policy, overwrite *)
(* the cache slot, set the filter for an evicted DEC_DROP resident, update *)
(* the connection's register or generate a digest, then recirculate for    *)
(* the next pass or drop.  n is the number of passes made before, q the    *)
(* rest of the recirculation queue.                                        *)
(***************************************************************************)
CtxDec(p) ==
    IF p.rec \in 0..RECIR_TIMES /\ Eval[p.rec][p.h] # NoDec THEN Eval[p.rec][p.h] ELSE 0

\* Mutant: the packet's key goes into the filter, not the resident's.
EvictResidentByPacket(k) ==
    LET s == CacheHash[k] IN
    IF CacheStatus(k) = "collision" /\ cache_dec[s] = DEC_DROP
    THEN bf' = BloomSet(k) /\ evicted' = evicted \cup {Resident(s)}
    ELSE UNCHANGED <<bf, evicted>>

EvictResident(k) ==
    LET s == CacheHash[k] IN
    IF CacheStatus(k) = "collision" /\ cache_dec[s] = DEC_DROP
    THEN bf' = BloomSet(Resident(s)) /\ evicted' = evicted \cup {Resident(s)}
    ELSE UNCHANGED <<bf, evicted>>

GenerateDigest(k) ==
    /\ digests' = IF Len(digests) < MaxDigests THEN Append(digests, k) ELSE digests
    /\ learned' = learned \cup {k}

\* Mutant: a digest only when the slot was empty.
UpdateOrDigestEmpty(k, d) ==
    IF conn_tab[k] # NoIdx
    THEN /\ WriteConn(conn_tab[k], d)
         /\ assigned' = [assigned EXCEPT ![k] = d]
         /\ UNCHANGED <<digests, learned>>
    ELSE /\ UNCHANGED <<conn_decision_1, conn_decision_2, assigned>>
         /\ IF CacheStatus(k) = "empty" THEN GenerateDigest(k) ELSE UNCHANGED <<digests, learned>>

UpdateOrDigest(k, d) ==
    IF conn_tab[k] # NoIdx
    THEN /\ WriteConn(conn_tab[k], d)
         /\ assigned' = [assigned EXCEPT ![k] = d]
         /\ UNCHANGED <<digests, learned>>
    ELSE /\ UNCHANGED <<conn_decision_1, conn_decision_2, assigned>>
         /\ IF CacheStatus(k) # "hit" THEN GenerateDigest(k) ELSE UNCHANGED <<digests, learned>>

\* Mutant: one pass too many.
RulesLeftInclusive(p) == p.rec <= RECIR_TIMES

RulesLeft(p) == p.rec < RECIR_TIMES

ContextIngress(p, n, q) ==
    LET k == Parse(p)
        d == CtxDec(p)
    IN  /\ IsContext(p)
        /\ WriteCache(k, d)
        /\ EvictResident(k)
        /\ UpdateOrDigest(k, d)
        /\ latest' = [latest EXCEPT ![k] = d]
        /\ \/ /\ RulesLeft(p)
              /\ recirc' = Append(q, [pkt |-> [p EXCEPT !.rec = @ + 1], n |-> n + 1])
              /\ Depart("do_recirculate", k, d, RECIR_PORT)
           \/ /\ ~RulesLeft(p)
              /\ recirc' = q
              /\ Depart("drop1", k, d, DROP_PORT)
        /\ UNCHANGED <<conn_tab, clock>>

(***************************************************************************)
(* MyIngress, data packets: the decision of a conn_tab entry, else of a    *)
(* live cache hit; a collision consults the Bloom filter with the          *)
(* resident's key and drops or retries; everything else is dropped.        *)
(***************************************************************************)
EnforceConn(k) ==
    /\ conn_tab[k] # NoIdx
    /\ LET d == ConnDec(conn_tab[k]) IN Depart("enforce_conn_dec", k, d, Enforce(d))

EnforceCache(k) ==
    LET s == CacheHash[k] IN
    /\ conn_tab[k] = NoIdx /\ CacheStatus(k) = "hit" /\ ~Outdated(s)
    /\ Depart("enforce_cache_dec", k, cache_dec[s], Enforce(cache_dec[s]))

Collides(k) == conn_tab[k] = NoIdx /\ CacheStatus(k) = "collision"

MayRetry(k, c) == ~BloomHit(Resident(CacheHash[k])) /\ c < MAX_RECIR_TIMES

DropCollision(k, c) ==
    /\ Collides(k) /\ ~MayRetry(k, c)
    /\ Depart("drop3", k, NoDec, DROP_PORT)

DropUnknown(k) ==
    /\ conn_tab[k] = NoIdx
    /\ \/ CacheStatus(k) = "empty"
       \/ CacheStatus(k) = "hit" /\ Outdated(CacheHash[k])
    /\ Depart("drop4", k, NoDec, DROP_PORT)

\* The log header is not on the wire, so the packet comes back as it was.
RetryCollision(p, k, n, q) ==
    /\ Collides(k) /\ MayRetry(k, RecirCounter(p))
    /\ recirc' = Append(q, [pkt |-> p, n |-> IF n <= MAX_RECIR_TIMES THEN n + 1 ELSE n])
    /\ Depart("do_bf_recirculate", k, NoDec, RECIR_PORT)

DataIngress(p, n, q) ==
    LET k == Parse(p) IN
    /\ ~IsContext(p)
    /\ \/ EnforceConn(k) /\ recirc' = q
       \/ EnforceCache(k) /\ recirc' = q
       \/ DropCollision(k, RecirCounter(p)) /\ recirc' = q
       \/ DropUnknown(k) /\ recirc' = q
       \/ RetryCollision(p, k, n, q)
    /\ UNCHANGED <<conn_vars, cache_vars, clock, digests, history>>

MyIngress(p, n, q) == ContextIngress(p, n, q) \/ DataIngress(p, n, q)

Arrive ==
    /\ Len(recirc) < MaxInFlight
    /\ \E p \in Packets : MyIngress(p, 0, recirc)

Recirculate ==
    /\ recirc # <<>>
    /\ MyIngress(Head(recirc).pkt, Head(recirc).n, Tail(recirc))

-----------------------------------------------------------------------------
Tick ==
    /\ clock < MaxClock
    /\ clock' = clock + 1
    /\ egress' = NoEgress
    /\ UNCHANGED <<conn_vars, cache_vars, recirc, digests, history>>

(***************************************************************************)
(* The control plane as the data plane relies on it: an entry appears with *)
(* an index no other entry has and a decision in that register, and an     *)
(* entry that goes away has its register reset.  Module ControlPlane is    *)
(* the code that is to provide this.                                       *)
(***************************************************************************)
InstallEntry(k, i, d) ==
    /\ conn_tab[k] = NoIdx
    /\ \A x \in Key : conn_tab[x] # i
    /\ conn_tab' = [conn_tab EXCEPT ![k] = i]
    /\ WriteConn(i, d)
    /\ assigned' = [assigned EXCEPT ![k] = d]
    /\ egress' = NoEgress
    /\ UNCHANGED <<cache_vars, clock, recirc, digests, latest, written, evicted, learned>>

RemoveEntry(k) ==
    /\ conn_tab[k] # NoIdx
    /\ conn_tab' = [conn_tab EXCEPT ![k] = NoIdx]
    /\ WriteConn(conn_tab[k], 0)
    /\ egress' = NoEgress
    /\ UNCHANGED <<cache_vars, clock, recirc, digests, history>>

GetDigests ==
    /\ digests # <<>>
    /\ digests' = <<>>
    /\ egress' = NoEgress
    /\ UNCHANGED <<conn_vars, cache_vars, clock, recirc, history>>

Environment ==
    \/ \E k \in Installable, i \in ConnIdx, d \in InstallDecs : InstallEntry(k, i, d)
    \/ \E k \in Installable : RemoveEntry(k)
    \/ GetDigests

-----------------------------------------------------------------------------
Init ==
    /\ conn_tab = [k \in Key |-> NoIdx]
    /\ conn_decision_1 = [i \in 0 .. MAX_CONN_REGS_PER_MAU - 1 |-> 0]
    /\ conn_decision_2 = [i \in 0 .. CONN_REGS_2 - 1 |-> 0]
    /\ cache_dec = [s \in Slots |-> 0]
    /\ cache_tstamp_high_32 = [s \in Slots |-> 0]
    /\ cache_src_ip = [s \in Slots |-> NoIP]
    /\ cache_src_port = [s \in Slots |-> NoPort]
    /\ cache_protoc = [s \in Slots |-> "none"]
    /\ bf = [i \in 1..3 |-> [b \in BFIdx |-> 0]]
    /\ clock = 0
    /\ recirc = <<>>
    /\ digests = <<>>
    /\ egress = NoEgress
    /\ latest = [k \in Key |-> NoDec]
    /\ assigned = [k \in Key |-> NoDec]
    /\ written = [s \in Slots |-> 0]
    /\ evicted = {}
    /\ learned = {}

Next == Arrive \/ Recirculate \/ Tick \/ Environment

Spec == Init /\ [][Next]_vars
-----------------------------------------------------------------------------
RecircEntry == [pkt : Packet, n : Nat]
Egress      == [tab : Tables, key : Key, dec : Dec \cup {NoDec}, port : Ports]

\* Every register, table and queue holds values of its declared width.
TypeOK ==
    /\ conn_tab \in [Key -> ConnIdx \cup {NoIdx}]
    /\ conn_decision_1 \in [0 .. MAX_CONN_REGS_PER_MAU - 1 -> Dec]
    /\ conn_decision_2 \in [0 .. CONN_REGS_2 - 1 -> Dec]
    /\ cache_dec \in [Slots -> Dec]
    /\ cache_tstamp_high_32 \in [Slots -> 0 .. TSMOD - 1]
    /\ cache_src_ip \in [Slots -> IP]
    /\ cache_src_port \in [Slots -> Port]
    /\ cache_protoc \in [Slots -> Proto]
    /\ bf \in [1..3 -> [BFIdx -> 0..1]]
    /\ clock \in Nat
    /\ recirc \in Seq(RecircEntry)
    /\ digests \in Seq(Key)
    /\ egress \in Egress
    /\ latest \in [Key -> Dec \cup {NoDec}]
    /\ assigned \in [Key -> Dec \cup {NoDec}]
    /\ written \in [Slots -> Nat]
    /\ evicted \subseteq Key
    /\ learned \subseteq Key

\* A used cache slot holds the decision of the last context packet of the
\* connection whose key it holds: the five register arrays, written by
\* separate ALUs, never mix two connections, and no slot outlives a newer
\* decision of its connection.  The zero address, which unwritten slots hold,
\* is exempt.
CacheHoldsLatest ==
    \A s \in Slots : cache_src_ip[s] # NoIP =>
        CacheHash[Resident(s)] = s /\ cache_dec[s] = latest[Resident(s)]

\* The register that an installed connection's index selects, in either
\* array, holds the last decision given to that connection, by its context
\* packets or by the control plane.
RegisterHoldsAssigned ==
    \A k \in Key : conn_tab[k] # NoIdx => ConnDec(conn_tab[k]) = assigned[k]

\* A data packet with an entry is given that entry's last decision; one
\* without is given, if any, the latest decision of a connection from its own
\* source address.
EnforceStep ==
    /\ egress'.tab = "enforce_conn_dec" => egress'.dec = assigned[egress'.key]
    /\ egress'.tab = "enforce_cache_dec" /\ egress'.key.ip # NoIP =>
           \E k \in Key : k.ip = egress'.key.ip /\ egress'.dec = latest[k]

\* EnforceStep holds of every step: hash collisions, evictions, register reuse
\* and recirculation never apply one host's decision to another, nor a
\* superseded one.
EnforcedIsLatest == [][EnforceStep]_vars

\* The Bloom filter has no false negatives: once a connection with DEC_DROP
\* loses its cache slot to another address, all three of its bits stay set.
EvictedDropRemembered == \A k \in evicted : BloomHit(k)

\* A source that occupies a cache slot was reported to the control plane in a
\* digest, or is one the control plane provisions: although a cache hit
\* suppresses the digest, no source is cached without ever being reported.
SourceReported ==
    \A s \in Slots : cache_src_ip[s] # NoIP =>
        \E k \in learned \cup Installable : k.ip = cache_src_ip[s]

\* A slot is judged outdated only after the truncated timestamp has wrapped
\* since it was written: within one period every cached decision is live.
OutdatedOnlyAfterWrap ==
    \A s \in Slots : Outdated(s) => written[s] \div TSMOD < clock \div TSMOD

\* log.recir_counter bounds a context packet's passes: one waiting on the
\* recirculation port has made at most RECIR_TIMES of them.
ContextPassesBounded ==
    \A j \in DOMAIN recirc :
        IsContext(recirc[j].pkt) => recirc[j].n <= RECIR_TIMES

-----------------------------------------------------------------------------
(***************************************************************************)
(* What comments in poise.p4 say and the program does not do.              *)
(***************************************************************************)
\* "The maximum number of times we will try to recirculate a packet on BF
\* miss" (MAX_RECIR_TIMES): no packet is recirculated more often.
RecirculationBounded ==
    \A j \in DOMAIN recirc :
        ~IsContext(recirc[j].pkt) => recirc[j].n <= MAX_RECIR_TIMES

\* "For testing, TIMTOUT is set to 65 us * 100,000": a slot older than
\* CACHE_TIMEOUT is judged outdated.
TimeoutHonoured ==
    \A s \in Slots :
        cache_src_ip[s] # NoIP /\ clock - written[s] > CACHE_TIMEOUT => Outdated(s)

\* "Generate a learning digest for new connections": a connection in the
\* cache has had its digest, or has an entry.
ConnectionReported ==
    \A s \in Slots : cache_src_ip[s] # NoIP =>
        Resident(s) \in learned \/ conn_tab[Resident(s)] # NoIdx

(***************************************************************************)
(* "The decision made from the context packet" (ctx_dec): when a packet    *)
(* has made its last pass, that is the last decision any pass set.         *)
(***************************************************************************)
Deciding(h) == {r \in 0..RECIR_TIMES : Eval[r][h] # NoDec}

PolicyDec(h) ==
    IF Deciding(h) = {} THEN 0
    ELSE Eval[CHOOSE r \in Deciding(h) : \A x \in Deciding(h) : x <= r][h]

\* A context packet's last pass stores the decision of the whole policy.
LastPassDecides ==
    [][Recirculate /\ egress'.tab = "drop1"
       => egress'.dec = PolicyDec(Head(recirc).pkt.h)]_vars
=============================================================================
