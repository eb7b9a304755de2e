--------------------------- MODULE MCPoiseSwitch ---------------------------
(***************************************************************************)
(* Small instances of PoiseSwitch: two hosts, one TCP port, two cache      *)
(* slots, two cells per Bloom filter.  The hash puts a host's TCP context  *)
(* in one slot and its UDP context in the other, crosswise for the two     *)
(* hosts, and its TCP data in the slot of its UDP context: so hits,        *)
(* collisions and evictions all happen.  As with the linear crc_16, the    *)
(* context and the data packets of one connection never share a slot.      *)
(***************************************************************************)
EXTENDS PoiseSwitch, FiniteSets

CONSTANTS A, B, P, Q

MCIP    == {NoIP, A, B}
MCPort  == {NoPort, P}
TwoPort == {NoPort, P, Q}
MCSlots == {0, 1}
MCBFIdx == {0, 1}

Bit(b) == IF b THEN 1 ELSE 0

MCCacheHash ==
    [k \in Key |->
        (Bit(k.ip = B) + Bit(k.proto # "tcp") + Bit(k.proto = "none" /\ k.port = NoPort)) % 2]

MCBFHash ==
    [i \in 1..3 |->
        [k \in Key |->
            CASE i = 1 -> Bit(k.ip = B)
              [] i = 2 -> Bit(k.proto = "udp")
              [] i = 3 -> (Bit(k.ip = B) + Bit(k.proto = "udp")) % 2]]

MCMbPort == [d \in 2..14 |-> d]

Pkt(t, a, h) ==
    [type |-> t, ip |-> a, port |-> IF t \in {"tcp", "poise_tcp"} THEN P ELSE NoPort,
     h |-> h, rec |-> 0]

Pkts(t, as, hs) == {Pkt(t, a, h) : a \in as, h \in hs}

\* One pass: the policy drops header "deny" and lets "allow" pass.
OneHeaders == {"allow", "deny"}
OneEval    == [r \in {0} |-> [h \in OneHeaders |-> IF h = "deny" THEN 15 ELSE NoDec]]

CachePackets ==
    Pkts("poise_tcp", {A, B}, OneHeaders) \cup Pkts("poise_udp", {A}, OneHeaders)
    \cup Pkts("tcp", {A, B}, {"allow"})
    \cup {Pkt("other", A, "allow"), Pkt("non_ip", A, "allow")}

\* One host opening two connections, whose contexts share slot 0.
DigestPackets == {[Pkt("poise_tcp", A, "allow") EXCEPT !.port = p] : p \in {P, Q}}

\* Two passes: "deny" is denied in the first pass, "mb" sent to a middlebox in
\* the second.
TwoHeaders == {"allow", "deny", "mb"}
TwoEval ==
    [r \in {0, 1} |-> [h \in TwoHeaders |->
        IF r = 0 /\ h = "deny" THEN 15 ELSE IF r = 1 /\ h = "mb" THEN 2 ELSE NoDec]]
TwoPackets ==
    Pkts("poise_tcp", {A}, TwoHeaders)
    \cup {Pkt("poise_udp", B, "deny"), Pkt("tcp", A, "allow"), Pkt("tcp", B, "allow"), Pkt("udp", B, "allow")}

\* Entries the control plane may add, one of them provisioned for data packets.
ConnKeys == {[ip |-> A, port |-> P, proto |-> "tcp"], [ip |-> B, port |-> P, proto |-> "none"]}
=============================================================================
