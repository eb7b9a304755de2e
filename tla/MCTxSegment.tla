----------------------------- MODULE MCTxSegment -----------------------------
(***************************************************************************)
(* All TCP header lengths; payloads at the boundaries: empty, one byte,    *)
(* odd and even around the length from which a segment is split, a full    *)
(* segment, and the largest the stack hands down for the device to split;  *)
(* sequence numbers that wrap; a copy with just enough and too little room.*)
(***************************************************************************)
EXTENDS TxSegment

DoffValues == {4 * w : w \in 5..15}

\* Payload sizes for headers of n bytes together.
Payloads(n) == {0, 1, 2, 3} \cup (1482 - n .. 1500 - n) \cup {65535 - n}

MCSegments ==
    UNION {[ihl : {20}, doff : {d}, psize : Payloads(20 + d), seq : {0, SEQMOD - 700, SEQMOD - 1},
            tailroom : {15, 16}, watched : BOOLEAN] : d \in DoffValues}
=============================================================================
