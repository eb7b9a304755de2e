------------------------------ MODULE TxSegment ------------------------------
(***************************************************************************)
(* The client's transmit hook (kernel-module/mon_nf.c): an outgoing TCP    *)
(* segment of the watched application is replaced by a copy that carries   *)
(* the context as a TCP option of 16 bytes, or by two copies with half the *)
(* payload each if the option does not fit the MTU.                        *)
(*                                                                         *)
(* Header lengths are in bytes.  A copy's payload is the range of the      *)
(* original's payload it holds, and its TCP checksum is the length it was  *)
(* computed for.  TCP flags are copied as they are and not represented.    *)
(* The copies pass the hook again when they are sent; they belong to no    *)
(* socket, so it accepts them.                                             *)
(***************************************************************************)
EXTENDS Integers, Sequences

CONSTANTS
    Segments,       \* the segments the stack hands to the hook
    SEQMOD          \* one more than the largest sequence number

cxt_head_len == 16
MTU          == 1500
MAX_TCP_HDR  == 60

\* watched: of the user t_uid, TCP, and past the tests of the link-layer and
\* IP headers.  tailroom: what the copy has left behind its data, which
\* skb_copy_expand is not asked to enlarge.
Segment == [ihl : 20..60, doff : 20..60, psize : Nat, seq : 0..SEQMOD - 1,
            tailroom : Nat, watched : BOOLEAN]

tot_len(s) == s.ihl + s.doff + s.psize

ASSUME SegmentAssumption ==
    /\ SEQMOD \in Nat \ {0}
    /\ \A s \in Segments : s \in Segment /\ tot_len(s) < 65536

VARIABLES skb, verdict, out

tx_vars == <<skb, verdict, out>>

-----------------------------------------------------------------------------
\* The data offset has 4 bits and counts words, tot_len has 16 bits.
create_cxt_skb(s, offset, len) ==
    LET dlen == IF s.psize - offset >= len THEN len ELSE s.psize - offset
        trim == s.psize - len
        cut  == IF trim > 0 THEN trim ELSE 0
    IN  [from    |-> offset, dlen |-> dlen,
         doff    |-> (s.doff + cxt_head_len) % 64,
         seq     |-> IF dlen > 0 /\ offset > 0 THEN (s.seq + offset) % SEQMOD ELSE s.seq,
         skb_len |-> tot_len(s) + cxt_head_len - cut,
         tot_len |-> (tot_len(s) - cut + cxt_head_len) % 65536,
         check   |-> s.doff + s.psize]

\* Mutant: only a full header has no room.
HasRoomAny(s) == s.doff < MAX_TCP_HDR

HasRoom(s) == MAX_TCP_HDR - s.doff >= cxt_head_len

\* Mutant: the option is not counted.
TooLongBare(s) == tot_len(s) > MTU

TooLong(s) == tot_len(s) + cxt_head_len > MTU

\* Mutant: both halves are rounded down.
HalvesRounded(s) ==
    LET half == s.psize \div 2
    IN  <<create_cxt_skb(s, 0, half), create_cxt_skb(s, half, half)>>

Halves(s) ==
    LET half == s.psize \div 2
    IN  <<create_cxt_skb(s, 0, half), create_cxt_skb(s, half, s.psize - half)>>

Copies(s) == IF TooLong(s) THEN Halves(s) ELSE <<create_cxt_skb(s, 0, s.psize)>>

-----------------------------------------------------------------------------
\* nf_local_out_hook and parse_tx_skb leave the segment to the stack.
Accept ==
    /\ verdict = "none" /\ (~skb.watched \/ ~HasRoom(skb))
    /\ verdict' = "NF_ACCEPT"
    /\ UNCHANGED <<skb, out>>

Parsed == verdict = "none" /\ skb.watched /\ HasRoom(skb)

\* All copies are made before the first is sent.
Steal ==
    /\ Parsed /\ skb.tailroom >= cxt_head_len
    /\ out' = Copies(skb)
    /\ verdict' = "NF_STOLEN"
    /\ UNCHANGED skb

\* A failed copy returns NF_ACCEPT, which as a pointer is 1 and passes the
\* tests for NULL; the copies before it are sent, then it is used as one.
CopyFails ==
    /\ Parsed
    /\ \E i \in DOMAIN Copies(skb) :
          /\ i > 1 => skb.tailroom >= cxt_head_len
          /\ out' = SubSeq(Copies(skb), 1, i - 1)
    /\ verdict' = "oops"
    /\ UNCHANGED skb

\* skb_put finds no room behind the data and panics before anything is sent.
PutPanics ==
    /\ Parsed /\ skb.tailroom < cxt_head_len
    /\ verdict' = "panic"
    /\ UNCHANGED <<skb, out>>

TxInit == skb \in Segments /\ verdict = "none" /\ out = <<>>

TxNext == Accept \/ Steal \/ CopyFails \/ PutPanics

TxSpec == TxInit /\ [][TxNext]_tx_vars

-----------------------------------------------------------------------------
\* The copies of a stolen segment hold its payload, all of it, once and in
\* order, each at the sequence number of its first byte.
StreamPreserved ==
    verdict = "NF_STOLEN" =>
        /\ out[1].from = 0 /\ out[1].seq = skb.seq
        /\ out[Len(out)].from + out[Len(out)].dlen = skb.psize
        /\ \A i \in 2 .. Len(out) :
              /\ out[i].from = out[i - 1].from + out[i - 1].dlen
              /\ out[i].seq = (out[i - 1].seq + out[i - 1].dlen) % SEQMOD

\* Every copy's length fields describe what it holds, in the widths they
\* have: both headers with the option, and its part of the payload.
LengthsAgree ==
    \A i \in DOMAIN out :
        /\ out[i].tot_len = skb.ihl + out[i].doff + out[i].dlen
        /\ out[i].skb_len = out[i].tot_len

\* The option never makes a segment outgrow the MTU.
CopiesFit == tot_len(skb) <= MTU => \A i \in DOMAIN out : out[i].tot_len <= MTU

-----------------------------------------------------------------------------
\* "Copy skbuff error": a failed copy is reported and the segment accepted.
CopyErrorHandled == verdict # "oops"

\* "Calculate the checksum for the cusmomized packet": a copy's TCP checksum
\* is one of the copy.
ChecksumOfCopy == \A i \in DOMAIN out : out[i].check = out[i].doff + out[i].dlen
=============================================================================
