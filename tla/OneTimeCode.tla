---------------------------- MODULE OneTimeCode ----------------------------
(***************************************************************************)
(* The one-time codes of the client's heartbeats (totp.c and sha1.c in     *)
(* client-module/kernel-module): SHA-1 fed byte by byte through one static *)
(* buffer, which every hash of every code uses in turn.  One step is one   *)
(* call of sha1_write, or what lies between two runs of such calls.  The   *)
(* machine is little-endian (ARCH in the Makefile), so byte n ^ 3 of the   *)
(* buffer is byte n of its words, the most significant first.              *)
(*                                                                         *)
(* Operators marked "Mutant:" state a plausible mistake in the definition  *)
(* after them; they are not part of the specification.                     *)
(***************************************************************************)
EXTENDS HmacReference

CONSTANTS
    Keys,               \* keys given to totp_init
    MaxIndex            \* bound: heartbeats

\* The length of a key is an uint8_t.
ASSUME KeysAssumption == \A k \in Keys : k \in Seq(Byte) /\ Len(k) <= 255
ASSUME IndexAssumption == MaxIndex \in Nat

BLOCK_LENGTH == 64
HASH_LENGTH  == 20

VARIABLES
    hmacKey,            \* _hmacKey
    index,              \* the number of the heartbeat, which stands for the time steps
    sha1_buffer, sha1_state, bufferOffset, byteCount, keyBuffer, innerHash,
    todo,               \* the bytes that will be written one by one
    pc,                 \* what follows when they are written
    code,               \* the last code, -1 before the first
    text                \* the bytes written since sha1_init

sha1_vars == <<sha1_buffer, sha1_state, bufferOffset, byteCount>>
vars      == <<hmacKey, index, sha1_vars, keyBuffer, innerHash, todo, pc, code, text>>

-----------------------------------------------------------------------------
(***************************************************************************)
(* sha1.c on the record of its variables w (buffer), h (state), off, n.    *)
(***************************************************************************)
sha1InitState ==
    <<Halves(26437, 8961), Halves(61389, 43913), Halves(39098, 56574), Halves(4146, 21622), Halves(50130, 57840)>>

SHA1_K == <<Halves(23170, 31129), Halves(28377, 60321), Halves(36635, 48348), Halves(51810, 49622)>>

Buffer    == [0..15 -> Word]
Sha1State == [w : Buffer, h : Hash, off : 0..(BLOCK_LENGTH - 1), n : Nat]

\* The buffer holds the last sixteen words of the schedule.
Window(w, i) == Xor(Xor(Xor(w[(i + 13) % 16], w[(i + 8) % 16]), w[(i + 2) % 16]), w[i % 16])

Mix(i, b, c, d) ==
    IF i < 20 THEN Xor(d, And(b, Xor(c, d)))
    ELSE IF i < 40 \/ i >= 60 THEN Xor(Xor(b, c), d)
    ELSE Or(And(b, c), And(d, Or(b, c)))

\* An iteration of the loop in hashBlock.
Round ==
    [g \in [i : Nat, v : Hash, w : Buffer] |->
        LET w == IF g.i >= 16 THEN [g.w EXCEPT ![g.i % 16] = RotL(Window(g.w, g.i), 1)] ELSE g.w
            t == Add(Add(Mix(g.i, g.v[2], g.v[3], g.v[4]), SHA1_K[1 + (g.i \div 20)]),
                     Add(Add(RotL(g.v[1], 5), g.v[5]), w[g.i % 16]))
        IN  IF g.i < 80 THEN [i |-> g.i + 1, v |-> <<t, g.v[1], RotL(g.v[2], 30), g.v[3], g.v[4]>>, w |-> w] ELSE g]

hashBlock(s) ==
    LET r == Loop128(Round)[[i |-> 0, v |-> s.h, w |-> s.w]]
    IN  [s EXCEPT !.w = r.w, !.h = Sums(s.h, r.v)]

addUncounted(s, data) ==
    LET w == [s.w EXCEPT ![s.off \div 4] = SetByte(s.w[s.off \div 4], s.off % 4, data)]
    IN  IF s.off + 1 = BLOCK_LENGTH THEN [hashBlock([s EXCEPT !.w = w]) EXCEPT !.off = 0]
        ELSE [s EXCEPT !.w = w, !.off = s.off + 1]

\* Mutant: no zeros when the text ends in the last eight bytes of a block.
PadDoneAfter(s) == s.off >= 56

PadDone(s) == s.off = 56

\* An iteration of the loop in pad.
PadZero == [s \in Sha1State |-> IF PadDone(s) THEN s ELSE addUncounted(s, {})]

Add4(s, a, b, c, d) == addUncounted(addUncounted(addUncounted(addUncounted(s, a), b), c), d)

\* The length in bits: its 32 bits are those of byteCount, shifted by 3.
pad(s) ==
    LET z == Loop64(PadZero)[addUncounted(s, {7})]
    IN  Add4(Add4(z, {}, {}, {}, ByteBits(s.n \div 536870912)),
             ByteBits(s.n \div 2097152), ByteBits(s.n \div 8192), ByteBits(s.n \div 32), ByteBits(8 * s.n))

\* The bytes of a word in the opposite order.
Swapped(x) == {i \in 0..31 : 24 - 8 * (i \div 8) + (i % 8) \in x}

sha1_result(s) ==
    LET p == pad(s)
    IN  [p EXCEPT !.h = <<Swapped(p.h[1]), Swapped(p.h[2]), Swapped(p.h[3]), Swapped(p.h[4]), Swapped(p.h[5])>>]

\* sha1_state.b: the state as bytes, the least significant of a word first.
StateBytes(s) == [i \in 1..HASH_LENGTH |-> ByteOf(s.h[1 + ((i - 1) \div 4)], 3 - ((i - 1) % 4))]

\* The buffer keeps the remains of the last block.
sha1_init(s) == [s EXCEPT !.h = sha1InitState, !.n = 0, !.off = 0]

Sha1 == [w |-> sha1_buffer, h |-> sha1_state, off |-> bufferOffset, n |-> byteCount]

SetSha1(s) == sha1_buffer' = s.w /\ sha1_state' = s.h /\ bufferOffset' = s.off /\ byteCount' = s.n

-----------------------------------------------------------------------------
Zeroed(k) == [i \in 1..BLOCK_LENGTH |-> IF i <= Len(k) THEN k[i] ELSE {}]
Ipad(k)   == [i \in 1..BLOCK_LENGTH |-> Xor(k[i], {1, 2, 4, 5})]
Opad(k)   == [i \in 1..BLOCK_LENGTH |-> Xor(k[i], {2, 3, 4, 6})]

\* Mutant: a key of one block is hashed as well.
IsLongFull(k) == Len(k) >= BLOCK_LENGTH

IsLong(k) == Len(k) > BLOCK_LENGTH

sha1_write ==
    /\ todo # <<>>
    /\ SetSha1(addUncounted([Sha1 EXCEPT !.n = @ + 1], Head(todo)))
    /\ text' = Append(text, Head(todo)) /\ todo' = Tail(todo)
    /\ UNCHANGED <<hmacKey, index, keyBuffer, innerHash, pc, code>>

\* totp_getCodeFromSteps calls sha1_initHmac, which hashes a long key first.
sha1_initHmac ==
    /\ pc = "initHmac" /\ index < MaxIndex
    /\ SetSha1(sha1_init(Sha1)) /\ text' = <<>>
    /\ IF IsLong(hmacKey)
       THEN keyBuffer' = Zeroed(<<>>) /\ todo' = hmacKey /\ pc' = "keyHashed"
       ELSE keyBuffer' = Zeroed(hmacKey) /\ todo' = Ipad(keyBuffer') /\ pc' = "steps"
    /\ UNCHANGED <<hmacKey, index, innerHash, code>>

KeyHashed ==
    /\ pc = "keyHashed" /\ todo = <<>>
    /\ keyBuffer' = Zeroed(StateBytes(sha1_result(Sha1)))
    /\ SetSha1(sha1_init(sha1_result(Sha1))) /\ text' = <<>>
    /\ todo' = Ipad(keyBuffer') /\ pc' = "steps"
    /\ UNCHANGED <<hmacKey, index, innerHash, code>>

WriteSteps ==
    /\ pc = "steps" /\ todo = <<>>
    /\ todo' = <<{}, {}, {}, {}, ByteBits(index \div 16777216), ByteBits(index \div 65536), ByteBits(index \div 256),
                 ByteBits(index)>>
    /\ pc' = "inner"
    /\ UNCHANGED <<hmacKey, index, sha1_vars, keyBuffer, innerHash, code, text>>

sha1_resultHmac ==
    /\ pc = "inner" /\ todo = <<>>
    /\ innerHash' = StateBytes(sha1_result(Sha1))
    /\ SetSha1(sha1_init(sha1_result(Sha1))) /\ text' = <<>>
    /\ todo' = Opad(keyBuffer) \o innerHash' /\ pc' = "outer"
    /\ UNCHANGED <<hmacKey, index, keyBuffer, code>>

Big(b, i) == Number(b[i]) * 16777216 + Number(b[i + 1]) * 65536 + Number(b[i + 2]) * 256 + Number(b[i + 3])

\* Mutant: two bits are cleared.
TruncatedMore(hash) ==
    LET offset == Number(hash[HASH_LENGTH]) % 16
    IN  Big([hash EXCEPT ![offset + 1] = @ \ {6, 7}], offset + 1) % 1000000

\* Four bytes of the hash without the sign bit, which is cleared first here.
Truncated(hash) ==
    LET offset == Number(hash[HASH_LENGTH]) % 16
    IN  Big([hash EXCEPT ![offset + 1] = @ \ {7}], offset + 1) % 1000000

\* The code, and the next heartbeat of thread_reply_context.
totp_getCodeFromSteps ==
    /\ pc = "outer" /\ todo = <<>>
    /\ SetSha1(sha1_result(Sha1))
    /\ code' = Truncated(StateBytes(sha1_result(Sha1)))
    /\ index' = index + 1 /\ pc' = "initHmac"
    /\ UNCHANGED <<hmacKey, keyBuffer, innerHash, todo, text>>

Init ==
    /\ hmacKey \in Keys
    /\ index = 0 /\ code = -1 /\ pc = "initHmac" /\ todo = <<>> /\ text = <<>>
    /\ sha1_buffer = [i \in 0..15 |-> {}] /\ sha1_state = [i \in 1..5 |-> {}]
    /\ bufferOffset = 0 /\ byteCount = 0
    /\ keyBuffer = Zeroed(<<>>) /\ innerHash = Zeros(HASH_LENGTH)

Next ==
    \/ sha1_write \/ sha1_initHmac \/ KeyHashed \/ WriteSteps \/ sha1_resultHmac \/ totp_getCodeFromSteps

Spec == Init /\ [][Next]_vars

-----------------------------------------------------------------------------
\* Whatever the static buffer held before, and wherever the text ends in its
\* last block, what sha1_result is about to give is the SHA-1 of the text.
DigestRight ==
    pc \in {"keyHashed", "inner", "outer"} /\ todo = <<>> => StateBytes(sha1_result(Sha1)) = SHA1(text)

\* What a code is made from is the HMAC of the heartbeat's number, for keys
\* shorter and longer than a block: the hash of the key, the inner and the outer
\* hash pass through the one buffer, and nothing of one is left in the next.
HmacRight == pc = "outer" /\ todo = <<>> => StateBytes(sha1_result(Sha1)) = HMAC(hmacKey, Bytes8(index))

\* The codes of the key the standard of these codes uses as its example are
\* the ones the standard lists.
CodeStandard == hmacKey = ExampleKey /\ index > 0 => code = ExampleCodes[index]
=============================================================================
