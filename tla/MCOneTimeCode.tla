--------------------------- MODULE MCOneTimeCode ---------------------------
(***************************************************************************)
(* OneTimeCode with the key of mon_poise.c, the standard's example and     *)
(* keys that end at the boundaries of a block and of the padding.          *)
(***************************************************************************)
EXTENDS OneTimeCode

PoiseLetters == <<77, 121, 76, 101, 103, 111, 68, 111, 111, 114>>
PoiseKey     == [i \in 1..10 |-> ByteBits(PoiseLetters[i])]
KeyOf(len)   == [i \in 1..len |-> ByteBits(37 * i + len)]
MCKeys       == {PoiseKey, ExampleKey} \cup {KeyOf(len) : len \in {64, 65, 119, 120, 128}}
=============================================================================
