----------------------------- MODULE SpiceBytes -----------------------------
(* Buffers of bytes, as the modules on the console's data read them.           *)
EXTENDS Integers, Sequences, SequencesExt

CONSTANT Null   \* null, undefined, or an exception: there is nothing

Octet == 0..255

\* u8[i] of a Uint8Array: past its end there is undefined, which counts as 0.
At(u8, i) == IF i < Len(u8) THEN u8[i + 1] ELSE 0

\* f, a sequence, as TLC had better keep it: with its elements evaluated.
Tuple(f) == SubSeq(f, 1, Len(f))
=============================================================================
