--------------------------- MODULE MCTranscodeCache ---------------------------
(***************************************************************************)
(* Instances of TranscodeCache for TLC: an encode of a segment can turn    *)
(* out short or long, and damage leaves a content of the short size.       *)
(***************************************************************************)
EXTENDS TranscodeCache, TLC

CONSTANTS film, clip, short, long, junk, r1, r2

MCSizeOf == [c \in Content |-> IF c = long THEN 2 ELSE 1]

Symmetry == Permutations(Key) \cup Permutations(Reader)
=============================================================================
