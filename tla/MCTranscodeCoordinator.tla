------------------------ MODULE MCTranscodeCoordinator ------------------------
(***************************************************************************)
(* Instances of TranscodeCoordinator for TLC: two TVs and two films.  A    *)
(* renewed binding differs from aFilm in a field cacheIdentity leaves out  *)
(* (credentialVersion, deviceSessionVersion), so it shares its cache key.  *)
(***************************************************************************)
EXTENDS TranscodeCoordinator, TLC

CONSTANTS tvA, tvB, film, clip, aFilm, aClip, aRenewed, bFilm, bClip,
          s1, s2, s3, c1, c2, r1, r2

MCDeviceOf == [b \in Binding |-> IF b \in {bFilm, bClip} THEN tvB ELSE tvA]
MCKeyOf == [b \in Binding |-> IF b \in {aClip, bClip} THEN clip ELSE film]

\* the disk may damage the first segment of the first item
MCOneFile == {<<film, 0>>}

Symmetry == Permutations(SessionId) \cup Permutations(Call) \cup Permutations(Request)
=============================================================================
