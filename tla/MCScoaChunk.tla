---------------------------- MODULE MCScoaChunk -----------------------------
(* Counts around every bound the functions know (7/8, 248/249, 255/256)    *)
(* and around their sums, where the pieces leave 0, 1, 7 or 8.             *)
EXTENDS ScoaChunk

Boundaries == {1, 2, 7, 8, 9, 15, 16, 247, 248, 249, 255, 256, 257, 262, 263, 264,
               496, 503, 504, 510, 511, 512}

MCCopies  == Boundaries
MCRepeats == Boundaries \ {1}
MCRaws    == {[k \in 1 .. n |-> IF k = n THEN 66 ELSE k % 2] : n \in Boundaries}
=============================================================================
