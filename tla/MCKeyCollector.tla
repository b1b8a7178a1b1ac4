--------------------------- MODULE MCKeyCollector ---------------------------
(* Small instances of KeyCollector.                                        *)
EXTENDS KeyCollector

\* Key slots are interchangeable.
KeySymmetry == Permutations(Key)

\* Object IDs as 4-bit numbers: a bucket of 3 never comes near the end, and a
\* decrement below 0 still wraps.
SmallIDMod == 16
=============================================================================
