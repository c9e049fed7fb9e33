-------------------------- MODULE MCBackingImages --------------------------
(* Small instances of BackingImages.                                        *)
EXTENDS BackingImages, TLC

CONSTANTS t1, t2, s1, s2, i1, i2, i3

MCThreads == {t1, t2}
MCSurfaces == {s1, s2}
MCImages == {i1, i2, i3}
MCSurfaceBytes == [s \in MCSurfaces |-> IF s = s1 THEN 1 ELSE 3]
MCSymmetry == Permutations(MCThreads) \cup Permutations(MCImages)
=============================================================================
