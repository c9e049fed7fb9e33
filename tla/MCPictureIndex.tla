--------------------------- MODULE MCPictureIndex ---------------------------
(* Model values for PictureIndex: more surfaces than indices, so that       *)
(* indices are recycled and waited for.                                    *)
EXTENDS PictureIndex, TLC

CONSTANTS c1, c2, s1, s2, s3

NoContext == {}
OneContext == {c1}
OtherContext == {c2}
BothContexts == {c1, c2}
MCSurfaces == {s1, s2, s3}
NoSurface == {}
VaryingHints == [c \in OneContext |-> {1, 2}]
DifferentHints == [c \in BothContexts |-> IF c = c1 THEN {1} ELSE {2}]
SurfaceSymmetry == Permutations(MCSurfaces)
=============================================================================
