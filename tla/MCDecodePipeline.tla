-------------------------- MODULE MCDecodePipeline --------------------------
(* Model values for DecodePipeline.                                        *)
EXTENDS DecodePipeline, TLC

CONSTANTS t1, t2, s1, s2, d, v

TwoThreads == {t1, t2}
TwoSurfaces == {s1, s2}
OneSurface == {s1}
DecodeContext == {d}
BothContexts == {d, v}
VideoProcContext == {v}
NoContexts == {}

AllButDisplay == AllRules \ {"display"}

Symmetry == Permutations(TwoThreads) \cup Permutations(TwoSurfaces)
=============================================================================
