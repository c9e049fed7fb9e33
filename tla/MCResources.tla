---------------------------- MODULE MCResources ----------------------------
(* Two displays that compete for one slot.  The samples of Capabilities are *)
(* further initial states, from which no step is taken.                     *)
EXTENDS Resources, Capabilities

CONSTANTS d1, d2

TwoDisplays == {d1, d2}

Symmetry == Permutations(TwoDisplays)
-----------------------------------------------------------------------------
VARIABLE gpu

Tuples == {Offers[i].tuple : i \in DOMAIN Offers}

(* GPUs that support one tuple, all, or all but one. *)
GpuInit ==
    \E sixteen, four44 \in BOOLEAN, t \in Tuples, caps \in {"one", "but one", "all"} :
        gpu = [sixteen |-> sixteen, four44 |-> four44,
               caps |-> CASE caps = "one" -> {t} [] caps = "but one" -> Tuples \ {t} [] OTHER -> Tuples]

MCInit == Init /\ (gpu = [caps |-> {}] \/ (GpuInit /\ backend = "direct"))

MCNext == gpu.caps = {} /\ Next /\ UNCHANGED gpu

MCSpec == MCInit /\ [][MCNext]_<<vars, gpu>>

(* Whatever the GPU supports, the answers to a client's queries agree.     *)
QueriesAgree == gpu.caps # {} => CapabilitiesAgree(gpu)
=============================================================================
