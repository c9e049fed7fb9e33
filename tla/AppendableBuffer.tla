-------------------------- MODULE AppendableBuffer --------------------------
(***************************************************************************)
(* The growing buffers the codec handlers write to                         *)
(* (src/src/appendable-buffer.c) and the rule that shrinks the ones of an  *)
(* idle context (maybeTrimContextHostBuffers in src/src/vabackend.c).      *)
(*                                                                         *)
(* A buffer is a record; a byte, or an element of the size its user        *)
(* appends, is a cell.  `cells' is what has been written since the size    *)
(* was last zero, so the size may be smaller than its length.  The         *)
(* argument `mem' of an operation is the largest block the allocator can   *)
(* give while it runs: a larger one makes memalign return NULL.            *)
(***************************************************************************)
EXTENDS Integers, Sequences

CONSTANTS
    MinCapacity,        \* the first allocation: 256 in the code
    SizeMax             \* SIZE_MAX

ASSUME BufferAssumption ==
    MinCapacity \in Nat \ {0} /\ SizeMax \in Nat /\ MinCapacity <= SizeMax

EmptyBuffer == [cells |-> <<>>, size |-> 0, allocated |-> 0, failed |-> FALSE]

Contents(b) == SubSeq(b.cells, 1, b.size)

\* memcpy to the position `at' of the written cells.
Overwrite(cells, at, data) ==
    SubSeq(cells, 1, at) \o data \o SubSeq(cells, at + Len(data) + 1, Len(cells))

\* The capacity grows by a half at a time until `required' fits.
GrownCapacity(allocated, required) ==
    LET Grow[n \in Nat] ==
            IF n >= required THEN n
            ELSE IF n \div 2 = 0 \/ n > SizeMax - n \div 2 THEN required
            ELSE Grow[n + n \div 2]
    IN  Grow[IF allocated # 0 THEN allocated ELSE MinCapacity]

\* Only `size' bytes survive a move.
ReserveBuffer(b, required, mem) ==
    LET capacity == GrownCapacity(b.allocated, required) IN
    IF required <= b.allocated THEN b
    ELSE IF capacity > mem THEN [b EXCEPT !.failed = TRUE]
    ELSE [b EXCEPT !.allocated = capacity, !.cells = Contents(b)]

ReserveAdditional(b, additional, mem) ==
    IF b.size > SizeMax - additional THEN [b EXCEPT !.failed = TRUE]
    ELSE ReserveBuffer(b, b.size + additional, mem)

\* The reserve calls report their own outcome, not the sticky flag.
CanReserve(b, additional, mem) ==
    /\ b.size <= SizeMax - additional
    /\ \/ b.size + additional <= b.allocated
       \/ GrownCapacity(b.allocated, b.size + additional) <= mem

AppendBuffer(b, data, mem) ==
    LET r == ReserveAdditional(b, Len(data), mem) IN
    IF Len(data) = 0 THEN b
    ELSE IF ~CanReserve(b, Len(data), mem) THEN r
    ELSE [r EXCEPT !.cells = Overwrite(r.cells, b.size, data), !.size = b.size + Len(data)]

\* A failed smaller allocation keeps the old one and is not an error.
TrimBuffer(b, target, mem) ==
    LET capacity == IF target < b.size THEN b.size ELSE target IN
    IF capacity >= b.allocated THEN b
    ELSE IF capacity > mem THEN b
    ELSE [b EXCEPT !.allocated = capacity, !.cells = Contents(b)]

-----------------------------------------------------------------------------
(* Trimming: `used' is what the picture that has just been submitted       *)
(* occupied.                                                               *)

Underused(b, used, threshold) ==
    threshold # 0 /\ b.allocated > threshold /\ used <= b.allocated \div 4

TrimTarget(used, threshold) ==
    LET target == IF used <= SizeMax \div 2 THEN used * 2 ELSE used
        lowest == IF threshold \div 8 < MinCapacity THEN MinCapacity ELSE threshold \div 8
    IN  IF target < lowest THEN lowest ELSE target

WellFormed(b) ==
    /\ b.size \in 0 .. Len(b.cells)
    /\ Len(b.cells) <= b.allocated
    /\ b.failed \in BOOLEAN
=============================================================================
