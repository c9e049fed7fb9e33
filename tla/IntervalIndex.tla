---------------------------- MODULE IntervalIndex ---------------------------
(***************************************************************************)
(* The balanced tree of byte ranges in which the AV1 handler looks for     *)
(* overlapping tiles (src/src/av1-interval-index.c).  Nodes live in one    *)
(* appendable buffer and name each other by their position, 0 for none.    *)
(***************************************************************************)
EXTENDS AppendableBuffer

CONSTANT IndexCapacity          \* NVD_INTERVAL_INDEX_CAPACITY

EmptyIndex == [storage |-> EmptyBuffer, root |-> 0, maxEnd |-> 0]

\* nvdIntervalIndexReset keeps the storage.
ResetIndex(ix) ==
    [ix EXCEPT !.root = 0, !.maxEnd = 0,
               !.storage = [@ EXCEPT !.size = 0, !.cells = <<>>, !.failed = FALSE]]

Larger(a, b) == IF a > b THEN a ELSE b
Height(ns, id) == IF id = 0 THEN 0 ELSE ns[id].height
UpdateHeight(ns, id) ==
    [ns EXCEPT ![id].height = 1 + Larger(Height(ns, ns[id].left), Height(ns, ns[id].right))]

RotateLeft(ns, root) ==
    LET next == ns[root].right
        moved == [ns EXCEPT ![root].right = ns[next].left, ![next].left = root]
    IN  [nodes |-> UpdateHeight(UpdateHeight(moved, root), next), root |-> next]

RotateRight(ns, root) ==
    LET next == ns[root].left
        moved == [ns EXCEPT ![root].left = ns[next].right, ![next].right = root]
    IN  [nodes |-> UpdateHeight(UpdateHeight(moved, root), next), root |-> next]

\* insert, on the way back from the leaf: the subtree at r has received a
\* node that starts at `start'.
\* A mutant: a subtree that leans to the inside is not turned first.
RebalancedOnce(ns, r, start) ==
    LET u == UpdateHeight(ns, r)
        balance == Height(u, u[r].left) - Height(u, u[r].right)
    IN  CASE balance > 1 -> RotateRight(u, r)
          [] balance < -1 -> RotateLeft(u, r)
          [] OTHER -> [nodes |-> u, root |-> r]
Rebalanced(ns, r, start) ==
    LET u == UpdateHeight(ns, r)
        left == u[r].left
        right == u[r].right
        inner == IF Height(u, left) > Height(u, right)
                 THEN IF start > u[left].start THEN RotateLeft(u, left)
                      ELSE [nodes |-> u, root |-> left]
                 ELSE IF start < u[right].start THEN RotateRight(u, right)
                      ELSE [nodes |-> u, root |-> right]
    IN  CASE Height(u, left) - Height(u, right) > 1 ->
                RotateRight([inner.nodes EXCEPT ![r].left = inner.root], r)
          [] Height(u, left) - Height(u, right) < -1 ->
                RotateLeft([inner.nodes EXCEPT ![r].right = inner.root], r)
          [] OTHER -> [nodes |-> u, root |-> r]

\* insert: the nodes ns, of which the last is new and not yet linked.
Insert(ns, top) ==
    LET added == Len(ns)
        start == ns[added].start
        At[r \in 0 .. added] ==
            IF r = 0 THEN [nodes |-> ns, root |-> added]
            ELSE IF start < ns[r].start
                 THEN LET sub == At[ns[r].left] IN
                      Rebalanced([sub.nodes EXCEPT ![r].left = sub.root], r, start)
                 ELSE LET sub == At[ns[r].right] IN
                      Rebalanced([sub.nodes EXCEPT ![r].right = sub.root], r, start)
    IN  At[top]

\* The walk of nvdIntervalIndexInsert.  A range that starts at or after the
\* largest end cannot overlap.
\* A mutant: touching ranges count as overlapping.
IsFreeStrict(ix, start, end) ==
    LET ns == ix.storage.cells
        From[r \in 0 .. ix.storage.size] ==
            IF r = 0 THEN TRUE
            ELSE IF end < ns[r].start THEN From[ns[r].left]
            ELSE IF start > ns[r].end THEN From[ns[r].right]
            ELSE FALSE
    IN  start >= ix.maxEnd \/ From[ix.root]
IsFree(ix, start, end) ==
    LET ns == ix.storage.cells
        From[r \in 0 .. ix.storage.size] ==
            IF r = 0 THEN TRUE
            ELSE IF end <= ns[r].start THEN From[ns[r].left]
            ELSE IF start >= ns[r].end THEN From[ns[r].right]
            ELSE FALSE
    IN  start >= ix.maxEnd \/ From[ix.root]

Insertable(ix, start, end) ==
    /\ start < end
    /\ ix.storage.size < IndexCapacity
    /\ IsFree(ix, start, end)

\* nvdIntervalIndexInsert of an insertable range; without memory only the
\* failure of the storage is noted.
IndexInsert(ix, start, end, mem) ==
    LET node == [start |-> start, end |-> end, left |-> 0, right |-> 0, height |-> 1]
        storage == AppendBuffer(ix.storage, <<node>>, mem)
        tree == Insert(storage.cells, ix.root)
    IN  IF ~CanReserve(ix.storage, 1, mem) THEN [ix EXCEPT !.storage = storage]
        ELSE [storage |-> [storage EXCEPT !.cells = tree.nodes],
              root |-> tree.root, maxEnd |-> Larger(ix.maxEnd, end)]

-----------------------------------------------------------------------------
(* What the tree must be.                                                  *)

Ranges(ix) == {<<n.start, n.end>> : n \in {ix.storage.cells[i] : i \in 1 .. ix.storage.size}}

\* Every node is reached once, in order of its start, and the two subtrees
\* of a node differ in height by at most one.
IsBalancedTree(ix) ==
    LET ns == ix.storage.cells
        InOrder[r \in 0 .. ix.storage.size] ==
            IF r = 0 THEN <<>> ELSE InOrder[ns[r].left] \o <<r>> \o InOrder[ns[r].right]
        order == InOrder[ix.root]
    IN  /\ Len(order) = ix.storage.size
        /\ \A i, j \in 1 .. Len(order) : i < j => ns[order[i]].end <= ns[order[j]].start
        /\ \A r \in 1 .. ix.storage.size :
              /\ Height(ns, ns[r].left) - Height(ns, ns[r].right) \in -1 .. 1
              /\ ns[r].height = 1 + Larger(Height(ns, ns[r].left), Height(ns, ns[r].right))
=============================================================================
