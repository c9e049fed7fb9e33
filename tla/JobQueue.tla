------------------------------ MODULE JobQueue ------------------------------
(***************************************************************************)
(* What the resolve queue promises its users, without ring, mutex or       *)
(* condition variables: a bounded first-in first-out channel that can be   *)
(* closed.  A closed channel accepts nothing; a shutdown leaves the        *)
(* accepted items to be delivered, a cancel hands them all back.           *)
(*                                                                         *)
(* ResolveQueue.tla, the model of src/src/resolve-queue.c, implements this *)
(* specification; DecodePipeline.tla uses the queue only through it.       *)
(***************************************************************************)
EXTENDS Naturals, Sequences

CONSTANTS Items,      \* what can be queued (ResolveJob pointers)
          Capacity    \* RESOLVE_QUEUE_CAPACITY

VARIABLES content,    \* accepted and not yet delivered, oldest first
          closed      \* no further item will be accepted

vars == <<content, closed>>

Init == content = <<>> /\ closed = FALSE

Accept(i) ==
    /\ ~closed
    /\ Len(content) < Capacity
    /\ content' = Append(content, i)
    /\ UNCHANGED closed

Deliver ==
    /\ content # <<>>
    /\ content' = Tail(content)
    /\ UNCHANGED closed

Shutdown == closed' = TRUE /\ UNCHANGED content

Cancel == closed' = TRUE /\ content' = <<>>

\* The context that owned the queue is gone; the next one starts afresh.
Renew == closed' = FALSE /\ content' = <<>>

Next ==
    \/ \E i \in Items : Accept(i)
    \/ Deliver
    \/ Shutdown
    \/ Cancel
    \/ Renew

Spec == Init /\ [][Next]_vars
=============================================================================
