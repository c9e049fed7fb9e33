---------------------------- MODULE ResolveQueue ----------------------------
(***************************************************************************)
(* The bounded blocking queue between the threads that end pictures and    *)
(* the resolve worker of a context (src/src/resolve-queue.c).              *)
(*                                                                         *)
(* Every field is only touched under queue->mutex, so a stretch of code    *)
(* between taking the mutex (or waking up from pthread_cond_wait, which    *)
(* re-takes it) and giving it up (by unlocking or by waiting) is one step. *)
(* A thread is                                                             *)
(*   "idle"   outside the queue,                                           *)
(*   "ready"  in a call and about to test the loop condition, because it   *)
(*            has just called or has been woken,                           *)
(*   "asleep" blocked in pthread_cond_wait.                                *)
(***************************************************************************)
EXTENDS Naturals, Sequences, FiniteSets

CONSTANTS
    Producers,          \* threads that push (in EndPicture)
    Consumers,          \* threads that pop (the resolve worker)
    Items,              \* the jobs; every job is allocated afresh and pushed once
    NULL,               \* an empty slot
    Capacity,           \* RESOLVE_QUEUE_CAPACITY
    CancelCapacities    \* sizes of the array a caller of cancel provides

ASSUME QueueAssumption ==
    /\ Capacity \in Nat \ {0}
    /\ CancelCapacities \subseteq Nat
    /\ IsFiniteSet(Producers)
    /\ IsFiniteSet(Consumers)
    /\ Producers \cap Consumers = {}
    /\ NULL \notin Items

\* Both callers of cancel pass an array of RESOLVE_QUEUE_CAPACITY entries.
ASSUME CancelAssumption == \A n \in CancelCapacities : n >= Capacity

VARIABLES
    items, readIdx, writeIdx, count, highWater, exiting, initialized,
    status,             \* thread -> "idle", "ready" or "asleep"
    arg,                \* producer -> the item of its call, or NULL
    accepted,           \* history: items accepted, in order
    popped,             \* history: items delivered by pop, in order
    cancelled           \* history: items taken out by cancel, in order

ring  == <<items, readIdx, writeIdx, count, highWater>>
calls == <<status, arg>>
hist  == <<accepted, popped, cancelled>>
vars  == <<ring, exiting, initialized, calls, hist>>

Threads == Producers \cup Consumers
Slots   == 0 .. Capacity - 1
Status  == {"idle", "ready", "asleep"}

Asleep(S) == {t \in S : status[t] = "asleep"}
Ready(S)  == {t \in S : status[t] = "ready"}

\* The queued items, oldest first, as the ring holds them.
Content == [i \in 1 .. count |-> items[(readIdx + i - 1) % Capacity]]

\* A mutant: the index runs off the ring.
NextSlotUnwrapped(i) == i + 1
NextSlot(i) == (i + 1) % Capacity

Max2(a, b) == IF a > b THEN a ELSE b
Min2(a, b) == IF a < b THEN a ELSE b

-----------------------------------------------------------------------------
(* Condition variables.  pthread_cond_signal wakes one waiter if there is  *)
(* one; further wakeups are covered by SpuriousWakeup.                     *)

\* A mutant: the signal is forgotten.
SignalNobody(st, S) == status' = st
Signal(st, S) ==
    IF \E t \in S : st[t] = "asleep"
    THEN \E t \in {u \in S : st[u] = "asleep"} : status' = [st EXCEPT ![t] = "ready"]
    ELSE status' = st

\* A mutant: teardown sets the flag and wakes nobody.
BroadcastNobody(st) == st
Broadcast(st) == [t \in Threads |-> IF st[t] = "asleep" THEN "ready" ELSE st[t]]

SpuriousWakeup(t) ==
    /\ status[t] = "asleep"
    /\ status' = [status EXCEPT ![t] = "ready"]
    /\ UNCHANGED <<ring, exiting, initialized, arg, hist>>

-----------------------------------------------------------------------------
(* resolveQueueInit and resolveQueueDestroy.  A context is zeroed when it  *)
(* is allocated, so a queue starts with every field 0; a failed init       *)
(* leaves it uninitialized.  The owner destroys a queue that was never     *)
(* used (a VideoProc context), or cancels it and joins the worker first,   *)
(* so that no thread is then inside a call.                                *)

Init ==
    /\ items = [s \in Slots |-> NULL]
    /\ readIdx = 0 /\ writeIdx = 0 /\ count = 0 /\ highWater = 0
    /\ exiting = FALSE /\ initialized = FALSE
    /\ accepted = <<>> /\ popped = <<>> /\ cancelled = <<>>
    /\ status = [t \in Threads |-> "idle"]
    /\ arg = [p \in Producers |-> NULL]

ResolveQueueInit ==
    /\ ~initialized
    /\ items' = [s \in Slots |-> NULL]
    /\ readIdx' = 0 /\ writeIdx' = 0 /\ count' = 0 /\ highWater' = 0
    /\ exiting' = FALSE
    /\ initialized' \in BOOLEAN
    /\ accepted' = <<>> /\ popped' = <<>> /\ cancelled' = <<>>
    /\ UNCHANGED calls

ResolveQueueDestroy ==
    /\ initialized
    /\ count = 0 /\ (exiting \/ accepted = <<>>)
    /\ \A t \in Threads : status[t] = "idle"
    /\ initialized' = FALSE
    /\ UNCHANGED <<ring, exiting, calls, hist>>

-----------------------------------------------------------------------------
(* resolveQueuePushTimed                                                   *)

PushCall(p, i) ==
    /\ initialized
    /\ status[p] = "idle"
    /\ i \notin {accepted[n] : n \in 1 .. Len(accepted)}
    /\ \A q \in Producers : arg[q] # i
    /\ status' = [status EXCEPT ![p] = "ready"]
    /\ arg' = [arg EXCEPT ![p] = i]
    /\ UNCHANGED <<ring, exiting, initialized, hist>>

PushWait(p) ==
    /\ status[p] = "ready"
    /\ count = Capacity /\ ~exiting
    /\ status' = [status EXCEPT ![p] = "asleep"]
    /\ UNCHANGED <<ring, exiting, initialized, arg, hist>>

PushRefuse(p) ==
    /\ status[p] = "ready"
    /\ exiting
    /\ status' = [status EXCEPT ![p] = "idle"]
    /\ arg' = [arg EXCEPT ![p] = NULL]
    /\ UNCHANGED <<ring, exiting, initialized, hist>>

\* A mutant: the exiting flag is tested before the wait and not after it.
PushAcceptLate(p) ==
    /\ status[p] = "ready"
    /\ count # Capacity
    /\ items' = [items EXCEPT ![writeIdx] = arg[p]]
    /\ writeIdx' = NextSlot(writeIdx)
    /\ count' = count + 1
    /\ highWater' = Max2(highWater, count + 1)
    /\ accepted' = Append(accepted, arg[p])
    /\ arg' = [arg EXCEPT ![p] = NULL]
    /\ Signal([status EXCEPT ![p] = "idle"], Consumers)
    /\ UNCHANGED <<readIdx, exiting, initialized, popped, cancelled>>

PushAccept(p) ==
    /\ status[p] = "ready"
    /\ count # Capacity /\ ~exiting
    /\ items' = [items EXCEPT ![writeIdx] = arg[p]]
    /\ writeIdx' = NextSlot(writeIdx)
    /\ count' = count + 1
    /\ highWater' = Max2(highWater, count + 1)
    /\ accepted' = Append(accepted, arg[p])
    /\ arg' = [arg EXCEPT ![p] = NULL]
    /\ Signal([status EXCEPT ![p] = "idle"], Consumers)
    /\ UNCHANGED <<readIdx, exiting, initialized, popped, cancelled>>

-----------------------------------------------------------------------------
(* resolveQueuePop                                                         *)

PopCall(c) ==
    /\ initialized
    /\ status[c] = "idle"
    /\ status' = [status EXCEPT ![c] = "ready"]
    /\ UNCHANGED <<ring, exiting, initialized, arg, hist>>

PopWait(c) ==
    /\ status[c] = "ready"
    /\ count = 0 /\ ~exiting
    /\ status' = [status EXCEPT ![c] = "asleep"]
    /\ UNCHANGED <<ring, exiting, initialized, arg, hist>>

\* Empty and exiting: the call returns false and the worker leaves its loop.
PopEnd(c) ==
    /\ status[c] = "ready"
    /\ count = 0 /\ exiting
    /\ status' = [status EXCEPT ![c] = "idle"]
    /\ UNCHANGED <<ring, exiting, initialized, arg, hist>>

PopTake(c) ==
    /\ status[c] = "ready"
    /\ count # 0
    /\ popped' = Append(popped, items[readIdx])
    /\ items' = [items EXCEPT ![readIdx] = NULL]
    /\ readIdx' = NextSlot(readIdx)
    /\ count' = count - 1
    /\ Signal([status EXCEPT ![c] = "idle"], Producers)
    /\ UNCHANGED <<writeIdx, highWater, exiting, initialized, arg,
                   accepted, cancelled>>

-----------------------------------------------------------------------------
(* resolveQueueShutdown and resolveQueueCancel                             *)

ResolveQueueShutdown ==
    /\ initialized
    /\ exiting' = TRUE
    /\ status' = Broadcast(status)
    /\ UNCHANGED <<ring, initialized, arg, hist>>

\* The loop pops every pending item and keeps the first `capacity' of them.
\* A mutant: the pending items are dropped one short.
CancelledItemsShort(capacity) == SubSeq(Content, 1, Min2(count, capacity) - 1)
CancelledItems(capacity) == SubSeq(Content, 1, Min2(count, capacity))

ResolveQueueCancel(capacity) ==
    /\ initialized
    /\ exiting' = TRUE
    /\ cancelled' = cancelled \o CancelledItems(capacity)
    /\ items' = [s \in Slots |->
                    IF \E i \in 0 .. count - 1 : s = (readIdx + i) % Capacity
                    THEN NULL ELSE items[s]]
    /\ readIdx' = (readIdx + count) % Capacity
    /\ writeIdx' = readIdx'
    /\ count' = 0
    /\ status' = Broadcast(status)
    /\ UNCHANGED <<highWater, initialized, arg, accepted, popped>>

-----------------------------------------------------------------------------
Produce(p) == PushWait(p) \/ PushRefuse(p) \/ PushAccept(p)
Consume(c) == PopWait(c) \/ PopEnd(c) \/ PopTake(c)

Next ==
    \/ ResolveQueueInit
    \/ ResolveQueueDestroy
    \/ \E p \in Producers : (\E i \in Items : PushCall(p, i)) \/ Produce(p)
    \/ \E c \in Consumers : PopCall(c) \/ Consume(c)
    \/ \E t \in Threads : SpuriousWakeup(t)
    \/ ResolveQueueShutdown
    \/ \E capacity \in CancelCapacities : ResolveQueueCancel(capacity)

Spec == Init /\ [][Next]_vars

\* A thread that is inside a call and can take the mutex eventually does, and
\* the worker calls pop again for as long as the queue is open.  Nothing is
\* assumed about spurious wakeups, about producers calling, or about teardown.
Fairness ==
    /\ \A p \in Producers : WF_vars(Produce(p))
    /\ \A c \in Consumers : WF_vars(Consume(c)) /\ WF_vars(PopCall(c))

FairSpec == Spec /\ Fairness

-----------------------------------------------------------------------------
(* Properties                                                              *)

\* Every variable has its type; in particular the two indices stay inside the
\* items array although push and pop advance them independently.
TypeOK ==
    /\ items \in [Slots -> Items \cup {NULL}]
    /\ readIdx \in Slots /\ writeIdx \in Slots
    /\ count \in 0 .. Capacity
    /\ highWater \in 0 .. Capacity
    /\ exiting \in BOOLEAN /\ initialized \in BOOLEAN
    /\ status \in [Threads -> Status]
    /\ arg \in [Producers -> Items \cup {NULL}]
    /\ accepted \in Seq(Items) /\ popped \in Seq(Items) /\ cancelled \in Seq(Items)

\* Every job that push accepted is handed over exactly once and in order: to
\* the worker, then to the canceller, and what is left is what the ring holds.
ExactlyOnceInOrder == accepted = popped \o cancelled \o Content

\* The while loops and the single pthread_cond_signal of push and pop lose no
\* wakeup: while a consumer sleeps, there is an awake consumer for each queued
\* item, and while a producer sleeps an awake producer for each free slot; and
\* nobody sleeps on a queue that is exiting.
NoMissedWakeup ==
    /\ Asleep(Consumers) # {} => count <= Cardinality(Ready(Consumers))
    /\ Asleep(Producers) # {} => Capacity - count <= Cardinality(Ready(Producers))
    /\ exiting => Asleep(Threads) = {}

\* The queue implements the bounded closable channel of JobQueue.
Channel == INSTANCE JobQueue WITH content <- Content, closed <- exiting
ImplementsChannel == Channel!Spec

\* A thread that ends a picture always gets out of push again, with the job
\* accepted or refused, however full the queue and whoever tears it down.
EveryPushReturns ==
    \A p \in Producers : (status[p] # "idle") ~> (status[p] = "idle")

\* The worker that sleeps in pop is let go once the queue is exiting, which is
\* what the pthread_join of destroyContext waits for.
WorkerReleased ==
    \A c \in Consumers : (exiting /\ status[c] # "idle") ~> (status[c] = "idle")
=============================================================================
