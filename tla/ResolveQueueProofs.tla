------------------------- MODULE ResolveQueueProofs -------------------------
(***************************************************************************)
(* Proofs about ResolveQueue, for every capacity and any finite number of  *)
(* producers and consumers.                                                *)
(***************************************************************************)
EXTENDS ResolveQueue, SequenceTheorems, FiniteSetTheorems, TLAPS

-----------------------------------------------------------------------------
(* Arithmetic of the ring: (r + k) % Capacity, for k slots from r on.      *)

\* The slot k steps after r, written without a remainder.
LEMMA SlotAfter ==
    ASSUME NEW C \in Nat \ {0}, NEW r \in 0 .. C - 1, NEW k \in 0 .. C
    PROVE  /\ (r + k) % C = IF r + k < C THEN r + k ELSE r + k - C
           /\ (r + k) % C \in 0 .. C - 1
<1>1. CASE r + k < C
  BY <1>1
<1>2. CASE ~(r + k < C)
  <2>1. (r + k) % C = r + k - C
    BY <1>2
  <2> QED
    BY <1>2, <2>1
<1> QED
  BY <1>1, <1>2

\* Advancing the start by one shifts every offset by one.
LEMMA SlotShift ==
    ASSUME NEW C \in Nat \ {0}, NEW r \in 0 .. C - 1, NEW k \in 0 .. C - 1
    PROVE  (((r + 1) % C) + k) % C = (r + (k + 1)) % C
<1>1. /\ (r + 1) % C = IF r + 1 < C THEN r + 1 ELSE r + 1 - C
      /\ (r + 1) % C \in 0 .. C - 1
  BY SlotAfter, 1 \in 0 .. C
<1>2. (r + (k + 1)) % C = IF r + (k + 1) < C THEN r + (k + 1) ELSE r + (k + 1) - C
  BY SlotAfter, k + 1 \in 0 .. C
<1> DEFINE q == (r + 1) % C
<1>3. (q + k) % C = IF q + k < C THEN q + k ELSE q + k - C
  <2> HIDE DEF q
  <2> SUFFICES ASSUME q \in 0 .. C - 1
      PROVE  (q + k) % C = IF q + k < C THEN q + k ELSE q + k - C
    BY <1>1 DEF q
  <2> QED
    BY SlotAfter, k \in 0 .. C
<1> QED
  BY <1>1, <1>2, <1>3

\* Different offsets below Capacity are different slots.
LEMMA SlotsDistinct ==
    ASSUME NEW C \in Nat \ {0}, NEW r \in 0 .. C - 1,
           NEW j \in 0 .. C - 1, NEW k \in 0 .. C - 1, j # k
    PROVE  (r + j) % C # (r + k) % C
<1>1. (r + j) % C = IF r + j < C THEN r + j ELSE r + j - C
  BY SlotAfter, j \in 0 .. C
<1>2. (r + k) % C = IF r + k < C THEN r + k ELSE r + k - C
  BY SlotAfter, k \in 0 .. C
<1> QED
  BY <1>1, <1>2

-----------------------------------------------------------------------------
(* Types.  Pop delivers what the ring holds at readIdx, so that the type   *)
(* of what it delivers rests on the ring being filled from readIdx on.     *)

\* The slots from readIdx on hold the queued items, and writeIdx follows them.
RingFilled ==
    /\ writeIdx = (readIdx + count) % Capacity
    /\ \A k \in 0 .. count - 1 : items[(readIdx + k) % Capacity] \in Items

\* A thread inside push has an item; nobody is inside a queue that is not
\* initialized.
CallsOK ==
    /\ \A p \in Producers : status[p] # "idle" => arg[p] \in Items
    /\ ~initialized => \A t \in Threads : status[t] = "idle"

RingInv == TypeOK /\ RingFilled /\ CallsOK

\* A signal to some of the threads keeps the type of status and does not
\* change which threads are inside a call.
LEMMA SignalType ==
    ASSUME NEW st \in [Threads -> Status], NEW S \in SUBSET Threads, Signal(st, S)
    PROVE  /\ status' \in [Threads -> Status]
           /\ \A t \in Threads : status'[t] = "idle" <=> st[t] = "idle"
BY DEF Signal, Status

\* So does a broadcast.
LEMMA BroadcastType ==
    ASSUME NEW st \in [Threads -> Status]
    PROVE  /\ Broadcast(st) \in [Threads -> Status]
           /\ \A t \in Threads : Broadcast(st)[t] = "idle" <=> st[t] = "idle"
BY DEF Broadcast, Status

\* The queued items are a sequence of items.
LEMMA ContentType == RingInv => Content \in Seq(Items) /\ Len(Content) = count
<1> SUFFICES ASSUME RingInv PROVE Content \in Seq(Items) /\ Len(Content) = count
  OBVIOUS
<1>1. count \in Nat
  BY QueueAssumption DEF RingInv, TypeOK
<1>2. \A i \in 1 .. count : items[(readIdx + i - 1) % Capacity] \in Items
  <2> SUFFICES ASSUME NEW i \in 1 .. count
      PROVE  items[(readIdx + i - 1) % Capacity] \in Items
    OBVIOUS
  <2>1. i - 1 \in 0 .. count - 1
    BY <1>1
  <2>2. readIdx + i - 1 = readIdx + (i - 1)
    BY <1>1, QueueAssumption DEF RingInv, TypeOK, Slots
  <2> QED
    BY <2>1, <2>2 DEF RingInv, RingFilled
<1> QED
  BY <1>1, <1>2 DEF Content

\* Accepting an item fills the slot after the queued ones and no other.
LEMMA PushAcceptRing ==
    ASSUME RingInv, NEW p \in Producers, PushAccept(p)
    PROVE  RingInv'
<1> USE QueueAssumption
<1>1. /\ status \in [Threads -> Status] /\ status[p] # "idle" /\ arg[p] \in Items
      /\ Consumers \in SUBSET Threads /\ p \in Threads
  BY DEF RingInv, TypeOK, CallsOK, PushAccept, Threads
<1>2. /\ status' \in [Threads -> Status]
      /\ \A t \in Threads : status'[t] = "idle" <=> (t = p \/ status[t] = "idle")
  <2> DEFINE st == [status EXCEPT ![p] = "idle"]
  <2>1. st \in [Threads -> Status]
    BY <1>1 DEF Status
  <2>2. Signal(st, Consumers)
    BY DEF PushAccept
  <2>3. /\ status' \in [Threads -> Status]
        /\ \A t \in Threads : status'[t] = "idle" <=> st[t] = "idle"
    <3> HIDE DEF st
    <3> QED
      BY <1>1, <2>1, <2>2, SignalType
  <2> QED
    BY <1>1, <2>3
<1>3. /\ Capacity \in Nat \ {0} /\ readIdx \in 0 .. Capacity - 1
      /\ count \in 0 .. Capacity - 1 /\ count' = count + 1 /\ readIdx' = readIdx
      /\ writeIdx = (readIdx + count) % Capacity
      /\ writeIdx \in 0 .. Capacity - 1
      /\ items' = [items EXCEPT ![writeIdx] = arg[p]]
      /\ writeIdx' = (writeIdx + 1) % Capacity
  BY DEF RingInv, TypeOK, RingFilled, PushAccept, Slots, NextSlot
<1>4. TypeOK'
  <2>1. items' \in [Slots -> Items \cup {NULL}] /\ count' \in 0 .. Capacity
    BY <1>1, <1>3 DEF RingInv, TypeOK, Slots
  <2>2. writeIdx' \in Slots /\ readIdx' \in Slots
    BY <1>3, SlotAfter, 1 \in 0 .. Capacity DEF Slots
  <2>3. highWater' \in 0 .. Capacity
    BY <1>3 DEF RingInv, TypeOK, PushAccept, Max2
  <2>4. accepted' \in Seq(Items) /\ popped' \in Seq(Items) /\ cancelled' \in Seq(Items)
    BY <1>1 DEF RingInv, TypeOK, PushAccept
  <2>5. arg' \in [Producers -> Items \cup {NULL}]
    BY DEF RingInv, TypeOK, PushAccept
  <2> QED
    BY <1>2, <2>1, <2>2, <2>3, <2>4, <2>5 DEF RingInv, TypeOK, PushAccept
<1>5. RingFilled'
  <2>1. writeIdx' = (readIdx + (count + 1)) % Capacity
    <3>1. (readIdx + count) % Capacity = IF readIdx + count < Capacity
                     THEN readIdx + count ELSE readIdx + count - Capacity
      BY <1>3, SlotAfter, count \in 0 .. Capacity
    <3>2. (readIdx + (count + 1)) % Capacity = IF readIdx + (count + 1) < Capacity
                     THEN readIdx + (count + 1) ELSE readIdx + (count + 1) - Capacity
      BY <1>3, SlotAfter, count + 1 \in 0 .. Capacity
    <3>3. (writeIdx + 1) % Capacity = IF writeIdx + 1 < Capacity
                     THEN writeIdx + 1 ELSE writeIdx + 1 - Capacity
      BY <1>3, SlotAfter, 1 \in 0 .. Capacity
    <3> QED
      BY <1>3, <3>1, <3>2, <3>3
  <2>2. ASSUME NEW k \in 0 .. count
        PROVE  items'[(readIdx + k) % Capacity] \in Items
    <3>1. (readIdx + k) % Capacity \in Slots
      BY <1>3, SlotAfter, k \in 0 .. Capacity DEF Slots
    <3>2. CASE k = count
      BY <1>1, <1>3, <3>1, <3>2 DEF RingInv, TypeOK
    <3>3. CASE k # count
      <4>1. (readIdx + k) % Capacity # writeIdx
        BY <1>3, <3>3, SlotsDistinct, k \in 0 .. Capacity - 1
      <4>2. items[(readIdx + k) % Capacity] \in Items
        <5>1. k \in 0 .. count - 1
          BY <1>3, <3>3
        <5> QED
          BY <5>1 DEF RingInv, RingFilled
      <4> QED
        BY <1>3, <3>1, <4>1, <4>2 DEF RingInv, TypeOK
    <3> QED
      BY <3>2, <3>3
  <2> QED
    BY <1>3, <2>1, <2>2 DEF RingFilled
<1>6. CallsOK'
  <2>1. \A q \in Producers : status'[q] # "idle" => arg'[q] \in Items
    BY <1>1, <1>2 DEF RingInv, TypeOK, CallsOK, PushAccept, Threads
  <2>2. initialized'
    BY <1>1 DEF RingInv, CallsOK, PushAccept
  <2> QED
    BY <2>1, <2>2 DEF CallsOK
<1> QED
  BY <1>4, <1>5, <1>6 DEF RingInv

\* Taking the oldest item empties its slot and leaves the others in place.
LEMMA PopTakeRing ==
    ASSUME RingInv, NEW c \in Consumers, PopTake(c)
    PROVE  RingInv' /\ items[readIdx] \in Items
<1> USE QueueAssumption
<1>1. /\ status \in [Threads -> Status] /\ status[c] # "idle"
      /\ Producers \in SUBSET Threads /\ c \in Threads
  BY DEF RingInv, TypeOK, PopTake, Threads
<1>2. /\ status' \in [Threads -> Status]
      /\ \A t \in Threads : status'[t] = "idle" <=> (t = c \/ status[t] = "idle")
  <2> DEFINE st == [status EXCEPT ![c] = "idle"]
  <2>1. st \in [Threads -> Status]
    BY <1>1 DEF Status
  <2>2. Signal(st, Producers)
    BY DEF PopTake
  <2>3. /\ status' \in [Threads -> Status]
        /\ \A t \in Threads : status'[t] = "idle" <=> st[t] = "idle"
    <3> HIDE DEF st
    <3> QED
      BY <1>1, <2>1, <2>2, SignalType
  <2> QED
    BY <1>1, <2>3
<1>3. /\ Capacity \in Nat \ {0} /\ readIdx \in 0 .. Capacity - 1
      /\ count \in 1 .. Capacity /\ count' = count - 1 /\ writeIdx' = writeIdx
      /\ writeIdx = (readIdx + count) % Capacity
      /\ items' = [items EXCEPT ![readIdx] = NULL]
      /\ readIdx' = (readIdx + 1) % Capacity
  BY DEF RingInv, TypeOK, RingFilled, PopTake, Slots, NextSlot
<1>3a. readIdx = (readIdx + 0) % Capacity
  BY <1>3
<1>4. items[readIdx] \in Items
  <2>1. 0 \in 0 .. count - 1
    BY <1>3
  <2> QED
    BY <1>3a, <2>1 DEF RingInv, RingFilled
<1>5. readIdx' \in Slots
  BY <1>3, SlotAfter, 1 \in 0 .. Capacity DEF Slots
<1>6. TypeOK'
  <2>1. items' \in [Slots -> Items \cup {NULL}] /\ count' \in 0 .. Capacity
    BY <1>3 DEF RingInv, TypeOK, Slots
  <2>2. accepted' \in Seq(Items) /\ popped' \in Seq(Items) /\ cancelled' \in Seq(Items)
    BY <1>4 DEF RingInv, TypeOK, PopTake
  <2> QED
    BY <1>2, <1>5, <2>1, <2>2 DEF RingInv, TypeOK, PopTake
<1>7. RingFilled'
  <2>1. ASSUME NEW k \in 0 .. count - 1
        PROVE  (readIdx' + k) % Capacity = (readIdx + (k + 1)) % Capacity
    BY <1>3, SlotShift, k \in 0 .. Capacity - 1
  <2>2. writeIdx' = (readIdx' + count') % Capacity
    <3>1. (count - 1) + 1 = count /\ count - 1 \in 0 .. count - 1
      BY <1>3
    <3> QED
      BY <1>3, <2>1, <3>1
  <2>3. ASSUME NEW k \in 0 .. count' - 1
        PROVE  items'[(readIdx' + k) % Capacity] \in Items
    <3>1. /\ k \in 0 .. count - 1 /\ k + 1 \in 0 .. count - 1
          /\ k + 1 \in 0 .. Capacity - 1 /\ k + 1 \in 0 .. Capacity
          /\ 0 \in 0 .. Capacity - 1 /\ k + 1 # 0
      BY <1>3
    <3>2. (readIdx + (k + 1)) % Capacity # readIdx
      BY <1>3, <1>3a, <3>1, SlotsDistinct
    <3>3. (readIdx + (k + 1)) % Capacity \in Slots
      BY <1>3, <3>1, SlotAfter DEF Slots
    <3>4. items[(readIdx + (k + 1)) % Capacity] \in Items
      BY <3>1 DEF RingInv, RingFilled
    <3> QED
      BY <1>3, <2>1, <3>1, <3>2, <3>3, <3>4 DEF RingInv, TypeOK
  <2> QED
    BY <2>2, <2>3 DEF RingFilled
<1>8. CallsOK'
  <2>1. \A q \in Producers : status'[q] # "idle" => arg'[q] \in Items
    BY <1>1, <1>2 DEF RingInv, TypeOK, CallsOK, PopTake, Threads
  <2>2. initialized'
    BY <1>1 DEF RingInv, CallsOK, PopTake
  <2> QED
    BY <2>1, <2>2 DEF CallsOK
<1> QED
  BY <1>4, <1>6, <1>7, <1>8 DEF RingInv

\* Cancelling hands out the queued items and empties the ring.
LEMMA CancelRing ==
    ASSUME RingInv, NEW n \in CancelCapacities, ResolveQueueCancel(n)
    PROVE  RingInv' /\ CancelledItems(n) = Content
<1> USE QueueAssumption
<1>1. Content \in Seq(Items) /\ Len(Content) = count
  BY ContentType
<1>2. CancelledItems(n) = Content
  <2>1. n \in Nat /\ n >= Capacity /\ count \in 0 .. Capacity /\ Capacity \in Nat
    BY CancelAssumption DEF RingInv, TypeOK
  <2>2. Min2(count, n) = count
    BY <2>1 DEF Min2
  <2> QED
    BY <1>1, <2>2, SubSeqFull DEF CancelledItems
<1>3. /\ Capacity \in Nat \ {0} /\ readIdx \in 0 .. Capacity - 1
      /\ count \in 0 .. Capacity
  BY DEF RingInv, TypeOK, Slots
<1>4. readIdx' \in Slots /\ writeIdx' \in Slots /\ count' = 0
  BY <1>3, SlotAfter DEF ResolveQueueCancel, Slots
<1>5. cancelled' \in Seq(Items)
  BY <1>1, <1>2, ConcatProperties DEF RingInv, TypeOK, ResolveQueueCancel
<1>6. items' \in [Slots -> Items \cup {NULL}]
  BY DEF RingInv, TypeOK, ResolveQueueCancel
<1>7. /\ status' \in [Threads -> Status]
      /\ \A t \in Threads : status'[t] = "idle" <=> status[t] = "idle"
  BY BroadcastType DEF RingInv, TypeOK, ResolveQueueCancel
<1>8. TypeOK'
  BY <1>3, <1>4, <1>5, <1>6, <1>7 DEF RingInv, TypeOK, ResolveQueueCancel
<1>9. RingFilled'
  <2>1. writeIdx' = (readIdx' + count') % Capacity
    <3>1. \A r \in 0 .. Capacity - 1 : (r + 0) % Capacity = r
      BY <1>3
    <3>2. (readIdx' + 0) % Capacity = readIdx'
      BY <1>4, <3>1 DEF Slots
    <3>3. (readIdx' + count') % Capacity = readIdx'
      BY <1>4, <3>2
    <3> QED
      BY <3>3 DEF ResolveQueueCancel
  <2> QED
    BY <1>4, <2>1 DEF RingFilled
<1>10. CallsOK'
  BY <1>7 DEF RingInv, CallsOK, ResolveQueueCancel, Threads
<1> QED
  BY <1>2, <1>8, <1>9, <1>10 DEF RingInv

\* A step that leaves the ring alone and changes the status of one thread.
LEMMA CallStepRing ==
    ASSUME RingInv, UNCHANGED <<ring, exiting, initialized, hist>>,
           status' \in [Threads -> Status],
           arg' \in [Producers -> Items \cup {NULL}],
           CallsOK'
    PROVE  RingInv'
BY DEF RingInv, TypeOK, RingFilled, ring, hist

\* Every step keeps the ring, the types and the calls in order.
LEMMA RingStep ==
    ASSUME RingInv, [Next]_vars
    PROVE  RingInv'
<1> USE QueueAssumption
<1>0. /\ status \in [Threads -> Status]
      /\ arg \in [Producers -> Items \cup {NULL}]
      /\ {"idle", "ready", "asleep"} = Status
  BY DEF RingInv, TypeOK, Status
<1>1. CASE ResolveQueueInit
  <2>1. TypeOK'
    <3>1. /\ items' \in [Slots -> Items \cup {NULL}]
          /\ readIdx' \in Slots /\ writeIdx' \in Slots
          /\ count' \in 0 .. Capacity /\ highWater' \in 0 .. Capacity
      BY <1>1 DEF ResolveQueueInit, Slots
    <3>2. accepted' \in Seq(Items) /\ popped' \in Seq(Items) /\ cancelled' \in Seq(Items)
      BY <1>1 DEF ResolveQueueInit
    <3>3. exiting' \in BOOLEAN /\ initialized' \in BOOLEAN
      BY <1>1 DEF ResolveQueueInit
    <3> QED
      BY <1>0, <1>1, <3>1, <3>2, <3>3 DEF TypeOK, ResolveQueueInit, calls
  <2>2. RingFilled'
    BY <1>1 DEF ResolveQueueInit, RingFilled
  <2>3. CallsOK'
    BY <1>1 DEF RingInv, CallsOK, ResolveQueueInit, calls
  <2> QED
    BY <2>1, <2>2, <2>3 DEF RingInv
<1>2. CASE ResolveQueueDestroy
  BY <1>2 DEF RingInv, TypeOK, RingFilled, CallsOK, ResolveQueueDestroy, ring, calls, hist
<1>3. ASSUME NEW p \in Producers, NEW i \in Items, PushCall(p, i)
      PROVE  RingInv'
  <2>1. /\ p \in Threads /\ arg'[p] = i
        /\ status' = [status EXCEPT ![p] = "ready"]
        /\ arg' = [arg EXCEPT ![p] = i]
        /\ initialized
    BY <1>0, <1>3 DEF PushCall, Threads
  <2>2. CallsOK'
    BY <1>0, <1>3, <2>1 DEF RingInv, CallsOK, PushCall, Threads
  <2> QED
    BY <1>0, <1>3, <2>1, <2>2, CallStepRing DEF PushCall
<1>4. ASSUME NEW p \in Producers, PushWait(p)
      PROVE  RingInv'
  <2>1. CallsOK'
    BY <1>0, <1>4 DEF RingInv, CallsOK, PushWait, Threads
  <2> QED
    BY <1>0, <1>4, <2>1, CallStepRing DEF PushWait
<1>5. ASSUME NEW p \in Producers, PushRefuse(p)
      PROVE  RingInv'
  <2>1. CallsOK'
    BY <1>0, <1>5 DEF RingInv, CallsOK, PushRefuse, Threads
  <2> QED
    BY <1>0, <1>5, <2>1, CallStepRing DEF PushRefuse
<1>6. ASSUME NEW p \in Producers, PushAccept(p)
      PROVE  RingInv'
  BY <1>6, PushAcceptRing
<1>7. ASSUME NEW c \in Consumers, PopCall(c)
      PROVE  RingInv'
  <2>1. CallsOK'
    BY <1>0, <1>7 DEF RingInv, CallsOK, PopCall, Threads
  <2> QED
    BY <1>0, <1>7, <2>1, CallStepRing DEF PopCall
<1>8. ASSUME NEW c \in Consumers, PopWait(c)
      PROVE  RingInv'
  <2>1. CallsOK'
    BY <1>0, <1>8 DEF RingInv, CallsOK, PopWait, Threads
  <2> QED
    BY <1>0, <1>8, <2>1, CallStepRing DEF PopWait
<1>9. ASSUME NEW c \in Consumers, PopEnd(c)
      PROVE  RingInv'
  <2>1. CallsOK'
    BY <1>0, <1>9 DEF RingInv, CallsOK, PopEnd, Threads
  <2> QED
    BY <1>0, <1>9, <2>1, CallStepRing DEF PopEnd
<1>10. ASSUME NEW c \in Consumers, PopTake(c)
       PROVE  RingInv'
  BY <1>10, PopTakeRing
<1>11. ASSUME NEW t \in Threads, SpuriousWakeup(t)
       PROVE  RingInv'
  <2>1. CallsOK'
    BY <1>0, <1>11 DEF RingInv, CallsOK, SpuriousWakeup, Threads
  <2> QED
    BY <1>0, <1>11, <2>1, CallStepRing DEF SpuriousWakeup
<1>12. CASE ResolveQueueShutdown
  <2>1. /\ status' \in [Threads -> Status]
        /\ \A t \in Threads : status'[t] = "idle" <=> status[t] = "idle"
    BY <1>0, <1>12, BroadcastType DEF ResolveQueueShutdown
  <2>2. CallsOK'
    BY <1>12, <2>1 DEF RingInv, CallsOK, ResolveQueueShutdown, Threads
  <2>3. TypeOK' /\ RingFilled'
    BY <1>12, <2>1 DEF RingInv, TypeOK, RingFilled, ResolveQueueShutdown, ring, hist
  <2> QED
    BY <2>2, <2>3 DEF RingInv
<1>13. ASSUME NEW n \in CancelCapacities, ResolveQueueCancel(n)
       PROVE  RingInv'
  BY <1>13, CancelRing
<1>14. CASE UNCHANGED vars
  BY <1>14 DEF RingInv, TypeOK, RingFilled, CallsOK, vars, ring, calls, hist
<1> QED
  BY <1>1, <1>2, <1>3, <1>4, <1>5, <1>6, <1>7, <1>8, <1>9, <1>10, <1>11, <1>12,
     <1>13, <1>14 DEF Next, Produce, Consume

\* The initial state has an empty ring.
LEMMA RingInit == Init => RingInv
<1> SUFFICES ASSUME Init PROVE RingInv
  OBVIOUS
<1>1. TypeOK
  BY QueueAssumption DEF Init, TypeOK, Slots, Status, Threads
<1>2. RingFilled
  BY QueueAssumption DEF Init, RingFilled
<1>3. CallsOK
  BY DEF Init, CallsOK, Threads
<1> QED
  BY <1>1, <1>2, <1>3 DEF RingInv

\* The ring invariant holds in every reachable state.
LEMMA RingAlways == Spec => []RingInv
<1>1. RingInv /\ [Next]_vars => RingInv'
  BY RingStep
<1> QED
  BY RingInit, <1>1, PTL DEF Spec

\* Every variable keeps its type: whatever the capacity and the threads, the
\* two indices that push and pop advance stay inside the array, and pop and
\* cancel hand out items and never an empty slot.
THEOREM TypeCorrect == Spec => []TypeOK
<1>1. RingInv => TypeOK
  BY DEF RingInv
<1> QED
  BY RingAlways, <1>1, PTL

-----------------------------------------------------------------------------
(* What the operations do to the queued items, seen as a sequence.         *)

\* An element of Content, with the offset of its slot as a natural number.
LEMMA ContentAt ==
    RingInv => \A i \in 1 .. count : Content[i] = items[(readIdx + (i - 1)) % Capacity]
<1> SUFFICES ASSUME RingInv, NEW i \in 1 .. count
             PROVE  Content[i] = items[(readIdx + (i - 1)) % Capacity]
  OBVIOUS
<1>1. readIdx + i - 1 = readIdx + (i - 1)
  BY QueueAssumption DEF RingInv, TypeOK, Slots
<1> QED
  BY <1>1 DEF Content

\* Type and elements of Content together.
ContentFacts ==
    /\ Content \in Seq(Items) /\ Len(Content) = count
    /\ \A i \in 1 .. count : Content[i] = items[(readIdx + (i - 1)) % Capacity]
\* They hold after a step as well.
LEMMA ContentNext == RingInv' => ContentFacts'
<1>1. RingInv => ContentFacts
  BY ContentType, ContentAt DEF ContentFacts
<1> QED
  BY <1>1, PTL

\* A push appends its item.
LEMMA ContentPush ==
    ASSUME RingInv, NEW p \in Producers, PushAccept(p)
    PROVE  Content' = Append(Content, arg[p]) /\ arg[p] \in Items
<1> USE QueueAssumption
<1>1. RingInv'
  BY PushAcceptRing
<1>2. /\ Content \in Seq(Items) /\ Len(Content) = count
      /\ Content' \in Seq(Items) /\ Len(Content') = count'
  BY <1>1, ContentType, ContentNext DEF ContentFacts
<1>2a. \A i \in 1 .. count' :
          Content'[i] = items'[(readIdx' + (i - 1)) % Capacity]
  BY <1>1, ContentNext DEF ContentFacts
<1>3. /\ Capacity \in Nat \ {0} /\ readIdx \in 0 .. Capacity - 1
      /\ count \in 0 .. Capacity - 1 /\ count' = count + 1 /\ readIdx' = readIdx
      /\ writeIdx = (readIdx + count) % Capacity
      /\ items' = [items EXCEPT ![writeIdx] = arg[p]]
      /\ items \in [Slots -> Items \cup {NULL}]
      /\ arg[p] \in Items
  BY DEF RingInv, TypeOK, RingFilled, CallsOK, PushAccept, Slots
<1>4. ASSUME NEW i \in 1 .. count + 1
      PROVE  Content'[i] = Append(Content, arg[p])[i]
  <2>1. /\ i - 1 \in 0 .. Capacity - 1 /\ i - 1 \in 0 .. Capacity
        /\ i \in 1 .. count'
    BY <1>3
  <2>2. Content'[i] = items'[(readIdx + (i - 1)) % Capacity]
    BY <1>2a, <1>3, <2>1
  <2>3. (readIdx + (i - 1)) % Capacity \in Slots
    BY <1>3, <2>1, SlotAfter DEF Slots
  <2>4. CASE i = count + 1
    <3>1. i - 1 = count
      BY <1>3, <2>4
    <3>2. Content'[i] = arg[p]
      BY <1>3, <2>2, <2>3, <3>1
    <3> QED
      BY <1>2, <1>3, <2>4, <3>2
  <2>5. CASE i # count + 1
    <3>1. i \in 1 .. count /\ i - 1 # count /\ count \in 0 .. Capacity - 1
      BY <1>3, <2>5
    <3>2. (readIdx + (i - 1)) % Capacity # writeIdx
      BY <1>3, <2>1, <3>1, SlotsDistinct
    <3>3. Content'[i] = Content[i]
      BY <1>3, <2>2, <2>3, <3>1, <3>2, ContentAt
    <3> QED
      BY <1>2, <1>3, <3>1, <3>3
  <2> QED
    BY <2>4, <2>5
<1>5. Append(Content, arg[p]) \in Seq(Items) /\ Len(Append(Content, arg[p])) = count + 1
  BY <1>2, <1>3
<1> QED
  BY <1>2, <1>3, <1>4, <1>5, SeqEqual

\* A pop takes the first item and leaves the rest.
LEMMA ContentPop ==
    ASSUME RingInv, NEW c \in Consumers, PopTake(c)
    PROVE  /\ Content # <<>> /\ Content' = Tail(Content)
           /\ Head(Content) = items[readIdx]
<1> USE QueueAssumption
<1>1. RingInv'
  BY PopTakeRing
<1>2. /\ Content \in Seq(Items) /\ Len(Content) = count
      /\ Content' \in Seq(Items) /\ Len(Content') = count'
  BY <1>1, ContentType, ContentNext DEF ContentFacts
<1>2a. \A i \in 1 .. count' :
          Content'[i] = items'[(readIdx' + (i - 1)) % Capacity]
  BY <1>1, ContentNext DEF ContentFacts
<1>3. /\ Capacity \in Nat \ {0} /\ readIdx \in 0 .. Capacity - 1
      /\ count \in 1 .. Capacity /\ count' = count - 1
      /\ items' = [items EXCEPT ![readIdx] = NULL]
      /\ items \in [Slots -> Items \cup {NULL}]
      /\ readIdx' = (readIdx + 1) % Capacity
  BY DEF RingInv, TypeOK, RingFilled, PopTake, Slots, NextSlot
<1>4. readIdx = (readIdx + 0) % Capacity
  BY <1>3
<1>5. Content # <<>>
  BY <1>2, <1>3
<1>6. Head(Content) = items[readIdx]
  <2>1. Content[1] = items[(readIdx + (1 - 1)) % Capacity] /\ 1 - 1 = 0
    BY <1>3, ContentAt, 1 \in 1 .. count
  <2> QED
    BY <1>2, <1>4, <2>1
<1>7. ASSUME NEW i \in 1 .. count - 1
      PROVE  Content'[i] = Tail(Content)[i]
  <2>1. /\ i \in 1 .. count' /\ i + 1 \in 1 .. count
        /\ i - 1 \in 0 .. Capacity - 1 /\ i \in 0 .. Capacity - 1 /\ i \in 0 .. Capacity
        /\ (i - 1) + 1 = i /\ (i + 1) - 1 = i /\ i # 0 /\ 0 \in 0 .. Capacity - 1
    BY <1>3
  <2>2. Content'[i] = items'[(readIdx' + (i - 1)) % Capacity]
    BY <1>2a, <2>1
  <2>3. (readIdx' + (i - 1)) % Capacity = (readIdx + i) % Capacity
    BY <1>3, <2>1, SlotShift
  <2>4. (readIdx + i) % Capacity # readIdx
    BY <1>3, <1>4, <2>1, SlotsDistinct
  <2>5. (readIdx + i) % Capacity \in Slots
    BY <1>3, <2>1, SlotAfter DEF Slots
  <2>6. Content[i + 1] = items[(readIdx + i) % Capacity]
    BY <2>1, ContentAt
  <2>7. Content'[i] = Content[i + 1]
    BY <1>3, <2>2, <2>3, <2>4, <2>5, <2>6
  <2> QED
    BY <1>2, <1>3, <1>5, <2>7, HeadTailProperties
<1>8. Tail(Content) \in Seq(Items) /\ Len(Tail(Content)) = count - 1
  BY <1>2, <1>5, HeadTailProperties
<1>9. Content' = Tail(Content)
  BY <1>2, <1>3, <1>7, <1>8, SeqEqual
<1> QED
  BY <1>5, <1>6, <1>9

\* A ring that counts no item holds none.
LEMMA ContentEmpty ==
    ASSUME count = 0
    PROVE  Content = <<>>
BY DEF Content

\* A step that leaves items, readIdx and count alone leaves Content alone.
LEMMA ContentSame ==
    ASSUME UNCHANGED <<items, readIdx, count>>
    PROVE  Content' = Content
BY DEF Content

\* The steps that touch neither the ring nor the history.
QuietStep ==
    \/ ResolveQueueDestroy
    \/ \E p \in Producers : (\E i \in Items : PushCall(p, i)) \/ PushWait(p) \/ PushRefuse(p)
    \/ \E c \in Consumers : PopCall(c) \/ PopWait(c) \/ PopEnd(c)
    \/ \E t \in Threads : SpuriousWakeup(t)
    \/ UNCHANGED vars

\* They leave the ring, the flag and the history as they are.
LEMMA QuietStepUnchanged ==
    ASSUME QuietStep
    PROVE  UNCHANGED <<ring, exiting, hist>>
BY DEF QuietStep, ResolveQueueDestroy, PushCall, PushWait, PushRefuse, PopCall,
       PopWait, PopEnd, SpuriousWakeup, vars

\* The steps, sorted by what they do to the queued items.
LEMMA StepKinds ==
    ASSUME [Next]_vars
    PROVE  \/ ResolveQueueInit
           \/ \E p \in Producers : PushAccept(p)
           \/ \E c \in Consumers : PopTake(c)
           \/ ResolveQueueShutdown
           \/ \E n \in CancelCapacities : ResolveQueueCancel(n)
           \/ QuietStep
BY DEF Next, Produce, Consume, QuietStep

\* The queue with its ring, mutex and condition variables is the bounded
\* first-in first-out channel the rest of the driver relies on: every step
\* accepts at the end, delivers from the front, closes, empties or does nothing.
THEOREM ChannelRefinement == Spec => ImplementsChannel
<1>1. Init => Channel!Init
  BY ContentEmpty DEF Init, Channel!Init
<1>2. ASSUME RingInv, [Next]_vars
      PROVE  [Channel!Next]_(Channel!vars)
  <2>1. CASE ResolveQueueInit
    <3>1. Content' = <<>>
      BY <2>1 DEF ResolveQueueInit, Content
    <3> QED
      BY <2>1, <3>1 DEF ResolveQueueInit, Channel!Next, Channel!Renew
  <2>2. ASSUME NEW p \in Producers, PushAccept(p)
        PROVE  Channel!Next
    <3>1. Content' = Append(Content, arg[p]) /\ arg[p] \in Items
      BY <1>2, <2>2, ContentPush
    <3>2. Len(Content) < Capacity
      BY <1>2, <2>2, ContentType, QueueAssumption DEF RingInv, TypeOK, PushAccept
    <3>3. ~exiting /\ exiting' = exiting
      BY <2>2 DEF PushAccept
    <3> QED
      BY <3>1, <3>2, <3>3 DEF Channel!Next, Channel!Accept
  <2>3. ASSUME NEW c \in Consumers, PopTake(c)
        PROVE  Channel!Next
    BY <1>2, <2>3, ContentPop DEF PopTake, Channel!Next, Channel!Deliver
  <2>4. CASE ResolveQueueShutdown
    BY <2>4, ContentSame DEF ResolveQueueShutdown, ring, Channel!Next, Channel!Shutdown
  <2>5. ASSUME NEW n \in CancelCapacities, ResolveQueueCancel(n)
        PROVE  Channel!Next
    <3>1. Content' = <<>>
      BY <2>5 DEF ResolveQueueCancel, Content
    <3> QED
      BY <2>5, <3>1 DEF ResolveQueueCancel, Channel!Next, Channel!Cancel
  <2>6. CASE QuietStep
    BY <2>6, QuietStepUnchanged, ContentSame DEF ring, Channel!vars
  <2> QED
    BY <1>2, <2>1, <2>2, <2>3, <2>4, <2>5, <2>6, StepKinds
<1>3. Spec => []RingInv
  BY RingAlways
<1> QED
  BY <1>1, <1>2, <1>3, PTL DEF Spec, ImplementsChannel, Channel!Spec

-----------------------------------------------------------------------------
(* Exactly once, in order.  A cancel ends the queue: what it took out was  *)
(* everything, and nothing is accepted afterwards.                         *)

OrderInv ==
    /\ RingInv
    /\ ExactlyOnceInOrder
    /\ cancelled # <<>> => exiting /\ count = 0

\* Appending to the second of two sequences appends to both together.
LEMMA AppendConcat ==
    \A s, t \in Seq(Items) : \A e \in Items : Append(s \o t, e) = s \o Append(t, e)
<1> SUFFICES ASSUME NEW s \in Seq(Items), NEW t \in Seq(Items), NEW e \in Items
             PROVE  Append(s \o t, e) = s \o Append(t, e)
  OBVIOUS
<1>1. /\ s \o t \in Seq(Items) /\ Len(s \o t) = Len(s) + Len(t)
      /\ Append(t, e) \in Seq(Items) /\ Len(Append(t, e)) = Len(t) + 1
      /\ Len(s) \in Nat /\ Len(t) \in Nat
  BY ConcatProperties
<1>2. /\ Append(s \o t, e) \in Seq(Items) /\ s \o Append(t, e) \in Seq(Items)
      /\ Len(Append(s \o t, e)) = Len(s) + Len(t) + 1
      /\ Len(s \o Append(t, e)) = Len(s) + Len(t) + 1
  BY <1>1, ConcatProperties
<1>3. ASSUME NEW i \in 1 .. Len(s) + Len(t) + 1
      PROVE  Append(s \o t, e)[i] = (s \o Append(t, e))[i]
  BY <1>1
<1> QED
  BY <1>1, <1>2, <1>3, SeqEqual

\* Every step keeps the order of delivery.
LEMMA OrderStep ==
    ASSUME OrderInv, [Next]_vars
    PROVE  OrderInv'
<1>0. /\ RingInv /\ RingInv'
      /\ accepted \in Seq(Items) /\ popped \in Seq(Items) /\ cancelled \in Seq(Items)
      /\ Content \in Seq(Items) /\ Len(Content) = count
      /\ accepted = popped \o cancelled \o Content
  BY RingStep, ContentType DEF OrderInv, RingInv, TypeOK, ExactlyOnceInOrder
<1>1. CASE ResolveQueueInit
  <2>1. Content' = <<>>
    BY <1>1 DEF ResolveQueueInit, Content
  <2>2. <<>> = <<>> \o <<>> \o <<>>
    OBVIOUS
  <2> QED
    BY <1>0, <1>1, <2>1, <2>2 DEF ResolveQueueInit, OrderInv, ExactlyOnceInOrder
<1>2. ASSUME NEW p \in Producers, PushAccept(p)
      PROVE  OrderInv'
  <2>1. Content' = Append(Content, arg[p]) /\ arg[p] \in Items
    BY <1>0, <1>2, ContentPush
  <2>2. cancelled = <<>> /\ cancelled' = <<>> /\ popped' = popped
    BY <1>2 DEF OrderInv, PushAccept
  <2>3. accepted' = Append(accepted, arg[p])
    BY <1>2 DEF PushAccept
  <2>4. Append(popped \o Content, arg[p]) = popped \o Append(Content, arg[p])
    <3>1. popped \in Seq(Items) /\ Content \in Seq(Items) /\ arg[p] \in Items
      BY <1>0, <2>1
    <3> QED
      BY <3>1, AppendConcat
  <2>5. popped \o <<>> = popped
    BY <1>0
  <2>6. accepted' = popped' \o cancelled' \o Content'
    BY <1>0, <2>1, <2>2, <2>3, <2>4, <2>5
  <2> QED
    BY <1>0, <2>2, <2>6 DEF OrderInv, ExactlyOnceInOrder
<1>3. ASSUME NEW c \in Consumers, PopTake(c)
      PROVE  OrderInv'
  <2>1. /\ Content # <<>> /\ Content' = Tail(Content)
        /\ Head(Content) = items[readIdx] /\ items[readIdx] \in Items
    BY <1>0, <1>3, ContentPop, PopTakeRing
  <2>2. cancelled = <<>> /\ cancelled' = <<>> /\ accepted' = accepted
    BY <1>3 DEF OrderInv, PopTake
  <2>3. popped' = Append(popped, Head(Content))
    BY <1>3, <2>1 DEF PopTake
  <2>4. Append(popped, Head(Content)) \o Tail(Content) = popped \o Content
    BY <1>0, <2>1
  <2> QED
    BY <1>0, <2>1, <2>2, <2>3, <2>4 DEF OrderInv, ExactlyOnceInOrder
<1>4. CASE ResolveQueueShutdown
  BY <1>0, <1>4, ContentSame DEF ResolveQueueShutdown, OrderInv, ExactlyOnceInOrder, ring, hist
<1>5. ASSUME NEW n \in CancelCapacities, ResolveQueueCancel(n)
      PROVE  OrderInv'
  <2>1. Content' = <<>>
    BY <1>5 DEF ResolveQueueCancel, Content
  <2>2. /\ cancelled' = cancelled \o Content
        /\ accepted' = accepted /\ popped' = popped /\ exiting' /\ count' = 0
    BY <1>0, <1>5, CancelRing DEF ResolveQueueCancel
  <2>3. popped \o cancelled \o Content = popped \o (cancelled \o Content) \o <<>>
    BY <1>0
  <2> QED
    BY <1>0, <2>1, <2>2, <2>3 DEF OrderInv, ExactlyOnceInOrder
<1>6. CASE QuietStep
  <2>1. UNCHANGED <<ring, exiting, hist>> /\ Content' = Content
    BY <1>6, QuietStepUnchanged, ContentSame DEF ring
  <2> QED
    BY <1>0, <2>1 DEF OrderInv, ExactlyOnceInOrder, ring, hist
<1> QED
  BY <1>1, <1>2, <1>3, <1>4, <1>5, <1>6, StepKinds

\* Every job that push accepted is handed over exactly once and in the order
\* of acceptance, by pop or by cancel, and none is left behind in the ring.
THEOREM ExactlyOnce == Spec => []ExactlyOnceInOrder
<1>1. Init => OrderInv
  <2>1. Init => RingInv
    BY RingInit
  <2>2. <<>> = <<>> \o <<>> \o <<>>
    OBVIOUS
  <2> QED
    BY <2>1, <2>2, ContentEmpty DEF Init, OrderInv, ExactlyOnceInOrder
<1>2. OrderInv /\ [Next]_vars => OrderInv'
  BY OrderStep
<1>3. OrderInv => ExactlyOnceInOrder
  BY DEF OrderInv
<1> QED
  BY <1>1, <1>2, <1>3, PTL DEF Spec

-----------------------------------------------------------------------------
(* Wakeups.                                                                *)

\* The threads that are awake inside a call can be counted.
LEMMA ReadyFinite ==
    ASSUME NEW S \in {Producers, Consumers}
    PROVE  /\ IsFiniteSet(Ready(S)) /\ Cardinality(Ready(S)) \in Nat
           /\ IsFiniteSet(Ready(S)') /\ Cardinality(Ready(S)') \in Nat
<1>1. Ready(S) \in SUBSET S /\ Ready(S)' \in SUBSET S /\ IsFiniteSet(S)
  BY QueueAssumption DEF Ready
<1> QED
  BY <1>1, FS_Subset, FS_CardinalityType

\* Nobody misses a wakeup while nobody sleeps.
LEMMA NobodySleeps ==
    ASSUME \A t \in Threads : status'[t] # "asleep"
    PROVE  NoMissedWakeup'
BY DEF NoMissedWakeup, Asleep, Threads

\* A step that puts nobody to sleep and ends no call, on the same ring.
LEMMA MoreAwake ==
    ASSUME NoMissedWakeup, RingInv, UNCHANGED <<count, exiting>>,
           \A t \in Threads : /\ status'[t] = "asleep" => status[t] = "asleep"
                              /\ status[t] = "ready" => status'[t] = "ready"
    PROVE  NoMissedWakeup'
<1>1. ASSUME NEW S \in {Producers, Consumers}
      PROVE  /\ Cardinality(Ready(S)) <= Cardinality(Ready(S)')
             /\ Asleep(S)' \subseteq Asleep(S)
             /\ Cardinality(Ready(S)) \in Nat /\ Cardinality(Ready(S)') \in Nat
  <2>1. Ready(S) \in SUBSET (Ready(S)') /\ Asleep(S)' \subseteq Asleep(S)
    BY DEF Ready, Asleep, Threads
  <2> QED
    BY <2>1, ReadyFinite, FS_Subset
<1>2. count \in Nat /\ Capacity \in Nat /\ Capacity - count \in Nat
  BY QueueAssumption DEF RingInv, TypeOK
<1>3. /\ Asleep(Consumers)' # {} => count' <= Cardinality(Ready(Consumers)')
      /\ Asleep(Producers)' # {} => Capacity - count' <= Cardinality(Ready(Producers)')
  BY <1>1, <1>2 DEF NoMissedWakeup
<1>4. exiting' => Asleep(Threads)' = {}
  BY DEF NoMissedWakeup, Asleep
<1> QED
  BY <1>3, <1>4 DEF NoMissedWakeup

\* A thread t of S leaves its call, and one thread of the other side R is
\* signalled: S has one thread less awake, R one more unless none sleeps.
LEMMA Handover ==
    ASSUME RingInv, NEW S, NEW R,
           (S = Producers /\ R = Consumers) \/ (S = Consumers /\ R = Producers),
           NEW t \in S, status[t] = "ready",
           Signal([status EXCEPT ![t] = "idle"], R)
    PROVE  /\ Asleep(S)' = Asleep(S)
           /\ Cardinality(Ready(S)') = Cardinality(Ready(S)) - 1
           /\ \/ Asleep(R)' = {}
              \/ /\ Cardinality(Ready(R)') = Cardinality(Ready(R)) + 1
                 /\ Asleep(R) # {}
           /\ Asleep(Threads)' \subseteq Asleep(Threads)
<1> USE QueueAssumption
<1>1. /\ status \in [Threads -> Status] /\ S \cap R = {} /\ t \notin R
      /\ S \subseteq Threads /\ R \subseteq Threads
      /\ S \in {Producers, Consumers} /\ R \in {Producers, Consumers}
  BY DEF RingInv, TypeOK, Threads
<1>2. /\ IsFiniteSet(Ready(S)) /\ Cardinality(Ready(S)) \in Nat
      /\ IsFiniteSet(Ready(R)) /\ Cardinality(Ready(R)) \in Nat
  BY <1>1, ReadyFinite
<1>3. CASE \E u \in R : status[u] = "asleep"
  <2>1. PICK u \in R : status[u] = "asleep" /\ status' = [[status EXCEPT ![t] = "idle"] EXCEPT ![u] = "ready"]
    BY <1>1, <1>3 DEF Signal
  <2>2. /\ Asleep(S)' = Asleep(S)
        /\ Ready(S)' = Ready(S) \ {t} /\ t \in Ready(S)
        /\ Ready(R)' = Ready(R) \cup {u} /\ u \notin Ready(R)
        /\ Asleep(R) # {} /\ Asleep(Threads)' \subseteq Asleep(Threads)
    BY <1>1, <2>1 DEF Asleep, Ready
  <2>3. Cardinality(Ready(S) \ {t}) = Cardinality(Ready(S)) - 1
    BY <1>2, <2>2, FS_RemoveElement
  <2>4. Cardinality(Ready(R) \cup {u}) = Cardinality(Ready(R)) + 1
    BY <1>2, <2>2, FS_AddElement
  <2> QED
    BY <2>2, <2>3, <2>4
<1>4. CASE ~ \E u \in R : status[u] = "asleep"
  <2>1. status' = [status EXCEPT ![t] = "idle"]
    BY <1>1, <1>4 DEF Signal
  <2>2. /\ Asleep(S)' = Asleep(S) /\ Asleep(R)' = {}
        /\ Ready(S)' = Ready(S) \ {t} /\ t \in Ready(S)
        /\ Asleep(Threads)' \subseteq Asleep(Threads)
    BY <1>1, <1>4, <2>1 DEF Asleep, Ready
  <2> QED
    BY <1>2, <2>2, FS_RemoveElement
<1> QED
  BY <1>3, <1>4

\* Every step leaves enough threads awake.
LEMMA WakeupStep ==
    ASSUME RingInv, NoMissedWakeup, [Next]_vars
    PROVE  NoMissedWakeup'
<1> USE QueueAssumption
<1>0. /\ status \in [Threads -> Status] /\ Producers \subseteq Threads
      /\ Consumers \subseteq Threads /\ Producers \cap Consumers = {}
      /\ count \in 0 .. Capacity /\ Capacity \in Nat \ {0}
  BY DEF RingInv, TypeOK, Threads
<1>1. CASE ResolveQueueInit
  BY <1>1, NobodySleeps DEF ResolveQueueInit, RingInv, CallsOK, calls
<1>2. CASE ResolveQueueDestroy
  BY <1>2, NobodySleeps DEF ResolveQueueDestroy, calls
<1>3. ASSUME NEW p \in Producers, NEW i \in Items, PushCall(p, i)
      PROVE  NoMissedWakeup'
  BY <1>0, <1>3, MoreAwake DEF PushCall, ring
<1>4. ASSUME NEW p \in Producers, PushWait(p)
      PROVE  NoMissedWakeup'
  <2>1. /\ Asleep(Consumers)' = Asleep(Consumers)
        /\ Ready(Consumers)' = Ready(Consumers)
        /\ count' = count /\ count = Capacity /\ exiting' = FALSE
    BY <1>0, <1>4 DEF PushWait, Asleep, Ready, ring, RingInv, TypeOK
  <2>2. Capacity - count' <= Cardinality(Ready(Producers)')
    BY <1>0, <2>1, ReadyFinite
  <2> QED
    BY <2>1, <2>2 DEF NoMissedWakeup
<1>5. ASSUME NEW p \in Producers, PushRefuse(p)
      PROVE  NoMissedWakeup'
  <2>1. \A t \in Threads : status'[t] # "asleep"
    BY <1>0, <1>5 DEF PushRefuse, NoMissedWakeup, Asleep
  <2> QED
    BY <2>1, NobodySleeps
<1>6. ASSUME NEW p \in Producers, PushAccept(p)
      PROVE  NoMissedWakeup'
  <2>1. /\ status[p] = "ready" /\ ~exiting /\ exiting' = exiting /\ count' = count + 1
        /\ Signal([status EXCEPT ![p] = "idle"], Consumers)
    BY <1>6 DEF PushAccept
  <2>2. /\ Asleep(Producers)' = Asleep(Producers)
        /\ Cardinality(Ready(Producers)') = Cardinality(Ready(Producers)) - 1
        /\ \/ Asleep(Consumers)' = {}
           \/ /\ Cardinality(Ready(Consumers)') = Cardinality(Ready(Consumers)) + 1
              /\ Asleep(Consumers) # {}
    BY <2>1, Handover
  <2>3. Cardinality(Ready(Producers)) \in Nat /\ Cardinality(Ready(Consumers)) \in Nat
    BY ReadyFinite
  <2>4. /\ Asleep(Consumers)' # {} => count' <= Cardinality(Ready(Consumers)')
        /\ Asleep(Producers)' # {} => Capacity - count' <= Cardinality(Ready(Producers)')
    BY <1>0, <2>1, <2>2, <2>3 DEF NoMissedWakeup
  <2> QED
    BY <2>1, <2>4 DEF NoMissedWakeup
<1>7. ASSUME NEW c \in Consumers, PopCall(c)
      PROVE  NoMissedWakeup'
  BY <1>0, <1>7, MoreAwake DEF PopCall, ring
<1>8. ASSUME NEW c \in Consumers, PopWait(c)
      PROVE  NoMissedWakeup'
  <2>1. /\ Asleep(Producers)' = Asleep(Producers)
        /\ Ready(Producers)' = Ready(Producers)
        /\ count' = count /\ count = 0 /\ exiting' = FALSE
    BY <1>0, <1>8 DEF PopWait, Asleep, Ready, ring, RingInv, TypeOK
  <2>2. count' <= Cardinality(Ready(Consumers)')
    BY <2>1, ReadyFinite
  <2> QED
    BY <2>1, <2>2 DEF NoMissedWakeup
<1>9. ASSUME NEW c \in Consumers, PopEnd(c)
      PROVE  NoMissedWakeup'
  <2>1. \A t \in Threads : status'[t] # "asleep"
    BY <1>0, <1>9 DEF PopEnd, NoMissedWakeup, Asleep
  <2> QED
    BY <2>1, NobodySleeps
<1>10. ASSUME NEW c \in Consumers, PopTake(c)
       PROVE  NoMissedWakeup'
  <2>1. /\ status[c] = "ready" /\ exiting' = exiting /\ count' = count - 1 /\ count # 0
        /\ Signal([status EXCEPT ![c] = "idle"], Producers)
    BY <1>10 DEF PopTake
  <2>2. /\ Asleep(Consumers)' = Asleep(Consumers)
        /\ Cardinality(Ready(Consumers)') = Cardinality(Ready(Consumers)) - 1
        /\ \/ Asleep(Producers)' = {}
           \/ /\ Cardinality(Ready(Producers)') = Cardinality(Ready(Producers)) + 1
              /\ Asleep(Producers) # {}
        /\ Asleep(Threads)' \subseteq Asleep(Threads)
    BY <2>1, Handover
  <2>3. Cardinality(Ready(Producers)) \in Nat /\ Cardinality(Ready(Consumers)) \in Nat
    BY ReadyFinite
  <2>4. /\ Asleep(Consumers)' # {} => count' <= Cardinality(Ready(Consumers)')
        /\ Asleep(Producers)' # {} => Capacity - count' <= Cardinality(Ready(Producers)')
    BY <1>0, <2>1, <2>2, <2>3 DEF NoMissedWakeup
  <2>5. exiting' => Asleep(Threads)' = {}
    BY <2>1, <2>2 DEF NoMissedWakeup
  <2> QED
    BY <2>4, <2>5 DEF NoMissedWakeup
<1>11. ASSUME NEW t \in Threads, SpuriousWakeup(t)
       PROVE  NoMissedWakeup'
  BY <1>0, <1>11, MoreAwake DEF SpuriousWakeup, ring
<1>12. CASE ResolveQueueShutdown
  BY <1>0, <1>12, NobodySleeps DEF ResolveQueueShutdown, Broadcast, Status
<1>13. ASSUME NEW n \in CancelCapacities, ResolveQueueCancel(n)
       PROVE  NoMissedWakeup'
  BY <1>0, <1>13, NobodySleeps DEF ResolveQueueCancel, Broadcast, Status
<1>14. CASE UNCHANGED vars
  BY <1>14, MoreAwake DEF vars, ring, calls
<1> QED
  BY <1>1, <1>2, <1>3, <1>4, <1>5, <1>6, <1>7, <1>8, <1>9, <1>10, <1>11, <1>12,
     <1>13, <1>14 DEF Next, Produce, Consume

\* For any number of producers and consumers one pthread_cond_signal per push
\* and per pop is enough: no thread sleeps on a condition that holds without
\* an awake thread to meet it, and none sleeps through teardown.
THEOREM WakeupsSuffice == Spec => []NoMissedWakeup
<1>1. Init => NoMissedWakeup
  BY DEF Init, NoMissedWakeup, Asleep, Threads
<1>2. RingInv /\ NoMissedWakeup /\ [Next]_vars => NoMissedWakeup'
  BY WakeupStep
<1> QED
  BY <1>1, <1>2, RingAlways, PTL DEF Spec
=============================================================================
