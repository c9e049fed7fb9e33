---------------------------- MODULE ObjectTable ----------------------------
(***************************************************************************)
(* The table that turns VA object IDs into objects                         *)
(* (src/src/object-table.c) and its use by the driver (allocateObject,     *)
(* getObject, deleteObject, deleteAllContexts, deleteAllObjects and        *)
(* nvTerminate in src/src/vabackend.c).                                    *)
(*                                                                         *)
(* Every access is made under objectCreationMutex, so each operation is    *)
(* one step.  The free slots form a linked FIFO list threaded through the  *)
(* slots; `free' is the list it is meant to be, kept as a history.         *)
(***************************************************************************)
EXTENDS Integers, Sequences, FiniteSets

CONSTANTS
    Types,              \* object types; "context" is one of them
    NULL,
    InitialCapacity,    \* NVD_OBJECT_INITIAL_CAPACITY
    MaxCapacity,        \* NVD_OBJECT_MAX_CAPACITY, 2 ^ NVD_OBJECT_INDEX_BITS
    MaxGeneration,      \* NVD_OBJECT_GENERATION_MASK
    MaxUses             \* bound: objects that live in one slot one after the other

ASSUME TableAssumption ==
    /\ InitialCapacity \in Nat \ {0}
    /\ MaxCapacity \in Nat \ {0}
    /\ InitialCapacity <= MaxCapacity
    /\ MaxGeneration \in Nat \ {0}
    /\ MaxUses \in Nat
    /\ NULL \notin [type : Types, id : Nat]

NONE == -1              \* NVD_OBJECT_SLOT_NONE

VARIABLES
    slots,              \* index -> [object, nextFree, generation]
    capacity, freeHead, freeTail, liveCount,
    terminating,        \* drv->terminating
    free,               \* history: the free slots, next to be used first
    uses                \* history: slot -> objects that have left it

vars == <<slots, capacity, freeHead, freeTail, liveCount, terminating, free, uses>>

Index == 0 .. capacity - 1
Last(s) == s[Len(s)]
Min2(a, b) == IF a < b THEN a ELSE b

-----------------------------------------------------------------------------
(* IDs.  The index takes the low bits, the generation the ones above.      *)

MakeId(generation, index) == generation * MaxCapacity + index
GenerationOf(id) == (id \div MaxCapacity) % (MaxGeneration + 1)
IndexOf(id) == id % MaxCapacity

\* The 16 bit counter wraps; zero is reserved for malformed IDs.
\* A mutant: the counter stands still at its end instead of wrapping.
NextGenerationStuck(g) == IF g = MaxGeneration THEN g ELSE g + 1
NextGeneration(g) == IF (g + 1) % (MaxGeneration + 1) = 0 THEN 1 ELSE g + 1

\* nvdObjectTableGet without and with the type.
Holds(id) ==
    /\ GenerationOf(id) # 0
    /\ IndexOf(id) < capacity
    /\ slots[IndexOf(id)].generation = GenerationOf(id)
    /\ slots[IndexOf(id)].object # NULL

Get(type, id) ==
    IF Holds(id) /\ slots[IndexOf(id)].object.type = type
    THEN slots[IndexOf(id)].object ELSE NULL

-----------------------------------------------------------------------------
Init ==
    /\ slots = <<>> /\ capacity = 0
    /\ freeHead = NONE /\ freeTail = NONE /\ liveCount = 0
    /\ terminating = FALSE
    /\ free = <<>> /\ uses = <<>>

\* growTable: called with an empty free list.
NewCapacity == Min2(IF capacity = 0 THEN InitialCapacity ELSE capacity * 2, MaxCapacity)
CanGrow == capacity < MaxCapacity

\* A table as allocate uses it: its slots, size and free list.
Table(sl, cap, head, tail, fr) ==
    [slots |-> sl, capacity |-> cap, head |-> head, tail |-> tail, free |-> fr]
Here == Table(slots, capacity, freeHead, freeTail, free)
Grown ==
    Table([i \in 0 .. NewCapacity - 1 |->
              IF i < capacity THEN slots[i]
              ELSE [object |-> NULL, generation |-> 1,
                    nextFree |-> IF i + 1 < NewCapacity THEN i + 1 ELSE NONE]],
          NewCapacity, capacity, NewCapacity - 1,
          [n \in 1 .. NewCapacity - capacity |-> capacity + n - 1])

\* Put the slot i at the end of the free list.
\* A mutant: the old tail is not linked to the slot.
EnqueuedUnlinked(sl, tail, i) == [sl EXCEPT ![i].nextFree = NONE]
Enqueued(sl, tail, i) ==
    IF tail = NONE THEN [sl EXCEPT ![i].nextFree = NONE]
    ELSE [sl EXCEPT ![i].nextFree = NONE, ![tail].nextFree = i]

\* nvdObjectTableAllocate, on the table T that has a free slot.
AllocateIn(T, type) ==
    LET i == T.head  next == T.slots[i].nextFree IN
    /\ slots' = [T.slots EXCEPT ![i].nextFree = NONE,
                    ![i].object = [type |-> type, id |-> MakeId(T.slots[i].generation, i)]]
    /\ capacity' = T.capacity
    /\ freeHead' = next
    /\ freeTail' = IF next = NONE THEN NONE ELSE T.tail
    /\ liveCount' = liveCount + 1
    /\ free' = Tail(T.free)

\* No memory for the object: the slot goes to the end of the list.
AllocateFailIn(T) ==
    LET i == T.head  next == T.slots[i].nextFree
        tail == IF next = NONE THEN NONE ELSE T.tail IN
    /\ slots' = Enqueued(T.slots, tail, i)
    /\ capacity' = T.capacity
    /\ freeHead' = IF tail = NONE THEN i ELSE next
    /\ freeTail' = i
    /\ free' = Append(Tail(T.free), i)
    /\ UNCHANGED liveCount

\* The history of a slot starts when the slot does.
GrownUses(n) == [i \in 0 .. n - 1 |-> IF i < capacity THEN uses[i] ELSE 0]

Allocate(type) ==
    /\ ~terminating
    /\ freeHead # NONE
    /\ AllocateIn(Here, type) \/ AllocateFailIn(Here)
    /\ UNCHANGED <<terminating, uses>>

\* The table grows before it allocates; if it cannot grow nothing happens.
GrowAndAllocate(type) ==
    /\ ~terminating
    /\ freeHead = NONE /\ CanGrow
    /\ AllocateIn(Grown, type) \/ AllocateFailIn(Grown)
    /\ uses' = GrownUses(NewCapacity)
    /\ UNCHANGED terminating

\* nvdObjectTableRemove of the object in slot i.
RemoveAt(i) ==
    /\ slots' = Enqueued([slots EXCEPT ![i].object = NULL,
                                       ![i].generation = NextGeneration(@)],
                         freeTail, i)
    /\ freeHead' = IF freeTail = NONE THEN i ELSE freeHead
    /\ freeTail' = i
    /\ liveCount' = liveCount - 1
    /\ free' = Append(free, i)
    /\ uses' = [uses EXCEPT ![i] = @ + 1]
    /\ UNCHANGED <<capacity, terminating>>

\* deleteObject; deleteObjectTyped and nvDestroySurfaces look the object up
\* by its type as well.  An ID that is not in the table changes nothing.
Remove(id) ==
    /\ Holds(id)
    /\ uses[IndexOf(id)] < MaxUses
    /\ RemoveAt(IndexOf(id))

-----------------------------------------------------------------------------
(* nvTerminate: no new objects, then the contexts from the first slot on,  *)
(* then the rest from the last slot on, then the table.                    *)

Occupied == {i \in Index : slots[i].object # NULL}
ContextSlots == {i \in Occupied : slots[i].object.type = "context"}

NvTerminate ==
    /\ ~terminating
    /\ terminating' = TRUE
    /\ UNCHANGED <<slots, capacity, freeHead, freeTail, liveCount, free, uses>>

DeleteAllContexts ==
    /\ terminating
    /\ \E i \in ContextSlots : (\A j \in ContextSlots : i <= j) /\ RemoveAt(i)

DeleteAllObjects ==
    /\ terminating
    /\ ContextSlots = {} /\ liveCount # 0
    /\ \E i \in Occupied : (\A j \in Occupied : j <= i) /\ RemoveAt(i)

\* The driver goes; a later __vaDriverInit_1_0 starts with a new table.
NvdObjectTableDestroy ==
    /\ terminating
    /\ ContextSlots = {} /\ liveCount = 0
    /\ slots' = <<>> /\ capacity' = 0
    /\ freeHead' = NONE /\ freeTail' = NONE /\ liveCount' = 0
    /\ terminating' = FALSE
    /\ free' = <<>> /\ uses' = <<>>

-----------------------------------------------------------------------------
\* Every ID a client can pass.
Ids == 0 .. MakeId(MaxGeneration, MaxCapacity - 1)

Next ==
    \/ \E type \in Types : Allocate(type) \/ GrowAndAllocate(type)
    \/ \E id \in Ids : Remove(id)
    \/ NvTerminate
    \/ DeleteAllContexts
    \/ DeleteAllObjects
    \/ NvdObjectTableDestroy

Spec == Init /\ [][Next]_vars

-----------------------------------------------------------------------------
(* Properties                                                              *)

Object == [type : Types, id : Nat]
Slot == [object : Object \cup {NULL}, nextFree : Int, generation : 1 .. MaxGeneration]

\* Every variable has its type; the generation is never zero and the table
\* never outgrows the index bits of an ID.
TypeOK ==
    /\ capacity \in 0 .. MaxCapacity
    /\ slots \in [Index -> Slot]
    /\ freeHead \in Index \cup {NONE} /\ freeTail \in Index \cup {NONE}
    /\ liveCount \in Nat
    /\ terminating \in BOOLEAN
    /\ free \in Seq(Index)
    /\ uses \in [Index -> Nat]

\* The links through the slots are the FIFO list they are meant to be: they
\* lead from freeHead through every free slot once to freeTail, over any
\* sequence of growth, failed allocations and removals.  liveCount counts
\* the rest: when deleteAllObjects stops at zero there is no object left.
FreeListExact ==
    /\ {free[n] : n \in 1 .. Len(free)} = Index \ Occupied
    /\ \A m, n \in 1 .. Len(free) : free[m] = free[n] => m = n
    /\ \A n \in 1 .. Len(free) - 1 : slots[free[n]].nextFree = free[n + 1]
    /\ IF free = <<>> THEN freeHead = NONE /\ freeTail = NONE
       ELSE /\ freeHead = free[1] /\ freeTail = Last(free)
            /\ slots[freeTail].nextFree = NONE
    /\ liveCount = Cardinality(Occupied)

\* An object is found under its ID and type for as long as it lives, and
\* by no other ID.
LiveObjectFound ==
    \A i \in Occupied :
        /\ Get(slots[i].object.type, slots[i].object.id) = slots[i].object
        /\ \A id \in Ids : Holds(id) /\ IndexOf(id) = i => id = slots[i].object.id

\* The ID of the object that was the u-th in slot i.
IdOfUse(i, u) == MakeId((u % MaxGeneration) + 1, i)

\* An ID whose object is gone finds nothing, until MaxGeneration objects have
\* come and gone in its slot and the generation has wrapped.
StaleIdRejected ==
    \A i \in Index : \A u \in 0 .. uses[i] - 1 :
        Holds(IdOfUse(i, u)) => uses[i] - u >= MaxGeneration
=============================================================================
