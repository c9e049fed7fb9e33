------------------------------- MODULE Buffers ------------------------------
(***************************************************************************)
(* Buffers, the images that own some of them, and the pool their memory    *)
(* comes from (src/src/vabackend.c), on top of the object table.           *)
(*                                                                         *)
(* A call is a sequence of steps, one for each time it takes the table's   *)
(* or the pool's mutex.  nvCreateBuffer holds the lifetime lock for        *)
(* reading, the calls that destroy hold it for writing, nvCreateImage does *)
(* not hold it at all and overlaps with everything.  The client calls      *)
(* vaTerminate when no other call is under way, as VA-API demands.         *)
(***************************************************************************)
EXTENDS ObjectTable

CONSTANTS
    Threads,
    ClassSizes,         \* bufferPoolClassSizes, ascending
    PoolBlocks,         \* 16: blocks kept for each class
    PoolMaxBytes,       \* drv->bufferPoolMaxBytes
    SizeModulus,        \* 2 ^ 64: size_t wraps here
    Sizes,              \* the sizes a client asks for
    MaxBlocks           \* bound: blocks the allocator can give

ASSUME PoolAssumption ==
    /\ ClassSizes \in Seq(Nat \ {0})
    /\ \A c \in 1 .. Len(ClassSizes) - 1 : ClassSizes[c] < ClassSizes[c + 1]
    /\ SizeModulus \in Nat \ {0}
    /\ \A s \in Sizes : s \in 0 .. SizeModulus - 1
    /\ PoolMaxBytes \in 0 .. SizeModulus - 1
    /\ PoolBlocks \in Nat
    /\ MaxBlocks \in Nat /\ NULL \notin 1 .. MaxBlocks
    /\ {"context", "buffer", "image"} \subseteq Types

VARIABLES
    body,               \* ID -> the NVBuffer or NVImage of the live object
    call,               \* thread -> the call it is in and what it has so far
    mem                 \* the blocks the allocator has given, and the pool

allVars == <<vars, body, call, mem>>

Classes == 1 .. Len(ClassSizes)
Idle == [op |-> "none"]
NoContents == [kind |-> "context"]
Buffer(size, owned) == [kind |-> "buffer", size |-> size, imageOwned |-> owned,
                        ptr |-> NULL, poolClass |-> 0, capacity |-> 0]
Image(id) == [kind |-> "image", imageBufferId |-> id]

\* The function f with a new entry, and without some.
Put(f, x, v) == [y \in DOMAIN f \cup {x} |-> IF y = x THEN v ELSE f[y]]
Drop(f, S) == [y \in DOMAIN f \ S |-> f[y]]

\* Nothing given, nothing kept.
EmptyMemory == [heap |-> <<>>, pool |-> [c \in Classes |-> <<>>],
                counts |-> [c \in Classes |-> 0], bytes |-> 0]

-----------------------------------------------------------------------------
(* Memory.                                                                 *)

\* bufferPoolClassForSize; zero stands for -1.
PoolClass(size) ==
    LET fits == {c \in Classes : size <= ClassSizes[c]} IN
    IF fits = {} THEN 0 ELSE CHOOSE c \in fits : \A d \in fits : c <= d
Capacity(size) == IF PoolClass(size) = 0 THEN size ELSE ClassSizes[PoolClass(size)]

\* allocateBufferMemory: the ways it can end.  posix_memalign may fail.
FreshBlocks ==
    {b \in 1 .. MaxBlocks : b \notin DOMAIN mem.heap /\ \A d \in 1 .. b - 1 : d \in DOMAIN mem.heap}
AllocateBufferMemory(size) ==
    LET c == PoolClass(size)
        outcome(m, b, ok) == [mem |-> m, ptr |-> b, ok |-> ok]
    IN  IF size = 0 THEN {outcome(mem, NULL, TRUE)}
        ELSE IF c # 0 /\ mem.pool[c] # <<>>
        THEN {outcome([mem EXCEPT !.pool[c] = Tail(@), !.counts[c] = @ - 1,
                                  !.bytes = (@ - ClassSizes[c]) % SizeModulus],
                      Head(mem.pool[c]), TRUE)}
        ELSE {outcome(mem, NULL, FALSE)} \cup
             {outcome([mem EXCEPT !.heap = Put(@, b, Capacity(size))], b, TRUE) : b \in FreshBlocks}
WithMemory(b, ptr) ==
    IF ptr = NULL THEN b
    ELSE [b EXCEPT !.ptr = ptr, !.poolClass = PoolClass(b.size), !.capacity = Capacity(b.size)]

\* releaseBufferMemory: the block goes to the pool while the pool has room.
\* A mutant: nothing but the unsigned difference guards the limit.
KeepsAny(b) ==
    /\ b.poolClass # 0
    /\ mem.counts[b.poolClass] < PoolBlocks
    /\ mem.bytes <= (PoolMaxBytes - b.capacity) % SizeModulus
Keeps(b) ==
    /\ b.poolClass # 0
    /\ mem.counts[b.poolClass] < PoolBlocks
    /\ b.capacity <= PoolMaxBytes
    /\ mem.bytes <= (PoolMaxBytes - b.capacity) % SizeModulus
ReleaseBufferMemory(b) ==
    IF b.kind # "buffer" \/ b.ptr = NULL THEN mem
    ELSE IF Keeps(b)
    THEN [mem EXCEPT !.pool[b.poolClass] = <<b.ptr>> \o @, !.counts[b.poolClass] = @ + 1,
                     !.bytes = (@ + b.capacity) % SizeModulus]
    ELSE [mem EXCEPT !.heap = Drop(@, {b.ptr})]

\* destroyBufferPool.
\* A mutant: the loop starts at the second class.
DestroyBufferPoolPart ==
    LET kept == UNION {{mem.pool[c][n] : n \in 1 .. Len(mem.pool[c])} : c \in Classes \ {1}}
    IN  [EmptyMemory EXCEPT !.heap = Drop(mem.heap, kept)]
DestroyBufferPool ==
    LET kept == UNION {{mem.pool[c][n] : n \in 1 .. Len(mem.pool[c])} : c \in Classes}
    IN  [EmptyMemory EXCEPT !.heap = Drop(mem.heap, kept)]

-----------------------------------------------------------------------------
(* allocateObject and deleteObject with what the object holds.             *)

New(type) == Allocate(type) \/ GrowAndAllocate(type)
NewId == IF freeHead # NONE THEN MakeId(slots[freeHead].generation, freeHead) ELSE MakeId(1, capacity)
Made == liveCount' = liveCount + 1      \* the step of the table succeeded
NoRoom == freeHead = NONE /\ ~CanGrow
With(id, b) == body' = Put(body, id, b)
Without(id) == body' = Drop(body, {id})
Go(t, c) == call' = [call EXCEPT ![t] = c]

\* getObject finds nothing once nvTerminate has begun.
Starts(t) == call[t] = Idle /\ ~terminating
In(t, ops) == call[t].op \in ops
NoWriter == \A t \in Threads : ~In(t, {"destroyImage"})
Exclusive == NoWriter /\ \A t \in Threads : ~In(t, {"buffer"})
Quiet == \A t \in Threads : call[t] = Idle
Live(kind) == {id \in DOMAIN body : body[id].kind = kind}

-----------------------------------------------------------------------------
\* nvCreateContext and nvDestroyContext, of which only the object matters here.
NvCreateContext(t) ==
    /\ Starts(t) /\ NoWriter /\ Live("context") = {}
    /\ New("context")
    /\ IF Made THEN With(NewId, NoContents) ELSE UNCHANGED body
    /\ UNCHANGED <<call, mem>>

NvDestroyContext(t) ==
    \E id \in Live("context") :
        /\ Starts(t) /\ Exclusive
        /\ Remove(id) /\ Without(id)
        /\ UNCHANGED <<call, mem>>

\* nvCreateBuffer: the object, then its memory.
NvCreateBuffer(t) ==
    \E size \in Sizes :
        /\ Starts(t) /\ NoWriter /\ Live("context") # {}
        /\ New("buffer")
        /\ IF Made THEN With(NewId, Buffer(size, FALSE)) /\ Go(t, [op |-> "buffer", id |-> NewId])
           ELSE UNCHANGED <<body, call>>
        /\ UNCHANGED mem

NvCreateBufferMemory(t) ==
    LET id == call[t].id IN
    /\ In(t, {"buffer"})
    /\ \E r \in AllocateBufferMemory(body[id].size) :
        /\ mem' = r.mem
        /\ IF r.ok THEN body' = [body EXCEPT ![id] = WithMemory(@, r.ptr)] /\ UNCHANGED vars
           ELSE Remove(id) /\ Without(id)
    /\ Go(t, Idle)

\* nvCreateImage: the image, then its buffer, then the memory; what it has
\* goes again, last first, when a step fails.  dropImage is the deleteObject
\* of the image that ends the failing call.
NvCreateImage(t) ==
    \E size \in Sizes \ {0} :
        /\ Starts(t)
        /\ New("image")
        /\ IF Made THEN With(NewId, Image(0)) /\ Go(t, [op |-> "image", id |-> NewId, size |-> size])
           ELSE UNCHANGED <<body, call>>
        /\ UNCHANGED mem

NvCreateImageBuffer(t) ==
    LET c == call[t] IN
    /\ In(t, {"image"})
    /\ \/ /\ New("buffer") /\ Made
          /\ With(NewId, Buffer(c.size, TRUE))
          /\ Go(t, [op |-> "imageMemory", id |-> c.id, buffer |-> NewId])
       \/ /\ New("buffer") /\ ~Made
          /\ Go(t, [op |-> "dropImage", id |-> c.id]) /\ UNCHANGED body
       \/ /\ NoRoom
          /\ Go(t, [op |-> "dropImage", id |-> c.id]) /\ UNCHANGED <<vars, body>>
    /\ UNCHANGED mem

NvCreateImageMemory(t) ==
    LET c == call[t] IN
    /\ In(t, {"imageMemory"})
    /\ \E r \in AllocateBufferMemory(body[c.buffer].size) :
        /\ mem' = r.mem
        /\ IF r.ok
           THEN /\ body' = [body EXCEPT ![c.buffer] = WithMemory(@, r.ptr), ![c.id] = Image(c.buffer)]
                /\ Go(t, Idle) /\ UNCHANGED vars
           ELSE /\ Remove(c.buffer) /\ Without(c.buffer)
                /\ Go(t, [op |-> "dropImage", id |-> c.id])

NvDropImage(t) ==
    /\ In(t, {"dropImage", "destroyImage"})
    /\ Remove(call[t].id) /\ Without(call[t].id) /\ Go(t, Idle)
    /\ UNCHANGED mem

-----------------------------------------------------------------------------
\* The buffers and images a client has IDs of: no create call still owns them.
Given(kind) ==
    {id \in Live(kind) : \A t \in Threads :
        call[t] = Idle \/ (call[t].id # id /\ ~(call[t].op = "imageMemory" /\ call[t].buffer = id))}

\* nvDestroyBuffer.  An image's buffer is refused.
\* A mutant: it is not.
NvDestroyBufferAny(t) ==
    \E id \in Given("buffer") :
        /\ Starts(t) /\ Exclusive
        /\ mem' = ReleaseBufferMemory(body[id])
        /\ Remove(id) /\ Without(id)
        /\ UNCHANGED call
NvDestroyBuffer(t) ==
    \E id \in Given("buffer") :
        /\ Starts(t) /\ Exclusive
        /\ ~body[id].imageOwned
        /\ mem' = ReleaseBufferMemory(body[id])
        /\ Remove(id) /\ Without(id)
        /\ UNCHANGED call

\* nvDestroyImage: the buffer goes while the lock is held, then the image.
NvDestroyImage(t) ==
    \E id \in Given("image") :
        LET buffer == body[id].imageBufferId IN
        /\ Starts(t) /\ Exclusive
        /\ IF Get("buffer", buffer) # NULL
           THEN mem' = ReleaseBufferMemory(body[buffer]) /\ Remove(buffer) /\ Without(buffer)
           ELSE UNCHANGED <<mem, vars, body>>
        /\ Go(t, [op |-> "destroyImage", id |-> id])

\* nvTerminate: contexts, objects with their memory, the pool and the table.
Terminate == Quiet /\ NvTerminate /\ UNCHANGED <<body, call, mem>>
TerminateContexts ==
    /\ DeleteAllContexts
    /\ body' = [id \in {x \in DOMAIN body : slots'[IndexOf(x)].object # NULL} |-> body[id]]
    /\ UNCHANGED <<call, mem>>
TerminateObjects ==
    /\ DeleteAllObjects
    /\ LET gone == CHOOSE x \in DOMAIN body : slots'[IndexOf(x)].object = NULL
       IN  mem' = ReleaseBufferMemory(body[gone]) /\ Without(gone)
    /\ UNCHANGED call
TerminateTable ==
    /\ NvdObjectTableDestroy
    /\ mem' = DestroyBufferPool
    /\ UNCHANGED <<body, call>>

BuffersInit ==
    /\ Init
    /\ body = <<>>
    /\ call = [t \in Threads |-> Idle]
    /\ mem = EmptyMemory

BuffersNext ==
    \/ \E t \in Threads :
        \/ NvCreateContext(t) \/ NvDestroyContext(t)
        \/ NvCreateBuffer(t) \/ NvCreateBufferMemory(t)
        \/ NvCreateImage(t) \/ NvCreateImageBuffer(t) \/ NvCreateImageMemory(t) \/ NvDropImage(t)
        \/ NvDestroyBuffer(t) \/ NvDestroyImage(t)
    \/ Terminate \/ TerminateContexts \/ TerminateObjects \/ TerminateTable

BuffersSpec == BuffersInit /\ [][BuffersNext]_allVars

-----------------------------------------------------------------------------
(* Properties                                                              *)

Owners(b) == {id \in Live("buffer") : body[id].ptr = b}
Places == UNION {{c} \X (1 .. Len(mem.pool[c])) : c \in Classes}
Kept(b) == {p \in Places : mem.pool[p[1]][p[2]] = b}
KeptBytes == UNION {{p} \X (1 .. ClassSizes[p[1]]) : p \in Places}

\* A block the allocator gave belongs to one live buffer, or is kept once in
\* the pool, and was not freed: no leak, no double free, no use after free,
\* whatever calls overlap and wherever they fail.  It is as large as the
\* buffer says.  Nothing is left when the driver is gone.
BlocksOwned ==
    /\ \A b \in DOMAIN mem.heap : Cardinality(Owners(b)) + Cardinality(Kept(b)) = 1
    /\ \A id \in Live("buffer") : body[id].ptr # NULL =>
        /\ body[id].ptr \in DOMAIN mem.heap
        /\ mem.heap[body[id].ptr] = body[id].capacity /\ body[id].size <= body[id].capacity
    /\ \A c \in Classes : \A n \in 1 .. Len(mem.pool[c]) :
        mem.pool[c][n] \in DOMAIN mem.heap /\ mem.heap[mem.pool[c][n]] = ClassSizes[c]
    /\ capacity = 0 /\ ~terminating => DOMAIN mem.heap = {}

\* A complete image has its buffer, live and with memory, until the image
\* goes; the buffer of an image is never left without it, and a failed
\* nvCreateImage leaves neither.
ImageBuffersLive ==
    ~terminating =>
    /\ \A id \in Given("image") :
        LET b == body[id].imageBufferId IN
        b \in Live("buffer") /\ body[b].imageOwned /\ body[b].ptr # NULL
    /\ \A b \in Given("buffer") :
        body[b].imageOwned => \E id \in Live("image") : body[id].imageBufferId = b

\* What the pool says it keeps is what it keeps, and that is within its
\* limits: the unsigned sums never wrap past them.
PoolWithinLimits ==
    /\ \A c \in Classes : mem.counts[c] = Len(mem.pool[c]) /\ mem.counts[c] <= PoolBlocks
    /\ mem.bytes = Cardinality(KeptBytes)
    /\ mem.bytes <= PoolMaxBytes

\* The objects the table holds are the ones the driver believes it made, so
\* every ID a client has leads to its own object and no other ID does.
IdsExact ==
    /\ {slots[i].object.id : i \in Occupied} = DOMAIN body
    /\ \A id \in DOMAIN body : Get(body[id].kind, id) # NULL
    /\ LiveObjectFound
    /\ StaleIdRejected
=============================================================================
