--------------------------- MODULE BackingImages ---------------------------
(***************************************************************************)
(* The direct backend's GPU images (direct/direct-export-buf.c): images     *)
(* attached to surfaces, the cache of detached images with its three        *)
(* limits, imports that borrow the CUDA resources of a cached image, and     *)
(* VideoProc scratch memory, which shares the memory budget with the cache.  *)
(*                                                                         *)
(* imagesMutex is held over the pruning loops, which take one step per       *)
(* image: a borrow is returned without the mutex and may fall between two.   *)
(* Every other critical section is one step.  A call on a surface holds it   *)
(* (surface mutex, lifetime lock, resolving flag): see DecodePipeline.       *)
(* A multi-surface CreateSurfaces2 is a sequence of imports here, and its    *)
(* rollback the detach of what it created.                                   *)
(***************************************************************************)
EXTENDS Naturals, FiniteSets, FiniteSetsExt

CONSTANTS
    Threads, Surfaces, Images,
    SurfaceBytes,                   \* backingImageMemorySize of a surface's image,
                                    \* which its format, width and height decide
    MaxDetachedBackingImages,       \* NVD_MAX_DETACHED_BACKING_IMAGES
    MaxDetachedBackingImageBytes,   \* NVD_MAX_DETACHED_BACKING_IMAGE_BYTES
    MemoryBudgetBytes,              \* NVD_MEMORY_BUDGET_BYTES, 0: no budget
    VideoProcScratchMaxBytes,       \* videoProcScratchMaxBytes
    MaxSerial,                      \* bound on the detaches of one driver
    None

ASSUME BackingAssumption ==
    /\ IsFiniteSet(Images) /\ IsFiniteSet(Threads)
    /\ SurfaceBytes \in [Surfaces -> Nat \ {0}]
    /\ {MaxDetachedBackingImages, MaxDetachedBackingImageBytes,
        MemoryBudgetBytes, VideoProcScratchMaxBytes, MaxSerial} \subseteq Nat
    /\ None \notin Threads \cup Surfaces \cup Images

VARIABLES
    img,      \* the BackingImage structures
    surf,     \* surfaces: live, and their backingImage
    images,   \* drv->images: the images the driver owns
    cache,    \* head, tail, count, bytes and serial of the detached list
    scratch,  \* total of the three videoProc*BufferSize
    unsafe,   \* cudaWorkUnsafe
    mutex,    \* holder of imagesMutex in a pruning loop
    pc,       \* what each thread is doing
    lapsed    \* history: cached images that became reclaimable, or exceeded
              \* the budget, without a detach

vars == <<img, surf, images, cache, scratch, unsafe, mutex, pc, lapsed>>

FreshImage == [state |-> "none", imported |-> FALSE, size |-> 0, surface |-> None,
               borrowCount |-> 0, borrowed |-> None,
               prev |-> None, next |-> None, serial |-> 0]
EmptyCache == [head |-> None, tail |-> None, count |-> 0, bytes |-> 0, serial |-> 0]
Idle == [at |-> "idle", surface |-> None, image |-> None, extra |-> 0]
NoSurface == [live |-> FALSE, image |-> None]

\* "retained": never freed because GPU work on it may be unfinished.
ImageStates == {"none", "live", "retained"}

\* Every variable has its type; scratch memory stays within its own limit and no
\* counter of the cache exceeds the number of images.
TypeOK ==
    /\ img \in [Images -> [state : ImageStates, imported : BOOLEAN,
                           size : Nat, surface : Surfaces \cup {None},
                           borrowCount : 0 .. Cardinality(Images) + Cardinality(Threads),
                           borrowed : Images \cup {None}, prev : Images \cup {None},
                           next : Images \cup {None}, serial : 0 .. MaxSerial]]
    /\ surf \in [Surfaces -> [live : BOOLEAN, image : Images \cup {None}]]
    /\ images \subseteq Images
    /\ cache \in [head : Images \cup {None}, tail : Images \cup {None},
                  count : 0 .. Cardinality(Images), bytes : Nat, serial : 0 .. MaxSerial]
    /\ scratch \in 0 .. VideoProcScratchMaxBytes
    /\ unsafe \in BOOLEAN
    /\ mutex \in Threads \cup {None}
    /\ pc \in [Threads -> [at : {"idle", "alloc", "reclaim", "add", "layout", "external",
                                 "prune", "pruning", "budgeting", "grow"},
                           surface : Surfaces \cup {None}, image : Images \cup {None},
                           extra : 0 .. VideoProcScratchMaxBytes]]
    /\ lapsed \subseteq Images

Init ==
    /\ img = [i \in Images |-> FreshImage]
    /\ surf = [s \in Surfaces |-> NoSurface]
    /\ images = {}
    /\ cache = EmptyCache
    /\ scratch = 0
    /\ unsafe = FALSE
    /\ mutex = None
    /\ pc = [t \in Threads |-> Idle]
    /\ lapsed = {}

-----------------------------------------------------------------------------
(* The doubly linked list of detached images, oldest first.                 *)

LinkedImg(f, c, i) ==
    [j \in Images |->
        CASE j = i      -> [f[j] EXCEPT !.prev = c.tail, !.next = None]
          [] j = c.tail -> [f[j] EXCEPT !.next = i]
          [] OTHER      -> f[j]]

LinkedCache(f, c, i) ==
    [c EXCEPT !.head = IF c.tail = None THEN i ELSE @, !.tail = i,
              !.bytes = @ + f[i].size, !.count = @ + 1]

\* Mutant: the successor keeps its link to the unlinked image.
UnlinkedImgForward(f, c, i) ==
    [j \in Images |->
        [f[j] EXCEPT !.next = IF j = i THEN None ELSE IF j = f[i].prev THEN f[i].next ELSE @,
                     !.prev = IF j = i THEN None ELSE @,
                     !.serial = IF j = i THEN 0 ELSE @]]

UnlinkedImg(f, c, i) ==
    [j \in Images |->
        [f[j] EXCEPT !.next = IF j = i THEN None ELSE IF j = f[i].prev THEN f[i].next ELSE @,
                     !.prev = IF j = i THEN None ELSE IF j = f[i].next THEN f[i].prev ELSE @,
                     !.serial = IF j = i THEN 0 ELSE @]]

UnlinkedCache(f, c, i) ==
    [c EXCEPT !.head = IF f[i].prev = None THEN f[i].next ELSE @,
              !.tail = IF f[i].next = None THEN f[i].prev ELSE @,
              !.bytes = IF @ >= f[i].size THEN @ - f[i].size ELSE 0,
              !.count = IF @ > 0 THEN @ - 1 ELSE 0]

\* The n-th image of the list, None behind its end.
Walk[n \in 0 .. Cardinality(Images)] ==
    IF n = 0 THEN cache.head
    ELSE LET i == Walk[n - 1] IN IF i = None THEN None ELSE img[i].next

Listed == {Walk[n] : n \in DOMAIN Walk} \ {None}

\* Mutant: borrowed images are pruned too.
CanPruneBorrowed(i) == img[i].surface = None

BackingImageCanPrune(i) == img[i].surface = None /\ img[i].borrowCount = 0

\* Mutant: the image detached last.
Newest ==
    LET candidates == {n \in DOMAIN Walk : Walk[n] # None /\ BackingImageCanPrune(Walk[n])}
    IN  IF candidates = {} THEN None ELSE Walk[Max(candidates)]

Oldest ==
    Walk[Min({n \in DOMAIN Walk : Walk[n] = None \/ BackingImageCanPrune(Walk[n])})]

Prunable == Oldest # None /\ Oldest \in images

OverLimit ==
    /\ cache.count # 0
    /\ \/ MaxDetachedBackingImages = 0 \/ MaxDetachedBackingImageBytes = 0
       \/ cache.count > MaxDetachedBackingImages
       \/ cache.bytes > MaxDetachedBackingImageBytes
       \/ /\ MemoryBudgetBytes # 0
          /\ \/ cache.bytes > MemoryBudgetBytes
             \/ scratch > MemoryBudgetBytes - cache.bytes

-----------------------------------------------------------------------------
(* Destroying one image: kept when GPU work may be unfinished, otherwise the *)
(* borrow it holds is returned and the structure is freed.                   *)

ReleaseBorrow(f, i) ==
    LET b == f[i].borrowed IN
    IF b = None THEN f
    ELSE [f EXCEPT ![b].borrowCount = IF @ > 0 THEN @ - 1 ELSE 0, ![i].borrowed = None]

Destroyed(f, i) ==
    IF unsafe THEN [f EXCEPT ![i].state = "retained"]
    ELSE [ReleaseBorrow(f, i) EXCEPT ![i] = FreshImage]

PruneOldest ==
    LET i == Oldest IN
    /\ Prunable
    /\ img' = Destroyed(UnlinkedImg(img, cache, i), i)
    /\ cache' = UnlinkedCache(img, cache, i)
    /\ images' = images \ {i}
    /\ lapsed' = lapsed \ {i}

\* A borrow of b was returned: b is reclaimable if it was the last one.
LapsedBy(b) == IF b \in Listed THEN lapsed \cup {b} ELSE lapsed

Free(i) == img[i].state = "none"
Unused(s) == \A t \in Threads : pc[t].surface # s
At(t, label) == pc[t].at = label
Goto(t, label) == pc' = [pc EXCEPT ![t].at = label]
Finish(t) == pc' = [pc EXCEPT ![t] = Idle]

-----------------------------------------------------------------------------
(* Surfaces and the images made for them.                                   *)

NvCreateSurface(t, s) ==
    /\ At(t, "idle") /\ ~surf[s].live /\ Unused(s)
    /\ surf' = [surf EXCEPT ![s].live = TRUE]
    /\ UNCHANGED <<img, images, cache, scratch, unsafe, mutex, pc, lapsed>>

RealiseSurface(t, s) ==
    /\ At(t, "idle") /\ surf[s].live /\ surf[s].image = None /\ Unused(s)
    /\ pc' = [pc EXCEPT ![t] = [Idle EXCEPT !.at = "alloc", !.surface = s]]
    /\ UNCHANGED <<img, surf, images, cache, scratch, unsafe, mutex, lapsed>>

AllocateBackingImage(t) ==
    /\ At(t, "alloc") /\ ~unsafe
    /\ \E i \in Images :
         /\ Free(i)
         /\ img' = [img EXCEPT ![i].state = "live", ![i].surface = pc[t].surface,
                               ![i].size = SurfaceBytes[pc[t].surface]]
         /\ surf' = [surf EXCEPT ![pc[t].surface].image = i]
         /\ pc' = [pc EXCEPT ![t].at = "add", ![t].image = i]
    /\ UNCHANGED <<images, cache, scratch, unsafe, mutex, lapsed>>

AllocateFail(t) ==
    /\ At(t, "alloc")
    /\ Goto(t, "reclaim")
    /\ UNCHANGED <<img, surf, images, cache, scratch, unsafe, mutex, lapsed>>

\* Clearing the new image may fail with the GPU still writing to it.
AllocateUnsafe(t) ==
    /\ At(t, "alloc") /\ ~unsafe
    /\ \E i \in Images :
         /\ Free(i)
         /\ img' = [img EXCEPT ![i].state = "retained"]
    /\ unsafe' = TRUE
    /\ Goto(t, "reclaim")
    /\ UNCHANGED <<surf, images, cache, scratch, mutex, lapsed>>

Reclaim(t) ==
    /\ At(t, "reclaim") /\ mutex = None
    /\ PruneOldest
    /\ Goto(t, "alloc")
    /\ UNCHANGED <<surf, scratch, unsafe, mutex>>

RealiseFail(t) ==
    /\ At(t, "reclaim") /\ mutex = None /\ ~Prunable
    /\ Finish(t)
    /\ UNCHANGED <<img, surf, images, cache, scratch, unsafe, mutex, lapsed>>

AddImage(t) ==
    /\ At(t, "add") /\ mutex = None
    /\ images' = images \cup {pc[t].image}
    /\ Finish(t)
    /\ UNCHANGED <<img, surf, cache, scratch, unsafe, mutex, lapsed>>

AddFail(t) ==
    LET i == pc[t].image IN
    /\ At(t, "add") /\ mutex = None
    /\ surf' = [surf EXCEPT ![pc[t].surface].image = None]
    /\ img' = Destroyed([img EXCEPT ![i].surface = None], i)
    /\ Finish(t)
    /\ UNCHANGED <<images, cache, scratch, unsafe, mutex, lapsed>>

-----------------------------------------------------------------------------
(* CreateSurfaces2 with an external buffer: a file descriptor of an image    *)
(* the driver still has borrows it, any other is imported on its own.        *)

Importing(s) == [Idle EXCEPT !.at = "external", !.surface = s]

ImportUnknown(t, s) ==
    /\ At(t, "idle") /\ ~surf[s].live /\ Unused(s) /\ mutex = None
    /\ pc' = [pc EXCEPT ![t] = Importing(s)]
    /\ UNCHANGED <<img, surf, images, cache, scratch, unsafe, mutex, lapsed>>

RetainBackingImageByFd(t, s) ==
    /\ At(t, "idle") /\ ~surf[s].live /\ Unused(s) /\ mutex = None
    /\ \E i \in images :
         /\ img[i].size = SurfaceBytes[s]
         /\ img' = [img EXCEPT ![i].borrowCount = @ + 1]
         /\ pc' = [pc EXCEPT ![t] = [Importing(s) EXCEPT !.at = "layout", !.image = i]]
    /\ UNCHANGED <<surf, images, cache, scratch, unsafe, mutex, lapsed>>

Imported(t, borrowed) ==
    LET s == pc[t].surface IN
    /\ \E i \in Images :
         /\ Free(i)
         /\ img' = [img EXCEPT ![i].state = "live", ![i].imported = TRUE, ![i].surface = s,
                               ![i].size = SurfaceBytes[s], ![i].borrowed = borrowed]
         /\ surf' = [surf EXCEPT ![s] = [live |-> TRUE, image |-> i]]
    /\ Finish(t)
    /\ UNCHANGED <<images, cache, scratch, unsafe, mutex, lapsed>>

ImportMatch(t) == At(t, "layout") /\ Imported(t, pc[t].image)

\* Mutant: the borrow of a rejected layout is not returned.
ImportMismatchKeeps(t) ==
    /\ At(t, "layout")
    /\ pc' = [pc EXCEPT ![t].at = "external", ![t].image = None]
    /\ UNCHANGED <<img, surf, images, cache, scratch, unsafe, mutex, lapsed>>

ImportMismatch(t) ==
    LET b == pc[t].image IN
    /\ At(t, "layout")
    /\ img' = [img EXCEPT ![b].borrowCount = @ - 1]
    /\ lapsed' = LapsedBy(b)
    /\ pc' = [pc EXCEPT ![t].at = "external", ![t].image = None]
    /\ UNCHANGED <<surf, images, cache, scratch, unsafe, mutex>>

ImportExternal(t) == At(t, "external") /\ Imported(t, None)

ImportFail(t) ==
    /\ At(t, "external")
    /\ Finish(t)
    /\ UNCHANGED <<img, surf, images, cache, scratch, unsafe, mutex, lapsed>>

-----------------------------------------------------------------------------
(* A surface is destroyed, or rolled back by a failed CreateSurfaces2.      *)

Detaching(t, s) ==
    /\ At(t, "idle") /\ surf[s].live /\ Unused(s)
    /\ surf' = [surf EXCEPT ![s] = NoSurface]

DetachNothing(t, s) ==
    /\ Detaching(t, s) /\ surf[s].image = None
    /\ UNCHANGED <<img, images, cache, scratch, unsafe, mutex, pc, lapsed>>

DetachImported(t, s) ==
    LET i == surf[s].image IN
    /\ Detaching(t, s) /\ i # None /\ img[i].imported
    /\ img' = Destroyed(img, i)
    /\ lapsed' = IF unsafe THEN lapsed ELSE LapsedBy(img[i].borrowed)
    /\ UNCHANGED <<images, cache, scratch, unsafe, mutex, pc>>

DetachOwned(t, s) ==
    LET i == surf[s].image
        f == [img EXCEPT ![i].surface = None, ![i].serial = cache.serial + 1]
    IN
    /\ Detaching(t, s) /\ i # None /\ ~img[i].imported
    /\ mutex = None /\ cache.serial < MaxSerial
    /\ img' = LinkedImg(f, cache, i)
    /\ cache' = LinkedCache(f, [cache EXCEPT !.serial = @ + 1], i)
    /\ Goto(t, "prune")
    /\ UNCHANGED <<images, scratch, unsafe, mutex, lapsed>>

PruneLock(t) ==
    /\ At(t, "prune") /\ mutex = None
    /\ mutex' = t
    /\ Goto(t, "pruning")
    /\ UNCHANGED <<img, surf, images, cache, scratch, unsafe, lapsed>>

\* Mutant: one image is pruned, however far the cache is over its limits.
PruneToLimitsOnce(t) ==
    /\ At(t, "pruning") /\ OverLimit
    /\ PruneOldest
    /\ mutex' = None
    /\ Finish(t)
    /\ UNCHANGED <<surf, scratch, unsafe>>

PruneToLimits(t) ==
    /\ At(t, "pruning") /\ OverLimit
    /\ PruneOldest
    /\ UNCHANGED <<surf, scratch, unsafe, mutex, pc>>

PruneDone(t) ==
    /\ At(t, "pruning") /\ ~(OverLimit /\ Prunable)
    /\ mutex' = None
    /\ Finish(t)
    /\ UNCHANGED <<img, surf, images, cache, scratch, unsafe, lapsed>>

-----------------------------------------------------------------------------
(* VideoProc scratch; exportMutex admits one thread.                         *)

ScratchFree == \A t \in Threads : pc[t].at \notin {"budgeting", "grow"}

EnsureVideoProcBuffer(t, extra) ==
    /\ At(t, "idle") /\ ScratchFree
    /\ IF MemoryBudgetBytes = 0
       THEN mutex' = mutex /\ pc' = [pc EXCEPT ![t] = [Idle EXCEPT !.at = "grow", !.extra = extra]]
       ELSE /\ mutex = None /\ mutex' = t
            /\ pc' = [pc EXCEPT ![t] = [Idle EXCEPT !.at = "budgeting", !.extra = extra]]
    /\ UNCHANGED <<img, surf, images, cache, scratch, unsafe, lapsed>>

FitsBudget(extra) ==
    /\ extra <= MemoryBudgetBytes
    /\ cache.bytes + scratch <= MemoryBudgetBytes - extra

PruneToMemoryBudget(t) ==
    /\ At(t, "budgeting") /\ ~FitsBudget(pc[t].extra)
    /\ PruneOldest
    /\ UNCHANGED <<surf, scratch, unsafe, mutex, pc>>

BudgetDone(t) ==
    /\ At(t, "budgeting") /\ (FitsBudget(pc[t].extra) \/ ~Prunable)
    /\ mutex' = None
    /\ IF FitsBudget(pc[t].extra) THEN Goto(t, "grow") ELSE Finish(t)
    /\ UNCHANGED <<img, surf, images, cache, scratch, unsafe, lapsed>>

GrowScratch(t) ==
    /\ At(t, "grow") /\ scratch + pc[t].extra <= VideoProcScratchMaxBytes
    /\ scratch' = scratch + pc[t].extra
    /\ lapsed' = lapsed \cup Listed
    /\ Finish(t)
    /\ UNCHANGED <<img, surf, images, cache, unsafe, mutex>>

GrowFail(t) ==
    /\ At(t, "grow")
    /\ Finish(t)
    /\ UNCHANGED <<img, surf, images, cache, scratch, unsafe, mutex, lapsed>>

TrimVideoProcScratch(t) ==
    /\ At(t, "idle") /\ ScratchFree /\ scratch > 0
    /\ scratch' \in 0 .. scratch - 1
    /\ UNCHANGED <<img, surf, images, cache, unsafe, mutex, pc, lapsed>>

-----------------------------------------------------------------------------
\* A copy or a worker could not wait for the GPU.
GpuFails ==
    /\ ~unsafe
    /\ unsafe' = TRUE
    /\ UNCHANGED <<img, surf, images, cache, scratch, mutex, pc, lapsed>>

\* Every image in drv->images is freed.  Surfaces still in the object table are
\* freed without a detach: their imported images are leaked, and nothing refers
\* to them any more.  The next driver starts from nothing.
NvTerminate ==
    /\ \A t \in Threads : At(t, "idle")
    /\ ~unsafe
    /\ img' = [i \in Images |-> FreshImage]
    /\ surf' = [s \in Surfaces |-> NoSurface]
    /\ images' = {} /\ cache' = EmptyCache /\ scratch' = 0 /\ lapsed' = {}
    /\ UNCHANGED <<unsafe, mutex, pc>>

SurfaceCall(t) ==
    \E s \in Surfaces :
        \/ NvCreateSurface(t, s) \/ RealiseSurface(t, s)
        \/ ImportUnknown(t, s) \/ RetainBackingImageByFd(t, s)
        \/ DetachNothing(t, s) \/ DetachImported(t, s) \/ DetachOwned(t, s)

Step(t) ==
    \/ AllocateBackingImage(t) \/ AllocateFail(t) \/ AllocateUnsafe(t)
    \/ Reclaim(t) \/ RealiseFail(t) \/ AddImage(t) \/ AddFail(t)
    \/ ImportMatch(t) \/ ImportMismatch(t) \/ ImportExternal(t) \/ ImportFail(t)
    \/ PruneLock(t) \/ PruneToLimits(t) \/ PruneDone(t)
    \/ PruneToMemoryBudget(t) \/ BudgetDone(t) \/ GrowScratch(t) \/ GrowFail(t)
    \/ TrimVideoProcScratch(t)
    \/ \E extra \in 1 .. VideoProcScratchMaxBytes : EnsureVideoProcBuffer(t, extra)

Next ==
    \/ \E t \in Threads : SurfaceCall(t) \/ Step(t)
    \/ GpuFails
    \/ NvTerminate

Spec == Init /\ [][Next]_vars

-----------------------------------------------------------------------------
(* Properties.                                                              *)

\* No use after free: what surfaces, drv->images, importers and calls under
\* way point to is never a freed image, and a surface's image points back to it
\* (the borrow count is what keeps pruning away from an importer's arrays).
NoDanglingImage ==
    /\ \A s \in Surfaces : surf[s].image # None =>
         /\ img[surf[s].image].state = "live"
         /\ img[surf[s].image].surface = s
    /\ \A i \in images : img[i].state = "live" /\ ~img[i].imported
    /\ \A i \in Images : img[i].borrowed # None => img[img[i].borrowed].state \in {"live", "retained"}
    /\ \A t \in Threads : pc[t].image # None => img[pc[t].image].state = "live"

\* The bytes of a set of images, each byte told from the others.
BytesOf(S) == UNION {{i} \X (1 .. img[i].size) : i \in S}

\* The list the cache is pruned from holds exactly the owned images without a
\* surface, oldest first, linked both ways, and its count and bytes are those
\* of its members, after any order of link, unlink and borrow.
DetachedListExact ==
    /\ Listed = {i \in images : img[i].surface = None}
    /\ cache.count = Cardinality(Listed)
    /\ cache.bytes = Cardinality(BytesOf(Listed))
    /\ \A i \in Listed :
         /\ (img[i].prev = None) = (cache.head = i)
         /\ (img[i].next = None) = (cache.tail = i)
         /\ img[i].next # None => /\ img[img[i].next].prev = i
                                 /\ img[img[i].next].serial > img[i].serial
    /\ (cache.head = None) = (cache.tail = None)

\* The borrow count of an image is the number of imports of it that still
\* exist plus the imports that have found it and not yet compared the layout;
\* a lost or doubled release would pin the image for ever or free it in use.
BorrowsCounted ==
    \A i \in images :
        img[i].borrowCount =
            Cardinality({j \in Images : img[j].borrowed = i}) +
            Cardinality({t \in Threads : At(t, "layout") /\ pc[t].image = i})

\* The cache stays within the limits README.md documents, once the detaches
\* under way have pruned, except for images that are borrowed and for images
\* left over when a borrow ends or scratch grows, which nobody prunes until
\* the next detach.
CacheBounded ==
    (mutex = None /\ \A t \in Threads : ~At(t, "prune")) =>
        \/ /\ cache.count <= MaxDetachedBackingImages
           /\ cache.bytes <= MaxDetachedBackingImageBytes
           /\ MemoryBudgetBytes # 0 => cache.bytes + scratch <= MemoryBudgetBytes
        \/ \A i \in Listed : img[i].borrowCount > 0 \/ i \in lapsed

\* Oldest first: an image leaves the cache only when every older one that
\* stays is borrowed; and an image with a living surface is never evicted
\* (the reason given for pruning in this order in direct_realiseSurface).
EvictionOrder ==
    [][/\ \A i \in Listed \ Listed' : \A j \in Listed' \cap Listed :
            img[j].serial < img[i].serial => img[j].borrowCount > 0
       /\ \A i \in images \ images' :
            img[i].surface # None => ~surf'[img[i].surface].live]_vars
=============================================================================
