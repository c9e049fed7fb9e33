# A TLA+ model of the NVIDIA VA-API driver

This project models `nvidia-vaapi-driver`, a VA-API driver that decodes with
NVDEC and hands frames out as DMA-BUFs. It holds TLA+ modules, TLC
configurations and TLAPS proofs. `PROJECT.json` links every definition to the
source lines it models, and lists the runs, the mutants, the findings, the
hazards and the theorems. Line numbers below are those of
`src/src/vabackend.c` unless another file is named.

## The system

| component | state | operations | interacts with |
|---|---|---|---|
| resolve queue (`resolve-queue.c`) | ring, count, exiting, two condition variables | init, push, pop, shutdown, cancel, destroy | filled by EndPicture, emptied by the worker, cancelled by DestroyContext |
| object table (`object-table.c`) | slots with a 16-bit generation, free list, live count | allocate, grow, get, remove, destroy | every VA call looks its objects up here |
| object lifetime lock | readers, writer | read guard in ordinary calls, write guard in destroy calls | not taken by workers, CreateSurfaces2, CreateImage and Terminate |
| surfaces | resolving, generations submitted and completed, decodeFailed, status, exported | mark, clear, fail, wait, export, destroy | client threads, workers, VideoProc |
| contexts and workers | picture state, render and display target, pictureMutex, queue, thread | Begin/Render/EndPicture, resolve a job, destroy | surfaces, queue, CUDA |
| picture indices | owner table, two reference masks, recycle cursor, decoder pool size | assign, recycle, wait, release | surfaces of several contexts, VideoProc |
| codec handlers (`av1.c`, `h264.c`, ...) | picture parameters, slices, tiles, bitstream and tables in the context | translate buffers, append data, reset | Render/EndPicture, picture indices |
| buffers and their pool | buffer data, blocks kept per size class | create, map, resize, destroy | object table, codec handlers |
| images | the buffer of an image, its planes | create, derive, get, destroy | object table, buffers, surfaces |
| configurations and capabilities | profiles, formats, depth, what the GPU supports | the queries of VA-API | surfaces, contexts |
| backing images (`direct/direct-export-buf.c`) | images, their surface and borrow count, detached list, limits | realise, import, detach, prune, budget, destroy all | surfaces, VideoProc scratch |
| kernel interface (`direct/nv-driver.c`) | descriptors and RM handles, layout of memory | open, allocate, export, free | backing images |
| EGL backend (`export-buf.c`) | stream, connection, EGL and CUDA frames | connect, allocate, export, destroy | backing images |
| surface import (`surface-import.c`) | none | parse, validate, import | backing images, surfaces |
| driver (init and terminate) | instance count, locks, CUDA context, backend | initialise, roll back, terminate | everything |

What is hard in it:

- *Interleaving.* A surface is used by the thread that decodes, by the worker
  that copies the frame, by threads that synchronise or export, by VideoProc
  and by DestroySurfaces, under six kinds of locks.
- *Failure.* Each CUDA call, ioctl and allocation may fail; `cudaWorkUnsafe`
  makes every later call fail and keeps memory the GPU may still write. A
  failure between two steps must neither leave a surface resolving, nor publish
  a bad frame, nor leak or close twice one of a dozen handles.
- *Bounded resources.* A ring with 16 jobs, at most 32 decoder indices, an
  object table that grows, a pool of blocks and a cache of images with three
  limits each, a limit on displays.
- *Waiting.* Waits for a free ring slot, a resolved surface, a busy index, the
  end of a worker, some of them with a lock held.
- *State between calls.* A picture is built over several calls in fields of the
  context that the next picture, or a refused one, must find reset.
- *Arithmetic.* Layouts, image sizes, offsets of slices and tiles and imported
  descriptors are sums and products of client values in fixed words.

`PROJECT.json` lists these hazards at the lines where they bite, each with the
properties that would show it, or with the reason why none does.

## Modules

| module | models | role |
|---|---|---|
| `JobQueue` | what the queue promises: a bounded, closable FIFO channel | abstract specification |
| `ResolveQueue` | `resolve-queue.c` with mutex and condition variables | implements `JobQueue` |
| `ResolveQueueProofs` | | theorems about `ResolveQueue` |
| `DecodePipeline` | surfaces, pictures, workers, lifetime lock, VideoProc copies | composes threads, workers and the queue contract |
| `DecodePipelineProofs` | | theorems about `DecodePipeline` |
| `PictureIndex` | decoder indices, references and the two creation mutexes | detailed view of one step of `DecodePipeline` |
| `PictureIndexProofs` | | theorems about `PictureIndex` |
| `NumberFacts` | | a fact about numbers for the proof modules |
| `ObjectTable` | `object-table.c` and Terminate | component |
| `Buffers` | VA buffers, images and the block pool | on top of `ObjectTable` |
| `BuffersProofs` | | theorems about `ObjectTable` and, on top of them, `Buffers` |
| `ImageLayout` | layout of planes, image sizes, import descriptors | arithmetic, sampled in the run of `Buffers` |
| `ImageLayoutProofs` | | theorems about `ImageLayout` |
| `AppendableBuffer`, `IntervalIndex` | the growing buffer and the AVL tree of tile ranges | data structures of `Codecs` |
| `Codecs` | the nine codec handlers and what drives them | component |
| `CodecsProofs` | | theorems about `IntervalIndex` and the AV1 part of `Codecs` |
| `CodecFields` | fields the handlers compute | functions, sampled in the run of `Codecs` |
| `BackingImages` | the direct backend's images, cache and scratch budget | component |
| `BackingImagesProofs` | | theorems about `BackingImages` |
| `Ownership` | what a C function does to the handles it owns | a small language of scripts |
| `DeviceScripts`, `DriverScripts` | the functions that acquire and release, on both backends | scripts of `Ownership` |
| `Resources` | displays from vaInitialize to vaTerminate | runs the scripts |
| `Capabilities` | profiles, attributes, configurations, surface attributes | functions, sampled in the run of `Resources` |
| `MC...` | model values, symmetry sets, samples | one per component |

**ResolveQueue.** `status[t]` says whether a thread is idle, ready to run in a
call or asleep on a condition variable. `Signal` wakes one sleeper, `Broadcast`
all, and `SpuriousWakeup` any. A call that takes the mutex runs one critical
section up to its next wait or its return. Timed and untimed pushes differ in
telemetry only.

**DecodePipeline.** A step is one critical section: what a thread does between
two places where it can wait or be overtaken. `surf`, `ctx` and `wk` are the
synchronisation fields of NVSurface, NVContext and the worker; `th` is the call
a thread is in. A call that updates surfaces one after the other keeps the rest
in `todo`, since other threads run in between. The history variable `bad` holds
the surfaces whose latest generation the driver knows to have failed.

- Taking pictureMutex is one step with what comes next and releasing it one
  with what came before, unless the call waits or updates surfaces there.
- Calls that return at once and change nothing are left out: those that name
  no live object, find no picture in their state, or wait for a surface that is
  resolved.
- The queue is used through its contract; codec parsing, index assignment and
  realisation of images appear as success or failure.
- The resolving flag of a backing image follows that of its surface. Two
  surfaces that share one image by import are not modelled.
- Several buffers in one RenderPicture behave as several calls. A failing
  `pthread_join` and the saturation of 64-bit generations are left out.
- The lifetime lock lets readers pass a waiting writer, as glibc's default does.

**PictureIndex.** pictureMutex serialises calls on a context, so a context is
also its calling thread; `VPP` is a VideoProc thread. Masks are sets of
indices, and the busy scan is one step because the flags it reads only fall
while the mutex is held. The history field `references` holds what the client
will refer to again.

**ObjectTable, Buffers.** Slots, generations that wrap past zero, the free list
threaded through the slots, growth by doubling up to a maximum, failed
allocation after a slot was taken, and removal through every path. `Buffers`
gives the objects contents (`body`), the memory they own (`mem`: what the
allocator gave, and the pool) and splits calls where they release a lock, so
that CreateImage, which takes no lifetime guard, overlaps with destroys. Sizes
and pool limits are words modulo `SizeModulus`. Clients terminate when no other
call is under way, as VA-API demands.

**Codecs.** One context under pictureMutex; a step is one buffer given to
RenderPicture, or Begin/EndPicture. A byte of slice data is a cell that names
its picture, buffer and position, so that "what reaches NVDEC" can be compared
with "what the client sent" without any bitstream syntax. `mem` is the largest
block to be had during a step, so each append may run out of memory. `client`
is a history variable: what the client sent of this picture and whether a
buffer of it was lost to memory. Assumed of clients: slice parameters and data
come in pairs, the slices of an H.264 buffer have one type, JPEG and AV1 send
one pair per picture. An AV1 client sends its data first, with all, some or none
of its parameters after it, or its parameters first; one that alternates several
pairs with parameters first is not covered, because with data already appended
the handler takes parameters for those of earlier data. A picture without tile
parameters means the layout of the last one that was submitted, which
`client.layout` remembers: the comment at 4618 says so, but the code refuses
such a picture always (see "Observed while modelling"). VerdictExact names this
case (`Omits`): it admits the refusal, and demands of a picture that is submitted
that it fits the layout it reuses.
Restart intervals of a JPEG picture are compared
only if its scans agree on one.

**Ownership and its scripts.** A script is a sequence of steps that take, pass
on and release resources and may fail; `Run` gives every state it can end in.
The state of a display records what is held, which variable names it, what
queued GPU work may use, and, as history, what was released twice, overwritten,
leaked, or released while the GPU might write to it. Each C function with
cleanup paths is one script, and its `goto fail` a `Try`. `Resources` runs one
call at a time: races are the subject of the modules above. In it

- results the code ignores (cuMemFree on a cleanup path) count as released;
- CUDA closes its side of the EGL stream when the connection is ended, and the
  producer's loop that fetches returned frames is left out, so that the EGL
  backend may lose a frame, one of the two exceptions in AccountsExact;
- flags that make the kernel interface fail for good are part of "may fail";
- a display has one context, an image of video and one of RGB, which only the
  direct backend allocates; VideoProc is refused once work is unsafe;
- a frame that cannot be unmapped goes with its decoder, and scratch that is
  left goes with the CUDA context;
- imports of a client that terminates without destroying its surfaces count as
  leaked, as in the code: destroyAllBackingImage does not know them and
  deleteAllObjects frees the surface only (828). They are the other exception in
  AccountsExact (`LeftImports`). VA-API leaves the destruction of surfaces to the
  client, and nothing in the repository says otherwise, so this is no finding.

**BackingImages.** `img` is the structure with its list links, `cache` the head,
tail, count, bytes and serial in the driver. imagesMutex is explicit over the
pruning loops, since a borrow is returned without it. `lapsed` is a history
variable: cached images that became reclaimable, or went over the budget,
without a detach. The three scratch buffers are one total. Memory layout,
clearing and copying of frames are left out. A retained image is one the driver
refuses to free because the GPU may still write to it.

**Samples.** `ImageLayout`, `CodecFields` and `Capabilities` are pure functions,
checked against reference definitions over bounded inputs. Their inputs are
further initial states of the run of a related component: the variable `sample`
(or `gpu`) holds one input, and no step is taken from such a state. `sample` is
`none` in all states of the component itself.

- `ImageLayout`: word sizes, GOB, alignment and the number of legacy buffers a
  descriptor may name are constants, scaled down with their proportions kept
  (`WordsAssumption`). The limit CreateSurfaces2 puts on
  the visible bytes of a surface is not covered.
- `CodecFields`: HEVC reference sets, AV1 skip mode, uniform tiles and lossless
  flag, scan tables, VP8 frame headers. The lossless flag is checked in one
  direction: the code is stricter than the standard.
- `Capabilities`: the GPU is the set of codec, depth and chroma it supports. The
  table of render targets stands twice in the code (nvGetConfigAttributes and
  nvQueryConfigAttributes); the copies were compared by reading and are one
  operator. A 4:4:4 profile asked for a 4:2:0 target keeps its default, so
  FollowsClient speaks of the profile's own chroma; 12-bit AV1 profile 0, which
  is never listed by itself, is not covered.

### What clients are assumed to do

VA-API leaves some sequences to the client. `DecodePipeline` names them in the
constant `Rules`: a surface is the target of one open picture (`target`), is
not exported (`export`), destroyed (`destroy`) or used as a VideoProc source
(`source`) while it is one; a film grain display surface is idle (`display`);
a context is destroyed without an open picture (`context`). Without `destroy`
TLC finds a context whose render target was freed after a failed render call
(line 2641 frees what is not resolving). In `PictureIndex` clients do not start
two pictures on one surface, overwrite a reference they need, name an
outstanding display surface, or use a context whose destruction failed;
`ForeignDisplay = FALSE` keeps display surfaces in their context, and with
`TRUE` TLC finds an owner table that names a surface of another context
(`av1.c:412` does not look at it).

## Runs

| run | states | what it shows |
|---|---|---|
| `resolve_queue` | 14 563 | two producers, two consumers, four jobs, two slots: each job exactly once and in order, no missed wakeup, implements the channel, pushes return, the worker is released |
| `decode_safety` | 865 479 | two threads, two surfaces, a decode context with one queue slot next to a VideoProc context, three pictures: no dangling surface, a surface that looks ready is done, a resolving surface has somebody who will finish it, failures are reported and inherited by copies, exported frames are finished, a new generation waits |
| `decode_live` | 9 378 | two threads on one surface: SyncSurface and every other call return, whatever fails and whoever tears the context down |
| `buffers` | 298 042 | two threads, one to three slots, generations that wrap after two, a pool with two classes: free list and identifiers exact, every block has one owner, images keep their buffer, the pool stays within its limits; 123 864 samples of layouts, images and imports |
| `codecs` | 224 731 | nine codecs, three pictures, two pairs of buffers each, memory that runs out anywhere: a picture is submitted exactly if it is whole and valid (or refused for omitting AV1 tile parameters), and then as the client sent it; the tile index is a balanced tree; 109 000 samples of computed fields |
| `resources` | 92 511 | two displays, both backends, five calls, two faults: accounts are exact up to the two exceptions named above, nothing is freed twice or under the GPU; GPUs with one, all or all but one capability get consistent answers |
| `picture_recycle` | 16 031 | three surfaces, two indices: owner table and surfaces agree, queued and referenced indices are kept, the pool fits, no stale context, calls return |
| `picture_move` | 515 673 | an AV1 and a recycling context exchange surfaces with a VideoProc thread: owner table and surfaces agree |
| `backing_images` | 466 168 | two threads, two surfaces of different size, three images: no use after free, exact list and accounting, borrow counts, limits, eviction order |

Each ends within three minutes.

Three runs expect a violation. Each states what a comment or a test of the
repository says and shows that the code does something else:

- `display_reuse`: EndPicture starts a new generation of a film grain display
  surface that still has a job (5074), against the comment at 4568. This is
  `decode_safety`'s NewGenerationWaits without the rule `display`.
- `lost_reference`: the references of one picture replace those of the last one
  (5110), so a codec that names only some of them loses the others, against
  `tests/test-codec-utils.c:61`. The passing runs set `NamesAll`.
- `index_wait_deadlock`: the wait for a busy index (1038) keeps
  surfaceCreationMutex, which the VideoProc thread needs to finish the surface
  that is waited for. Since that state is reachable, `picture_move` does not
  check deadlock.

**Bounds.** Each is the smallest at which the case the property is about
happens: a ring that fills and wraps, more surfaces than indices, a generation
after the one in flight, a table that grows twice and a generation that wraps,
a pool class larger than the whole pool, a cache in which one detach needs two
prunes and the oldest image is borrowed, a third picture after a refused second
one, two faults in the life of a display (one that starts a cleanup and one in
it), two displays for one instance slot. In `DecodePipeline`, `MaxGeneration`
bounds the generations of a surface and `MaxPictures` those of all surfaces
together. Deadlock is not checked in runs where a client may use up such a
bound and stop. Symmetry is used in safety runs only.

**Fairness.** Liveness assumes weak fairness of the steps of threads inside a
call and of workers, which is what the operating system's scheduler gives. A
thread that waits for pictureMutex is strongly fair: it obtains a mutex that is
released again and again. In `PictureIndex` a VideoProc client ends the picture
it began. Nothing is assumed about clients making calls, about spurious
wakeups, or about failures.

**Mutants.** For every property of a passing run `PROJECT.json` names a mutant:
a definition changed as a plausible bug would change it, for which TLC finds
the property violated. They stand in the modules before the definition they
mutate and are marked as such.

### Observed while modelling

These are not runs. But for the first, the repository makes no statement against
which to check them, or the model abstracts from what they need.

- AV1 pictures that omit their tile parameters: the comment at 4618 says that
  "AV1 may omit tile parameters for a frame and reuse the preceding tile layout"
  and that BeginPicture keeps "the context-owned copy across pictures". But
  resetPictureBuild, which ends every picture, empties that copy for AV1 too
  (4670-4675), and a picture without tiles is refused (4981). `codecs` reaches
  the case in a second picture: without the disjunct `Omits` TLC finds
  VerdictExact violated by a picture with data only, behind one that was
  submitted with a layout that would fit.
- Error paths clear the resolving flag as success before the wrapper fails the
  surface (4832 in render, 4988, 5002, 5024, 5041 and 5057 in EndPicture). A
  SyncSurface of another thread that runs in the gap returns success for the
  failed picture; `tests/test-direct-audit.c:425` tests the state after it.
  FailureReported is about the state once the error path is through.
- nvGetImage calls nvSyncSurface with the lifetime lock already held for
  reading (5450). That is safe only while the lock prefers readers.
- EGL: findFreeBackingImage does not look at borrowCount (`export-buf.c:611`);
  the NV21 detach destroys an image that stays in `drv->images` (551);
  egl_destroyBackingImage does not look at cudaWorkUnsafe (434), so Quarantine
  is stated for the direct backend.
- The drains in VideoProc's error paths (3939, 4101) do not set cudaWorkUnsafe.

## Proofs

Each component's theorems stand in a module of their own. They hold for every
value of the constants that satisfies the named assumptions. Each inductive
invariant below was checked by TLC on the configuration of the component's run
before it was proved.

| module | theorem | states |
|---|---|---|
| `ResolveQueueProofs` | `TypeCorrect`, `ExactlyOnce`, `WakeupsSuffice` | `Spec => []` TypeOK, ExactlyOnceInOrder, NoMissedWakeup |
| | `ChannelRefinement` | `Spec => ImplementsChannel`: the ring implements `JobQueue` |
| `BuffersProofs` | `TableTypeCorrect`, `FreeListCorrect` | `Spec => []` TypeOK, FreeListExact |
| | `LookupsCorrect` | `Spec => [](LiveObjectFound /\ StaleIdRejected)` |
| | `IdsCorrect`, `BuffersFreeListCorrect`, `BlocksCorrect`, `ImageBuffersCorrect`, `PoolCorrect` | `BuffersSpec => []` IdsExact, FreeListExact, BlocksOwned, ImageBuffersLive, PoolWithinLimits |
| `PictureIndexProofs` | `NoStaleContextCorrect`, `IndexInPoolCorrect` | `Spec => []` NoStaleContext, IndexInPool |
| | `IndexTypeCorrect`, `OwnersCorrect`, `QueuedIndexCorrect` | if display surfaces stay in their context: TypeOK, OwnersAgree, QueuedIndexKept |
| | `ReferencesCorrect` | if moreover pictures name all references: ReferencesKept |
| `BackingImagesProofs` | `ImagesCorrect`, `DetachedListCorrect`, `BorrowsCorrect`, `CacheBoundCorrect` | `Spec => []` NoDanglingImage, DetachedListExact, BorrowsCounted, CacheBounded |
| | `EvictionCorrect` | `Spec => EvictionOrder`, an action property |
| `DecodePipelineProofs` | `TypeCorrect`, `SurfacesOutlivePointers`, `ResolvedMeansDone`, `WaitersAreServed`, `FailuresReported`, `ExportsFinished` | if clients follow the rules: `Spec => []` TypeOK, NoDanglingSurface, ReadyMeansDone, ResolvingIsOwned, FailureReported, ExportedFrameFinished |
| | `GenerationsWait` | if clients follow the rules: `Spec => NewGenerationWaits`, an action property |
| `ImageLayoutProofs` | `LayoutsCorrect`, `VAImagesCorrect`, `ImportsCorrect` | for every extent, format, image, region and descriptor: LayoutSound, ImageSound, ImportSound |
| | `ImageMemoryCorrect` | `MCSpec => []ImageMemorySound`, an instance of the three |
| `CodecsProofs` | `FreeExact`, `IndexInserted` | for a tree of any size: a range is refused if and only if it overlaps; insertion keeps a balanced search tree and adds the range |
| | `TilesTrackedCorrect` | `Spec => []TilesTracked` |

`NumberFacts` holds what several of them need: a set of natural numbers that is
not empty has a least one.

**ResolveQueue.** The assumptions are a positive capacity, finite and disjoint
sets of producers and consumers, a NULL that is no job, and a cancel whose
result array holds the whole ring (DestroyContext passes one of
RESOLVE_QUEUE_CAPACITY). TypeOK is not inductive, because nothing in it says
that a slot about to be popped holds a job, nor that a thread inside a push has
one. `RingInv` adds that `writeIdx` is `readIdx + count` modulo the capacity,
that the `count` slots from `readIdx` hold jobs, that a pushing thread has a
job, and that nobody is inside a queue that is not initialised. Its step has one
lemma per kind of action (push, pop, cancel, bookkeeping of calls), on three
lemmas about arithmetic modulo the capacity. The `Content...` lemmas then turn
ring steps into Append, Tail and the empty sequence, from which the refinement
follows action by action. `OrderInv` adds to ExactlyOnceInOrder that a queue
from which something was cancelled is exiting and empty, so that nothing can be
accepted behind the cancelled jobs. NoMissedWakeup is inductive together with
`RingInv`; `Handover` shows that a woken thread that gets on leaves enough others
awake.

**ObjectTable.** From `TableAssumption` alone (a first capacity between one and
the maximum, generations that start at one). The ghost sequence `free` names the
free slots; `Sound` says that head, tail and the next links follow it, that it
names the slots without an object and no other, and that the generation of a
slot is its number of uses modulo the largest one. Growth, a slot taken and
given back by a failed allocation, and removal are lemmas about `Sound` of an
explicit table, so that `Buffers` can use them for its own steps.

**Buffers.** The five invariants are proved together, in `BuffersInv`, because
each needs the others between two steps of a call: the table is sound
(`TableInv`), `body` describes exactly its objects (`BodyOK`), a call still holds
the objects it made, in the state it left them, and no other call holds them
(`CallsOK`), images outside the calls and their buffers correspond one to one
(`ImagesOK`), and every block has one owner and the pool counts what it keeps
(`MemInv`). `PoolAssumption` says that size classes grow, that the limits fit the
word in which sizes are computed, and that the three types of objects exist.
Bytes are counted as the cardinality of a set in which every byte of every kept
block is an element of its own, here and in `BackingImages`: the sum of a set
would be a recursive fold, about which the provers know nothing.

**PictureIndex.** `Base` (types, calls on live contexts, marks that bound the
indices in use, NoStaleContext) is inductive for every client. `Claims` adds that
owner table and surfaces agree, that surfaces in calls, pictures, jobs and
references are apart from each other, and that a queued frame keeps its index;
it is inductive only with `~ForeignDisplay`, since EndDecode makes the display
surface one of the context without giving it an index. ReferencesKept further
needs `NamesAll`: `lost_reference` is the counterexample without it. Both are
hypotheses of the theorems, about clients, not assumptions of the module.

**BackingImages.** From `BackingAssumption`: finitely many images and threads,
surfaces whose images have a size, limits that are natural numbers of any value,
zero included. `Inv` has five parts. `Struct` relates calls, surfaces and images:
what a call at each of its steps holds, that no two calls work on one surface,
that a surface and its image point to each other, that an owned image with a
surface is that surface's image, that borrowed images are owned and count their
borrowers. `CacheOK` gives the linked list as a sequence in the order of the
serial numbers; following `next` from the head is a recursive function, which
`WalkList` shows to enumerate that sequence, so that "the first that can be
pruned" is the oldest one (`OldestFirst`). `MutexOK` says that only pruning loops
hold imagesMutex between steps. `LimitsOK` is CacheBounded with its exception
spelled out: a thread that has detached and not yet pruned. Linking, unlinking
and destroying are lemmas about explicit images; the step of each action then
shows what it changes and cites them. EvictionOrder follows since only
PruneOldest and NvTerminate take an image out of `drv->images` or the list.

**DecodePipeline.** For any number of threads, surfaces and contexts, any mix of
decode and VideoProc contexts and any queue capacity, with `Rules = AllRules` as
the hypothesis about clients. `PipelineAssumption` further asks for finitely many
surfaces, as DestroySurfaces takes lists of them. None of the properties is
inductive, and they need each other, so there is one invariant `Inv` for all:

- `LocksOK`, `HoldersOK`: who is inside the lifetime lock and pictureMutex is
  what the state of the calls says.
- `PicturesOK`, `CallsOK`: what a picture looks like when nobody holds
  pictureMutex, and what the holder has already done to it at each of its steps;
  which critical sections it still has to perform, and on which surfaces. This
  is what makes a step of another thread between two of them harmless.
- `Apart`, `Claims`: a surface is the target of one picture at most, and one that
  a call is about to make a target is not another call's target or source. This
  is where the rules for clients enter.
- `WorkersOK`, `FramesOK`: a frame under way is in exactly one of a queue, a
  worker, the error path of a worker that could not start, and the one of
  DestroyContext; its surface is resolving and its picture submitted; a worker
  that has left has a closed, empty queue behind it.
- `SurfacesOK`: a resolving surface is the target of a picture not yet
  submitted or has a frame under way; a failure is recorded in the surface or
  still listed in an error path; an exported surface that is nobody's target has
  no frame running.

The pipeline has 56 actions and ten variables, so the step is cut by what an
action may touch: `ThreadStep`, `WorkStep`, `AloneSurface` and `CalmContext`
state it for calls that hold the lifetime lock for reading, for workers, for
calls that hold it for writing and for contexts that come and go. One lemma for
each shows that such a step preserves every part of `Inv`, one for each action
that it is such a step. `Inv` was checked by TLC on the configuration of
`decode_safety` and on one with three surfaces and one thread.

**ImageLayout.** From `WordsAssumption` alone, for all values of the arguments.
A client's descriptor has the type of its C structure and files have a size; an
image that is created has an extent other than zero, as nvCreateImage demands.
Nothing else is assumed. The module folds over planes, of which a format has at most three, so
the folds are unrolled: for each length the sequence of partial results is shown
to be the recursive function that the fold chooses. Below them are lemmas about
rounding up to an alignment, about the block height (a block wastes less than
the plane it holds, and under one modifier it is as high as the first plane's)
and about the extent of a plane. Planes are then placed one after the other
under an invariant: `LayoutInv` for block-linear layouts, `ImageInv` for VA images,
whose size is exactly the bytes of the planes so far, and `CopyInv` for what
nvGetImage copies. For imports the point is the arithmetic in words: a checked
product or sum that is accepted did not wrap, and the end of the last row is
computed without wrapping and bounds the end of every row.

**IntervalIndex and Codecs.** The nodes of the AVL tree live in an array and
refer to each other by number. A shape `S` gives for each number the set of nodes
below it, and `Sub` says of a node's subtree that it is ordered, disjoint and
balanced, with exact heights. Single and double rotations give another shape of
the same nodes, and `Rebalanced` restores balance whichever side has grown by
one. Insertion and the overlap walk are recursive functions; an induction by
theorem is out of reach, so the proofs take the node of least height (`LeastNat`
of `NumberFacts`) for which the function does not exist or is wrong, and refute
it. `FreeExact` and `IndexInserted` follow, for a tree of any size. For
TilesTracked, `CodecInv` says of a context of another codec that it has no tiles,
and of an AV1 one:

- `TilesInv`: the context and its buffers have their fields; the index is a tree
  (`IndexOK`) with as many ranges as tiles were seen; unless data was compacted,
  the ranges are the pairs of offsets of these tiles.
- `ClientInv`: the groups the client sent are groups of AV1 buffers.
- `StageInv`: no picture has left data, offsets, parameters or slices behind when
  the next begins (`Blank`); one that is being built has tiles numbered below
  their count and offsets for all of them, and once compacted it is complete
  (`Working`).

The placement of one buffer's tiles is the only loop that matters here, and the
invariant holds after each tile, refused ones and failed allocations included
(`Placeable`). `CodecAssumption` names the nine codecs and says that sizes,
offsets, rows and columns in AV1 buffers are not negative: they are unsigned
fields. TLC checked `CodecInv` with IsBalancedTree in the place of `IndexOK`, whose
shape it cannot enumerate.

**Only model-checked.**

- Liveness and whatever needs ENABLED (EveryPushReturns, WorkerReleased,
  SyncReturns and both CallsReturn): this prover has no rules for fairness.
- VerdictExact and SubmittedFaithful in `Codecs`: they compare what the client
  sent with what nine handlers concatenate, cell by cell, through folds over
  sequences of any length, for which there is no induction here. Only what the
  AV1 handler does to its tiles is proved.
- CodecFieldsExact in `MCCodecs` and QueriesAgree in `MCResources`: tables and
  loops compared with reference definitions over sampled inputs.
- AccountsExact, NothingFreedTwice and Quarantine in `Resources`: what a script
  does to its handles is computed by `Ownership!Run`, a RECURSIVE operator that
  branches at every failure. The prover cannot reason about such operators, and
  as the scripts nest, a recursive function would need a domain of scripts.
- OwnersAgree and QueuedIndexKept in a `PictureIndex` with foreign display
  surfaces, where they are false.

## Not modelled

- Pixel conversion and copies of frames, clearing of memory: data movement.
- Fields of codec parameters that are copied one to one; the translation is
  modelled where it computes, accumulates or resets.
- The contents of ioctls and the declarations in `nvidia-include/`: constants
  and structures of the vendor's kernel interface, without behaviour.
- EGL stream events and the EGL cache of detached images: they follow a
  library whose behaviour the repository does not define.
- Calls that only read a surface's state (QuerySurfaceStatus,
  QuerySurfaceError); statistics, on which nothing depends; environment
  variables, device selection and logging; installer and launcher scripts.
- A resolving flag shared by a surface and an import of its image (2196). It
  needs the images of `BackingImages` beside the pictures of `DecodePipeline`,
  a product beyond what TLC finishes.
- A client that calls the driver during vaTerminate, or destroys a context with
  a picture open: VA-API forbids both.

## Plan

All components of the table above are modelled. Proved: every safety property of
the runs of `ResolveQueue`, `ObjectTable`, `Buffers` with `ImageLayout`,
`PictureIndex`, `BackingImages` and `DecodePipeline`, and the tile index of
`Codecs`, but for what is listed under "Only model-checked". Left: VerdictExact
for the AV1 handler, which `CodecInv` comes close to, and a form of `Ownership`
without RECURSIVE.

The type invariants of these modules are kept for the proofs; the runs check
what is not a matter of types.
