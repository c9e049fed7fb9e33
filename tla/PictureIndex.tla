---------------------------- MODULE PictureIndex ----------------------------
(***************************************************************************)
(* The NVDEC picture indices of a decode context and the surfaces that own *)
(* them (src/src/vabackend.c, nvdSelectPictureIndex in codec-utils.c and   *)
(* nvdSelectDecodeSurfaceCount in decode-surfaces.c).                      *)
(*                                                                         *)
(* A picture decodes into the index its surface owns; the worker copies    *)
(* the frame out of the index later, and later pictures read it as a       *)
(* reference.  Indices are few, so that the codecs other than AV1 recycle  *)
(* them.  Two mutexes matter: objectCreationMutex of the driver and        *)
(* surfaceCreationMutex of each context.  The second one is held across    *)
(* the wait for a busy index, which is why taking either is a step.        *)
(*                                                                         *)
(* The calls on one context are serialised by its pictureMutex, so a       *)
(* context is also the name of the thread that calls on it; VPP is the     *)
(* thread of a VideoProc context.  What the resolve queue, the waiting for *)
(* surfaces and the error paths do in detail is in DecodePipeline.         *)
(***************************************************************************)
EXTENDS Integers, Sequences, FiniteSets

CONSTANTS
    Contexts,           \* decode contexts
    AV1,                \* those with cudaVideoCodec_AV1
    VPP,                \* a VideoProc context
    Surfaces,
    NULL,
    MinSurfaces,        \* drv->decodeSurfacesMinimum
    MaxSurfaces,        \* drv->decodeSurfacesMaximum
    DefaultSurfaces,    \* defaultDecodeSurfaceCount
    Override,           \* drv->decodeSurfacesOverride, 0 for automatic
    Hints,              \* context -> what its decodeSurfaceReferenceHint or
                        \* clientRenderTargetCount may be
    VideoProcTargets,   \* surfaces the client uses as VideoProc output
    NamesAll,           \* every picture names all references still needed
    ForeignDisplay,     \* a film grain display may come from another context
    MaxReferences,      \* bound: references a client keeps
    MaxJobs             \* bound: pictures queued for the worker

ASSUME PictureIndexAssumption ==
    /\ AV1 \subseteq Contexts
    /\ VPP \notin Contexts /\ NULL \notin Contexts \cup Surfaces \cup {VPP}
    /\ MinSurfaces \in Nat \ {0} /\ MaxSurfaces \in Nat /\ MinSurfaces <= MaxSurfaces
    /\ DefaultSurfaces \in Nat /\ Override \in Nat /\ Hints \in [Contexts -> SUBSET Nat]
    /\ VideoProcTargets \subseteq Surfaces
    /\ NamesAll \in BOOLEAN /\ ForeignDisplay \in BOOLEAN
    /\ MaxReferences \in Nat /\ MaxJobs \in Nat

NONE == -1
Indices == 0 .. MaxSurfaces - 1
Actors == Contexts \cup {VPP}

VARIABLES
    surf,       \* surface -> [live, pictureIdx, context, resolving]
    cx,         \* context -> its picture index state, see FreshContext
    pc,         \* actor -> where its thread is inside a call
    arg,        \* actor -> the surface of its call or of its open VideoProc picture
    objectCreationMutex,    \* the actor that holds it, or NULL
    surfaceCreationMutex    \* context -> the actor that holds it, or NULL

locks == <<objectCreationMutex, surfaceCreationMutex>>
vars == <<surf, cx, pc, arg, locks>>

FreshSurface == [live |-> TRUE, pictureIdx |-> NONE, context |-> NULL, resolving |-> FALSE]
FreshContext ==
    [state |-> "live",
     owners |-> [i \in Indices |-> NULL],   \* pictureIndexOwners
     active |-> {}, building |-> {},        \* activeReferenceMask, buildingReferenceMask
     allocated |-> 0,                       \* currentPictureId
     cursor |-> 0,                          \* pictureIndexRecycleCursor
     count |-> 0,                           \* surfaceCount of the decoder, 0 without one
     phase |-> "closed",                    \* no picture, "open", or parameters "rendered"
     target |-> NULL, display |-> NULL,     \* renderTarget, displayTarget
     jobs |-> <<>>,                         \* [surface, pictureIdx] for the worker
     references |-> {}]                     \* client: surfaces later pictures may refer to

Init ==
    /\ surf = [s \in Surfaces |-> FreshSurface]
    /\ cx = [c \in Contexts |-> FreshContext]
    /\ pc = [a \in Actors |-> "idle"]
    /\ arg = [a \in Actors |-> NULL]
    /\ objectCreationMutex = NULL
    /\ surfaceCreationMutex = [c \in Contexts |-> NULL]

-----------------------------------------------------------------------------
(* Pure parts.                                                             *)

Larger(a, b) == IF a > b THEN a ELSE b
Smaller(a, b) == IF a < b THEN a ELSE b

SelectDecodeSurfaceCount(default, hint, override) ==
    LET wanted == IF override = 0 THEN Larger(default, hint) ELSE override IN
    Smaller(Larger(wanted, MinSurfaces), MaxSurfaces)

\* The first of the available indices, in the order of the ring from start on.
FirstFrom(available, start, limit) ==
    IF available = {} THEN NONE
    ELSE CHOOSE i \in available :
            \A j \in available : (i - start) % limit <= (j - start) % limit

\* Mutants: a reference is recycled; a busy index is recycled.
SelectReferenced(allocated, limit, active, busy, cursor) ==
    IF allocated < limit THEN allocated
    ELSE FirstFrom((0 .. limit - 1) \ busy, cursor, limit)
SelectBusy(allocated, limit, active, busy, cursor) ==
    IF allocated < limit THEN allocated
    ELSE FirstFrom((0 .. limit - 1) \ active, cursor, limit)
SelectPictureIndex(allocated, limit, active, busy, cursor) ==
    IF allocated < limit THEN allocated
    ELSE FirstFrom((0 .. limit - 1) \ (active \cup busy), cursor, limit)

-----------------------------------------------------------------------------
(* releaseSurfacePictureIndex: the surface s leaves its context.           *)

\* surf and cx after the release of s, both mutexes held.
\* A mutant: the owner table is not told.
SurfReleased(s) == [surf EXCEPT ![s].context = NULL, ![s].pictureIdx = NONE]
CxReleasedNot(s) == cx
CxReleased(s) ==
    LET c == surf[s].context  i == surf[s].pictureIdx IN
    IF c # NULL /\ i # NONE /\ cx[c].state = "live" /\ cx[c].owners[i] = s
    THEN [cx EXCEPT ![c].owners[i] = NULL,
                    ![c].active = @ \ {i}, ![c].building = @ \ {i}]
    ELSE cx

\* Without a live context only the surface is cleared; otherwise the thread
\* goes on to the mutex of that context while it holds the first one.
ReleaseLock(a) ==
    /\ pc[a] = "release"
    /\ objectCreationMutex = NULL
    /\ IF surf[arg[a]].context # NULL /\ cx[surf[arg[a]].context].state = "live"
       THEN /\ objectCreationMutex' = a
            /\ pc' = [pc EXCEPT ![a] = "detach"]
            /\ UNCHANGED surf
       ELSE /\ surf' = SurfReleased(arg[a])
            /\ pc' = [pc EXCEPT ![a] = IF a = VPP THEN "publish" ELSE "assign"]
            /\ UNCHANGED objectCreationMutex
    /\ UNCHANGED <<cx, arg, surfaceCreationMutex>>

ReleaseIndex(a) ==
    /\ pc[a] = "detach"
    /\ surfaceCreationMutex[surf[arg[a]].context] = NULL
    /\ surf' = SurfReleased(arg[a])
    /\ cx' = CxReleased(arg[a])
    /\ objectCreationMutex' = NULL
    /\ pc' = [pc EXCEPT ![a] = IF a = VPP THEN "publish" ELSE "assign"]
    /\ UNCHANGED <<arg, surfaceCreationMutex>>

-----------------------------------------------------------------------------
(* nvBeginPicture.  The surface is idle, and the client neither starts two *)
(* pictures on it at once nor overwrites a reference it still needs.       *)

InUse(s) ==
    \/ \E a \in Actors : arg[a] = s
    \/ \E c \in Contexts : s \in cx[c].references \cup {cx[c].target, cx[c].display}

\* The picture c opens on s, once s has its index.
Opened(r, c, s) ==
    [r EXCEPT !.phase = "open", !.target = s, !.display = s,
              !.building = IF c \in AV1 THEN @ ELSE {}]

NvBeginPicture(c, s) ==
    /\ cx[c].state = "live" /\ cx[c].phase = "closed"
    /\ pc[c] = "idle"
    /\ surf[s].live /\ ~surf[s].resolving /\ ~InUse(s)
    /\ \/ /\ surf[s].context \notin {NULL, c}
          /\ pc' = [pc EXCEPT ![c] = "release"]
          /\ arg' = [arg EXCEPT ![c] = s]
          /\ UNCHANGED <<surf, cx>>
       \/ /\ surf[s].context \in {NULL, c} /\ surf[s].pictureIdx = NONE
          /\ pc' = [pc EXCEPT ![c] = "assign"]
          /\ arg' = [arg EXCEPT ![c] = s]
          /\ UNCHANGED <<surf, cx>>
       \/ /\ surf[s].context \in {NULL, c} /\ surf[s].pictureIdx # NONE
          /\ surf' = [surf EXCEPT ![s].resolving = TRUE]
          /\ cx' = [cx EXCEPT ![c] = Opened(@, c, s)]
          /\ UNCHANGED <<pc, arg>>
    /\ UNCHANGED locks

SurfaceLimit(c) == IF cx[c].count # 0 THEN cx[c].count ELSE MaxSurfaces

Busy(c) ==
    {i \in 0 .. SurfaceLimit(c) - 1 :
        cx[c].owners[i] # NULL /\ surf[cx[c].owners[i]].resolving}

\* The index assignSurfacePictureIndex and assignAV1SurfacePictureIndex choose.
Selected(c, busy) ==
    IF c \in AV1
    THEN FirstFrom({i \in 0 .. SurfaceLimit(c) - 1 : cx[c].owners[i] = NULL},
                   cx[c].cursor, SurfaceLimit(c))
    ELSE SelectPictureIndex(cx[c].allocated, SurfaceLimit(c), cx[c].active, busy,
                            cx[c].cursor)

\* The index whose owner is waited for when all but the busy ones are references.
WaitIndex(c) == IF c \in AV1 THEN NONE ELSE Selected(c, {})
CanWait(c) == WaitIndex(c) # NONE /\ cx[c].owners[WaitIndex(c)] # NULL

\* The thread has just taken surfaceCreationMutex, or still holds it and the
\* surface it waited for is resolved.
Trying(c) ==
    \/ pc[c] = "assign" /\ surfaceCreationMutex[c] = NULL
    \/ pc[c] = "await" /\ ~surf[cx[c].owners[WaitIndex(c)]].resolving

\* A mutant: the previous owner keeps the index it has lost.
SurfAssignedTwice(c, s, i) ==
    [surf EXCEPT ![s].pictureIdx = i, ![s].context = c, ![s].resolving = TRUE]
SurfAssigned(c, s, i) ==
    [t \in Surfaces |->
        IF t = s THEN [surf[s] EXCEPT !.pictureIdx = i, !.context = c, !.resolving = TRUE]
        ELSE IF t = cx[c].owners[i] /\ surf[t].pictureIdx = i
        THEN [surf[t] EXCEPT !.pictureIdx = NONE]
        ELSE surf[t]]

\* The highest index handed out so far, plus one.
AllocatedAfter(c, i) ==
    IF c \in AV1 THEN Larger(cx[c].allocated, i + 1)
    ELSE IF i = cx[c].allocated THEN i + 1 ELSE cx[c].allocated

CursorAfter(c, i) == (i + 1) % SurfaceLimit(c)

AssignIndex(c) ==
    LET s == arg[c]  i == Selected(c, Busy(c)) IN
    /\ Trying(c)
    /\ i # NONE
    /\ surf' = SurfAssigned(c, s, i)
    /\ cx' = [cx EXCEPT ![c] = Opened([@ EXCEPT !.owners[i] = s,
                                          !.allocated = AllocatedAfter(c, i),
                                          !.cursor = CursorAfter(c, i)], c, s)]
    /\ pc' = [pc EXCEPT ![c] = "idle"]
    /\ arg' = [arg EXCEPT ![c] = NULL]
    /\ surfaceCreationMutex' = [surfaceCreationMutex EXCEPT ![c] = NULL]
    /\ UNCHANGED objectCreationMutex

AssignWait(c) ==
    /\ Trying(c)
    /\ Selected(c, Busy(c)) = NONE /\ CanWait(c)
    /\ pc' = [pc EXCEPT ![c] = "await"]
    /\ surfaceCreationMutex' = [surfaceCreationMutex EXCEPT ![c] = c]
    /\ UNCHANGED <<surf, cx, arg, objectCreationMutex>>

\* Every index is a reference (or, for AV1, owned): MAX_NUM_EXCEEDED.
AssignFail(c) ==
    /\ Trying(c)
    /\ Selected(c, Busy(c)) = NONE /\ ~CanWait(c)
    /\ pc' = [pc EXCEPT ![c] = "idle"]
    /\ arg' = [arg EXCEPT ![c] = NULL]
    /\ surfaceCreationMutex' = [surfaceCreationMutex EXCEPT ![c] = NULL]
    /\ UNCHANGED <<surf, cx, objectCreationMutex>>

-----------------------------------------------------------------------------
(* nvRenderPicture: the picture parameters name the references.            *)

\* pictureIdxFromSurfaceId finds the index of r.
Found(c, r) ==
    /\ surf[r].live /\ surf[r].context = c /\ surf[r].pictureIdx # NONE
    /\ cx[c].owners[surf[r].pictureIdx] = r

\* A picture names references of the client, all of them if NamesAll.
RenderReferences(c, named) ==
    /\ cx[c].phase = "open"
    /\ named \subseteq cx[c].references
    /\ NamesAll /\ c \notin AV1 => named = cx[c].references
    /\ objectCreationMutex = NULL /\ surfaceCreationMutex[c] = NULL
    /\ cx' = [cx EXCEPT ![c].phase = "rendered",
                        ![c].building = IF c \in AV1 THEN @
                            ELSE @ \cup {surf[r].pictureIdx : r \in {q \in named : Found(c, q)}}]
    /\ UNCHANGED <<surf, pc, arg, locks>>

\* copyAV1PicParam with film grain: the output goes to the index of d.
RenderFilmGrain(c, d) ==
    /\ c \in AV1 /\ cx[c].phase = "open"
    /\ d # cx[c].target /\ surf[d].live /\ surf[d].pictureIdx >= 0
    /\ ~InUse(d) /\ ~surf[d].resolving
    /\ ~ForeignDisplay => surf[d].context = c
    /\ cx' = [cx EXCEPT ![c].phase = "rendered", ![c].display = d]
    /\ UNCHANGED <<surf, pc, arg, locks>>

-----------------------------------------------------------------------------
(* nvEndPicture and the worker                                             *)

Closed(r) == [r EXCEPT !.phase = "closed", !.target = NULL, !.display = NULL]

\* The decoder the picture is submitted to, created with the first picture.
\* createDecoderForContext refuses a pool smaller than the indices in use.
\* A mutant: it does not.
DecoderSizesUnchecked(c) ==
    IF cx[c].count # 0 THEN {cx[c].count}
    ELSE {SelectDecodeSurfaceCount(DefaultSurfaces, hint, Override) : hint \in Hints[c]}
DecoderSizes(c) ==
    IF cx[c].count # 0 THEN {cx[c].count}
    ELSE {n \in {SelectDecodeSurfaceCount(DefaultSurfaces, hint, Override) : hint \in Hints[c]} :
            cx[c].allocated <= n}

\* Rejected input, no decoder, a CUDA or allocation failure: nothing is queued.
\* The decoder may exist afterwards.
EndFail(c) ==
    /\ cx[c].phase # "closed"
    /\ surf' = [surf EXCEPT ![cx[c].target].resolving = FALSE,
                            ![cx[c].display].resolving = FALSE]
    /\ \E n \in DecoderSizes(c) \cup {cx[c].count} :
         cx' = [cx EXCEPT ![c] = Closed([@ EXCEPT !.count = n])]
    /\ UNCHANGED <<pc, arg, locks>>

\* The picture is decoded, `ok' or not, and queued.  If the queue refuses the
\* job the call fails.  The client keeps a subset of its references, and the
\* new picture if it got it.
EndDecode(c, ok, queued, kept) ==
    LET r == cx[c]  t == r.target  d == r.display IN
    /\ r.phase = "rendered"
    /\ queued => Len(r.jobs) < MaxJobs
    /\ kept \subseteq r.references \cup (IF ok /\ queued THEN {t} ELSE {})
    /\ Cardinality(kept) <= MaxReferences
    /\ \E n \in DecoderSizes(c) :
         cx' = [cx EXCEPT ![c] = Closed(
             [r EXCEPT !.count = n,
                 !.jobs = IF queued THEN Append(@, [surface |-> d, pictureIdx |-> surf[d].pictureIdx])
                          ELSE @,
                 !.active = IF ok /\ c \notin AV1 THEN r.building \cup {surf[t].pictureIdx} ELSE @,
                 !.references = kept])]
    /\ surf' = [surf EXCEPT ![t].resolving = FALSE,
                            ![d].resolving = queued, ![d].context = c]
    /\ UNCHANGED <<pc, arg, locks>>

\* The worker has copied the oldest frame out of its index.
\* A mutant: it queues a frame it could not copy again, for ever.
WorkerResolveAgain(c) ==
    /\ cx[c].jobs # <<>>
    /\ cx' = [cx EXCEPT ![c].jobs = Append(Tail(@), Head(@))]
    /\ UNCHANGED <<surf, pc, arg, locks>>
WorkerResolve(c) ==
    /\ cx[c].jobs # <<>>
    /\ surf' = [surf EXCEPT ![Head(cx[c].jobs).surface].resolving = FALSE]
    /\ cx' = [cx EXCEPT ![c].jobs = Tail(@)]
    /\ UNCHANGED <<pc, arg, locks>>

-----------------------------------------------------------------------------
(* VideoProc: copySurfaceBackingImage detaches its output from the decoder *)
(* before it publishes the pixels.                                         *)

VideoProcBegin(s) ==
    /\ pc[VPP] = "idle" /\ arg[VPP] = NULL
    /\ s \in VideoProcTargets /\ surf[s].live /\ ~surf[s].resolving /\ ~InUse(s)
    /\ arg' = [arg EXCEPT ![VPP] = s]
    /\ surf' = [surf EXCEPT ![s].resolving = TRUE]
    /\ UNCHANGED <<cx, pc, locks>>

VideoProcCopy ==
    /\ pc[VPP] = "idle" /\ arg[VPP] # NULL /\ surf[arg[VPP]].resolving
    /\ pc' = [pc EXCEPT ![VPP] = "release"]
    /\ UNCHANGED <<surf, cx, arg, locks>>

VideoProcPublish ==
    /\ pc[VPP] = "publish"
    /\ surf' = [surf EXCEPT ![arg[VPP]].resolving = FALSE]
    /\ pc' = [pc EXCEPT ![VPP] = "idle"]
    /\ UNCHANGED <<cx, arg, locks>>

VideoProcEnd ==
    /\ pc[VPP] = "idle" /\ arg[VPP] # NULL
    /\ surf' = [surf EXCEPT ![arg[VPP]].resolving = FALSE]
    /\ arg' = [arg EXCEPT ![VPP] = NULL]
    /\ UNCHANGED <<cx, pc, locks>>

-----------------------------------------------------------------------------
(* Creation and destruction.  Destroying holds the object lifetime lock    *)
(* for writing, so that no call is under way.                              *)

NoCalls == \A a \in Actors : pc[a] = "idle"

NvCreateSurface(s) ==
    /\ ~surf[s].live
    /\ surf' = [surf EXCEPT ![s] = FreshSurface]
    /\ UNCHANGED <<cx, pc, arg, locks>>

NvDestroySurface(s) ==
    /\ NoCalls
    /\ surf[s].live /\ ~surf[s].resolving /\ ~InUse(s)
    /\ surf' = [SurfReleased(s) EXCEPT ![s].live = FALSE]
    /\ cx' = CxReleased(s)
    /\ UNCHANGED <<pc, arg, locks>>

NvCreateContext(c) ==
    /\ cx[c].state = "gone"
    /\ cx' = [cx EXCEPT ![c] = FreshContext]
    /\ UNCHANGED <<surf, pc, arg, locks>>

\* The jobs of c are cancelled and their surfaces failed.
JobSurfaces(c) == {cx[c].jobs[n].surface : n \in 1 .. Len(cx[c].jobs)}

\* releaseContextPictureIndices: every surface that points to c lets go of it.
\* A mutant: only the surfaces in the owner table do.
SurfDetachedOwners(c) ==
    [s \in Surfaces |->
        [surf[s] EXCEPT !.resolving = @ /\ s \notin JobSurfaces(c),
            !.context = IF \E i \in Indices : cx[c].owners[i] = s THEN NULL ELSE @,
            !.pictureIdx = IF \E i \in Indices : cx[c].owners[i] = s THEN NONE ELSE @]]
SurfDetached(c) ==
    [s \in Surfaces |->
        [surf[s] EXCEPT !.resolving = @ /\ s \notin JobSurfaces(c),
            !.context = IF @ = c THEN NULL ELSE @,
            !.pictureIdx = IF surf[s].context = c THEN NONE ELSE @]]

NvDestroyContext(c) ==
    /\ NoCalls
    /\ cx[c].state # "gone" /\ cx[c].phase = "closed"
    /\ surf' = SurfDetached(c)
    /\ cx' = [cx EXCEPT ![c] = [FreshContext EXCEPT !.state = "gone"]]
    /\ UNCHANGED <<pc, arg, locks>>

\* The decoder cannot be destroyed: the context stays, for a later attempt.
NvDestroyContextFail(c) ==
    /\ NoCalls
    /\ cx[c].state = "live" /\ cx[c].phase = "closed"
    /\ surf' = [s \in Surfaces |->
                    [surf[s] EXCEPT !.resolving = @ /\ s \notin JobSurfaces(c)]]
    /\ cx' = [cx EXCEPT ![c].state = "destroying", ![c].jobs = <<>>, ![c].references = {}]
    /\ UNCHANGED <<pc, arg, locks>>

-----------------------------------------------------------------------------
\* What a thread inside a call goes on to do.
Proceed(a) ==
    \/ ReleaseLock(a)
    \/ ReleaseIndex(a)
    \/ a \in Contexts /\ (AssignIndex(a) \/ AssignWait(a) \/ AssignFail(a))
    \/ a = VPP /\ VideoProcPublish

Next ==
    \/ \E a \in Actors : Proceed(a)
    \/ \E c \in Contexts :
        \/ \E s \in Surfaces : NvBeginPicture(c, s) \/ RenderFilmGrain(c, s)
        \/ \E named \in SUBSET Surfaces : RenderReferences(c, named)
        \/ \E ok, queued \in BOOLEAN, kept \in SUBSET Surfaces : EndDecode(c, ok, queued, kept)
        \/ EndFail(c)
        \/ WorkerResolve(c)
        \/ NvCreateContext(c) \/ NvDestroyContext(c) \/ NvDestroyContextFail(c)
    \/ \E s \in Surfaces : VideoProcBegin(s) \/ NvCreateSurface(s) \/ NvDestroySurface(s)
    \/ VideoProcCopy \/ VideoProcEnd

Spec == Init /\ [][Next]_vars

\* A thread inside a call goes on, workers work, and the VideoProc client ends
\* the picture it has begun.
Fairness ==
    /\ \A a \in Actors : WF_vars(Proceed(a))
    /\ \A c \in Contexts : WF_vars(WorkerResolve(c))
    /\ WF_vars(VideoProcEnd)

FairSpec == Spec /\ Fairness

-----------------------------------------------------------------------------
(* Properties                                                              *)

Job == [surface : Surfaces, pictureIdx : Indices \cup {NONE}]

\* Every variable has its type; an index is below decodeSurfacesMaximum.
TypeOK ==
    /\ surf \in [Surfaces -> [live : BOOLEAN, pictureIdx : Indices \cup {NONE},
                              context : Contexts \cup {NULL}, resolving : BOOLEAN]]
    /\ \A c \in Contexts :
        /\ cx[c].state \in {"live", "destroying", "gone"}
        /\ cx[c].owners \in [Indices -> Surfaces \cup {NULL}]
        /\ cx[c].active \subseteq Indices /\ cx[c].building \subseteq Indices
        /\ cx[c].allocated \in 0 .. MaxSurfaces /\ cx[c].cursor \in Indices
        /\ cx[c].count \in 0 .. MaxSurfaces
        /\ cx[c].phase \in {"closed", "open", "rendered"}
        /\ cx[c].target \in Surfaces \cup {NULL} /\ cx[c].display \in Surfaces \cup {NULL}
        /\ cx[c].jobs \in Seq(Job)
        /\ cx[c].references \subseteq Surfaces
    /\ pc \in [Actors -> {"idle", "release", "detach", "assign", "await", "publish"}]
    /\ arg \in [Actors -> Surfaces \cup {NULL}]
    /\ objectCreationMutex \in Actors \cup {NULL}
    /\ surfaceCreationMutex \in [Contexts -> Actors \cup {NULL}]

\* The owner table of a live context and the surfaces agree: an index has one
\* owner, which exists and knows it, and a surface that believes to have an
\* index of the context is its owner.  Two surfaces on one index would
\* overwrite each other, and an owner that is gone would be locked.
OwnersAgree ==
    \A c \in Contexts : cx[c].state = "live" =>
        /\ \A i \in Indices : LET s == cx[c].owners[i] IN
              s # NULL => surf[s].live /\ surf[s].context = c /\ surf[s].pictureIdx = i
        /\ \A s \in Surfaces :
              surf[s].context = c /\ surf[s].pictureIdx # NONE =>
                  cx[c].owners[surf[s].pictureIdx] = s

\* The index of a frame that the worker has still to copy stays with its
\* surface: it is neither recycled nor released under the worker.
QueuedIndexKept ==
    \A c \in Contexts : \A n \in 1 .. Len(cx[c].jobs) :
        LET job == cx[c].jobs[n] IN
        job.pictureIdx # NONE /\ cx[c].owners[job.pictureIdx] = job.surface

\* The surfaces a client still needs as references keep their indices, so that
\* pictureIdxFromSurfaceId finds them, although indices are recycled.
ReferencesKept ==
    \A c \in Contexts : \A s \in cx[c].references : Found(c, s)

\* The decoder was created with room for every index in use: indices assigned
\* before it exists, below decodeSurfacesMaximum, are not beyond its pool.
IndexInPool ==
    \A c \in Contexts : cx[c].count # 0 =>
        \A i \in Indices : cx[c].owners[i] # NULL => i < cx[c].count

\* No surface points to a context that is gone, which would be used after
\* free by the next call on the surface.
NoStaleContext ==
    \A s \in Surfaces : surf[s].context # NULL => cx[surf[s].context].state # "gone"

\* A thread that begins a picture, or copies into a surface, gets out of the
\* call: the wait for a busy index inside surfaceCreationMutex ends.
CallsReturn == \A a \in Actors : (pc[a] # "idle") ~> (pc[a] = "idle")
=============================================================================
