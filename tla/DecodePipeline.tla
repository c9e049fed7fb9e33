--------------------------- MODULE DecodePipeline ---------------------------
(***************************************************************************)
(* Pictures, surfaces and resolve workers of the VA-API driver             *)
(* (src/src/vabackend.c).  Client threads begin, render and end pictures   *)
(* on contexts; an ended picture becomes a job that the resolve worker of  *)
(* the context copies into the surface; other threads synchronise on,      *)
(* export and destroy the same surfaces, and destroy contexts.             *)
(*                                                                         *)
(* A step is one critical section: what a thread does between two points   *)
(* where it can wait or be overtaken.  The object lifetime lock, the       *)
(* pictureMutex of a context and the join of a worker are explicit; the    *)
(* mutex of a surface is held within single steps only.                    *)
(*                                                                         *)
(* The resolve queue is used through its contract (JobQueue).  Picture     *)
(* indices, backing images and codec parsing appear as the outcomes they   *)
(* can have.  A call that returns at once and changes nothing is left out: *)
(* one that names an object that does not exist, comes in the wrong state  *)
(* of a picture nobody is working on, or waits for a resolved surface.     *)
(***************************************************************************)
EXTENDS Naturals, Sequences, FiniteSets

CONSTANTS
    Threads,         \* client threads
    Surfaces,        \* NVSurface objects
    Contexts,        \* NVContext objects
    VideoProc,       \* the contexts whose entrypoint is VAEntrypointVideoProc
    NULL,
    Capacity,        \* RESOLVE_QUEUE_CAPACITY
    MaxGeneration,   \* bound: decode generations of one surface
    MaxPictures,     \* bound: generations of all surfaces together
    Rules            \* what the clients are assumed to respect, see below

\* Rules a well-behaved client follows:
\*   "target"   a surface is the target of one open picture at a time;
\*   "display"  a film grain display surface is idle when it is named;
\*   "source"   a VideoProc source is not the target of an open picture;
\*   "export"   a surface is not exported while it is a target;
\*   "destroy"  a surface is not destroyed while it is a target;
\*   "context"  a context is not destroyed while it has an open picture.
AllRules == {"target", "display", "source", "export", "destroy", "context"}

ASSUME PipelineAssumption ==
    /\ Capacity \in Nat \ {0}
    /\ MaxGeneration \in Nat /\ MaxPictures \in Nat
    /\ VideoProc \subseteq Contexts /\ IsFiniteSet(Surfaces)
    /\ NULL \notin Surfaces \cup Threads \cup Contexts
    /\ Rules \subseteq AllRules

VARIABLES
    surf,        \* surface -> the fields of NVSurface that synchronise it
    ctx,         \* context -> the picture being built on it
    queue,       \* context -> accepted jobs, oldest first
    closed,      \* context -> the queue is exiting
    wk,          \* context -> its resolve worker
    th,          \* thread -> the VA call it is in
    readers,     \* threads holding the object lifetime lock for reading
    writer,      \* the thread holding it for writing, or NULL
    unsafe,      \* drv->cudaWorkUnsafe
    bad          \* history: surfaces whose latest generation the driver
                 \* has found to have failed

vars == <<surf, ctx, queue, closed, wk, th, readers, writer, unsafe, bad>>
locks == <<readers, writer>>
jobs == <<queue, closed, wk>>

\* A surface as nvCreateSurfaces2 leaves it, and one that is not allocated.
\* The flag of its backing image follows `resolving' and is not kept apart.
FreshSurface ==
    [life |-> "live", resolving |-> FALSE, submitted |-> 0, completed |-> 0,
     decodeFailed |-> FALSE, status |-> "success", exported |-> FALSE]
NoSurface == [FreshSurface EXCEPT !.life = "absent"]

\* holder is the thread that owns pictureMutex.
FreshContext ==
    [life |-> "live", picture |-> "idle", render |-> NULL, display |-> NULL,
     holder |-> NULL]
NoContext == [FreshContext EXCEPT !.life = "absent"]

\* ok is decodeStatus = VA_STATUS_SUCCESS.
NoJob == [surface |-> NULL, generation |-> 0, ok |-> FALSE]
NoWorker == [pc |-> "none", job |-> NoJob, failed |-> FALSE, todo |-> <<>>]
IdleThread == [pc |-> "idle", c |-> NULL, s |-> NULL, job |-> NoJob, todo |-> <<>>]

Init ==
    /\ surf = [s \in Surfaces |-> NoSurface]
    /\ ctx = [c \in Contexts |-> NoContext]
    /\ queue = [c \in Contexts |-> <<>>]
    /\ closed = [c \in Contexts |-> FALSE]
    /\ wk = [c \in Contexts |-> NoWorker]
    /\ th = [t \in Threads |-> IdleThread]
    /\ readers = {} /\ writer = NULL
    /\ unsafe = FALSE
    /\ bad = {}

-----------------------------------------------------------------------------
(* Critical sections on one surface.  They come as values, because a call  *)
(* performs several of them one after the other and another thread can run *)
(* in between: `todo' holds the ones a thread still has to do.             *)

Mark(s)  == [op |-> "mark", s |-> s]      \* setSurfaceResolving(s, true)
Clear(s) == [op |-> "clear", s |-> s]     \* setSurfaceResolving(s, false)
Fail(s)  == [op |-> "fail", s |-> s]      \* failSurfaceResolve(s, an error)
Free(s)  == [op |-> "free", s |-> s]      \* the cleanup of nvDestroySurfaces

Marked(r) ==
    [r EXCEPT !.submitted = @ + 1, !.decodeFailed = FALSE,
              !.status = "success", !.resolving = TRUE]

Cleared(r) ==
    [r EXCEPT !.completed = r.submitted, !.resolving = FALSE,
              !.status = IF r.decodeFailed THEN "error" ELSE "success"]

\* A mutant: the waiters are let go and the failure is not recorded.
FailedQuietly(r) ==
    [r EXCEPT !.completed = r.submitted, !.resolving = FALSE]
Failed(r) ==
    [r EXCEPT !.completed = r.submitted, !.resolving = FALSE,
              !.decodeFailed = TRUE, !.status = "error"]

Apply(o, r) ==
    CASE o.op = "mark"  -> Marked(r)
      [] o.op = "clear" -> Cleared(r)
      [] o.op = "fail"  -> Failed(r)
      [] o.op = "free"  -> NoSurface

\* nvDestroySurfaces waits until the surface is resolved before it frees it.
\* A mutant: it does not wait.
MayApplyEagerly(o) == TRUE
MayApply(o) == o.op = "free" => ~surf[o.s].resolving

Applied(o) == [surf EXCEPT ![o.s] = Apply(o, @)]

\* display first, then render when it is another surface; NULL is skipped.
Targets(c) ==
    (IF ctx[c].display # NULL THEN <<ctx[c].display>> ELSE <<>>) \o
    (IF ctx[c].render \notin {NULL, ctx[c].display} THEN <<ctx[c].render>> ELSE <<>>)

ClearTargets(c) == [i \in 1 .. Len(Targets(c)) |-> Clear(Targets(c)[i])]

\* cancelCurrentPictureResolve
FailTargets(c)  == [i \in 1 .. Len(Targets(c)) |-> Fail(Targets(c)[i])]

\* The surface the picture is resolved into.
Output(c) == IF ctx[c].display # NULL THEN ctx[c].display ELSE ctx[c].render

-----------------------------------------------------------------------------
(* What is in use, and what a client therefore does not do.                *)

Open(c) == {ctx[c].render, ctx[c].display} \ {NULL}
OpenTargets == UNION {Open(c) : c \in Contexts}

InCall(s, pcs) == \E t \in Threads : th[t].s = s /\ th[t].pc \in pcs
Beginning(s) == InCall(s, {"beginLock", "beginWait", "beginMark"})
Copying(s)   == InCall(s, {"copyWait", "copy"})
Exporting(s) == InCall(s, {"exportWait", "exportRead", "exportSet"})

Busy(s) == s \in OpenTargets \/ Beginning(s)

\* A job for s has been accepted and its frame is not yet complete.
Outstanding(s) == \E c \in Contexts :
    \/ \E i \in 1 .. Len(queue[c]) : queue[c][i].surface = s
    \/ wk[c].job.surface = s /\ wk[c].pc \in {"resolve", "check"}

Abides(rule, cond) == rule \in Rules => cond

\* The generations that exist, one pair for each.
Generations == UNION {{s} \X (1 .. surf[s].submitted) : s \in Surfaces}

MayBegin(s) ==
    /\ Abides("target", ~Busy(s))
    /\ Abides("source", ~Copying(s))
    /\ Abides("export", ~Exporting(s))
    /\ surf[s].submitted < MaxGeneration
    /\ Cardinality(Generations) < MaxPictures

MayDisplay(s) ==
    /\ MayBegin(s)
    /\ Abides("display", ~surf[s].resolving /\ ~Outstanding(s))

-----------------------------------------------------------------------------
(* Entering and leaving a call.  A reader of the lifetime lock only waits  *)
(* for a writer that is inside, never for one that is waiting.             *)

Enter(t, pc, c, s) ==
    /\ th[t].pc = "idle"
    /\ writer = NULL
    /\ readers' = readers \cup {t}
    /\ th' = [th EXCEPT ![t] = [IdleThread EXCEPT !.pc = pc, !.c = c, !.s = s]]
    /\ UNCHANGED <<surf, ctx, jobs, writer, unsafe, bad>>

\* Return and drop the lifetime lock.
Return(t) ==
    /\ th' = [th EXCEPT ![t] = IdleThread]
    /\ readers' = readers \ {t}
    /\ writer' = IF writer = t THEN NULL ELSE writer

At(t, pc) == th[t].pc = pc /\ th[t].todo = <<>>

Goto(t, pc, todo) ==
    /\ th' = [th EXCEPT ![t].pc = pc, ![t].todo = todo]
    /\ UNCHANGED locks

\* The next critical section of a call.
SurfaceStep(t) ==
    /\ th[t].todo # <<>>
    /\ LET o == Head(th[t].todo) IN
        /\ MayApply(o)
        /\ surf' = Applied(o)
        /\ bad' = IF o.op \in {"mark", "free"} THEN bad \ {o.s} ELSE bad
    /\ th' = [th EXCEPT ![t].todo = Tail(@)]
    /\ UNCHANGED <<ctx, jobs, locks, unsafe>>

\* The call does not find the picture in the wrong state at once.
MayFind(c, states) == ctx[c].holder # NULL \/ ctx[c].picture \in states

\* Take pictureMutex, in one step with what comes next, or find the picture in
\* a state the call is not for.
Locks(t, pc, states) ==
    /\ At(t, pc)
    /\ ctx[th[t].c].holder = NULL
    /\ ctx[th[t].c].picture \in states

WrongState(t, pc, states) ==
    LET c == th[t].c IN
    /\ At(t, pc)
    /\ ctx[c].holder = NULL
    /\ ctx[c].picture \notin states
    /\ Return(t)
    /\ UNCHANGED <<surf, ctx, jobs, unsafe, bad>>

\* Unlock pictureMutex and return, in one step with what comes last before.
\* The picture becomes p.
Release(t, p) ==
    /\ ctx' = [ctx EXCEPT ![th[t].c] = [p EXCEPT !.holder = NULL]]
    /\ Return(t)

Unlock(t) ==
    /\ At(t, "unlock")
    /\ Release(t, ctx[th[t].c])
    /\ UNCHANGED <<surf, jobs, unsafe, bad>>

-----------------------------------------------------------------------------
(* Objects.  Creation is one step: an object is not known to anyone before *)
(* its ID is returned, and a creation that fails leaves nothing behind.    *)

NvCreateSurface(s) ==
    /\ surf[s].life = "absent"
    /\ surf' = [surf EXCEPT ![s] = FreshSurface]
    /\ UNCHANGED <<ctx, jobs, th, locks, unsafe, bad>>

NvCreateContext(c) ==
    /\ writer = NULL
    /\ ctx[c].life = "absent"
    /\ ctx' = [ctx EXCEPT ![c] = FreshContext]
    /\ wk' = [wk EXCEPT ![c].pc = IF c \in VideoProc THEN "none" ELSE "start"]
    /\ UNCHANGED <<surf, queue, closed, th, locks, unsafe, bad>>

-----------------------------------------------------------------------------
(* nvBeginPicture                                                          *)

NvBeginPicture(t, c, s) ==
    /\ ctx[c].life = "live" /\ surf[s].life = "live"
    /\ MayFind(c, {"idle"})
    /\ MayBegin(s)
    /\ Enter(t, "beginLock", c, s)

BeginLock(t) ==
    /\ Locks(t, "beginLock", {"idle"})
    /\ ~unsafe
    /\ Goto(t, "beginWait", <<>>)
    /\ ctx' = [ctx EXCEPT ![th[t].c].holder = t, ![th[t].c].picture = "building"]
    /\ UNCHANGED <<surf, jobs, unsafe, bad>>

\* cudaWorkUnsafe: the picture is reset at once.
BeginUnsafe(t) ==
    /\ Locks(t, "beginLock", {"idle"})
    /\ unsafe
    /\ Return(t)
    /\ UNCHANGED <<surf, ctx, jobs, unsafe, bad>>

\* waitSurfaceResolved
\* A mutant: the previous generation is not waited for.
BeginWaitNot(t) ==
    /\ At(t, "beginWait")
    /\ Goto(t, "beginMark", <<>>)
    /\ UNCHANGED <<surf, ctx, jobs, unsafe, bad>>
BeginWait(t) ==
    /\ At(t, "beginWait")
    /\ ~surf[th[t].s].resolving
    /\ Goto(t, "beginMark", <<>>)
    /\ UNCHANGED <<surf, ctx, jobs, unsafe, bad>>

\* The decoder does not match the surface, or there is no free picture index.
BeginFail(t) ==
    /\ At(t, "beginMark")
    /\ th[t].c \notin VideoProc
    /\ Release(t, [ctx[th[t].c] EXCEPT !.picture = "idle"])
    /\ UNCHANGED <<surf, jobs, unsafe, bad>>

BeginMark(t) ==
    LET c == th[t].c  s == th[t].s IN
    /\ At(t, "beginMark")
    /\ surf' = Applied(Mark(s))
    /\ bad' = bad \ {s}
    /\ Release(t, [ctx[c] EXCEPT !.render = s,
                                 !.display = IF c \in VideoProc THEN @ ELSE s])
    /\ UNCHANGED <<jobs, unsafe>>

-----------------------------------------------------------------------------
(* nvRenderPicture.  A call with several buffers does for each of them     *)
(* what a call with that buffer alone does.                                *)

NvRenderPicture(t, c) ==
    /\ ctx[c].life = "live" /\ MayFind(c, {"building"})
    /\ Enter(t, "renderLock", c, NULL)

Renders(t) == Locks(t, "renderLock", {"building"})
RendersCopy(t) == Renders(t) /\ th[t].c \in VideoProc /\ ~unsafe
RendersDecode(t) == Renders(t) /\ th[t].c \notin VideoProc /\ ~unsafe

\* A buffer of a decode picture is taken over by the codec's handler.
RenderAccept(t) ==
    /\ RendersDecode(t)
    /\ Release(t, ctx[th[t].c])
    /\ UNCHANGED <<surf, jobs, unsafe, bad>>

\* copyAV1PicParam redirects the output to the display surface d, which has a
\* picture index, and so has been the target of a picture before.
RenderFilmGrain(t, d) ==
    LET c == th[t].c IN
    /\ RendersDecode(t)
    /\ surf[d].life = "live" /\ d # ctx[c].render /\ surf[d].submitted > 0
    /\ MayDisplay(d)
    /\ Release(t, [ctx[c] EXCEPT !.display = d])
    /\ UNCHANGED <<surf, jobs, unsafe, bad>>

\* The call fails: the sections of its error path, then the ones of
\* nvRenderPicture itself.
RenderFailure(t, todo) ==
    LET c == th[t].c IN
    /\ ctx' = [ctx EXCEPT ![c].picture = "failed", ![c].holder = t]
    /\ bad' = bad \cup Open(c)
    /\ Goto(t, "unlock", todo \o FailTargets(c))
    /\ UNCHANGED <<surf, jobs>>

\* cudaWorkUnsafe, a bad buffer, or no memory.
RenderRefuse(t) ==
    /\ Renders(t)
    /\ RenderFailure(t, FailTargets(th[t].c))
    /\ UNCHANGED unsafe

\* A handler set inputValidationFailed.
RenderInvalid(t) ==
    /\ RendersDecode(t)
    /\ RenderFailure(t, ClearTargets(th[t].c))
    /\ UNCHANGED unsafe

\* A VideoProc picture without a pipeline buffer.
RenderNothing(t) ==
    LET c == th[t].c IN
    /\ RendersCopy(t)
    /\ ctx' = [ctx EXCEPT ![c].holder = t]
    /\ Goto(t, "unlock", <<Clear(ctx[c].render)>>)
    /\ UNCHANGED <<surf, jobs, unsafe, bad>>

\* copySurfaceBackingImage: refuse, or wait for the source and copy.
CopyStart(t, src) ==
    LET c == th[t].c IN
    /\ RendersCopy(t)
    /\ surf[src].life = "live" /\ src # ctx[c].render
    /\ Abides("source", ~Busy(src))
    /\ ctx' = [ctx EXCEPT ![c].holder = t]
    /\ th' = [th EXCEPT ![t].pc = "copyWait", ![t].s = src]
    /\ UNCHANGED <<surf, jobs, locks, unsafe, bad>>

CopyWait(t) ==
    /\ At(t, "copyWait")
    /\ ~surf[th[t].s].resolving
    /\ Goto(t, "copy", <<>>)
    /\ UNCHANGED <<surf, ctx, jobs, unsafe, bad>>

\* The destination inherits the verdict on the source; with several copies
\* into one picture the last one counts, as in the code.
CopyDone(t) ==
    LET dst == ctx[th[t].c].render  src == th[t].s IN
    /\ At(t, "copy")
    /\ surf' = [surf EXCEPT ![dst].decodeFailed = surf[src].decodeFailed]
    /\ bad' = IF src \in bad THEN bad \cup {dst} ELSE bad \ {dst}
    /\ Goto(t, "unlock", <<Clear(dst)>>)
    /\ UNCHANGED <<ctx, jobs, unsafe>>

CopyRefused(t) ==
    /\ RendersCopy(t)
    /\ RenderFailure(t, <<Clear(ctx[th[t].c].render)>>)
    /\ UNCHANGED unsafe

CopyFail(t) ==
    /\ At(t, "copy")
    /\ RenderFailure(t, <<Clear(ctx[th[t].c].render)>>)
    /\ unsafe' \in {unsafe, TRUE}

-----------------------------------------------------------------------------
(* nvEndPicture                                                            *)

NvEndPicture(t, c) ==
    /\ ctx[c].life = "live" /\ MayFind(c, {"building", "failed"})
    /\ Enter(t, "endLock", c, NULL)

Ends(t) == Locks(t, "endLock", {"building"}) /\ ~unsafe
EndsDecode(t) == Ends(t) /\ th[t].c \notin VideoProc

\* The picture ends without a job; `todo' are the sections of the error path.
EndWith(t, todo, failed) ==
    /\ bad' = bad \cup failed
    /\ ctx' = [ctx EXCEPT ![th[t].c].holder = t]
    /\ Goto(t, "endReset", todo)
    /\ UNCHANGED <<surf, jobs, unsafe>>

EndFailed(t) ==
    LET c == th[t].c IN
    /\ Locks(t, "endLock", {"failed"})
    /\ EndWith(t, FailTargets(c), Open(c))

EndUnsafe(t) ==
    LET c == th[t].c IN
    /\ Locks(t, "endLock", {"building"}) /\ unsafe
    /\ EndWith(t, <<Fail(ctx[c].render)>> \o
                   IF c \in VideoProc THEN <<>> ELSE FailTargets(c), Open(c))

EndVideoProc(t) ==
    LET c == th[t].c IN
    /\ Ends(t) /\ c \in VideoProc
    /\ EndWith(t, <<Clear(ctx[c].render)>>, {})

\* Validation, buffer growth or the creation of the decoder failed: the
\* targets are cleared, and then failed by resetPictureBuild.
EndReject(t) ==
    LET c == th[t].c IN
    /\ EndsDecode(t)
    /\ EndWith(t, ClearTargets(c) \o FailTargets(c), Open(c))

\* The CUDA context cannot be entered, or not be left after the decode call.
EndNoCuda(t) ==
    LET c == th[t].c IN
    /\ EndsDecode(t)
    /\ EndWith(t, <<Clear(Output(c))>> \o FailTargets(c), Open(c))

\* cuvidDecodePicture was called; with film grain the display surface now
\* starts its generation and the render target is done.
EndDecode(t, ok) ==
    LET c == th[t].c IN
    /\ EndsDecode(t)
    /\ th' = [th EXCEPT ![t].pc = "endJob",
                 ![t].job = [surface |-> Output(c), generation |-> 0, ok |-> ok],
                 ![t].todo = IF Output(c) = ctx[c].render THEN <<>>
                             ELSE <<Mark(Output(c)), Clear(ctx[c].render)>>]
    /\ ctx' = [ctx EXCEPT ![c].holder = t]
    /\ UNCHANGED <<surf, jobs, locks, unsafe, bad>>

\* No memory for the job.
EndNoJob(t) ==
    LET c == th[t].c IN
    /\ At(t, "endJob")
    /\ EndWith(t, FailTargets(c) \o FailTargets(c), Open(c))

EndJob(t) ==
    LET job == th[t].job  s == job.surface IN
    /\ At(t, "endJob")
    /\ surf' = [surf EXCEPT ![s].decodeFailed = ~job.ok]
    /\ bad' = IF job.ok THEN bad ELSE bad \cup {s}
    /\ th' = [th EXCEPT ![t].pc = "endPush", ![t].job.generation = surf[s].submitted]
    /\ UNCHANGED <<ctx, jobs, locks, unsafe>>

\* resolveQueuePushTimed accepts the job, or refuses it because the queue is
\* exiting; it waits while the queue is full.
EndPush(t) ==
    LET c == th[t].c IN
    /\ At(t, "endPush")
    /\ ~closed[c] /\ Len(queue[c]) < Capacity
    /\ queue' = [queue EXCEPT ![c] = Append(@, th[t].job)]
    /\ ctx' = [ctx EXCEPT ![c].picture = "submitted"]
    /\ Goto(t, "endShared", <<>>)
    /\ UNCHANGED <<surf, closed, wk, unsafe, bad>>

EndRefused(t) ==
    LET c == th[t].c IN
    /\ At(t, "endPush")
    /\ closed[c]
    /\ EndWith(t, <<Fail(th[t].job.surface)>> \o FailTargets(c), Open(c))

\* The frame of an exported surface is finished before the call returns.
\* A mutant: it is finished as asynchronously as any other.
EndSharedAsync(t) ==
    /\ At(t, "endShared")
    /\ Goto(t, "endReset", <<>>)
    /\ UNCHANGED <<surf, ctx, jobs, unsafe, bad>>
EndShared(t) ==
    /\ At(t, "endShared")
    /\ Goto(t, IF surf[th[t].job.surface].exported THEN "endWait" ELSE "endReset", <<>>)
    /\ UNCHANGED <<surf, ctx, jobs, unsafe, bad>>

EndWait(t) ==
    /\ At(t, "endWait")
    /\ ~surf[th[t].job.surface].resolving
    /\ Goto(t, "endReset", <<>>)
    /\ UNCHANGED <<surf, ctx, jobs, unsafe, bad>>

\* resetPictureBuild
\* A mutant: a submitted picture is cancelled as well.
EndResetAlways(t) ==
    /\ At(t, "endReset")
    /\ ctx' = [ctx EXCEPT ![th[t].c] = [FreshContext EXCEPT !.holder = t]]
    /\ Goto(t, "unlock", FailTargets(th[t].c))
    /\ UNCHANGED <<surf, jobs, unsafe, bad>>
EndReset(t) ==
    /\ At(t, "endReset")
    /\ Release(t, FreshContext)
    /\ UNCHANGED <<surf, jobs, unsafe, bad>>

-----------------------------------------------------------------------------
(* nvSyncSurface and nvExportSurfaceHandle                                 *)

NvSyncSurface(t, s) ==
    /\ surf[s].life = "live" /\ surf[s].resolving
    /\ Enter(t, "syncWait", NULL, s)

NvExportSurfaceHandle(t, s) ==
    /\ surf[s].life = "live"
    /\ Abides("export", ~Busy(s))
    /\ Enter(t, "exportWait", NULL, s)

Resolved(t, pc) == At(t, pc) /\ ~surf[th[t].s].resolving

\* nvSyncSurface returns the completion status of the surface.
SyncWait(t) ==
    /\ Resolved(t, "syncWait")
    /\ Return(t)
    /\ UNCHANGED <<surf, ctx, jobs, unsafe, bad>>

ExportWait(t) ==
    /\ Resolved(t, "exportWait")
    /\ Goto(t, "exportRead", <<>>)
    /\ UNCHANGED <<surf, ctx, jobs, unsafe, bad>>

ExportRead(t) ==
    /\ At(t, "exportRead")
    /\ IF surf[th[t].s].status = "success"
       THEN Goto(t, "exportSet", <<>>)
       ELSE Return(t)
    /\ UNCHANGED <<surf, ctx, jobs, unsafe, bad>>

ExportSet(t) ==
    /\ At(t, "exportSet")
    /\ surf' = [surf EXCEPT ![th[t].s].exported = TRUE]
    /\ Return(t)
    /\ UNCHANGED <<ctx, jobs, unsafe, bad>>

ExportFail(t) ==
    /\ At(t, "exportSet")
    /\ unsafe' \in {unsafe, TRUE}
    /\ Return(t)
    /\ UNCHANGED <<surf, ctx, jobs, bad>>

-----------------------------------------------------------------------------
(* nvDestroySurfaces and nvDestroyContext hold the lifetime lock for       *)
(* writing from the beginning to the end.                                  *)

\* Lists without repetition, as the validation demands.
SurfaceLists ==
    {l \in UNION {[1 .. n -> Surfaces] : n \in 1 .. Cardinality(Surfaces)} :
        \A i, j \in DOMAIN l : l[i] = l[j] => i = j}

NvDestroySurfaces(t, list) ==
    /\ th[t].pc = "idle"
    /\ readers = {} /\ writer = NULL
    /\ \A i \in DOMAIN list : surf[list[i]].life = "live"
    /\ Abides("destroy", \A i \in DOMAIN list : list[i] \notin OpenTargets)
    /\ writer' = t
    /\ surf' = [s \in Surfaces |->
                   IF \E i \in DOMAIN list : list[i] = s
                   THEN [surf[s] EXCEPT !.life = "removed"] ELSE surf[s]]
    /\ th' = [th EXCEPT ![t].pc = "destroyed",
                        ![t].todo = [i \in DOMAIN list |-> Free(list[i])]]
    /\ UNCHANGED <<ctx, jobs, readers, unsafe, bad>>

DestroyReturn(t) ==
    /\ At(t, "destroyed")
    /\ Return(t)
    /\ UNCHANGED <<surf, ctx, jobs, unsafe, bad>>

\* The jobs resolveQueueCancel hands back are failed one by one.
\* A mutant: they are freed and their surfaces forgotten.
FailJobsNot(c) == <<>>
FailJobs(c) == [i \in 1 .. Len(queue[c]) |-> Fail(queue[c][i].surface)]
QueuedSurfaces(c) == {queue[c][i].surface : i \in 1 .. Len(queue[c])}

\* The worker is stopped and joined if it was started.
NvDestroyContext(t, c) ==
    /\ th[t].pc = "idle"
    /\ readers = {} /\ writer = NULL
    /\ ctx[c].life = "live"
    /\ Abides("context", ctx[c].picture = "idle")
    /\ writer' = t
    /\ closed' = [closed EXCEPT ![c] = @ \/ wk[c].pc # "none"]
    /\ queue' = [queue EXCEPT ![c] = <<>>]
    /\ bad' = bad \cup QueuedSurfaces(c)
    /\ th' = [th EXCEPT ![t].pc = "retire", ![t].c = c, ![t].todo = FailJobs(c)]
    /\ UNCHANGED <<surf, ctx, wk, readers, unsafe>>

WorkerGone(c) == wk[c].pc \in {"none", "exited", "aborted"} /\ wk[c].todo = <<>>

Retire(t) ==
    LET c == th[t].c IN
    /\ At(t, "retire") /\ WorkerGone(c) /\ ~unsafe
    /\ ctx' = [ctx EXCEPT ![c] = NoContext]
    /\ wk' = [wk EXCEPT ![c] = NoWorker]
    /\ closed' = [closed EXCEPT ![c] = FALSE]
    /\ Return(t)
    /\ UNCHANGED <<surf, queue, unsafe, bad>>

\* The context outlives its worker: GPU work may be pending, or a decoder the
\* worker did not destroy cannot be destroyed.
RetireFail(t) ==
    LET c == th[t].c IN
    /\ At(t, "retire") /\ WorkerGone(c)
    /\ unsafe \/ (c \notin VideoProc /\ wk[c].pc # "exited")
    /\ wk' = [wk EXCEPT ![c] = NoWorker]
    /\ Return(t)
    /\ UNCHANGED <<surf, ctx, queue, closed, unsafe, bad>>

-----------------------------------------------------------------------------
(* The resolve worker of a context (resolveSurfaces)                       *)

WorkerStart(c) ==
    /\ wk[c].pc = "start"
    /\ wk' = [wk EXCEPT ![c].pc = "pop"]
    /\ UNCHANGED <<surf, ctx, queue, closed, th, locks, unsafe, bad>>

\* The CUDA context cannot be entered: the queue is cancelled.
\* A mutant: the worker just leaves.
WorkerAbortQuietly(c) ==
    /\ wk[c].pc = "start"
    /\ wk' = [wk EXCEPT ![c].pc = "aborted"]
    /\ UNCHANGED <<surf, ctx, queue, closed, th, locks, unsafe, bad>>
WorkerAbort(c) ==
    /\ wk[c].pc = "start"
    /\ closed' = [closed EXCEPT ![c] = TRUE]
    /\ queue' = [queue EXCEPT ![c] = <<>>]
    /\ bad' = bad \cup QueuedSurfaces(c)
    /\ wk' = [wk EXCEPT ![c].pc = "aborted", ![c].todo = FailJobs(c)]
    /\ UNCHANGED <<surf, ctx, th, locks, unsafe>>

WorkerFailJob(c) ==
    /\ wk[c].todo # <<>>
    /\ surf' = Applied(Head(wk[c].todo))
    /\ wk' = [wk EXCEPT ![c].todo = Tail(@)]
    /\ UNCHANGED <<ctx, queue, closed, th, locks, unsafe, bad>>

WorkerPop(c) ==
    /\ wk[c].pc = "pop" /\ queue[c] # <<>>
    /\ wk' = [wk EXCEPT ![c].pc = "resolve", ![c].job = Head(queue[c])]
    /\ queue' = [queue EXCEPT ![c] = Tail(@)]
    /\ UNCHANGED <<surf, ctx, closed, th, locks, unsafe, bad>>

\* Map, copy and unmap.  A failure after the frame was mapped can leave GPU
\* work whose end cannot be established.
WorkerResolve(c, failed) ==
    /\ wk[c].pc = "resolve"
    /\ ~wk[c].job.ok \/ unsafe => failed
    /\ wk' = [wk EXCEPT ![c].pc = "check", ![c].failed = failed]
    /\ unsafe' \in IF failed /\ wk[c].job.ok THEN {unsafe, TRUE} ELSE {unsafe}
    /\ UNCHANGED <<surf, ctx, queue, closed, th, locks, bad>>

\* Under the surface's mutex: is the job's generation still the latest one?
WorkerCheck(c) ==
    LET job == wk[c].job  s == job.surface  failed == wk[c].failed \/ unsafe IN
    /\ wk[c].pc = "check"
    /\ IF surf[s].submitted = job.generation
       THEN /\ surf' = [surf EXCEPT ![s].decodeFailed = failed]
            /\ bad' = IF failed THEN bad \cup {s} ELSE bad
            /\ wk' = [wk EXCEPT ![c].pc = "publish"]
       ELSE /\ wk' = [wk EXCEPT ![c] = [NoWorker EXCEPT !.pc = "pop"]]
            /\ UNCHANGED <<surf, bad>>
    /\ UNCHANGED <<ctx, queue, closed, th, locks, unsafe>>

\* setSurfaceResolving(surface, false), after the mutex was given up.
WorkerPublish(c) ==
    /\ wk[c].pc = "publish"
    /\ surf' = Applied(Clear(wk[c].job.surface))
    /\ wk' = [wk EXCEPT ![c] = [NoWorker EXCEPT !.pc = "pop"]]
    /\ UNCHANGED <<ctx, queue, closed, th, locks, unsafe, bad>>

\* The queue is exiting: drain the stream and leave.
WorkerExit(c) ==
    /\ wk[c].pc = "pop" /\ queue[c] = <<>> /\ closed[c]
    /\ wk' = [wk EXCEPT ![c].pc = "exited"]
    /\ unsafe' \in {unsafe, TRUE}
    /\ UNCHANGED <<surf, ctx, queue, closed, th, locks, bad>>

-----------------------------------------------------------------------------
Call(t) ==
    \/ \E c \in Contexts : \/ \E s \in Surfaces : NvBeginPicture(t, c, s)
                          \/ NvRenderPicture(t, c)
                          \/ NvEndPicture(t, c)
                          \/ NvDestroyContext(t, c)
    \/ \E s \in Surfaces : NvSyncSurface(t, s) \/ NvExportSurfaceHandle(t, s)
    \/ \E list \in SurfaceLists : NvDestroySurfaces(t, list)

Lock(t) ==
    \/ BeginLock(t) \/ BeginUnsafe(t)
    \/ RenderAccept(t) \/ RenderRefuse(t) \/ RenderInvalid(t) \/ RenderNothing(t)
    \/ \E s \in Surfaces : RenderFilmGrain(t, s) \/ CopyStart(t, s)
    \/ CopyRefused(t)
    \/ EndFailed(t) \/ EndUnsafe(t) \/ EndVideoProc(t) \/ EndReject(t) \/ EndNoCuda(t)
    \/ \E ok \in BOOLEAN : EndDecode(t, ok)
    \/ WrongState(t, "beginLock", {"idle"})
    \/ WrongState(t, "renderLock", {"building"})
    \/ WrongState(t, "endLock", {"building", "failed"})

Continue(t) ==
    \/ SurfaceStep(t) \/ Unlock(t)
    \/ BeginWait(t) \/ BeginFail(t) \/ BeginMark(t)
    \/ CopyWait(t) \/ CopyDone(t) \/ CopyFail(t)
    \/ EndNoJob(t) \/ EndJob(t) \/ EndPush(t) \/ EndRefused(t)
    \/ EndShared(t) \/ EndWait(t) \/ EndReset(t)
    \/ SyncWait(t) \/ ExportWait(t) \/ ExportRead(t) \/ ExportSet(t) \/ ExportFail(t)
    \/ DestroyReturn(t) \/ Retire(t) \/ RetireFail(t)

Work(c) ==
    \/ WorkerStart(c) \/ WorkerAbort(c) \/ WorkerFailJob(c) \/ WorkerPop(c)
    \/ \E failed \in BOOLEAN : WorkerResolve(c, failed)
    \/ WorkerCheck(c) \/ WorkerPublish(c) \/ WorkerExit(c)

Next ==
    \/ \E s \in Surfaces : NvCreateSurface(s)
    \/ \E c \in Contexts : NvCreateContext(c) \/ Work(c)
    \/ \E t \in Threads : Call(t) \/ Lock(t) \/ Continue(t)

Spec == Init /\ [][Next]_vars

\* Threads and workers run.  A thread that waits for pictureMutex gets it if it
\* becomes free again and again; nothing is assumed about clients calling.
Fairness ==
    /\ \A t \in Threads : WF_vars(Continue(t)) /\ SF_vars(Lock(t))
    /\ \A c \in Contexts : WF_vars(Work(c))

FairSpec == Spec /\ Fairness

-----------------------------------------------------------------------------
(* Properties                                                              *)

ThreadPC ==
    {"idle", "beginLock", "beginWait", "beginMark", "renderLock",
     "copyWait", "copy", "endLock", "endJob", "endPush", "endShared",
     "endWait", "endReset", "unlock", "syncWait", "exportWait",
     "exportRead", "exportSet", "destroyed", "retire"}
WorkerPC == {"none", "start", "pop", "resolve", "check", "publish", "exited", "aborted"}

SurfaceRecord ==
    [life : {"absent", "live", "removed"}, resolving : BOOLEAN, submitted : Nat,
     completed : Nat, decodeFailed : BOOLEAN, status : {"success", "error"},
     exported : BOOLEAN]
ContextRecord ==
    [life : {"absent", "live"}, picture : {"idle", "building", "failed", "submitted"},
     render : Surfaces \cup {NULL}, display : Surfaces \cup {NULL},
     holder : Threads \cup {NULL}]
Job == [surface : Surfaces \cup {NULL}, generation : Nat, ok : BOOLEAN]
Section == [op : {"mark", "clear", "fail", "free"}, s : Surfaces]

\* Every variable has its type, and the queue of a context respects the bound
\* whatever number of threads end pictures on it.
TypeOK ==
    /\ surf \in [Surfaces -> SurfaceRecord]
    /\ ctx \in [Contexts -> ContextRecord]
    /\ queue \in [Contexts -> Seq(Job)]
    /\ \A c \in Contexts : Len(queue[c]) <= Capacity
    /\ closed \in [Contexts -> BOOLEAN]
    /\ wk \in [Contexts -> [pc : WorkerPC, job : Job, failed : BOOLEAN, todo : Seq(Section)]]
    /\ th \in [Threads -> [pc : ThreadPC, c : Contexts \cup {NULL}, s : Surfaces \cup {NULL},
                           job : Job, todo : Seq(Section)]]
    /\ readers \subseteq Threads /\ writer \in Threads \cup {NULL}
    /\ unsafe \in BOOLEAN /\ bad \subseteq Surfaces

Allocated(s) == s # NULL => surf[s].life # "absent"

\* The lifetime barrier works: no pointer to a surface outlives it, neither in
\* a queued job, nor in a worker, nor in the open picture of a context (the
\* raw renderTarget and displayTarget), nor in a call that is still running.
NoDanglingSurface ==
    /\ \A c \in Contexts :
        /\ \A i \in 1 .. Len(queue[c]) : Allocated(queue[c][i].surface)
        /\ Allocated(wk[c].job.surface)
        /\ \A i \in 1 .. Len(wk[c].todo) : Allocated(wk[c].todo[i].s)
        /\ Allocated(ctx[c].render) /\ Allocated(ctx[c].display)
    /\ \A t \in Threads :
        /\ Allocated(th[t].s) /\ Allocated(th[t].job.surface)
        /\ \A i \in 1 .. Len(th[t].todo) : Allocated(th[t].todo[i].s)

\* What waitSurfaceResolved relies on: a surface that is not resolving has no
\* frame under way, in any queue or worker.
ReadyMeansDone ==
    \A s \in Surfaces : surf[s].life # "absent" /\ ~surf[s].resolving => ~Outstanding(s)

\* A surface starts no new generation while a job of an earlier one still has
\* its decoder index and backing image.
NewGenerationWaits ==
    [][\A s \in Surfaces : surf'[s].submitted > surf[s].submitted => ~Outstanding(s)]_vars

StillToSettle(s) ==
    \/ \E t \in Threads : \E i \in 1 .. Len(th[t].todo) : th[t].todo[i].s = s
    \/ \E c \in Contexts : \E i \in 1 .. Len(wk[c].todo) : wk[c].todo[i].s = s

\* Nobody waits in vain: a surface that is resolving has somebody who will
\* settle it, an open picture, a call or worker in its error path, or a job in
\* the hands of a worker that is running.
ResolvingIsOwned ==
    \A s \in Surfaces : surf[s].resolving =>
        \/ s \in OpenTargets
        \/ StillToSettle(s)
        \/ \E c \in Contexts :
            /\ s \in QueuedSurfaces(c) \cup {wk[c].job.surface}
            /\ wk[c].pc \notin {"none", "exited", "aborted"}

\* No failure is lost: once the call or the worker that found a generation to
\* have failed is through with its error path, the surface reports an error,
\* whatever combination of decode, copy, refused push and teardown it took.
FailureReported ==
    \A s \in bad : ~surf[s].resolving /\ ~StillToSettle(s) => surf[s].status = "error"

\* A frame that has been handed back in an exported surface is finished: nobody
\* calls SyncSurface for a dma-buf he already holds.
ExportedFrameFinished ==
    \A s \in Surfaces : surf[s].exported /\ s \notin OpenTargets => ~Outstanding(s)

\* SyncSurface comes back, unless the client leaves a picture open on the
\* surface: neither a failed decode, nor a worker that could not start, nor a
\* context that goes away leaves a waiter behind.
SyncReturns ==
    \A t \in Threads, s \in Surfaces :
        (th[t].pc = "syncWait" /\ th[t].s = s) ~> (th[t].pc = "idle" \/ s \in OpenTargets)

\* Begin, Render, End and the two destroy calls always come back: the lifetime
\* lock, pictureMutex, the bounded queue, the join and the waits for surfaces
\* never wait for one another in a circle.
CallsReturn ==
    \A t \in Threads :
        (th[t].pc \notin {"idle", "syncWait", "exportWait"}) ~> (th[t].pc = "idle")
=============================================================================
