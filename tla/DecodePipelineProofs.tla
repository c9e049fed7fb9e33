------------------------ MODULE DecodePipelineProofs ------------------------
(***************************************************************************)
(* Proofs about DecodePipeline, for any number of threads, surfaces and    *)
(* contexts and any queue capacity, with clients that follow the rules.    *)
(*                                                                         *)
(* The inductive invariant Inv comes first.  Then one lemma for each kind  *)
(* of step says what a step of that kind has to respect to preserve Inv:   *)
(* ThreadStepInv for the calls that hold the lifetime lock for reading,    *)
(* WorkStepInv for the workers, AloneStep and CalmContextStep for the      *)
(* calls that hold it for writing and for new objects.  Each action is     *)
(* shown to be such a step; NextInv puts the actions together, and the     *)
(* theorems are at the end.                                                *)
(***************************************************************************)
EXTENDS DecodePipeline, FiniteSetTheorems, TLAPS

-----------------------------------------------------------------------------
(* The inductive invariant.  Its parts are stated of a call p, a picture x *)
(* of a context c, a queue q and a worker w, given the surfaces S and the  *)
(* set B of the ones that are known to have failed.                        *)

Holding == {"beginWait", "beginMark", "copyWait", "copy", "endJob", "endPush",
            "endShared", "endWait", "endReset", "unlock"}
Locking == {"beginLock", "renderLock", "endLock"}
Exclusive == {"destroyed", "retire"}
BeginPC == {"beginLock", "beginWait", "beginMark"}
SourcePC == {"copyWait", "copy", "exportWait", "exportRead", "exportSet"}
ReadyPC == {"beginMark", "copy", "exportRead", "exportSet"}
EndPC == {"endJob", "endPush", "endShared", "endWait", "endReset"}
WorkPC == {"resolve", "check", "publish"}

CallRecord == [pc : ThreadPC, c : Contexts \cup {NULL}, s : Surfaces \cup {NULL},
               job : Job, todo : Seq(Section)]
WorkerRecord == [pc : WorkerPC, job : Job, failed : BOOLEAN, todo : Seq(Section)]

\* The sections a list holds.
Has(todo, s, op) == \E i \in 1 .. Len(todo) : todo[i].s = s /\ todo[i].op = op
InList(todo, s) == \E i \in 1 .. Len(todo) : todo[i].s = s
Only(todo, ops) == \A i \in 1 .. Len(todo) : todo[i].op \in ops
Once(todo) == \A i, j \in 1 .. Len(todo) : todo[i].s = todo[j].s => i = j

OpenOf(x) == {x.render, x.display} \ {NULL}
OutputOf(x) == IF x.display # NULL THEN x.display ELSE x.render

\* The lifetime lock is held by the calls that are under way.
LocksOK ==
    /\ \A t \in Threads : t \in readers <=> th[t].pc \notin {"idle"} \cup Exclusive
    /\ \A t \in Threads : writer = t <=> th[t].pc \in Exclusive
    /\ writer # NULL => readers = {}

\* pictureMutex is held by the call that works on the picture.
HoldersOK ==
    \A t \in Threads, c \in Contexts :
        ctx[c].holder = t <=> th[t].c = c /\ th[t].pc \in Holding

\* A picture: what is set in which state.
Picture(c, x, S, B) ==
    /\ x.life = "absent" => x = NoContext
    /\ x.picture = "idle" => x.render = NULL /\ x.display = NULL
    /\ c \in VideoProc => x.display = NULL /\ x.picture # "submitted"
    /\ c \notin VideoProc => (x.render = NULL <=> x.display = NULL)
    /\ x.holder = NULL /\ x.picture # "idle" => x.picture # "submitted" /\ x.render # NULL
    /\ \A s \in OpenOf(x) : S[s].life = "live"
    /\ x.holder = NULL /\ x.picture = "building" /\ c \notin VideoProc =>
         S[x.render].resolving /\ x.render \notin B
    /\ x.holder = NULL /\ x.picture = "building" /\ x.display \notin {NULL, x.render} =>
         ~S[x.display].resolving

PicturesOK == \A c \in Contexts : Picture(c, ctx[c], surf, bad)

\* No surface is the target of two pictures.
Apart == \A c, d \in Contexts : c # d => OpenOf(ctx[c]) \cap OpenOf(ctx[d]) = {}

\* What the objects of a call are, and what is left of it.
Objects(p, x, S) ==
    /\ p.pc = "idle" => p = IdleThread
    /\ p.pc \in Locking \cup Holding \cup {"retire"} => p.c # NULL /\ x.life = "live"
    /\ p.pc \in BeginPC \cup SourcePC \cup {"syncWait"} => p.s # NULL
    /\ p.s # NULL => p.pc \notin Exclusive /\ S[p.s].life = "live"
    /\ p.pc \in ReadyPC => ~S[p.s].resolving
    /\ p.job.surface # NULL => p.pc \in EndPC /\ p.job.surface = OutputOf(x)
    /\ p.todo # <<>> => p.pc \in {"unlock", "endJob", "endReset"} \cup Exclusive

\* What a call that holds pictureMutex has done to its picture.
EndStage(p, x, S, B) ==
    /\ p.pc \in {"endJob", "endPush"} =>
         /\ x.picture = "building" /\ x.render # NULL /\ p.job.surface = OutputOf(x)
    /\ p.pc = "endJob" =>
         \/ /\ p.todo = <<Mark(OutputOf(x)), Clear(x.render)>> /\ OutputOf(x) # x.render
         \/ /\ p.todo = <<Clear(x.render)>> /\ OutputOf(x) # x.render
            /\ S[OutputOf(x)].resolving /\ OutputOf(x) \notin B
         \/ /\ p.todo = <<>> /\ S[OutputOf(x)].resolving /\ OutputOf(x) \notin B
            /\ OutputOf(x) # x.render => ~S[x.render].resolving
    /\ p.pc = "endPush" =>
         /\ p.job.generation = S[OutputOf(x)].submitted /\ S[OutputOf(x)].resolving
         /\ p.job.ok => OutputOf(x) \notin B
         /\ OutputOf(x) # x.render => ~S[x.render].resolving
    /\ p.pc \in {"endShared", "endWait"} => x.picture = "submitted"
    /\ p.pc \in EndPC /\ x.picture = "submitted" =>
         /\ p.job.surface = OutputOf(x) /\ x.render # NULL /\ p.todo = <<>>
         /\ \A s \in OpenOf(x) : s # OutputOf(x) => ~S[s].resolving
    /\ p.pc = "endReset" /\ x.picture = "submitted" /\ S[OutputOf(x)].exported =>
         ~S[OutputOf(x)].resolving
    /\ p.pc = "endReset" /\ x.picture # "submitted" =>
         \A s \in OpenOf(x) : S[s].resolving => InList(p.todo, s)

Stage(c, p, x, S, B) ==
    /\ p.pc \in {"beginWait", "beginMark"} =>
         x.picture = "building" /\ x.render = NULL /\ x.display = NULL
    /\ p.pc \in {"copyWait", "copy"} =>
         c \in VideoProc /\ x.picture = "building" /\ x.render # NULL
    /\ p.pc = "unlock" =>
         /\ x.picture \in {"building", "failed"} /\ x.render # NULL
         /\ c \notin VideoProc => x.picture = "failed"
    /\ p.pc \in {"unlock", "endReset"} =>
         /\ Only(p.todo, {"clear", "fail"})
         /\ \A s \in Surfaces : InList(p.todo, s) => s \in OpenOf(x)
    /\ p.pc \in {"endJob", "endPush"} => c \notin VideoProc
    /\ EndStage(p, x, S, B)

\* What a call that holds the lifetime lock for writing has still to do.
Teardown(p, x, q, k, S) ==
    /\ p.pc \in Exclusive => Once(p.todo)
    /\ p.pc = "destroyed" =>
         /\ Only(p.todo, {"free"})
         /\ \A s \in Surfaces : InList(p.todo, s) => S[s].life = "removed"
    /\ p.pc = "retire" =>
         /\ Only(p.todo, {"fail"})
         /\ x.picture = "idle" /\ q = <<>>
         /\ p.c \in VideoProc \/ k

CallOK(p) ==
    /\ Objects(p, ctx[p.c], surf)
    /\ Teardown(p, ctx[p.c], queue[p.c], closed[p.c], surf)
    /\ p.pc \in Holding => Stage(p.c, p, ctx[p.c], surf, bad)

CallsOK == \A t \in Threads : CallOK(th[t])

\* A surface that is about to become a target is nobody else's.
Claims ==
    /\ \A t \in Threads : th[t].pc \in BeginPC \cup SourcePC =>
         \A c \in Contexts : th[t].s \notin OpenOf(ctx[c])
    /\ \A t, u \in Threads :
         t # u /\ th[t].pc \in BeginPC /\ th[u].pc \in BeginPC \cup SourcePC => th[u].s # th[t].s

\* The frames under way: in the queue of a context, in its worker, in the error
\* path of a worker that could not start, and in the one of DestroyContext.
InQueue(q, s) == \E i \in 1 .. Len(q) : q[i].surface = s
InWork(w, s) == w.pc \in WorkPC /\ w.job.surface = s
InLine(q, w, s) == InQueue(q, s) \/ InWork(w, s) \/ InList(w.todo, s)
Retiring(s) == \E t \in Threads : th[t].pc = "retire" /\ InList(th[t].todo, s)
InFrames(s) == Retiring(s) \/ \E c \in Contexts : InLine(queue[c], wk[c], s)

\* The worker w of a context.
Worker(c, x, q, k, w, S, B) ==
    /\ x.life = "absent" => w = NoWorker /\ ~k
    /\ w.todo # <<>> => w.pc = "aborted"
    /\ Only(w.todo, {"fail"}) /\ Once(w.todo)
    /\ w.job.surface # NULL <=> w.pc \in WorkPC
    /\ w.pc = "none" => c \in VideoProc \/ x.life = "absent" \/ k
    /\ w.pc \in {"exited", "aborted"} => k
    /\ w.pc \in {"none", "exited", "aborted"} => q = <<>>
    /\ w.pc # "none" => c \notin VideoProc
    /\ w.pc \in {"resolve", "check"} /\ w.job.ok => w.job.surface \notin B
    /\ w.pc = "check" /\ ~w.job.ok => w.failed
    /\ w.pc = "publish" /\ w.job.surface \in B => S[w.job.surface].decodeFailed

WorkersOK == \A c \in Contexts : Worker(c, ctx[c], queue[c], closed[c], wk[c], surf, bad)

\* The jobs of a context, waiting and being worked on.
Jobs(q, w, S, B) ==
    /\ \A i \in 1 .. Len(q) :
         /\ q[i].surface # NULL
         /\ q[i].generation = S[q[i].surface].submitted
         /\ q[i].ok => q[i].surface \notin B
         /\ ~InWork(w, q[i].surface)
    /\ \A i, j \in 1 .. Len(q) : q[i].surface = q[j].surface => i = j
    /\ w.pc \in {"resolve", "check"} => w.job.generation = S[w.job.surface].submitted

\* A frame under way is in one place, its surface is resolving, and its picture
\* has been submitted.
FramesOK ==
    /\ \A c \in Contexts : Jobs(queue[c], wk[c], surf, bad)
    /\ \A c \in Contexts, s \in Surfaces : InLine(queue[c], wk[c], s) => ~Retiring(s)
    /\ \A c, d \in Contexts, s \in Surfaces :
         c # d /\ InLine(queue[c], wk[c], s) => ~InLine(queue[d], wk[d], s)
    /\ \A s \in Surfaces : InFrames(s) => surf[s].resolving /\ surf[s].life # "absent"
    /\ \A s \in Surfaces, c \in Contexts :
         InFrames(s) /\ s \in OpenOf(ctx[c]) => ctx[c].picture = "submitted"

\* Who settles a surface, and what has become of a failure.
Settling(s, op) ==
    \/ \E t \in Threads : Has(th[t].todo, s, op)
    \/ \E c \in Contexts : Has(wk[c].todo, s, op)
Targeted(s) == \E c \in Contexts : s \in OpenOf(ctx[c])
Pending(s) == \E c \in Contexts : s \in OpenOf(ctx[c]) /\ ctx[c].picture # "submitted"
Running(q, w, s) == InQueue(q, s) \/ (w.pc \in {"resolve", "check"} /\ w.job.surface = s)

AbsentOK(s) == surf[s].life = "absent" => surf[s] = NoSurface /\ s \notin bad
OwnedOK(s) == surf[s].resolving => Pending(s) \/ InFrames(s)
FailureOK(s) ==
    s \in bad =>
        \/ Settling(s, "fail")
        \/ /\ surf[s].decodeFailed
           /\ surf[s].resolving \/ surf[s].status = "error" \/ Settling(s, "clear")
ExportOK(s) ==
    surf[s].exported /\ ~Targeted(s) => \A c \in Contexts : ~Running(queue[c], wk[c], s)

SurfacesOK == \A s \in Surfaces : AbsentOK(s) /\ OwnedOK(s) /\ FailureOK(s) /\ ExportOK(s)

Inv ==
    /\ TypeOK /\ LocksOK /\ HoldersOK /\ PicturesOK /\ Apart /\ CallsOK /\ Claims
    /\ WorkersOK /\ FramesOK /\ SurfacesOK

-----------------------------------------------------------------------------
(* A step of a call that does not hold the lifetime lock for writing.  The *)
(* call of t becomes p, the picture of the context c it works on x.        *)

\* What a step leaves alone.
Same(s) == surf'[s] = surf[s] /\ (s \in bad' <=> s \in bad)

\* The surfaces the step may change: the targets of a picture nobody else works
\* on, the surface that becomes a target, and the one that is exported.
Mine(t, c, s) ==
    \/ s = th[t].s /\ th[t].pc \in {"beginMark", "exportSet"}
    \/ /\ c # NULL /\ s \in OpenOf(ctx[c])
       /\ ctx[c].picture # "submitted" /\ ctx[c].holder \in {t, NULL}

StepShape(t, c, p, x) ==
    /\ p \in CallRecord /\ (c # NULL => x \in ContextRecord)
    /\ th' = [th EXCEPT ![t] = p] /\ ctx' = [ctx EXCEPT ![c] = x]
    /\ queue' = queue /\ closed' = closed /\ wk' = wk
    /\ readers' = (IF p.pc = "idle" THEN readers \ {t} ELSE readers \cup {t})
    /\ writer = NULL /\ writer' = NULL
    /\ th[t].pc \notin Exclusive /\ p.pc \notin Exclusive
    /\ surf' \in [Surfaces -> SurfaceRecord] /\ bad' \subseteq Surfaces /\ unsafe' \in BOOLEAN
    /\ th[t].c \in {c, NULL} /\ p.c \in {c, NULL}

StepPicture(t, c, p, x) ==
    c # NULL =>
        /\ x.holder = t <=> p.c = c /\ p.pc \in Holding
        /\ \A u \in Threads \ {t} : x.holder = u <=> ctx[c].holder = u
        /\ x # ctx[c] => ctx[c].holder \in {t, NULL}
        /\ x.life = ctx[c].life
        /\ Picture(c, x, surf', bad')
        /\ \A s \in OpenOf(x) \ OpenOf(ctx[c]) :
             /\ \A d \in Contexts \ {c} : s \notin OpenOf(ctx[d])
             /\ \A u \in Threads \ {t} : th[u].pc \in BeginPC \cup SourcePC => th[u].s # s
        /\ \A s \in OpenOf(x) : InFrames(s) => x.picture = "submitted"

StepCall(t, c, p, x) ==
    /\ Objects(p, x, surf')
    /\ p.pc \in Locking \cup Holding => p.c = c
    /\ p.pc \in Holding => Stage(c, p, x, surf', bad')
    /\ p.pc \in BeginPC \cup SourcePC =>
         /\ \A d \in Contexts \ {c} : p.s \notin OpenOf(ctx[d])
         /\ c # NULL => p.s \notin OpenOf(x)
    /\ p.pc \in BeginPC =>
         \A u \in Threads \ {t} : th[u].pc \in BeginPC \cup SourcePC => th[u].s # p.s
    /\ p.pc \in SourcePC =>
         \A u \in Threads \ {t} : th[u].pc \in BeginPC => th[u].s # p.s

Elsewhere(t, s, op) ==
    \/ \E u \in Threads \ {t} : Has(th[u].todo, s, op)
    \/ \E d \in Contexts : Has(wk[d].todo, s, op)

\* What has become of the failure of s, after a step of t to p.
Answered(t, p, s) ==
    \/ /\ Same(s)
       /\ Has(th[t].todo, s, "fail") => Has(p.todo, s, "fail")
       /\ Has(th[t].todo, s, "clear") => Has(p.todo, s, "clear")
    \/ Has(p.todo, s, "fail")
    \/ Elsewhere(t, s, "fail")
    \/ /\ surf'[s].decodeFailed
       /\ surf'[s].resolving \/ surf'[s].status = "error" \/ Has(p.todo, s, "clear")

StepSurfaces(t, c, p, x) ==
    /\ \A s \in Surfaces : ~Mine(t, c, s) => Same(s)
    /\ \A s \in Surfaces : surf'[s].life = surf[s].life
    /\ th[t].pc = "exportSet" => surf'[th[t].s].resolving = surf[th[t].s].resolving
    /\ \A s \in Surfaces :
         /\ Mine(t, c, s) \/ (c # NULL /\ s \in OpenOf(ctx[c]))
         /\ surf'[s].resolving
         => InFrames(s) \/ (c # NULL /\ s \in OpenOf(x) /\ x.picture # "submitted")
    /\ \A s \in bad' : Answered(t, p, s)
    /\ c # NULL => \A s \in OpenOf(ctx[c]) \ OpenOf(x) : surf'[s].exported => ~InFrames(s)

ThreadStep(t, c, p, x) ==
    /\ StepShape(t, c, p, x) /\ StepPicture(t, c, p, x)
    /\ StepCall(t, c, p, x) /\ StepSurfaces(t, c, p, x)

\* The state of calls and pictures after the step.
LEMMA StepPoints ==
    ASSUME Inv, NEW t \in Threads, NEW c \in Contexts \cup {NULL}, NEW p, NEW x,
           StepShape(t, c, p, x)
    PROVE  /\ th'[t] = p /\ \A u \in Threads \ {t} : th'[u] = th[u]
           /\ c # NULL => ctx'[c] = x
           /\ \A d \in Contexts \ {c} : ctx'[d] = ctx[d]
<1>1. th \in [Threads -> CallRecord] /\ ctx \in [Contexts -> ContextRecord]
  BY DEF Inv, TypeOK, CallRecord
<1> QED
  BY <1>1, PipelineAssumption DEF StepShape

\* Nobody holds the lifetime lock for writing, before the step or after it.
LEMMA StepNoTeardown ==
    ASSUME Inv, NEW t \in Threads, NEW c \in Contexts \cup {NULL}, NEW p, NEW x,
           StepShape(t, c, p, x)
    PROVE  /\ \A u \in Threads : th[u].pc \notin Exclusive /\ th'[u].pc \notin Exclusive
           /\ \A s : ~Retiring(s) /\ ~Retiring(s)'
           /\ \A s : InFrames(s)' <=> InFrames(s)
<1>1. \A u \in Threads : th[u].pc \notin Exclusive
  BY PipelineAssumption DEF Inv, LocksOK, StepShape
<1>2. \A u \in Threads : th'[u].pc \notin Exclusive
  BY <1>1, StepPoints DEF StepShape
<1>3. \A s : ~Retiring(s) /\ ~Retiring(s)'
  BY <1>1, <1>2 DEF Retiring, Exclusive
<1>4. queue' = queue /\ wk' = wk
  BY DEF StepShape
<1> QED
  BY <1>1, <1>2, <1>3, <1>4 DEF InFrames

\* What is changed has no frame under way and is nobody else's.
LEMMA MineApart ==
    ASSUME Inv, NEW t \in Threads, NEW c \in Contexts \cup {NULL}, th[t].c \in {c, NULL},
           NEW s \in Surfaces, Mine(t, c, s)
    PROVE  /\ ~InFrames(s)
           /\ surf[s].life = "live"
           /\ \A d \in Contexts : s \in OpenOf(ctx[d]) =>
                d = c /\ ctx[c].holder \in {t, NULL} /\ ctx[c].picture # "submitted"
           /\ \A u \in Threads \ {t} :
                th[u].pc \in BeginPC \cup SourcePC /\ th[u].s = s => th[t].pc = "exportSet"
           /\ \A u \in Threads \ {t} :
                th[u].pc \in BeginPC => th[u].s # s
<1>1. CASE s = th[t].s /\ th[t].pc \in {"beginMark", "exportSet"}
  <2>1. Objects(th[t], ctx[th[t].c], surf)
    BY DEF Inv, CallsOK, CallOK
  <2>2. s # NULL
    BY PipelineAssumption
  <2>3. ~surf[s].resolving /\ surf[s].life = "live"
    BY <1>1, <2>1, <2>2 DEF Objects, ReadyPC
  <2>4. ~InFrames(s)
    BY <2>3 DEF Inv, FramesOK
  <2>5. \A d \in Contexts : s \notin OpenOf(ctx[d])
    BY <1>1 DEF Inv, Claims, BeginPC, SourcePC
  <2>6. \A u \in Threads \ {t} : th[u].pc \in BeginPC => th[u].s # s
    BY <1>1 DEF Inv, Claims, BeginPC, SourcePC
  <2>7. \A u \in Threads \ {t} :
           th[u].pc \in BeginPC \cup SourcePC /\ th[u].s = s => th[t].pc = "exportSet"
    BY <1>1 DEF Inv, Claims, BeginPC, SourcePC
  <2> QED
    BY <2>3, <2>4, <2>5, <2>6, <2>7
<1>2. CASE /\ c # NULL /\ s \in OpenOf(ctx[c])
           /\ ctx[c].picture # "submitted" /\ ctx[c].holder \in {t, NULL}
  <2>0. c \in Contexts
    BY <1>2
  <2>1. ~InFrames(s)
    BY <1>2, <2>0 DEF Inv, FramesOK
  <2>2. surf[s].life = "live"
    BY <1>2, <2>0 DEF Inv, PicturesOK, Picture
  <2>3. \A d \in Contexts \ {c} : s \notin OpenOf(ctx[d])
    BY <1>2, <2>0 DEF Inv, Apart
  <2>4. \A u \in Threads : th[u].pc \in BeginPC \cup SourcePC => th[u].s # s
    BY <1>2, <2>0 DEF Inv, Claims
  <2> QED
    BY <1>2, <2>1, <2>2, <2>3, <2>4
<1> QED
  BY <1>1, <1>2 DEF Mine

-----------------------------------------------------------------------------
(* What the parts of the invariant depend on.                              *)

LEMMA PictureFrame ==
    ASSUME NEW c, NEW x, NEW S, NEW B, NEW S2, NEW B2, Picture(c, x, S, B),
           \A s \in OpenOf(x) :
               \/ S2[s] = S[s] /\ (s \in B2 <=> s \in B)
               \/ x.picture = "submitted" /\ S2[s].life = S[s].life
    PROVE  Picture(c, x, S2, B2)
BY DEF Picture, OpenOf

LEMMA StageFrame ==
    ASSUME NEW c, NEW p, NEW x, NEW S, NEW B, NEW S2, NEW B2, Stage(c, p, x, S, B),
           \A s \in OpenOf(x) :
               \/ S2[s] = S[s] /\ (s \in B2 <=> s \in B)
               \/ /\ x.picture = "submitted" /\ S2[s].exported = S[s].exported
                  /\ S2[s].resolving => S[s].resolving
    PROVE  Stage(c, p, x, S2, B2)
<1>1. x.render # NULL => OutputOf(x) \in OpenOf(x) /\ x.render \in OpenOf(x)
  BY DEF OutputOf, OpenOf
<1>2. EndStage(p, x, S, B)
  BY DEF Stage
<1> DEFINE o == OutputOf(x)  r == x.render  O == OpenOf(x)
<1>3. o = OutputOf(x) /\ r = x.render /\ O = OpenOf(x)
  OBVIOUS
<1>4. EndStage(p, x, S2, B2)
  <2>1. CASE x.picture = "submitted"
    BY <1>1, <1>2, <2>1 DEF EndStage, EndPC
  <2>2. CASE x.picture # "submitted"
    <3>1. \A s \in OpenOf(x) : S2[s] = S[s] /\ (s \in B2 <=> s \in B)
      BY <2>2
    <3> HIDE DEF o, r, O
    <3>2. CASE p.pc = "endJob"
      BY <1>1, <1>2, <2>2, <3>1, <3>2 DEF EndStage, EndPC
    <3>3. CASE p.pc = "endPush"
      BY <1>1, <1>2, <2>2, <3>1, <3>3 DEF EndStage, EndPC
    <3>4. CASE p.pc \notin {"endJob", "endPush"}
      BY <1>1, <1>2, <2>2, <3>1, <3>4 DEF EndStage, EndPC
    <3> QED
      BY <3>2, <3>3, <3>4
  <2> QED
    BY <2>1, <2>2
<1> QED
  BY <1>4 DEF Stage

LEMMA ObjectsFrame ==
    ASSUME NEW p, NEW x, NEW S, NEW x2, NEW S2, Objects(p, x, S),
           p.pc \in Locking \cup Holding \cup {"retire"} => x2.life = x.life,
           p.pc \in Holding => x2 = x,
           p.s # NULL => S2[p.s].life = S[p.s].life,
           p.pc \in ReadyPC /\ S2[p.s].resolving => S[p.s].resolving
    PROVE  Objects(p, x2, S2)
BY DEF Objects, EndPC, Holding

LEMMA WorkerFrame ==
    ASSUME NEW c, NEW x, NEW q, NEW k, NEW w \in WorkerRecord, NEW S, NEW B,
           NEW x2, NEW S2, NEW B2, Worker(c, x, q, k, w, S, B), x2.life = x.life,
           \A s \in Surfaces : InLine(q, w, s) =>
               /\ S2[s].submitted = S[s].submitted /\ S2[s].decodeFailed = S[s].decodeFailed
               /\ s \in B2 <=> s \in B
    PROVE  Worker(c, x2, q, k, w, S2, B2)
<1>1. w.pc \in WorkPC => w.job.surface \in Surfaces /\ InLine(q, w, w.job.surface)
  BY DEF Worker, WorkerRecord, Job, InLine, InWork
<1> QED
  BY <1>1 DEF Worker, WorkPC

LEMMA JobsFrame ==
    ASSUME NEW q \in Seq(Job), NEW w \in WorkerRecord, NEW S, NEW B, NEW S2, NEW B2,
           Jobs(q, w, S, B), w.pc \in WorkPC => w.job.surface # NULL,
           \A s \in Surfaces : InLine(q, w, s) =>
               /\ S2[s].submitted = S[s].submitted /\ S2[s].decodeFailed = S[s].decodeFailed
               /\ s \in B2 <=> s \in B
    PROVE  Jobs(q, w, S2, B2)
<1>1. w.pc \in WorkPC => w.job.surface \in Surfaces /\ InLine(q, w, w.job.surface)
  BY DEF WorkerRecord, Job, InLine, InWork
<1>2. \A i \in 1 .. Len(q) : q[i].surface \in Surfaces /\ InLine(q, w, q[i].surface)
  <2> SUFFICES ASSUME NEW i \in 1 .. Len(q)
               PROVE  q[i].surface \in Surfaces /\ InLine(q, w, q[i].surface)
    OBVIOUS
  <2>1. q[i] \in Job
    OBVIOUS
  <2>2. q[i].surface # NULL
    BY DEF Jobs
  <2> QED
    BY <2>1, <2>2 DEF Job, InLine, InQueue
<1> QED
  BY <1>1, <1>2 DEF Jobs, WorkPC

-----------------------------------------------------------------------------
(* Such a step preserves the invariant.                                    *)

LEMMA StepLocks ==
    ASSUME Inv, NEW t \in Threads, NEW c \in Contexts \cup {NULL}, NEW p, NEW x,
           ThreadStep(t, c, p, x)
    PROVE  TypeOK' /\ LocksOK' /\ HoldersOK'
<1>1. StepShape(t, c, p, x) /\ StepPicture(t, c, p, x)
  BY DEF ThreadStep
<1>p. /\ th'[t] = p /\ \A u \in Threads \ {t} : th'[u] = th[u]
      /\ c # NULL => ctx'[c] = x
      /\ \A d \in Contexts \ {c} : ctx'[d] = ctx[d]
  BY <1>1, StepPoints
<1>2. TypeOK'
  <2>1. th \in [Threads -> CallRecord] /\ ctx \in [Contexts -> ContextRecord]
    BY DEF Inv, TypeOK, CallRecord
  <2>2. th' \in [Threads -> CallRecord]
    BY <1>1, <2>1 DEF StepShape
  <2>3. ctx' \in [Contexts -> ContextRecord]
    <3>1. CASE c = NULL
      BY <1>1, <2>1, <3>1, PipelineAssumption DEF StepShape
    <3>2. CASE c # NULL
      BY <1>1, <2>1, <3>2 DEF StepShape
    <3> QED
      BY <3>1, <3>2
  <2>4. readers' \subseteq Threads /\ writer' \in Threads \cup {NULL}
    <3>1. readers \subseteq Threads
      BY DEF Inv, TypeOK
    <3> QED
      BY <1>1, <3>1 DEF StepShape
  <2> QED
    BY <1>1, <2>2, <2>3, <2>4 DEF Inv, TypeOK, StepShape, CallRecord
<1>3. LocksOK'
  <2>1. \A u \in Threads : u \in readers' <=> th'[u].pc \notin {"idle"} \cup Exclusive
    <3> SUFFICES ASSUME NEW u \in Threads
                 PROVE  u \in readers' <=> th'[u].pc \notin {"idle"} \cup Exclusive
      OBVIOUS
    <3>1. u \in readers <=> th[u].pc \notin {"idle"} \cup Exclusive
      BY DEF Inv, LocksOK
    <3>2. readers' = (IF p.pc = "idle" THEN readers \ {t} ELSE readers \cup {t})
      BY <1>1 DEF StepShape
    <3>3. CASE u = t
      BY <1>1, <3>2, <3>3, <1>p, StepNoTeardown
    <3>4. CASE u # t
      <4>1. th'[u] = th[u]
        BY <1>1, <3>4, <1>p
      <4>2. u \in readers' <=> u \in readers
        BY <3>2, <3>4
      <4> QED
        BY <3>1, <4>1, <4>2
    <3> QED
      BY <3>3, <3>4
  <2>2. \A u \in Threads : writer' = u <=> th'[u].pc \in Exclusive
    BY <1>1, StepNoTeardown, PipelineAssumption DEF StepShape
  <2> QED
    BY <1>1, <2>1, <2>2 DEF LocksOK, StepShape
<1>4. HoldersOK'
  <2> SUFFICES ASSUME NEW u \in Threads, NEW d \in Contexts
               PROVE  ctx'[d].holder = u <=> th'[u].c = d /\ th'[u].pc \in Holding
    BY DEF HoldersOK
  <2>1. ctx[d].holder = u <=> th[u].c = d /\ th[u].pc \in Holding
    BY DEF Inv, HoldersOK
  <2>2. d # NULL
    BY PipelineAssumption
  <2>3. CASE d = c /\ u = t
    BY <1>1, <2>2, <2>3, <1>p DEF StepPicture
  <2>4. CASE d = c /\ u # t
    BY <1>1, <2>1, <2>2, <2>4, <1>p DEF StepPicture
  <2>5. CASE d # c /\ u = t
    BY <1>1, <2>1, <2>2, <2>5, <1>p DEF StepShape
  <2>6. CASE d # c /\ u # t
    BY <1>1, <2>1, <2>2, <2>6, <1>p
  <2> QED
    BY <2>3, <2>4, <2>5, <2>6
<1> QED
  BY <1>2, <1>3, <1>4

LEMMA StepPictures ==
    ASSUME Inv, NEW t \in Threads, NEW c \in Contexts \cup {NULL}, NEW p, NEW x,
           ThreadStep(t, c, p, x)
    PROVE  PicturesOK' /\ Apart'
<1>1. StepShape(t, c, p, x) /\ StepPicture(t, c, p, x) /\ StepSurfaces(t, c, p, x)
  BY DEF ThreadStep
<1>p. /\ th'[t] = p /\ \A u \in Threads \ {t} : th'[u] = th[u]
      /\ c # NULL => ctx'[c] = x
      /\ \A d \in Contexts \ {c} : ctx'[d] = ctx[d]
  BY <1>1, StepPoints
<1>2. PicturesOK'
  <2> SUFFICES ASSUME NEW d \in Contexts
               PROVE  Picture(d, ctx'[d], surf', bad')
    BY DEF PicturesOK
  <2>1. d # NULL
    BY PipelineAssumption
  <2>2. CASE d = c
    BY <1>1, <2>1, <2>2, <1>p DEF StepPicture
  <2>3. CASE d # c
    <3>1. \A s \in OpenOf(ctx[d]) : s \in Surfaces
      BY DEF Inv, TypeOK, ContextRecord, OpenOf
    <3>2. \A s \in OpenOf(ctx[d]) : Same(s)
      BY <1>1, <2>3, <3>1, MineApart DEF StepSurfaces, StepShape
    <3>3. Picture(d, ctx[d], surf, bad)
      BY DEF Inv, PicturesOK
    <3>4. Picture(d, ctx[d], surf', bad')
      BY <3>2, <3>3, PictureFrame DEF Same
    <3> QED
      BY <1>1, <2>3, <3>4, <1>p
  <2> QED
    BY <2>2, <2>3
<1>3. Apart'
  <2> SUFFICES ASSUME NEW d \in Contexts, NEW e \in Contexts, d # e,
                      NEW s \in OpenOf(ctx'[d]), s \in OpenOf(ctx'[e])
               PROVE  FALSE
    BY DEF Apart
  <2>1. d # NULL /\ e # NULL
    BY PipelineAssumption
  <2>2. OpenOf(ctx[d]) \cap OpenOf(ctx[e]) = {}
    BY DEF Inv, Apart
  <2>3. CASE d = c
    BY <1>1, <2>1, <2>2, <2>3, <1>p DEF StepPicture
  <2>4. CASE e = c
    BY <1>1, <2>1, <2>2, <2>4, <1>p DEF StepPicture
  <2>5. CASE d # c /\ e # c
    BY <1>1, <2>2, <2>5, <1>p
  <2> QED
    BY <2>3, <2>4, <2>5
<1> QED
  BY <1>2, <1>3

LEMMA StepCalls ==
    ASSUME Inv, NEW t \in Threads, NEW c \in Contexts \cup {NULL}, NEW p, NEW x,
           ThreadStep(t, c, p, x)
    PROVE  CallsOK'
<1>1. StepShape(t, c, p, x) /\ StepPicture(t, c, p, x) /\ StepCall(t, c, p, x)
      /\ StepSurfaces(t, c, p, x)
  BY DEF ThreadStep
<1>p. /\ th'[t] = p /\ \A u \in Threads \ {t} : th'[u] = th[u]
      /\ c # NULL => ctx'[c] = x
      /\ \A d \in Contexts \ {c} : ctx'[d] = ctx[d]
  BY <1>1, StepPoints
<1> SUFFICES ASSUME NEW u \in Threads
             PROVE  CallOK(th[u])'
  BY DEF CallsOK
<1>2. Teardown(th'[u], ctx'[th'[u].c], queue'[th'[u].c], closed'[th'[u].c], surf')
  BY <1>1, StepNoTeardown DEF Teardown, Exclusive
<1>3. CASE u = t
  <2>1. th'[u] = p
    BY <1>1, <1>3, <1>p
  <2>2. p.pc \in Locking \cup Holding => p.c # NULL /\ p.c = c /\ ctx'[p.c] = x
    BY <1>1, <1>p DEF StepCall, Objects
  <2>3. p.pc # "retire"
    BY <1>1 DEF StepShape, Exclusive
  <2>4. Objects(p, x, surf')
    BY <1>1 DEF StepCall
  <2>5. Objects(p, ctx'[p.c], surf')
    BY <2>2, <2>3, <2>4, ObjectsFrame
  <2>6. p.pc \in Holding => Stage(p.c, p, ctx'[p.c], surf', bad')
    BY <1>1, <2>2 DEF StepCall
  <2> QED
    BY <1>2, <2>1, <2>5, <2>6 DEF CallOK
<1>4. CASE u # t
  <2>1. th'[u] = th[u]
    BY <1>1, <1>4, <1>p
  <2>2. Objects(th[u], ctx[th[u].c], surf)
        /\ (th[u].pc \in Holding => Stage(th[u].c, th[u], ctx[th[u].c], surf, bad))
    BY DEF Inv, CallsOK, CallOK
  <2>3. th[u] \in CallRecord
    BY DEF Inv, TypeOK, CallRecord
  <2> DEFINE d == th[u].c
  <2>4. th[u].pc \in Locking \cup Holding => d \in Contexts
    BY <2>2, <2>3 DEF Objects, CallRecord
  <2>5. th[u].pc \in Holding => ctx[d].holder = u
    BY <2>4 DEF Inv, HoldersOK
  <2>6. u # NULL
    BY PipelineAssumption
  <2>7. th[u].pc \in Holding => ctx'[d] = ctx[d]
    <3> SUFFICES ASSUME th[u].pc \in Holding
                 PROVE  ctx'[d] = ctx[d]
      OBVIOUS
    <3>1. d \in Contexts /\ d # NULL /\ ctx[d].holder = u
      BY <2>4, <2>5, PipelineAssumption
    <3>2. CASE d = c
      BY <1>1, <1>4, <2>6, <3>1, <3>2, <1>p DEF StepPicture
    <3>3. CASE d # c
      BY <1>1, <3>1, <3>3, <1>p
    <3> QED
      BY <3>2, <3>3
  <2>8. th[u].pc \in Locking \cup Holding \cup {"retire"} => ctx'[d].life = ctx[d].life
    <3> SUFFICES ASSUME th[u].pc \in Locking \cup Holding
                 PROVE  ctx'[d].life = ctx[d].life
      BY <1>1, StepNoTeardown DEF Exclusive
    <3>1. d \in Contexts /\ d # NULL
      BY <2>4, PipelineAssumption
    <3>2. CASE d = c
      BY <1>1, <3>1, <3>2, <1>p DEF StepPicture
    <3>3. CASE d # c
      BY <1>1, <3>1, <3>3, <1>p
    <3> QED
      BY <3>2, <3>3
  <2>9. th[u].s # NULL => surf'[th[u].s].life = surf[th[u].s].life
    BY <1>1, <2>3 DEF StepSurfaces, CallRecord
  <2>10. th[u].pc \in ReadyPC /\ surf'[th[u].s].resolving => surf[th[u].s].resolving
    <3> SUFFICES ASSUME th[u].pc \in ReadyPC
                 PROVE  surf'[th[u].s].resolving => surf[th[u].s].resolving
      OBVIOUS
    <3>1. th[u].s \in Surfaces /\ th[u].pc \in BeginPC \cup SourcePC
      BY <2>2, <2>3 DEF Objects, CallRecord, ReadyPC, BeginPC, SourcePC
    <3>2. CASE Mine(t, c, th[u].s)
      <4>1. th[t].pc = "exportSet"
        BY <1>1, <1>4, <3>1, <3>2, MineApart DEF StepShape
      <4>2. th[t].s = th[u].s
        <5>1. \A d1 \in Contexts : th[u].s \notin OpenOf(ctx[d1])
          BY <3>1 DEF Inv, Claims
        <5> QED
          BY <3>2, <5>1 DEF Mine
      <4> QED
        BY <1>1, <4>1, <4>2 DEF StepSurfaces
    <3>3. CASE ~Mine(t, c, th[u].s)
      BY <1>1, <3>1, <3>3 DEF StepSurfaces, Same
    <3> QED
      BY <3>2, <3>3
  <2>11. Objects(th[u], ctx'[d], surf')
    <3> HIDE DEF d
    <3>1. d = th[u].c
      BY DEF d
    <3> QED
      BY <2>2, <2>7, <2>8, <2>9, <2>10, <3>1, ObjectsFrame
  <2>12. ASSUME th[u].pc \in Holding
         PROVE  Stage(d, th[u], ctx'[d], surf', bad')
    <3>1. d \in Contexts /\ ctx[d].holder = u /\ ctx'[d] = ctx[d]
      BY <2>4, <2>5, <2>7, <2>12
    <3>2. \A s \in OpenOf(ctx[d]) : s \in Surfaces
      BY <3>1 DEF Inv, TypeOK, ContextRecord, OpenOf
    <3>3. \A s \in OpenOf(ctx[d]) : Same(s)
      <4> SUFFICES ASSUME NEW s \in OpenOf(ctx[d])
                   PROVE  ~Mine(t, c, s)
        BY <1>1, <3>2 DEF StepSurfaces
      <4>1. s \in Surfaces
        BY <3>2
      <4> HIDE DEF d
      <4> QED
        BY <1>1, <1>4, <2>6, <3>1, <4>1, MineApart DEF StepShape
    <3> HIDE DEF d
    <3>4. Stage(d, th[u], ctx[d], surf, bad)
      BY <2>2, <2>12 DEF d
    <3>5. Stage(d, th[u], ctx[d], surf', bad')
      BY <3>3, <3>4, StageFrame DEF Same
    <3> QED
      BY <3>1, <3>5
  <2> QED
    BY <1>2, <2>1, <2>11, <2>12 DEF CallOK
<1> QED
  BY <1>3, <1>4

LEMMA StepClaims ==
    ASSUME Inv, NEW t \in Threads, NEW c \in Contexts \cup {NULL}, NEW p, NEW x,
           ThreadStep(t, c, p, x)
    PROVE  Claims'
<1>1. StepShape(t, c, p, x) /\ StepPicture(t, c, p, x) /\ StepCall(t, c, p, x)
  BY DEF ThreadStep
<1>p. /\ th'[t] = p /\ \A u \in Threads \ {t} : th'[u] = th[u]
      /\ c # NULL => ctx'[c] = x
      /\ \A d \in Contexts \ {c} : ctx'[d] = ctx[d]
  BY <1>1, StepPoints
<1>2. ASSUME NEW u \in Threads, th'[u].pc \in BeginPC \cup SourcePC, NEW d \in Contexts
      PROVE  th'[u].s \notin OpenOf(ctx'[d])
  <2>1. d # NULL
    BY PipelineAssumption
  <2>2. CASE u = t
    <3>1. th'[u] = p
      BY <1>1, <2>2, <1>p
    <3>2. CASE d = c
      BY <1>1, <1>2, <2>1, <3>1, <3>2, <1>p DEF StepCall
    <3>3. CASE d # c
      BY <1>1, <1>2, <2>1, <3>1, <3>3, <1>p DEF StepCall
    <3> QED
      BY <3>2, <3>3
  <2>3. CASE u # t
    <3>1. th'[u] = th[u]
      BY <1>1, <2>3, <1>p
    <3>2. th[u].s \notin OpenOf(ctx[d])
      BY <1>2, <3>1 DEF Inv, Claims
    <3>3. CASE d = c
      BY <1>1, <1>2, <2>1, <2>3, <3>1, <3>2, <3>3, <1>p DEF StepPicture
    <3>4. CASE d # c
      BY <1>1, <3>1, <3>2, <3>4, <1>p
    <3> QED
      BY <3>3, <3>4
  <2> QED
    BY <2>2, <2>3
<1>3. ASSUME NEW u \in Threads, NEW v \in Threads, u # v,
             th'[u].pc \in BeginPC, th'[v].pc \in BeginPC \cup SourcePC
      PROVE  th'[v].s # th'[u].s
  <2>1. CASE u = t
    <3>1. th'[u] = p /\ th'[v] = th[v]
      BY <1>1, <1>3, <2>1, <1>p
    <3> QED
      BY <1>1, <1>3, <2>1, <3>1 DEF StepCall
  <2>2. CASE v = t
    <3>1. th'[v] = p /\ th'[u] = th[u]
      BY <1>1, <1>3, <2>2, <1>p
    <3> QED
      BY <1>1, <1>3, <2>2, <3>1 DEF StepCall
  <2>3. CASE u # t /\ v # t
    <3>1. th'[v] = th[v] /\ th'[u] = th[u]
      BY <1>1, <2>3, <1>p
    <3> QED
      BY <1>3, <3>1 DEF Inv, Claims
  <2> QED
    BY <2>1, <2>2, <2>3
<1> QED
  BY <1>2, <1>3 DEF Claims

LEMMA StepFrames ==
    ASSUME Inv, NEW t \in Threads, NEW c \in Contexts \cup {NULL}, NEW p, NEW x,
           ThreadStep(t, c, p, x)
    PROVE  WorkersOK' /\ FramesOK'
<1>1. StepShape(t, c, p, x) /\ StepPicture(t, c, p, x) /\ StepSurfaces(t, c, p, x)
  BY DEF ThreadStep
<1>p. /\ th'[t] = p /\ \A u \in Threads \ {t} : th'[u] = th[u]
      /\ c # NULL => ctx'[c] = x
      /\ \A d \in Contexts \ {c} : ctx'[d] = ctx[d]
  BY <1>1, StepPoints
<1>2. queue' = queue /\ closed' = closed /\ wk' = wk
  BY <1>1 DEF StepShape
<1>3. \A s \in Surfaces : InFrames(s) => Same(s)
  <2> SUFFICES ASSUME NEW s \in Surfaces, InFrames(s)
               PROVE  ~Mine(t, c, s)
    BY <1>1 DEF StepSurfaces
  <2> QED
    BY <1>1, MineApart DEF StepShape
<1>4. \A d \in Contexts, s \in Surfaces : InLine(queue[d], wk[d], s) =>
         /\ surf'[s].submitted = surf[s].submitted /\ surf'[s].decodeFailed = surf[s].decodeFailed
         /\ s \in bad' <=> s \in bad
  BY <1>3 DEF InFrames, Same
<1>5. \A s : ~Retiring(s) /\ ~Retiring(s)' /\ (InFrames(s)' <=> InFrames(s))
  BY <1>1, StepNoTeardown
<1>6. \A d \in Contexts : queue[d] \in Seq(Job) /\ wk[d] \in WorkerRecord
  BY DEF Inv, TypeOK, WorkerRecord
<1>7. \A d \in Contexts : ctx'[d].life = ctx[d].life
  BY <1>1, <1>p, PipelineAssumption DEF StepPicture
<1>8. WorkersOK'
  <2> SUFFICES ASSUME NEW d \in Contexts
               PROVE  Worker(d, ctx'[d], queue[d], closed[d], wk[d], surf', bad')
    BY <1>2 DEF WorkersOK
  <2>1. Worker(d, ctx[d], queue[d], closed[d], wk[d], surf, bad)
    BY DEF Inv, WorkersOK
  <2> QED
    BY <1>4, <1>6, <1>7, <2>1, WorkerFrame
<1>9. \A d \in Contexts : Jobs(queue'[d], wk'[d], surf', bad')
  <2> SUFFICES ASSUME NEW d \in Contexts
               PROVE  Jobs(queue[d], wk[d], surf', bad')
    BY <1>2
  <2>1. Jobs(queue[d], wk[d], surf, bad)
    BY DEF Inv, FramesOK
  <2>2. wk[d].pc \in WorkPC => wk[d].job.surface # NULL
    BY DEF Inv, WorkersOK, Worker
  <2> QED
    BY <1>4, <1>6, <2>1, <2>2, JobsFrame
<1>10. \A d, e \in Contexts, s \in Surfaces :
         d # e /\ InLine(queue'[d], wk'[d], s) => ~InLine(queue'[e], wk'[e], s)
  BY <1>2 DEF Inv, FramesOK
<1>11. \A s \in Surfaces : InFrames(s)' => surf'[s].resolving /\ surf'[s].life # "absent"
  BY <1>3, <1>5 DEF Inv, FramesOK, Same
<1>12. \A s \in Surfaces, d \in Contexts :
         InFrames(s)' /\ s \in OpenOf(ctx'[d]) => ctx'[d].picture = "submitted"
  <2> SUFFICES ASSUME NEW s \in Surfaces, NEW d \in Contexts, InFrames(s), s \in OpenOf(ctx'[d])
               PROVE  ctx'[d].picture = "submitted"
    BY <1>5
  <2>1. CASE d = c
    BY <1>1, <1>p, <2>1, PipelineAssumption DEF StepPicture
  <2>2. CASE d # c
    BY <1>p, <2>2 DEF Inv, FramesOK
  <2> QED
    BY <2>1, <2>2
<1> QED
  BY <1>5, <1>8, <1>9, <1>10, <1>11, <1>12 DEF FramesOK

LEMMA StepSurfacesOK ==
    ASSUME Inv, NEW t \in Threads, NEW c \in Contexts \cup {NULL}, NEW p, NEW x,
           ThreadStep(t, c, p, x)
    PROVE  SurfacesOK'
<1>1. StepShape(t, c, p, x) /\ StepPicture(t, c, p, x) /\ StepSurfaces(t, c, p, x)
  BY DEF ThreadStep
<1>p. /\ th'[t] = p /\ \A u \in Threads \ {t} : th'[u] = th[u]
      /\ c # NULL => ctx'[c] = x
      /\ \A d \in Contexts \ {c} : ctx'[d] = ctx[d]
  BY <1>1, StepPoints
<1>2. queue' = queue /\ closed' = closed /\ wk' = wk
  BY <1>1 DEF StepShape
<1>3. \A s : InFrames(s)' <=> InFrames(s)
  BY <1>1, StepNoTeardown
<1>m. \A s \in Surfaces : ~Mine(t, c, s) => Same(s)
  BY <1>1 DEF StepSurfaces
<1>n. NULL \notin Contexts
  BY PipelineAssumption
<1> SUFFICES ASSUME NEW s \in Surfaces
             PROVE  AbsentOK(s)' /\ OwnedOK(s)' /\ FailureOK(s)' /\ ExportOK(s)'
  BY DEF SurfacesOK
<1>s. AbsentOK(s) /\ OwnedOK(s) /\ FailureOK(s) /\ ExportOK(s)
  BY DEF Inv, SurfacesOK
<1>4. AbsentOK(s)'
  <2>1. CASE Mine(t, c, s)
    <3>1. surf[s].life = "live"
      BY <1>1, <2>1, MineApart DEF StepShape
    <3>2. surf'[s].life = "live"
      BY <1>1, <3>1 DEF StepSurfaces
    <3> QED
      BY <3>2 DEF AbsentOK
  <2>2. CASE ~Mine(t, c, s)
    BY <1>m, <1>s, <2>2 DEF AbsentOK, Same
  <2> QED
    BY <2>1, <2>2
<1>5. OwnedOK(s)'
  <2> SUFFICES ASSUME surf'[s].resolving, ~InFrames(s)
               PROVE  \E d \in Contexts : s \in OpenOf(ctx'[d]) /\ ctx'[d].picture # "submitted"
    BY <1>3 DEF OwnedOK, Pending
  <2>1. CASE Mine(t, c, s) \/ (c # NULL /\ s \in OpenOf(ctx[c]))
    <3>1. c # NULL /\ s \in OpenOf(x) /\ x.picture # "submitted"
      BY <1>1, <2>1 DEF StepSurfaces
    <3> QED
      BY <1>p, <3>1
  <2>2. CASE ~Mine(t, c, s) /\ ~(c # NULL /\ s \in OpenOf(ctx[c]))
    <3>1. surf[s].resolving
      BY <1>m, <2>2 DEF Same
    <3>2. PICK d \in Contexts : s \in OpenOf(ctx[d]) /\ ctx[d].picture # "submitted"
      BY <1>s, <3>1 DEF OwnedOK, Pending
    <3>3. d # c
      BY <1>n, <2>2, <3>2
    <3> QED
      BY <1>p, <3>2, <3>3
  <2> QED
    BY <2>1, <2>2
<1>6. FailureOK(s)'
  <2> SUFFICES ASSUME s \in bad'
               PROVE  \/ Settling(s, "fail")'
                      \/ /\ surf'[s].decodeFailed
                         /\ surf'[s].resolving \/ surf'[s].status = "error"
                            \/ Settling(s, "clear")'
    BY DEF FailureOK
  <2>1. Answered(t, p, s)
    BY <1>1 DEF StepSurfaces
  <2>2. \A op : Settling(s, op)' <=> Has(p.todo, s, op) \/ Elsewhere(t, s, op)
    BY <1>2, <1>p DEF Settling, Elsewhere
  <2>3. \A op : Settling(s, op) <=> Has(th[t].todo, s, op) \/ Elsewhere(t, s, op)
    BY DEF Settling, Elsewhere
  <2>4. CASE Has(p.todo, s, "fail") \/ Elsewhere(t, s, "fail")
    BY <2>2, <2>4
  <2>5. CASE /\ surf'[s].decodeFailed
             /\ surf'[s].resolving \/ surf'[s].status = "error" \/ Has(p.todo, s, "clear")
    BY <2>2, <2>5
  <2>6. CASE /\ Same(s)
             /\ Has(th[t].todo, s, "fail") => Has(p.todo, s, "fail")
             /\ Has(th[t].todo, s, "clear") => Has(p.todo, s, "clear")
    <3>1. s \in bad /\ surf'[s] = surf[s]
      BY <2>6 DEF Same
    <3>2. (Settling(s, "fail") => Settling(s, "fail")')
          /\ (Settling(s, "clear") => Settling(s, "clear")')
      BY <2>2, <2>3, <2>6
    <3> QED
      BY <1>s, <3>1, <3>2 DEF FailureOK
  <2> QED
    BY <2>1, <2>4, <2>5, <2>6 DEF Answered
<1>7. ExportOK(s)'
  <2> SUFFICES ASSUME surf'[s].exported, \A d \in Contexts : s \notin OpenOf(ctx'[d]),
                      ~InFrames(s) => FALSE
               PROVE  \A d \in Contexts : ~Running(queue[d], wk[d], s)
    <3>1. ~InFrames(s) => \A d \in Contexts : ~Running(queue[d], wk[d], s)
      BY DEF InFrames, InLine, InWork, Running, WorkPC
    <3> QED
      BY <1>2, <3>1 DEF ExportOK, Targeted
  <2>1. ~Mine(t, c, s)
    BY <1>1, MineApart DEF StepShape
  <2>2. surf[s].exported
    BY <1>m, <2>1 DEF Same
  <2>3. \A d \in Contexts : s \notin OpenOf(ctx[d])
    <3> SUFFICES ASSUME NEW d \in Contexts, s \in OpenOf(ctx[d])
                 PROVE  FALSE
      OBVIOUS
    <3>1. CASE d = c
      BY <1>1, <1>n, <1>p, <3>1 DEF StepSurfaces
    <3>2. CASE d # c
      BY <1>p, <3>2
    <3> QED
      BY <3>1, <3>2
  <2> QED
    BY <1>s, <2>2, <2>3 DEF ExportOK, Targeted
<1> QED
  BY <1>4, <1>5, <1>6, <1>7

LEMMA ThreadStepInv ==
    ASSUME Inv, NEW t \in Threads, NEW c \in Contexts \cup {NULL}, NEW p, NEW x,
           ThreadStep(t, c, p, x)
    PROVE  Inv'
BY StepLocks, StepPictures, StepCalls, StepClaims, StepFrames, StepSurfacesOK DEF Inv

-----------------------------------------------------------------------------
(* What a call knows before its step.                                      *)

LEMMA FreshTypes ==
    /\ IdleThread \in CallRecord /\ FreshContext \in ContextRecord
    /\ NoContext \in ContextRecord /\ NoJob \in Job /\ NoWorker \in WorkerRecord
    /\ FreshSurface \in SurfaceRecord /\ NoSurface \in SurfaceRecord
<1>1. << >> \in Seq(Section)
  OBVIOUS
<1>2. NoJob \in Job
  BY DEF NoJob, Job
<1>3. IdleThread \in CallRecord
  BY <1>1, <1>2 DEF IdleThread, CallRecord, ThreadPC
<1>4. NoWorker \in WorkerRecord
  BY <1>1, <1>2 DEF NoWorker, WorkerRecord, WorkerPC
<1>5. FreshContext \in ContextRecord /\ NoContext \in ContextRecord
  BY DEF FreshContext, NoContext, ContextRecord
<1>6. FreshSurface \in SurfaceRecord /\ NoSurface \in SurfaceRecord
  BY DEF FreshSurface, NoSurface, SurfaceRecord
<1> QED
  BY <1>2, <1>3, <1>4, <1>5, <1>6

LEMMA CallTypes ==
    ASSUME Inv, NEW t \in Threads
    PROVE  /\ th \in [Threads -> CallRecord] /\ th[t] \in CallRecord
           /\ ctx \in [Contexts -> ContextRecord] /\ surf \in [Surfaces -> SurfaceRecord]
           /\ bad \subseteq Surfaces /\ unsafe \in BOOLEAN
           /\ readers \subseteq Threads
BY DEF Inv, TypeOK, CallRecord

\* A call under way excludes the ones that hold the lifetime lock for writing.
LEMMA CallLocks ==
    ASSUME Inv, NEW t \in Threads, th[t].pc \notin {"idle"} \cup Exclusive
    PROVE  t \in readers /\ writer = NULL
BY DEF Inv, LocksOK

LEMMA CallContext ==
    ASSUME Inv, NEW t \in Threads, th[t].pc \in Locking \cup Holding
    PROVE  /\ th[t].c \in Contexts /\ th[t].c # NULL
           /\ ctx[th[t].c] \in ContextRecord /\ ctx[th[t].c].life = "live"
           /\ Picture(th[t].c, ctx[th[t].c], surf, bad)
           /\ th[t].pc \in Holding => Stage(th[t].c, th[t], ctx[th[t].c], surf, bad)
           /\ th[t].pc \in Holding <=> ctx[th[t].c].holder = t
           /\ OpenOf(ctx[th[t].c]) \subseteq Surfaces
<1>1. Objects(th[t], ctx[th[t].c], surf) /\ th[t] \in CallRecord
      /\ (th[t].pc \in Holding => Stage(th[t].c, th[t], ctx[th[t].c], surf, bad))
  BY CallTypes DEF Inv, CallsOK, CallOK
<1>2. th[t].c \in Contexts /\ ctx[th[t].c].life = "live" /\ th[t].c # NULL
  BY <1>1 DEF Objects, CallRecord
<1>3. ctx[th[t].c] \in ContextRecord
  BY <1>2, CallTypes
<1>4. OpenOf(ctx[th[t].c]) \subseteq Surfaces
  BY <1>3 DEF ContextRecord, OpenOf
<1> QED
  BY <1>1, <1>2, <1>3, <1>4 DEF Inv, PicturesOK, HoldersOK

\* Nobody works on a picture whose mutex is free, and the holder has it alone.
LEMMA CallOwns ==
    ASSUME Inv, NEW t \in Threads, NEW c \in Contexts, ctx[c].holder \in {t, NULL}
    PROVE  \A u \in Threads \ {t} : ctx[c].holder # u
BY PipelineAssumption

LEMMA EmptyList ==
    \A s, op : ~Has(<<>>, s, op) /\ ~InList(<<>>, s)
BY DEF Has, InList

-----------------------------------------------------------------------------
(* Steps that change nothing but the call itself.                          *)

LEMMA QuietStep ==
    ASSUME Inv, NEW t \in Threads, NEW c \in Contexts \cup {NULL}, NEW p \in CallRecord,
           th' = [th EXCEPT ![t] = p], UNCHANGED <<surf, ctx, queue, closed, wk, bad>>,
           unsafe' \in BOOLEAN, writer = NULL, writer' = NULL,
           readers' = (IF p.pc = "idle" THEN readers \ {t} ELSE readers \cup {t}),
           th[t].pc \notin Exclusive, p.pc \notin Exclusive, th[t].todo = <<>>,
           th[t].c \in {c, NULL}, p.c \in {c, NULL},
           p.c = c /\ p.pc \in Holding <=> th[t].c = c /\ th[t].pc \in Holding,
           StepCall(t, c, p, ctx[c])
    PROVE  Inv'
<1>1. /\ th \in [Threads -> CallRecord]
      /\ ctx \in [Contexts -> ContextRecord] /\ surf \in [Surfaces -> SurfaceRecord]
      /\ bad \subseteq Surfaces /\ NULL \notin Contexts
  BY CallTypes, PipelineAssumption
<1>2. StepShape(t, c, p, ctx[c])
  BY <1>1 DEF StepShape
<1>3. StepPicture(t, c, p, ctx[c])
  <2> SUFFICES ASSUME c # NULL
               PROVE  /\ ctx[c].holder = t <=> p.c = c /\ p.pc \in Holding
                      /\ Picture(c, ctx[c], surf', bad')
                      /\ \A s \in OpenOf(ctx[c]) : InFrames(s) => ctx[c].picture = "submitted"
    BY DEF StepPicture
  <2>1. ctx[c].holder = t <=> th[t].c = c /\ th[t].pc \in Holding
    BY DEF Inv, HoldersOK
  <2>2. Picture(c, ctx[c], surf, bad)
    BY DEF Inv, PicturesOK
  <2>3. \A s \in OpenOf(ctx[c]) : s \in Surfaces
    BY <1>1 DEF ContextRecord, OpenOf
  <2>4. \A s \in OpenOf(ctx[c]) : InFrames(s) => ctx[c].picture = "submitted"
    BY <2>3 DEF Inv, FramesOK
  <2> QED
    BY <2>1, <2>2, <2>4
<1>4. StepSurfaces(t, c, p, ctx[c])
  <2>1. \A s : Same(s)
    BY DEF Same
  <2>2. \A s \in bad' : Answered(t, p, s)
    BY <2>1, EmptyList DEF Answered
  <2>3. ASSUME NEW s \in Surfaces, surf'[s].resolving,
               Mine(t, c, s) \/ (c # NULL /\ s \in OpenOf(ctx[c]))
        PROVE  InFrames(s) \/ (c # NULL /\ s \in OpenOf(ctx[c]) /\ ctx[c].picture # "submitted")
    <3>1. OwnedOK(s) /\ surf[s].resolving
      BY <2>3 DEF Inv, SurfacesOK
    <3>2. CASE c # NULL /\ s \in OpenOf(ctx[c])
      <4>1. \A d \in Contexts : s \in OpenOf(ctx[d]) => d = c
        BY <3>2 DEF Inv, Apart
      <4> QED
        BY <3>1, <3>2, <4>1 DEF OwnedOK, Pending
    <3>3. CASE ~(c # NULL /\ s \in OpenOf(ctx[c]))
      <4>1. s = th[t].s /\ th[t].pc \in ReadyPC
        BY <2>3, <3>3 DEF Mine, ReadyPC
      <4>2. ~surf[s].resolving
        BY <4>1 DEF Inv, CallsOK, CallOK, Objects
      <4> QED
        BY <3>1, <4>2
    <3> QED
      BY <3>2, <3>3
  <2> QED
    BY <2>1, <2>2, <2>3 DEF StepSurfaces
<1> QED
  BY <1>2, <1>3, <1>4, ThreadStepInv DEF ThreadStep

\* A call that returns and leaves no picture it holds.
LEMMA ReturnStep ==
    ASSUME Inv, NEW t \in Threads, Return(t),
           UNCHANGED <<surf, ctx, queue, closed, wk, bad>>, unsafe' \in BOOLEAN,
           th[t].todo = <<>>, th[t].pc \notin {"idle"} \cup Exclusive \cup Holding
    PROVE  Inv'
<1>1. t \in readers /\ writer = NULL
  BY CallLocks
<1>2. IdleThread.pc = "idle" /\ IdleThread.c = NULL /\ IdleThread.s = NULL
      /\ IdleThread.job.surface = NULL /\ IdleThread.todo = <<>>
  BY DEF IdleThread, NoJob
<1> DEFINE c == th[t].c
<1>3. c \in Contexts \cup {NULL}
  BY CallTypes DEF CallRecord
<1>4. Objects(IdleThread, ctx[c], surf')
  BY <1>2 DEF Objects, Locking, Holding, BeginPC, SourcePC, ReadyPC
<1>5. StepCall(t, c, IdleThread, ctx[c])
  BY <1>2, <1>4 DEF StepCall, Locking, Holding, BeginPC, SourcePC
<1>6. th' = [th EXCEPT ![t] = IdleThread] /\ readers' = readers \ {t} /\ writer' = NULL
  BY <1>1 DEF Return
<1>7. IdleThread.pc \notin Exclusive /\ IdleThread.pc \notin Holding
  BY <1>2 DEF Exclusive, Holding
<1> HIDE DEF c
<1>8. th[t].c = c
  BY DEF c
<1> QED
  BY <1>1, <1>2, <1>3, <1>5, <1>6, <1>7, <1>8, FreshTypes, QuietStep

\* What the rules say of a surface a picture is begun on, or displayed in.
LEMMA NotBusy ==
    ASSUME NEW s \in Surfaces, ~Busy(s)
    PROVE  /\ \A c \in Contexts : s \notin OpenOf(ctx[c])
           /\ \A u \in Threads : th[u].pc \in BeginPC => th[u].s # s
<1>1. s \notin UNION {Open(c) : c \in Contexts}
  BY DEF Busy, OpenTargets
<1>2. \A c \in Contexts : s \notin Open(c)
  BY <1>1
<1>3. \A c \in Contexts : s \notin OpenOf(ctx[c])
  BY <1>2 DEF Open, OpenOf
<1> QED
  BY <1>3 DEF Busy, Beginning, InCall, BeginPC

LEMMA MayBeginApart ==
    ASSUME Rules = AllRules, NEW s \in Surfaces, MayBegin(s)
    PROVE  /\ \A c \in Contexts : s \notin OpenOf(ctx[c])
           /\ \A u \in Threads : th[u].pc \in BeginPC \cup SourcePC => th[u].s # s
<1>1. ~Busy(s) /\ ~Copying(s) /\ ~Exporting(s)
  BY DEF MayBegin, Abides, AllRules
<1>2. \A u \in Threads : th[u].pc \in SourcePC => th[u].s # s
  BY <1>1 DEF Copying, Exporting, InCall, SourcePC
<1> QED
  BY <1>1, <1>2, NotBusy

LEMMA EnterStep ==
    ASSUME Inv, NEW t \in Threads, NEW pc \in Locking \cup {"syncWait", "exportWait"},
           NEW c \in Contexts \cup {NULL}, NEW s \in Surfaces \cup {NULL}, Enter(t, pc, c, s),
           pc \in Locking => c # NULL /\ ctx[c].life = "live",
           pc \in {"beginLock", "syncWait", "exportWait"} => s # NULL,
           s # NULL => surf[s].life = "live",
           pc \in {"beginLock", "exportWait"} =>
               /\ \A d \in Contexts : s \notin OpenOf(ctx[d])
               /\ \A u \in Threads : th[u].pc \in BeginPC => th[u].s # s,
           pc = "beginLock" => \A u \in Threads : th[u].pc \in SourcePC => th[u].s # s
    PROVE  Inv'
<1> DEFINE p == [IdleThread EXCEPT !.pc = pc, !.c = c, !.s = s]
<1>1. p.pc = pc /\ p.c = c /\ p.s = s /\ p.job = NoJob /\ p.todo = <<>> /\ p \in CallRecord
  <2>1. IdleThread \in CallRecord
    BY FreshTypes
  <2>2. pc \in ThreadPC
    BY DEF ThreadPC, Locking
  <2> QED
    BY <2>1, <2>2 DEF CallRecord, IdleThread
<1>2. th' = [th EXCEPT ![t] = p] /\ readers' = readers \cup {t} /\ th[t].pc = "idle"
      /\ writer = NULL /\ UNCHANGED <<surf, ctx, queue, closed, wk, writer, unsafe, bad>>
  BY DEF Enter, jobs
<1>3. th[t] = IdleThread
  BY <1>2 DEF Inv, CallsOK, CallOK, Objects
<1>4. th[t].c = NULL /\ th[t].todo = <<>>
  BY <1>3 DEF IdleThread
<1> HIDE DEF p
<1>5. p.job.surface = NULL
  BY <1>1 DEF NoJob
<1>6. pc \notin Holding /\ pc # "retire" /\ pc # "idle" /\ pc \notin ReadyPC /\ pc \notin Exclusive
  BY DEF Locking, Holding, ReadyPC, Exclusive
<1>7. Objects(p, ctx[c], surf)
  BY <1>1, <1>5, <1>6 DEF Objects, BeginPC, SourcePC, Locking
<1>8. (pc \in BeginPC => pc = "beginLock") /\ (pc \in SourcePC => pc = "exportWait")
  BY DEF Locking, BeginPC, SourcePC
<1>9. StepCall(t, c, p, ctx[c])
  BY <1>1, <1>2, <1>6, <1>7, <1>8 DEF StepCall
<1>10. unsafe' \in BOOLEAN
  BY <1>2, CallTypes
<1>11. p.pc # "idle" /\ p.pc \notin Exclusive /\ p.pc \notin Holding
       /\ th[t].pc \notin Exclusive /\ th[t].pc \notin Holding
  BY <1>1, <1>2, <1>6 DEF Exclusive, Holding
<1> QED
  BY <1>1, <1>2, <1>4, <1>9, <1>10, <1>11, QuietStep

\* The calls.
LEMMA NvBeginPictureInv ==
    ASSUME Inv, Rules = AllRules, NEW t \in Threads, NEW c \in Contexts, NEW s \in Surfaces,
           NvBeginPicture(t, c, s)
    PROVE  Inv'
<1>1. c # NULL /\ s # NULL
  BY PipelineAssumption
<1>2. ctx[c].life = "live" /\ surf[s].life = "live" /\ MayBegin(s) /\ Enter(t, "beginLock", c, s)
  BY DEF NvBeginPicture
<1>3. /\ \A d \in Contexts : s \notin OpenOf(ctx[d])
      /\ \A u \in Threads : th[u].pc \in BeginPC \cup SourcePC => th[u].s # s
  BY <1>2, MayBeginApart
<1>4. "beginLock" \in Locking \cup {"syncWait", "exportWait"}
  BY DEF Locking
<1> QED
  BY <1>1, <1>2, <1>3, <1>4, EnterStep

LEMMA NvRenderPictureInv ==
    ASSUME Inv, NEW t \in Threads, NEW c \in Contexts, NvRenderPicture(t, c)
    PROVE  Inv'
<1>1. c # NULL /\ ctx[c].life = "live" /\ Enter(t, "renderLock", c, NULL)
  BY PipelineAssumption DEF NvRenderPicture
<1>2. "renderLock" \in Locking \cup {"syncWait", "exportWait"}
  BY DEF Locking
<1> QED
  BY <1>1, <1>2, EnterStep

LEMMA NvEndPictureInv ==
    ASSUME Inv, NEW t \in Threads, NEW c \in Contexts, NvEndPicture(t, c)
    PROVE  Inv'
<1>1. c # NULL /\ ctx[c].life = "live" /\ Enter(t, "endLock", c, NULL)
  BY PipelineAssumption DEF NvEndPicture
<1>2. "endLock" \in Locking \cup {"syncWait", "exportWait"}
  BY DEF Locking
<1> QED
  BY <1>1, <1>2, EnterStep

LEMMA NvSyncSurfaceInv ==
    ASSUME Inv, NEW t \in Threads, NEW s \in Surfaces, NvSyncSurface(t, s)
    PROVE  Inv'
<1>1. s # NULL /\ surf[s].life = "live" /\ Enter(t, "syncWait", NULL, s)
  BY PipelineAssumption DEF NvSyncSurface
<1>2. "syncWait" \notin Locking
  BY DEF Locking
<1> QED
  BY <1>1, <1>2, EnterStep

LEMMA NvExportSurfaceHandleInv ==
    ASSUME Inv, Rules = AllRules, NEW t \in Threads, NEW s \in Surfaces,
           NvExportSurfaceHandle(t, s)
    PROVE  Inv'
<1>1. s # NULL /\ surf[s].life = "live" /\ Enter(t, "exportWait", NULL, s)
  BY PipelineAssumption DEF NvExportSurfaceHandle
<1>2. "exportWait" \notin Locking
  BY DEF Locking
<1>3. ~Busy(s)
  BY DEF NvExportSurfaceHandle, Abides, AllRules
<1>4. /\ \A d \in Contexts : s \notin OpenOf(ctx[d])
      /\ \A u \in Threads : th[u].pc \in BeginPC => th[u].s # s
  BY <1>3, NotBusy
<1> QED
  BY <1>1, <1>2, <1>4, EnterStep

\* The calls that return and change nothing.
LEMMA QuietReturns ==
    ASSUME Inv, NEW t \in Threads,
           \/ WrongState(t, "beginLock", {"idle"})
           \/ WrongState(t, "renderLock", {"building"})
           \/ WrongState(t, "endLock", {"building", "failed"})
           \/ BeginUnsafe(t) \/ SyncWait(t) \/ ExportFail(t)
           \/ ExportRead(t) /\ surf[th[t].s].status # "success"
    PROVE  Inv'
<1>1. /\ Return(t) /\ UNCHANGED <<surf, ctx, queue, closed, wk, bad>>
      /\ unsafe' \in {unsafe, TRUE} /\ th[t].todo = <<>>
      /\ th[t].pc \in {"beginLock", "renderLock", "endLock", "syncWait", "exportSet", "exportRead"}
  BY DEF WrongState, BeginUnsafe, SyncWait, ExportFail, ExportRead, Resolved, Locks, At, jobs
<1>2. unsafe' \in BOOLEAN
  BY <1>1, CallTypes
<1>3. th[t].pc \notin {"idle"} \cup Exclusive \cup Holding
  BY <1>1 DEF Exclusive, Holding
<1> QED
  BY <1>1, <1>2, <1>3, ReturnStep

LEMMA GotoPoint ==
    ASSUME Inv, NEW t \in Threads, NEW pc \in ThreadPC, NEW todo \in Seq(Section),
           Goto(t, pc, todo)
    PROVE  \E p \in CallRecord :
             /\ th' = [th EXCEPT ![t] = p]
             /\ p.pc = pc /\ p.c = th[t].c /\ p.s = th[t].s /\ p.job = th[t].job
             /\ p.todo = todo
<1>1. th \in [Threads -> CallRecord] /\ th[t] \in CallRecord
  BY CallTypes
<1> DEFINE p == [th[t] EXCEPT !.pc = pc, !.todo = todo]
<1>2. p \in CallRecord /\ p.pc = pc /\ p.c = th[t].c /\ p.s = th[t].s /\ p.job = th[t].job
      /\ p.todo = todo
  BY <1>1 DEF CallRecord
<1>3. th' = [th EXCEPT ![t] = p]
  BY <1>1 DEF Goto, CallRecord
<1> HIDE DEF p
<1> QED
  BY <1>2, <1>3

LEMMA GotoStep ==
    ASSUME Inv, NEW t \in Threads, NEW pc \in ThreadPC, Goto(t, pc, <<>>),
           UNCHANGED <<surf, ctx, queue, closed, wk, bad, unsafe>>,
           th[t].todo = <<>>, th[t].pc \notin {"idle"} \cup Exclusive,
           pc \notin {"idle", "syncWait"} \cup Exclusive \cup Locking,
           th[t].pc \in Holding <=> pc \in Holding, th[t].pc \in EndPC => pc \in EndPC,
           pc \in BeginPC => th[t].pc \in BeginPC, pc \in SourcePC => th[t].pc \in SourcePC,
           pc \in ReadyPC => ~surf[th[t].s].resolving,
           \A p \in CallRecord :
               /\ pc \in Holding /\ Stage(th[t].c, th[t], ctx[th[t].c], surf, bad)
               /\ p.pc = pc /\ p.c = th[t].c /\ p.job = th[t].job /\ p.todo = <<>>
               => Stage(th[t].c, p, ctx[th[t].c], surf, bad)
    PROVE  Inv'
<1>1. PICK p \in CallRecord :
             /\ th' = [th EXCEPT ![t] = p]
             /\ p.pc = pc /\ p.c = th[t].c /\ p.s = th[t].s /\ p.job = th[t].job
             /\ p.todo = <<>>
  <2>1. << >> \in Seq(Section)
    OBVIOUS
  <2>2. \A todo \in Seq(Section) : Goto(t, pc, todo) =>
          \E p \in CallRecord :
             /\ th' = [th EXCEPT ![t] = p]
             /\ p.pc = pc /\ p.c = th[t].c /\ p.s = th[t].s /\ p.job = th[t].job
             /\ p.todo = todo
    BY GotoPoint
  <2> QED
    BY <2>1, <2>2
<1>2. t \in readers /\ writer = NULL
  BY CallLocks
<1>3. Objects(th[t], ctx[th[t].c], surf)
      /\ (th[t].pc \in Holding => Stage(th[t].c, th[t], ctx[th[t].c], surf, bad))
  BY DEF Inv, CallsOK, CallOK
<1>4. th[t].c \in Contexts \cup {NULL}
  BY CallTypes DEF CallRecord
<1> DEFINE c == th[t].c
<1>5. Objects(p, ctx[c], surf)
  BY <1>1, <1>3 DEF Objects, Exclusive
<1>6. StepCall(t, c, p, ctx[c])
  <2>1. Objects(p, ctx[c], surf')
    BY <1>5
  <2>2. p.pc \in Holding => Stage(c, p, ctx[c], surf', bad')
    BY <1>1, <1>3
  <2>3. p.pc \in BeginPC \cup SourcePC =>
           th[t].pc \in BeginPC \cup SourcePC /\ \A d \in Contexts : p.s \notin OpenOf(ctx[d])
    BY <1>1 DEF Inv, Claims
  <2>4. p.pc \in BeginPC =>
           \A u \in Threads \ {t} : th[u].pc \in BeginPC \cup SourcePC => th[u].s # p.s
    BY <1>1 DEF Inv, Claims
  <2>5. p.pc \in SourcePC =>
           \A u \in Threads \ {t} : th[u].pc \in BeginPC => th[u].s # p.s
    BY <1>1 DEF Inv, Claims
  <2> QED
    BY <1>1, <1>4, <2>1, <2>2, <2>3, <2>4, <2>5 DEF StepCall
<1>7. readers' = readers \cup {t} /\ writer' = NULL /\ unsafe' \in BOOLEAN
  BY <1>2, CallTypes DEF Goto, locks
<1> HIDE DEF c
<1>8. th[t].c = c
  BY DEF c
<1> QED
  BY <1>1, <1>2, <1>4, <1>6, <1>7, <1>8, QuietStep

LEMMA QuietGotos ==
    ASSUME Inv, NEW t \in Threads,
           \/ BeginWait(t) \/ CopyWait(t) \/ ExportWait(t)
           \/ ExportRead(t) /\ surf[th[t].s].status = "success"
    PROVE  Inv'
<1>1. PICK pc \in {"beginMark", "copy", "exportRead", "exportSet"} :
         /\ Goto(t, pc, <<>>) /\ UNCHANGED <<surf, ctx, queue, closed, wk, bad, unsafe>>
         /\ th[t].todo = <<>>
         /\ pc = "beginMark" => th[t].pc = "beginWait"
         /\ pc = "copy" => th[t].pc = "copyWait"
         /\ pc = "exportRead" => th[t].pc = "exportWait"
         /\ pc = "exportSet" => th[t].pc = "exportRead"
         /\ pc # "exportSet" => ~surf[th[t].s].resolving
  BY DEF BeginWait, CopyWait, ExportWait, ExportRead, Resolved, At, jobs
<1>2. ~surf[th[t].s].resolving
  <2>1. Objects(th[t], ctx[th[t].c], surf)
    BY DEF Inv, CallsOK, CallOK
  <2> QED
    BY <1>1, <2>1 DEF Objects, ReadyPC
<1>3. /\ pc \in ThreadPC
      /\ th[t].pc \notin {"idle"} \cup Exclusive
      /\ pc \notin {"idle", "syncWait"} \cup Exclusive \cup Locking
      /\ th[t].pc \in Holding <=> pc \in Holding
      /\ th[t].pc \in EndPC => pc \in EndPC
      /\ pc \in BeginPC => th[t].pc \in BeginPC
      /\ pc \in SourcePC => th[t].pc \in SourcePC
  BY <1>1 DEF ThreadPC, Exclusive, Locking, Holding, EndPC, BeginPC, SourcePC
<1>4. ASSUME NEW p \in CallRecord, Stage(th[t].c, th[t], ctx[th[t].c], surf, bad),
             p.pc = pc, pc \in Holding
      PROVE  Stage(th[t].c, p, ctx[th[t].c], surf, bad)
  BY <1>1, <1>4 DEF Stage, EndStage, EndPC, Holding
<1> QED
  BY <1>1, <1>2, <1>3, <1>4, GotoStep

\* The push of the job is behind: wait for it if the surface is exported.
LEMMA EndWaits ==
    ASSUME Inv, NEW t \in Threads, EndShared(t) \/ EndWait(t)
    PROVE  Inv'
<1>1. PICK pc \in {"endWait", "endReset"} :
         /\ Goto(t, pc, <<>>) /\ UNCHANGED <<surf, ctx, queue, closed, wk, bad, unsafe>>
         /\ th[t].todo = <<>> /\ th[t].pc \in {"endShared", "endWait"}
         /\ pc = "endReset" /\ surf[th[t].job.surface].exported =>
              ~surf[th[t].job.surface].resolving
  BY DEF EndShared, EndWait, At, jobs
<1>2. /\ pc \in ThreadPC
      /\ th[t].pc \notin {"idle"} \cup Exclusive
      /\ pc \notin {"idle", "syncWait"} \cup Exclusive \cup Locking
      /\ th[t].pc \in Holding <=> pc \in Holding
      /\ pc \in EndPC /\ pc \notin BeginPC /\ pc \notin SourcePC /\ pc \notin ReadyPC
  BY <1>1 DEF ThreadPC, Exclusive, Locking, Holding, EndPC, BeginPC, SourcePC, ReadyPC
<1>3. ASSUME NEW p \in CallRecord, Stage(th[t].c, th[t], ctx[th[t].c], surf, bad),
             p.pc = pc, p.c = th[t].c, p.job = th[t].job, p.todo = <<>>
      PROVE  Stage(th[t].c, p, ctx[th[t].c], surf, bad)
  <2>1. EndStage(th[t], ctx[th[t].c], surf, bad)
    BY <1>3 DEF Stage
  <2>2. /\ ctx[th[t].c].picture = "submitted" /\ th[t].job.surface = OutputOf(ctx[th[t].c])
        /\ ctx[th[t].c].render # NULL
        /\ \A s \in OpenOf(ctx[th[t].c]) : s # OutputOf(ctx[th[t].c]) => ~surf[s].resolving
    BY <1>1, <2>1 DEF EndStage, EndPC
  <2>3. EndStage(p, ctx[th[t].c], surf, bad)
    BY <1>1, <1>3, <2>2 DEF EndStage
  <2>4. Only(p.todo, {"clear", "fail"}) /\ \A s \in Surfaces : ~InList(p.todo, s)
    BY <1>3, EmptyList DEF Only
  <2> QED
    BY <1>1, <1>3, <2>3, <2>4 DEF Stage
<1> QED
  BY <1>1, <1>2, <1>3, GotoStep

-----------------------------------------------------------------------------
(* Steps on a picture nobody else works on, which change no surface and    *)
(* may find the generations F of its targets to have failed.               *)

LEMMA OwnStep ==
    ASSUME Inv, NEW t \in Threads, NEW c \in Contexts, NEW p \in CallRecord,
           NEW x \in ContextRecord, NEW F \in SUBSET OpenOf(ctx[c]),
           th[t].c = c, th[t].pc \in Locking \cup Holding, ctx[c].holder \in {t, NULL},
           th[t].todo = <<>>,
           th' = [th EXCEPT ![t] = p], ctx' = [ctx EXCEPT ![c] = x],
           UNCHANGED <<surf, queue, closed, wk>>, bad' = bad \cup F, unsafe' \in BOOLEAN,
           writer' = NULL,
           readers' = (IF p.pc = "idle" THEN readers \ {t} ELSE readers \cup {t}),
           p.c \in {c, NULL}, p.pc \notin Exclusive, p.pc \in Holding => p.c = c,
           x.holder = (IF p.pc \in Holding THEN t ELSE NULL), x.life = ctx[c].life,
           Picture(c, x, surf, bad \cup F), StepCall(t, c, p, x),
           F # {} => ctx[c].picture # "submitted",
           \A s \in F : Has(p.todo, s, "fail"),
           ctx[c].picture = "submitted" => x.picture = "submitted" \/ OpenOf(x) = {},
           \A s \in OpenOf(x) \ OpenOf(ctx[c]) :
               /\ \A d \in Contexts : s \notin OpenOf(ctx[d])
               /\ \A u \in Threads : th[u].pc \in BeginPC \cup SourcePC => th[u].s # s
               /\ ~InFrames(s),
           \A s \in OpenOf(ctx[c]) : surf[s].resolving =>
               InFrames(s) \/ (s \in OpenOf(x) /\ x.picture # "submitted"),
           \A s \in OpenOf(ctx[c]) \ OpenOf(x) : surf[s].exported => ~InFrames(s)
    PROVE  Inv'
<1>1. /\ th \in [Threads -> CallRecord]
      /\ ctx \in [Contexts -> ContextRecord] /\ surf \in [Surfaces -> SurfaceRecord]
      /\ bad \subseteq Surfaces /\ NULL \notin Contexts /\ NULL \notin Threads
  BY CallTypes, PipelineAssumption
<1>2. th[t].pc \notin {"idle"} \cup Exclusive
  BY DEF Locking, Holding, Exclusive
<1>3. writer = NULL
  BY <1>2, CallLocks
<1>4. OpenOf(ctx[c]) \subseteq Surfaces /\ OpenOf(x) \subseteq Surfaces
  BY <1>1 DEF ContextRecord, OpenOf
<1>5. StepShape(t, c, p, x)
  BY <1>1, <1>2, <1>3, <1>4 DEF StepShape
<1>6. StepPicture(t, c, p, x)
  <2>1. x.holder = t <=> p.c = c /\ p.pc \in Holding
    BY <1>1
  <2>2. \A u \in Threads \ {t} : x.holder = u <=> ctx[c].holder = u
    BY <1>1
  <2>3. Picture(c, x, surf', bad')
    OBVIOUS
  <2>4. \A s \in OpenOf(x) : InFrames(s) => x.picture = "submitted"
    <3> SUFFICES ASSUME NEW s \in OpenOf(x), InFrames(s)
                 PROVE  x.picture = "submitted"
      OBVIOUS
    <3>1. s \in OpenOf(ctx[c]) /\ s \in Surfaces
      BY <1>4
    <3>2. ctx[c].picture = "submitted"
      BY <3>1 DEF Inv, FramesOK
    <3> QED
      BY <3>2
  <2> QED
    BY <2>1, <2>2, <2>3, <2>4 DEF StepPicture
<1>7. StepSurfaces(t, c, p, x)
  <2>1. \A s : s \notin F => Same(s)
    BY DEF Same
  <2>2. \A s \in Surfaces : ~Mine(t, c, s) => Same(s)
    BY <1>1, <2>1 DEF Mine
  <2>3. \A s \in bad' : Answered(t, p, s)
    <3> SUFFICES ASSUME NEW s \in bad'
                 PROVE  Answered(t, p, s)
      OBVIOUS
    <3>1. CASE s \in F
      BY <3>1 DEF Answered
    <3>2. CASE s \notin F
      BY <2>1, <3>2, EmptyList DEF Answered
    <3> QED
      BY <3>1, <3>2
  <2>4. ASSUME NEW s \in Surfaces, surf'[s].resolving,
               Mine(t, c, s) \/ (c # NULL /\ s \in OpenOf(ctx[c]))
        PROVE  InFrames(s) \/ (c # NULL /\ s \in OpenOf(x) /\ x.picture # "submitted")
    <3>1. surf[s].resolving
      BY <2>4
    <3>2. CASE s \in OpenOf(ctx[c])
      BY <1>1, <3>1, <3>2
    <3>3. CASE s \notin OpenOf(ctx[c])
      <4>1. s = th[t].s /\ th[t].pc \in ReadyPC
        BY <2>4, <3>3 DEF Mine, ReadyPC
      <4>2. ~surf[s].resolving
        BY <4>1 DEF Inv, CallsOK, CallOK, Objects
      <4> QED
        BY <3>1, <4>2
    <3> QED
      BY <3>2, <3>3
  <2> QED
    BY <2>2, <2>3, <2>4 DEF StepSurfaces
<1> QED
  BY <1>5, <1>6, <1>7, ThreadStepInv DEF ThreadStep

\* The picture becomes y, and the call returns.
LEMMA ReleaseStep ==
    ASSUME Inv, NEW t \in Threads, NEW y \in ContextRecord,
           th[t].pc \in Locking \cup Holding, ctx[th[t].c].holder \in {t, NULL},
           th[t].todo = <<>>, Release(t, y), UNCHANGED <<surf, queue, closed, wk, unsafe, bad>>,
           y.life = "live",
           \A x \in ContextRecord :
               /\ x.render = y.render /\ x.display = y.display /\ x.picture = y.picture
               /\ x.holder = NULL /\ x.life = "live"
               => Picture(th[t].c, x, surf, bad),
           ctx[th[t].c].picture = "submitted" => OpenOf(y) = {},
           \A s \in OpenOf(y) \ OpenOf(ctx[th[t].c]) :
               /\ \A d \in Contexts : s \notin OpenOf(ctx[d])
               /\ \A u \in Threads : th[u].pc \in BeginPC \cup SourcePC => th[u].s # s
               /\ ~InFrames(s),
           \A s \in OpenOf(ctx[th[t].c]) : surf[s].resolving =>
               InFrames(s) \/ (s \in OpenOf(y) /\ y.picture # "submitted"),
           \A s \in OpenOf(ctx[th[t].c]) \ OpenOf(y) : surf[s].exported => ~InFrames(s)
    PROVE  Inv'
<1> DEFINE x == [y EXCEPT !.holder = NULL]
           c == th[t].c
           F == {}
<1>1. /\ x \in ContextRecord /\ x.render = y.render /\ x.display = y.display
      /\ x.picture = y.picture /\ x.holder = NULL /\ x.life = "live"
  BY DEF ContextRecord
<1>2. c \in Contexts /\ ctx[c].life = "live" /\ c = th[t].c
  BY CallContext
<1>3. t \in readers /\ writer = NULL
  BY CallLocks DEF Locking, Holding, Exclusive
<1>4. /\ ctx' = [ctx EXCEPT ![c] = x] /\ th' = [th EXCEPT ![t] = IdleThread]
      /\ readers' = readers \ {t} /\ writer' = NULL
  BY <1>3 DEF Release, Return
<1>5. IdleThread.pc = "idle" /\ IdleThread.c = NULL /\ IdleThread.s = NULL
      /\ IdleThread.job.surface = NULL /\ IdleThread.todo = <<>>
  BY DEF IdleThread, NoJob
<1> HIDE DEF x, c
<1>6. OpenOf(x) = OpenOf(y)
  BY <1>1 DEF OpenOf
<1>7. Objects(IdleThread, x, surf')
  BY <1>5 DEF Objects, Locking, Holding, BeginPC, SourcePC, ReadyPC
<1>8. StepCall(t, c, IdleThread, x)
  BY <1>5, <1>7 DEF StepCall, Locking, Holding, BeginPC, SourcePC
<1>9. Picture(c, x, surf, bad)
  BY <1>1, <1>2
<1>10. bad' = bad \cup F /\ F \in SUBSET OpenOf(ctx[c]) /\ bad \cup F = bad
  OBVIOUS
<1>11. IdleThread.pc \notin Exclusive /\ IdleThread.pc \notin Holding /\ unsafe' \in BOOLEAN
  BY <1>5, CallTypes DEF Exclusive, Holding
<1>12. F = {}
  OBVIOUS
<1> HIDE DEF F
<1>13. Picture(c, x, surf, bad \cup F)
  BY <1>9, <1>10
<1>14. /\ ctx[c].picture = "submitted" => OpenOf(x) = {}
       /\ \A s \in OpenOf(x) \ OpenOf(ctx[c]) :
               /\ \A d \in Contexts : s \notin OpenOf(ctx[d])
               /\ \A u \in Threads : th[u].pc \in BeginPC \cup SourcePC => th[u].s # s
               /\ ~InFrames(s)
       /\ \A s \in OpenOf(ctx[c]) : surf[s].resolving =>
               InFrames(s) \/ (s \in OpenOf(x) /\ x.picture # "submitted")
       /\ \A s \in OpenOf(ctx[c]) \ OpenOf(x) : surf[s].exported => ~InFrames(s)
  BY <1>1, <1>2, <1>6
<1> QED
  BY <1>1, <1>2, <1>4, <1>5, <1>8, <1>10, <1>11, <1>12, <1>13, <1>14, FreshTypes, OwnStep

\* The targets of a picture.
LEMMA TargetFacts ==
    ASSUME Inv, NEW c \in Contexts, NEW s \in OpenOf(ctx[c])
    PROVE  /\ s \in Surfaces /\ surf[s].life = "live"
           /\ surf[s].resolving => InFrames(s) \/ ctx[c].picture # "submitted"
           /\ InFrames(s) => ctx[c].picture = "submitted"
<1>1. s \in Surfaces
  BY DEF Inv, TypeOK, ContextRecord, OpenOf
<1>2. OwnedOK(s)
  BY <1>1 DEF Inv, SurfacesOK
<1>3. \A d \in Contexts : s \in OpenOf(ctx[d]) => d = c
  BY DEF Inv, Apart
<1>4. InFrames(s) => ctx[c].picture = "submitted"
  BY <1>1 DEF Inv, FramesOK
<1>5. surf[s].life = "live"
  BY DEF Inv, PicturesOK, Picture
<1> QED
  BY <1>1, <1>2, <1>3, <1>4, <1>5 DEF OwnedOK, Pending

\* A step that keeps the targets and leaves the picture as it is.
LEMMA KeepRelease ==
    ASSUME Inv, NEW t \in Threads, RenderAccept(t) \/ Unlock(t)
    PROVE  Inv'
<1>1. /\ th[t].todo = <<>> /\ Release(t, ctx[th[t].c])
      /\ UNCHANGED <<surf, queue, closed, wk, unsafe, bad>>
  BY DEF RenderAccept, Unlock, RendersDecode, Renders, Locks, At, jobs
<1>2. CASE RenderAccept(t)
  <2>1. th[t].pc \in Locking /\ ctx[th[t].c].holder = NULL /\ ctx[th[t].c].picture = "building"
    BY <1>2 DEF RenderAccept, RendersDecode, Renders, Locks, At, Locking
  <2>2. /\ th[t].c \in Contexts /\ ctx[th[t].c] \in ContextRecord /\ ctx[th[t].c].life = "live"
        /\ Picture(th[t].c, ctx[th[t].c], surf, bad)
    BY <2>1, CallContext
  <2>3. ASSUME NEW x \in ContextRecord, x.render = ctx[th[t].c].render,
               x.display = ctx[th[t].c].display, x.picture = ctx[th[t].c].picture,
               x.holder = NULL, x.life = "live"
        PROVE  Picture(th[t].c, x, surf, bad)
    BY <2>1, <2>2, <2>3 DEF Picture, OpenOf
  <2>4. \A s \in OpenOf(ctx[th[t].c]) : surf[s].resolving =>
               InFrames(s) \/ ctx[th[t].c].picture # "submitted"
    BY <2>2, TargetFacts
  <2> QED
    BY <1>1, <2>1, <2>2, <2>3, <2>4, ReleaseStep
<1>3. CASE Unlock(t)
  <2>1. th[t].pc = "unlock" /\ th[t].pc \in Holding
    BY <1>3 DEF Unlock, At, Holding
  <2>2. /\ th[t].c \in Contexts /\ ctx[th[t].c] \in ContextRecord /\ ctx[th[t].c].life = "live"
        /\ Picture(th[t].c, ctx[th[t].c], surf, bad) /\ ctx[th[t].c].holder = t
        /\ Stage(th[t].c, th[t], ctx[th[t].c], surf, bad)
    BY <2>1, CallContext
  <2>5. /\ ctx[th[t].c].picture \in {"building", "failed"} /\ ctx[th[t].c].render # NULL
        /\ th[t].c \notin VideoProc => ctx[th[t].c].picture = "failed"
    BY <2>1, <2>2 DEF Stage
  <2>3. ASSUME NEW x \in ContextRecord, x.render = ctx[th[t].c].render,
               x.display = ctx[th[t].c].display, x.picture = ctx[th[t].c].picture,
               x.holder = NULL, x.life = "live"
        PROVE  Picture(th[t].c, x, surf, bad)
    BY <2>1, <2>2, <2>3, <2>5 DEF Picture, OpenOf
  <2>4. \A s \in OpenOf(ctx[th[t].c]) : surf[s].resolving =>
               InFrames(s) \/ ctx[th[t].c].picture # "submitted"
    BY <2>2, TargetFacts
  <2> QED
    BY <1>1, <2>1, <2>2, <2>3, <2>4, <2>5, ReleaseStep
<1> QED
  BY <1>2, <1>3

LEMMA BeginFailInv ==
    ASSUME Inv, NEW t \in Threads, BeginFail(t)
    PROVE  Inv'
<1> DEFINE c == th[t].c
           y == [ctx[c] EXCEPT !.picture = "idle"]
<1>1. /\ th[t].todo = <<>> /\ th[t].pc = "beginMark" /\ Release(t, y)
      /\ UNCHANGED <<surf, queue, closed, wk, unsafe, bad>>
  BY DEF BeginFail, At, jobs
<1>2. th[t].pc \in Holding
  BY <1>1 DEF Holding
<1>3. /\ c \in Contexts /\ ctx[c] \in ContextRecord /\ ctx[c].life = "live"
      /\ ctx[c].holder = t /\ Stage(c, th[t], ctx[c], surf, bad)
  BY <1>2, CallContext
<1>4. ctx[c].picture = "building" /\ ctx[c].render = NULL /\ ctx[c].display = NULL
  BY <1>1, <1>3 DEF Stage
<1>5. /\ y \in ContextRecord /\ y.render = NULL /\ y.display = NULL /\ y.picture = "idle"
      /\ y.life = "live"
  BY <1>3, <1>4 DEF ContextRecord
<1> HIDE DEF y
<1>6. OpenOf(y) = {} /\ OpenOf(ctx[c]) = {}
  BY <1>4, <1>5 DEF OpenOf
<1>7. ASSUME NEW x \in ContextRecord, x.render = y.render, x.display = y.display,
             x.picture = y.picture, x.holder = NULL, x.life = "live"
      PROVE  Picture(c, x, surf, bad)
  BY <1>5, <1>7 DEF Picture, OpenOf
<1> HIDE DEF c
<1>8. c = th[t].c
  BY DEF c
<1> QED
  BY <1>1, <1>2, <1>3, <1>5, <1>6, <1>7, <1>8, ReleaseStep

LEMMA RenderFilmGrainInv ==
    ASSUME Inv, Rules = AllRules, NEW t \in Threads, NEW d \in Surfaces, RenderFilmGrain(t, d)
    PROVE  Inv'
<1> DEFINE c == th[t].c
           y == [ctx[c] EXCEPT !.display = d]
<1>1. /\ th[t].todo = <<>> /\ th[t].pc = "renderLock" /\ Release(t, y)
      /\ UNCHANGED <<surf, queue, closed, wk, unsafe, bad>>
      /\ c \notin VideoProc /\ ctx[c].holder = NULL /\ ctx[c].picture = "building"
      /\ surf[d].life = "live" /\ d # ctx[c].render /\ MayDisplay(d)
  BY DEF RenderFilmGrain, RendersDecode, Renders, Locks, At, jobs
<1>2. th[t].pc \in Locking
  BY <1>1 DEF Locking
<1>3. /\ c \in Contexts /\ ctx[c] \in ContextRecord /\ ctx[c].life = "live"
      /\ Picture(c, ctx[c], surf, bad)
  BY <1>2, CallContext
<1>4. /\ y \in ContextRecord /\ y.render = ctx[c].render /\ y.display = d
      /\ y.picture = "building" /\ y.life = "live"
  BY <1>1, <1>3 DEF ContextRecord
<1>5. MayBegin(d) /\ ~surf[d].resolving
  BY <1>1 DEF MayDisplay, Abides, AllRules
<1>6. ~InFrames(d)
  BY <1>5 DEF Inv, FramesOK
<1>7. /\ \A e \in Contexts : d \notin OpenOf(ctx[e])
      /\ \A u \in Threads : th[u].pc \in BeginPC \cup SourcePC => th[u].s # d
  BY <1>5, MayBeginApart
<1> HIDE DEF y
<1>8. d # NULL
  BY PipelineAssumption
<1>9. OpenOf(y) = {ctx[c].render, d} \ {NULL}
  BY <1>4 DEF OpenOf
<1>10. \A s \in OpenOf(y) \ OpenOf(ctx[c]) : s = d
  BY <1>9 DEF OpenOf
<1>11. ctx[c].render # NULL /\ ctx[c].display # NULL
  BY <1>1, <1>3 DEF Picture
<1>12. \A s \in OpenOf(ctx[c]) : s = ctx[c].render \/ (s = ctx[c].display /\ s # ctx[c].render)
  BY DEF OpenOf
<1>13. \A s \in OpenOf(ctx[c]) : surf[s].resolving => s = ctx[c].render
  BY <1>1, <1>3, <1>11, <1>12 DEF Picture
<1>14. ASSUME NEW x \in ContextRecord, x.render = y.render, x.display = y.display,
             x.picture = y.picture, x.holder = NULL, x.life = "live"
      PROVE  Picture(c, x, surf, bad)
  BY <1>1, <1>3, <1>4, <1>5, <1>8, <1>11, <1>14 DEF Picture, OpenOf
<1>15. \A s \in OpenOf(ctx[c]) : surf[s].resolving => s \in OpenOf(y)
  BY <1>9, <1>11, <1>13
<1>16. \A s \in OpenOf(ctx[c]) : ~InFrames(s)
  BY <1>1, <1>3, TargetFacts
<1> HIDE DEF c
<1>17. c = th[t].c
  BY DEF c
<1>18. \A s \in OpenOf(y) \ OpenOf(ctx[c]) :
               /\ \A e \in Contexts : s \notin OpenOf(ctx[e])
               /\ \A u \in Threads : th[u].pc \in BeginPC \cup SourcePC => th[u].s # s
               /\ ~InFrames(s)
  BY <1>6, <1>7, <1>10
<1> QED
  BY <1>1, <1>2, <1>3, <1>4, <1>14, <1>15, <1>16, <1>17, <1>18, ReleaseStep

LEMMA EndResetInv ==
    ASSUME Inv, NEW t \in Threads, EndReset(t)
    PROVE  Inv'
<1> DEFINE c == th[t].c
<1>1. /\ th[t].todo = <<>> /\ th[t].pc = "endReset" /\ Release(t, FreshContext)
      /\ UNCHANGED <<surf, queue, closed, wk, unsafe, bad>>
  BY DEF EndReset, At, jobs
<1>2. th[t].pc \in Holding
  BY <1>1 DEF Holding
<1>3. /\ c \in Contexts /\ ctx[c] \in ContextRecord /\ ctx[c].life = "live"
      /\ ctx[c].holder = t /\ Stage(c, th[t], ctx[c], surf, bad)
      /\ OpenOf(ctx[c]) \subseteq Surfaces
  BY <1>2, CallContext
<1>4. EndStage(th[t], ctx[c], surf, bad)
  BY <1>3 DEF Stage
<1>5. /\ FreshContext.render = NULL /\ FreshContext.display = NULL
      /\ FreshContext.picture = "idle" /\ FreshContext.life = "live"
  BY DEF FreshContext
<1>6. OpenOf(FreshContext) = {}
  BY <1>5 DEF OpenOf
<1>7. ASSUME NEW x \in ContextRecord, x.render = FreshContext.render,
             x.display = FreshContext.display, x.picture = FreshContext.picture,
             x.holder = NULL, x.life = "live"
      PROVE  Picture(c, x, surf, bad)
  BY <1>5, <1>7 DEF Picture, OpenOf
<1>8. \A s \in Surfaces : InFrames(s) => surf[s].resolving
  BY DEF Inv, FramesOK
<1>9. \A s \in OpenOf(ctx[c]) :
         /\ surf[s].resolving => InFrames(s)
         /\ surf[s].exported => ~InFrames(s)
  <2>1. CASE ctx[c].picture = "submitted"
    <3>1. \A s \in OpenOf(ctx[c]) : surf[s].resolving => InFrames(s)
      BY <1>3, <2>1, TargetFacts
    <3>2. \A s \in OpenOf(ctx[c]) : surf[s].exported => ~surf[s].resolving
      BY <1>1, <1>4, <2>1 DEF EndStage, EndPC
    <3> QED
      BY <1>3, <1>8, <3>1, <3>2
  <2>2. CASE ctx[c].picture # "submitted"
    <3>1. \A s \in OpenOf(ctx[c]) : ~surf[s].resolving
      BY <1>1, <1>4, <2>2, EmptyList DEF EndStage
    <3> QED
      BY <1>3, <1>8, <3>1
  <2> QED
    BY <2>1, <2>2
<1> HIDE DEF c
<1>10. c = th[t].c
  BY DEF c
<1> QED
  BY <1>1, <1>2, <1>3, <1>5, <1>6, <1>7, <1>9, <1>10, FreshTypes, ReleaseStep

-----------------------------------------------------------------------------
(* Lists of sections.                                                      *)

LEMMA ConcatList ==
    ASSUME NEW a \in Seq(Section), NEW b \in Seq(Section)
    PROVE  /\ a \o b \in Seq(Section)
           /\ \A s, op : Has(a \o b, s, op) <=> Has(a, s, op) \/ Has(b, s, op)
           /\ \A s : InList(a \o b, s) <=> InList(a, s) \/ InList(b, s)
           /\ \A ops : Only(a \o b, ops) <=> Only(a, ops) /\ Only(b, ops)
<1> DEFINE l == a \o b
<1>1. /\ l \in Seq(Section) /\ Len(l) = Len(a) + Len(b) /\ Len(a) \in Nat /\ Len(b) \in Nat
      /\ \A i \in 1 .. Len(a) : l[i] = a[i]
      /\ \A i \in 1 .. Len(b) : l[Len(a) + i] = b[i]
  OBVIOUS
<1> HIDE DEF l
<1>2. \A i \in 1 .. Len(l) : i \in 1 .. Len(a) \/ \E j \in 1 .. Len(b) : i = Len(a) + j
  <2> SUFFICES ASSUME NEW i \in 1 .. Len(l), i \notin 1 .. Len(a)
               PROVE  \E j \in 1 .. Len(b) : i = Len(a) + j
    OBVIOUS
  <2>1. i - Len(a) \in 1 .. Len(b) /\ i = Len(a) + (i - Len(a))
    BY <1>1
  <2> QED
    BY <2>1
<1>3. /\ \A i \in 1 .. Len(a) : i \in 1 .. Len(l)
      /\ \A j \in 1 .. Len(b) : Len(a) + j \in 1 .. Len(l)
  BY <1>1
<1>4. \A i \in 1 .. Len(l) : (\E j \in 1 .. Len(a) : l[i] = a[j]) \/ (\E j \in 1 .. Len(b) : l[i] = b[j])
  BY <1>1, <1>2
<1>5. /\ \A j \in 1 .. Len(a) : \E i \in 1 .. Len(l) : l[i] = a[j]
      /\ \A j \in 1 .. Len(b) : \E i \in 1 .. Len(l) : l[i] = b[j]
  BY <1>1, <1>3
<1>6. \A s, op : Has(l, s, op) <=> Has(a, s, op) \/ Has(b, s, op)
  <2> SUFFICES ASSUME NEW s, NEW op
               PROVE  Has(l, s, op) <=> Has(a, s, op) \/ Has(b, s, op)
    OBVIOUS
  <2>1. ASSUME Has(l, s, op) PROVE Has(a, s, op) \/ Has(b, s, op)
    <3>1. PICK i \in 1 .. Len(l) : l[i].s = s /\ l[i].op = op
      BY <2>1 DEF Has
    <3> QED
      BY <1>4, <3>1 DEF Has
  <2>2. ASSUME Has(a, s, op) PROVE Has(l, s, op)
    BY <1>5, <2>2 DEF Has
  <2>3. ASSUME Has(b, s, op) PROVE Has(l, s, op)
    BY <1>5, <2>3 DEF Has
  <2> QED
    BY <2>1, <2>2, <2>3
<1>7. \A s : InList(l, s) <=> InList(a, s) \/ InList(b, s)
  <2> SUFFICES ASSUME NEW s
               PROVE  InList(l, s) <=> InList(a, s) \/ InList(b, s)
    OBVIOUS
  <2>1. ASSUME InList(l, s) PROVE InList(a, s) \/ InList(b, s)
    <3>1. PICK i \in 1 .. Len(l) : l[i].s = s
      BY <2>1 DEF InList
    <3> QED
      BY <1>4, <3>1 DEF InList
  <2>2. ASSUME InList(a, s) PROVE InList(l, s)
    BY <1>5, <2>2 DEF InList
  <2>3. ASSUME InList(b, s) PROVE InList(l, s)
    BY <1>5, <2>3 DEF InList
  <2> QED
    BY <2>1, <2>2, <2>3
<1>8. \A ops : Only(l, ops) <=> Only(a, ops) /\ Only(b, ops)
  BY <1>4, <1>5 DEF Only
<1> QED
  BY <1>1, <1>6, <1>7, <1>8 DEF l

LEMMA SingleList ==
    ASSUME NEW r \in Surfaces
    PROVE  /\ <<Clear(r)>> \in Seq(Section) /\ <<Fail(r)>> \in Seq(Section)
           /\ Only(<<Clear(r)>>, {"clear", "fail"}) /\ Only(<<Fail(r)>>, {"clear", "fail"})
           /\ \A s : InList(<<Clear(r)>>, s) <=> s = r
           /\ \A s : InList(<<Fail(r)>>, s) <=> s = r
           /\ \A s : Has(<<Fail(r)>>, s, "fail") <=> s = r
           /\ \A s : Has(<<Clear(r)>>, s, "clear") <=> s = r
           /\ \A s : ~Has(<<Clear(r)>>, s, "fail")
<1>1. /\ Clear(r) \in Section /\ Clear(r).op = "clear" /\ Clear(r).s = r
      /\ Fail(r) \in Section /\ Fail(r).op = "fail" /\ Fail(r).s = r
  BY DEF Clear, Fail, Section
<1>2. ASSUME NEW o \in Section
      PROVE  /\ <<o>> \in Seq(Section)
             /\ \A s : InList(<<o>>, s) <=> s = o.s
             /\ \A s, op : Has(<<o>>, s, op) <=> s = o.s /\ op = o.op
             /\ \A ops : Only(<<o>>, ops) <=> o.op \in ops
  <2> DEFINE l == <<o>>
  <2>1. l \in Seq(Section) /\ Len(l) = 1 /\ l[1] = o
    OBVIOUS
  <2> HIDE DEF l
  <2>2. \A i \in 1 .. Len(l) : l[i] = o
    BY <2>1
  <2>3. 1 \in 1 .. Len(l)
    BY <2>1
  <2> QED
    BY <2>1, <2>2, <2>3 DEF InList, Has, Only, l
<1> QED
  BY <1>1, <1>2

LEMMA PairList ==
    ASSUME NEW T, NEW a \in Seq(T), NEW b \in Seq(T)
    PROVE  Len(a) = 1 /\ Len(b) = 1 =>
             a \o b \in Seq(T) /\ Len(a \o b) = 2 /\ (a \o b)[1] = a[1] /\ (a \o b)[2] = b[1]
<1>1. /\ a \o b \in Seq(T) /\ Len(a \o b) = Len(a) + Len(b)
      /\ \A i \in 1 .. Len(a) : (a \o b)[i] = a[i]
      /\ \A i \in 1 .. Len(b) : (a \o b)[Len(a) + i] = b[i]
  OBVIOUS
<1>2. ASSUME Len(a) = 1, Len(b) = 1
      PROVE  /\ 1 \in 1 .. Len(a) /\ 1 \in 1 .. Len(b) /\ Len(a) + 1 = 2 /\ Len(a) + Len(b) = 2
  BY <1>2
<1> QED
  BY <1>1, <1>2

LEMMA TargetLists ==
    ASSUME NEW c \in Contexts, ctx[c] \in ContextRecord
    PROVE  /\ Targets(c) \in Seq(Surfaces)
           /\ \A s : (\E i \in 1 .. Len(Targets(c)) : Targets(c)[i] = s) <=> s \in OpenOf(ctx[c])
<1> DEFINE d == ctx[c].display  r == ctx[c].render
<1>1. (d = NULL \/ d \in Surfaces) /\ (r = NULL \/ r \in Surfaces)
  BY DEF ContextRecord
<1>2. Targets(c) = (IF d # NULL THEN <<d>> ELSE <<>>) \o (IF r \notin {NULL, d} THEN <<r>> ELSE <<>>)
  BY DEF Targets
<1>3. OpenOf(ctx[c]) = {r, d} \ {NULL}
  BY DEF OpenOf
<1> HIDE DEF d, r
<1> DEFINE l == Targets(c)
<1>4. CASE d # NULL /\ r \notin {NULL, d}
  <2> DEFINE a == <<d>>  b == <<r>>
  <2>0. a \in Seq(Surfaces) /\ b \in Seq(Surfaces) /\ Len(a) = 1 /\ Len(b) = 1
        /\ a[1] = d /\ b[1] = r
    BY <1>1, <1>4
  <2>1. l = a \o b
    BY <1>2, <1>4
  <2> HIDE DEF a, b, l
  <2>2. l \in Seq(Surfaces) /\ Len(l) = 2 /\ l[1] = d /\ l[2] = r
    BY <2>0, <2>1, PairList
  <2>3. 1 .. Len(l) = {1, 2}
    BY <2>2
  <2>4. \A s : (\E i \in 1 .. Len(l) : l[i] = s) <=> s \in OpenOf(ctx[c])
    BY <1>1, <1>3, <1>4, <2>2, <2>3
  <2> QED
    BY <2>2, <2>4 DEF l
<1>5. CASE d # NULL /\ r \in {NULL, d}
  <2>1. l = <<d>>
    BY <1>1, <1>2, <1>5
  <2>2. l \in Seq(Surfaces) /\ Len(l) = 1 /\ l[1] = d
    BY <1>1, <1>5, <2>1
  <2> HIDE DEF l
  <2>3. 1 .. Len(l) = {1}
    BY <2>2
  <2>4. \A s : (\E i \in 1 .. Len(l) : l[i] = s) <=> s \in OpenOf(ctx[c])
    BY <1>1, <1>3, <1>5, <2>2, <2>3
  <2> QED
    BY <2>2, <2>4 DEF l
<1>6. CASE d = NULL /\ r # NULL
  <2>1. l = <<r>>
    BY <1>1, <1>2, <1>6
  <2>2. l \in Seq(Surfaces) /\ Len(l) = 1 /\ l[1] = r
    BY <1>1, <1>6, <2>1
  <2> HIDE DEF l
  <2>3. 1 .. Len(l) = {1}
    BY <2>2
  <2>4. \A s : (\E i \in 1 .. Len(l) : l[i] = s) <=> s \in OpenOf(ctx[c])
    BY <1>1, <1>3, <1>6, <2>2, <2>3
  <2> QED
    BY <2>2, <2>4 DEF l
<1>7. CASE d = NULL /\ r = NULL
  <2>1. l = <<>>
    BY <1>2, <1>7
  <2>2. l \in Seq(Surfaces) /\ Len(l) = 0
    BY <2>1
  <2> HIDE DEF l
  <2>3. \A s : (\E i \in 1 .. Len(l) : l[i] = s) <=> s \in OpenOf(ctx[c])
    BY <1>3, <1>7, <2>2
  <2> QED
    BY <2>2, <2>3 DEF l
<1> QED
  BY <1>4, <1>5, <1>6, <1>7

\* cancelCurrentPictureResolve fails every target, and ClearTargets clears it.
LEMMA TargetSections ==
    ASSUME NEW c \in Contexts, ctx[c] \in ContextRecord
    PROVE  /\ FailTargets(c) \in Seq(Section) /\ Only(FailTargets(c), {"clear", "fail"})
           /\ \A s : InList(FailTargets(c), s) <=> s \in OpenOf(ctx[c])
           /\ \A s : Has(FailTargets(c), s, "fail") <=> s \in OpenOf(ctx[c])
           /\ ClearTargets(c) \in Seq(Section) /\ Only(ClearTargets(c), {"clear", "fail"})
           /\ \A s : InList(ClearTargets(c), s) <=> s \in OpenOf(ctx[c])
<1> DEFINE l == Targets(c)  f == FailTargets(c)  g == ClearTargets(c)
<1>1. /\ l \in Seq(Surfaces)
      /\ \A s : (\E i \in 1 .. Len(l) : l[i] = s) <=> s \in OpenOf(ctx[c])
  BY TargetLists
<1>2. f = [i \in 1 .. Len(l) |-> Fail(l[i])] /\ g = [i \in 1 .. Len(l) |-> Clear(l[i])]
  BY DEF FailTargets, ClearTargets
<1> HIDE DEF l, f, g
<1>3. Len(l) \in Nat /\ \A i \in 1 .. Len(l) : l[i] \in Surfaces
  BY <1>1
<1>4. \A r \in Surfaces : Fail(r) \in Section /\ Clear(r) \in Section
  BY DEF Fail, Clear, Section
<1>5. f \in [1 .. Len(l) -> Section] /\ g \in [1 .. Len(l) -> Section]
  BY <1>2, <1>3, <1>4
<1>6. f \in Seq(Section) /\ Len(f) = Len(l) /\ g \in Seq(Section) /\ Len(g) = Len(l)
  BY <1>3, <1>5
<1>7. \A i \in 1 .. Len(l) : /\ f[i].s = l[i] /\ f[i].op = "fail"
                             /\ g[i].s = l[i] /\ g[i].op = "clear"
  BY <1>2 DEF Fail, Clear
<1>8. /\ \A s : InList(f, s) <=> s \in OpenOf(ctx[c])
      /\ \A s : Has(f, s, "fail") <=> s \in OpenOf(ctx[c])
      /\ \A s : InList(g, s) <=> s \in OpenOf(ctx[c])
  BY <1>1, <1>6, <1>7 DEF InList, Has
<1>9. Only(f, {"clear", "fail"}) /\ Only(g, {"clear", "fail"})
  BY <1>6, <1>7 DEF Only
<1> QED
  BY <1>6, <1>8, <1>9 DEF f, g

-----------------------------------------------------------------------------
(* Steps that take pictureMutex, or go on with it.                         *)

\* The sections of an error path concern the targets O, and fail the ones in F.
ErrorPath(todo, O, F) ==
    /\ Only(todo, {"clear", "fail"})
    /\ \A s \in Surfaces : InList(todo, s) => s \in O
    /\ \A s \in F : Has(todo, s, "fail")
Covers(todo, O) == \A s \in O : InList(todo, s)

\* A step to the program counter pc and the list todo, with the picture x.
LEMMA HoldStep ==
    ASSUME Inv, NEW t \in Threads, NEW pc \in Holding, NEW todo \in Seq(Section),
           NEW x \in ContextRecord, NEW F \in SUBSET OpenOf(ctx[th[t].c]),
           th[t].pc \in Locking \cup Holding, ctx[th[t].c].holder \in {t, NULL},
           th[t].todo = <<>>, Goto(t, pc, todo), ctx' = [ctx EXCEPT ![th[t].c] = x],
           UNCHANGED <<surf, queue, closed, wk>>, bad' = bad \cup F, unsafe' \in BOOLEAN,
           pc \in {"beginWait", "unlock", "endReset"},
           x.holder = t, x.life = "live",
           x.render = ctx[th[t].c].render, x.display = ctx[th[t].c].display,
           x.picture \in {"building", "failed"}, ctx[th[t].c].picture # "submitted",
           Picture(th[t].c, x, surf, bad \cup F),
           ErrorPath(todo, OpenOf(ctx[th[t].c]), F),
           pc = "beginWait" =>
               th[t].pc = "beginLock" /\ x.picture = "building" /\ x.render = NULL
               /\ x.display = NULL /\ todo = <<>>,
           pc = "unlock" =>
               x.render # NULL /\ (th[t].c \notin VideoProc => x.picture = "failed"),
           pc = "endReset" => Covers(todo, OpenOf(ctx[th[t].c])),
           th[t].job.surface # NULL => pc = "endReset"
    PROVE  Inv'
<1> DEFINE c == th[t].c
<1>1. /\ c \in Contexts /\ ctx[c] \in ContextRecord /\ ctx[c].life = "live"
      /\ Objects(th[t], ctx[c], surf) /\ c = th[t].c /\ c # NULL
  BY CallContext DEF Inv, CallsOK, CallOK
<1>2. t \in readers /\ writer = NULL
  BY CallLocks DEF Locking, Holding, Exclusive
<1>3. pc \in ThreadPC
  BY DEF ThreadPC, Holding
<1>4. PICK p \in CallRecord :
             /\ th' = [th EXCEPT ![t] = p]
             /\ p.pc = pc /\ p.c = th[t].c /\ p.s = th[t].s /\ p.job = th[t].job
             /\ p.todo = todo
  BY <1>3, GotoPoint
<1>5. readers' = readers \cup {t} /\ writer' = NULL
  BY <1>2 DEF Goto, locks
<1>6. OpenOf(x) = OpenOf(ctx[c]) /\ OutputOf(x) = OutputOf(ctx[c])
  BY DEF OpenOf, OutputOf
<1>7. pc \notin Exclusive /\ pc # "idle" /\ pc # "retire" /\ pc \notin SourcePC /\ pc \notin ReadyPC
      /\ pc # "syncWait" /\ (pc \in BeginPC => pc = "beginWait")
      /\ (pc = "beginWait" => th[t].pc \in BeginPC)
  BY DEF Holding, Exclusive, SourcePC, ReadyPC, BeginPC
<1>8. Objects(p, x, surf)
  <2>1. todo # <<>> => pc \in {"unlock", "endReset"}
    OBVIOUS
  <2> QED
    BY <1>1, <1>4, <1>6, <1>7, <2>1 DEF Objects, EndPC
<1>s. Stage(c, p, x, surf, bad \cup F)
  <2>1. EndStage(p, x, surf, bad \cup F)
    BY <1>4, <1>6 DEF EndStage, Covers
  <2> QED
    BY <1>1, <1>4, <1>6, <2>1 DEF Stage, ErrorPath
<1>9. StepCall(t, c, p, x)
  <2>1. p.pc \in BeginPC => \A d \in Contexts : p.s \notin OpenOf(ctx[d])
    BY <1>4, <1>7 DEF Inv, Claims
  <2>2. p.pc \in BeginPC =>
           \A u \in Threads \ {t} : th[u].pc \in BeginPC \cup SourcePC => th[u].s # p.s
    BY <1>4, <1>7 DEF Inv, Claims
  <2>3. Stage(c, p, x, surf', bad')
    BY <1>s
  <2> QED
    BY <1>1, <1>4, <1>6, <1>7, <1>8, <2>1, <2>2, <2>3 DEF StepCall
<1>10. \A s \in OpenOf(ctx[c]) : s \in OpenOf(x) /\ x.picture # "submitted"
  BY <1>6
<1> HIDE DEF c
<1>11. F # {} => ctx[c].picture # "submitted"
  BY <1>1
<1>12. /\ p.pc \notin Exclusive /\ p.c \in {c, NULL} /\ p.c = c
       /\ x.holder = (IF p.pc \in Holding THEN t ELSE NULL) /\ x.life = ctx[c].life
       /\ readers' = (IF p.pc = "idle" THEN readers \ {t} ELSE readers \cup {t})
  BY <1>1, <1>4, <1>5, <1>7
<1>13. /\ OpenOf(x) \ OpenOf(ctx[c]) = {} /\ OpenOf(ctx[c]) \ OpenOf(x) = {}
       /\ \A s \in F : Has(p.todo, s, "fail")
  BY <1>4, <1>6 DEF ErrorPath
<1>14. /\ F \in SUBSET OpenOf(ctx[c]) /\ ctx[c].holder \in {t, NULL}
       /\ ctx' = [ctx EXCEPT ![c] = x] /\ Picture(c, x, surf, bad \cup F)
       /\ ctx[c].picture # "submitted"
  BY <1>1
<1> QED
  BY <1>1, <1>4, <1>5, <1>9, <1>10, <1>11, <1>12, <1>13, <1>14, OwnStep

LEMMA BeginLockInv ==
    ASSUME Inv, NEW t \in Threads, BeginLock(t)
    PROVE  Inv'
<1> DEFINE c == th[t].c
           x == [ctx[c] EXCEPT !.holder = t, !.picture = "building"]
           F == {}
<1>1. /\ th[t].todo = <<>> /\ th[t].pc = "beginLock" /\ Goto(t, "beginWait", <<>>)
      /\ ctx[c].holder = NULL /\ ctx[c].picture = "idle"
      /\ ctx' = [ctx EXCEPT ![c].holder = t, ![c].picture = "building"]
      /\ UNCHANGED <<surf, queue, closed, wk, unsafe, bad>>
  BY DEF BeginLock, Locks, At, jobs
<1>2. th[t].pc \in Locking
  BY <1>1 DEF Locking
<1>3. /\ c \in Contexts /\ ctx[c] \in ContextRecord /\ ctx[c].life = "live"
      /\ Picture(c, ctx[c], surf, bad) /\ ctx \in [Contexts -> ContextRecord]
      /\ Objects(th[t], ctx[c], surf)
  BY <1>2, CallContext, CallTypes DEF Inv, CallsOK, CallOK
<1>4. /\ x \in ContextRecord /\ x.holder = t /\ x.life = "live" /\ x.picture = "building"
      /\ x.render = ctx[c].render /\ x.display = ctx[c].display
      /\ ctx' = [ctx EXCEPT ![c] = x]
  BY <1>1, <1>3 DEF ContextRecord
<1>5. ctx[c].render = NULL /\ ctx[c].display = NULL
  BY <1>1, <1>3 DEF Picture
<1> HIDE DEF x
<1>6. t # NULL
  BY PipelineAssumption
<1>7. Picture(c, x, surf, bad)
  BY <1>3, <1>4, <1>5, <1>6 DEF Picture, OpenOf
<1>8. ErrorPath(<<>>, OpenOf(ctx[c]), {})
  BY EmptyList DEF ErrorPath, Only
<1>9. th[t].job.surface = NULL
  BY <1>1, <1>3 DEF Objects, EndPC
<1>10. bad' = bad \cup F /\ bad \cup F = bad /\ F \in SUBSET OpenOf(ctx[c]) /\ F = {}
  BY <1>1
<1>11. "beginWait" \in Holding /\ <<>> \in Seq(Section) /\ unsafe' \in BOOLEAN
  BY <1>1, CallTypes DEF Holding
<1> HIDE DEF c, F
<1>12. c = th[t].c
  BY DEF c
<1> DEFINE pc == "beginWait"  todo == <<>>
<1>13. /\ pc = "beginWait" /\ pc \in Holding /\ todo \in Seq(Section) /\ Goto(t, pc, todo)
       /\ todo = <<>>
  BY <1>1, <1>11
<1> HIDE DEF pc, todo
<1>14. Picture(c, x, surf, bad \cup F)
  BY <1>7, <1>10
<1>15. ErrorPath(todo, OpenOf(ctx[c]), F)
  BY <1>8, <1>10, <1>13
<1>h. /\ F \in SUBSET OpenOf(ctx[th[t].c]) /\ ctx[th[t].c].holder \in {t, NULL}
      /\ ctx' = [ctx EXCEPT ![th[t].c] = x] /\ ctx[th[t].c].picture # "submitted"
      /\ x.render = ctx[th[t].c].render /\ x.display = ctx[th[t].c].display
      /\ Picture(th[t].c, x, surf, bad \cup F)
      /\ ErrorPath(todo, OpenOf(ctx[th[t].c]), F)
      /\ x.picture = "building" /\ x.render = NULL /\ x.display = NULL
  BY <1>1, <1>4, <1>5, <1>10, <1>12, <1>14, <1>15
<1>i. /\ th[t].pc = "beginLock" /\ th[t].pc \in Locking /\ th[t].todo = <<>>
      /\ UNCHANGED <<surf, queue, closed, wk>> /\ bad' = bad \cup F
  BY <1>1, <1>2, <1>10
<1> QED
  BY <1>4, <1>9, <1>11, <1>13, <1>h, <1>i, HoldStep

LEMMA HeldPicture ==
    ASSUME NEW c, NEW x, NEW y, NEW S, NEW B, NEW C, Picture(c, x, S, B),
           y.render = x.render, y.display = x.display, y.life = "live", y.holder # NULL,
           y.picture \in {"building", "failed"}
    PROVE  Picture(c, y, S, C)
BY DEF Picture, OpenOf

\* nvRenderPicture fails: its own error path comes after the one of the handler.
LEMMA RenderFailureStep ==
    ASSUME Inv, NEW t \in Threads, NEW todo \in Seq(Section), RenderFailure(t, todo),
           th[t].pc \in {"renderLock", "copy"}, th[t].todo = <<>>,
           ctx[th[t].c].holder \in {t, NULL}, ctx[th[t].c].picture = "building",
           ctx[th[t].c].render # NULL, unsafe' \in BOOLEAN,
           Only(todo, {"clear", "fail"}),
           \A s \in Surfaces : InList(todo, s) => s \in OpenOf(ctx[th[t].c])
    PROVE  Inv'
<1> DEFINE c == th[t].c
           x == [ctx[c] EXCEPT !.picture = "failed", !.holder = t]
           list == todo \o FailTargets(c)
           F == OpenOf(ctx[c])
<1>1. th[t].pc \in Locking \cup Holding
  BY DEF Locking, Holding
<1>2. /\ c \in Contexts /\ ctx[c] \in ContextRecord /\ ctx[c].life = "live"
      /\ Picture(c, ctx[c], surf, bad) /\ ctx \in [Contexts -> ContextRecord]
      /\ Objects(th[t], ctx[c], surf)
  BY <1>1, CallContext, CallTypes DEF Inv, CallsOK, CallOK
<1>3. /\ Goto(t, "unlock", list) /\ UNCHANGED <<surf, queue, closed, wk>> /\ bad' = bad \cup F
      /\ ctx' = [ctx EXCEPT ![c].picture = "failed", ![c].holder = t]
  BY DEF RenderFailure, jobs, Open, OpenOf
<1>4. /\ x \in ContextRecord /\ x.holder = t /\ x.life = "live" /\ x.picture = "failed"
      /\ x.render = ctx[c].render /\ x.display = ctx[c].display
      /\ ctx' = [ctx EXCEPT ![c] = x]
  BY <1>2, <1>3 DEF ContextRecord
<1>5. /\ FailTargets(c) \in Seq(Section) /\ Only(FailTargets(c), {"clear", "fail"})
      /\ \A s : InList(FailTargets(c), s) <=> s \in F
      /\ \A s : Has(FailTargets(c), s, "fail") <=> s \in F
  BY <1>2, TargetSections
<1>6. /\ list \in Seq(Section) /\ Only(list, {"clear", "fail"})
      /\ \A s \in Surfaces : InList(list, s) => s \in F
      /\ \A s \in F : Has(list, s, "fail")
  <2> HIDE DEF c
  <2>1. c = th[t].c
    BY DEF c
  <2> QED
    BY <1>5, <2>1, ConcatList
<1> HIDE DEF x, list
<1>7. t # NULL
  BY PipelineAssumption
<1>8. Picture(c, x, surf, bad \cup F)
  BY <1>2, <1>4, <1>7, HeldPicture
<1>9. th[t].job.surface = NULL
  BY <1>2 DEF Objects, EndPC
<1>10. OpenOf(x) = F
  BY <1>4 DEF OpenOf
<1>11. ErrorPath(list, F, F)
  BY <1>6 DEF ErrorPath
<1>12. "unlock" \in Holding
  BY DEF Holding
<1>13. F \in SUBSET OpenOf(ctx[c]) /\ F = OpenOf(ctx[c])
  OBVIOUS
<1> HIDE DEF c, F
<1>14. c = th[t].c
  BY DEF c
<1> DEFINE pc == "unlock"
<1>15. pc = "unlock" /\ pc \in Holding /\ Goto(t, pc, list)
  BY <1>3, <1>12
<1> HIDE DEF pc
<1>h. /\ F \in SUBSET OpenOf(ctx[th[t].c]) /\ ctx[th[t].c].holder \in {t, NULL}
      /\ ctx' = [ctx EXCEPT ![th[t].c] = x] /\ ctx[th[t].c].picture # "submitted"
      /\ x.render = ctx[th[t].c].render /\ x.display = ctx[th[t].c].display
      /\ Picture(th[t].c, x, surf, bad \cup F)
      /\ ErrorPath(list, OpenOf(ctx[th[t].c]), F)
      /\ x.render # NULL /\ (th[t].c \notin VideoProc => x.picture = "failed")
  BY <1>4, <1>8, <1>11, <1>13, <1>14
<1> QED
  BY <1>1, <1>3, <1>4, <1>6, <1>9, <1>15, <1>h, HoldStep

LEMMA RenderFailures ==
    ASSUME Inv, NEW t \in Threads,
           RenderRefuse(t) \/ RenderInvalid(t) \/ CopyRefused(t) \/ CopyFail(t)
    PROVE  Inv'
<1>1. /\ th[t].pc \in {"renderLock", "copy"} /\ th[t].todo = <<>>
      /\ unsafe' \in {unsafe, TRUE}
      /\ th[t].pc = "renderLock" => /\ ctx[th[t].c].holder = NULL
                                    /\ ctx[th[t].c].picture = "building"
  BY DEF RenderRefuse, RenderInvalid, CopyRefused, CopyFail, Renders, RendersDecode, RendersCopy,
         Locks, At
<1>2. th[t].pc \in Locking \cup Holding
  BY <1>1 DEF Locking, Holding
<1>3. unsafe' \in BOOLEAN
  BY <1>1, CallTypes
<1> DEFINE c == th[t].c  r == ctx[c].render
<1>4. /\ c \in Contexts /\ ctx[c] \in ContextRecord /\ c = th[t].c
      /\ Picture(c, ctx[c], surf, bad)
      /\ th[t].pc \in Holding => ctx[c].holder = t /\ Stage(c, th[t], ctx[c], surf, bad)
  BY <1>2, CallContext
<1>5. /\ ctx[c].holder \in {t, NULL} /\ ctx[c].picture = "building" /\ r # NULL
      /\ r \in Surfaces /\ r \in OpenOf(ctx[c])
  <2>1. CASE th[t].pc = "renderLock"
    BY <1>1, <1>4, <2>1 DEF Picture, ContextRecord, OpenOf
  <2>2. CASE th[t].pc = "copy"
    <3>1. th[t].pc \in Holding
      BY <2>2 DEF Holding
    <3>2. ctx[c].picture = "building" /\ r # NULL
      BY <1>4, <2>2, <3>1 DEF Stage
    <3> QED
      BY <1>4, <3>1, <3>2 DEF ContextRecord, OpenOf
  <2> QED
    BY <1>1, <2>1, <2>2
<1>6. /\ FailTargets(c) \in Seq(Section) /\ Only(FailTargets(c), {"clear", "fail"})
      /\ \A s : InList(FailTargets(c), s) <=> s \in OpenOf(ctx[c])
      /\ ClearTargets(c) \in Seq(Section) /\ Only(ClearTargets(c), {"clear", "fail"})
      /\ \A s : InList(ClearTargets(c), s) <=> s \in OpenOf(ctx[c])
  BY <1>4, TargetSections
<1>7. /\ <<Clear(r)>> \in Seq(Section) /\ Only(<<Clear(r)>>, {"clear", "fail"})
      /\ \A s : InList(<<Clear(r)>>, s) <=> s = r
  BY <1>5, SingleList
<1>8. PICK todo \in {FailTargets(c), ClearTargets(c), <<Clear(r)>>} : RenderFailure(t, todo)
  BY DEF RenderRefuse, RenderInvalid, CopyRefused, CopyFail
<1>9. /\ todo \in Seq(Section) /\ Only(todo, {"clear", "fail"})
      /\ \A s \in Surfaces : InList(todo, s) => s \in OpenOf(ctx[c])
  BY <1>5, <1>6, <1>7, <1>8
<1> HIDE DEF c
<1> QED
  BY <1>1, <1>3, <1>4, <1>5, <1>8, <1>9, RenderFailureStep

LEMMA RenderNothingInv ==
    ASSUME Inv, NEW t \in Threads, RenderNothing(t)
    PROVE  Inv'
<1> DEFINE c == th[t].c
           r == ctx[c].render
           x == [ctx[c] EXCEPT !.holder = t]
           list == <<Clear(r)>>
           F == {}
<1>1. /\ th[t].todo = <<>> /\ th[t].pc = "renderLock" /\ Goto(t, "unlock", list)
      /\ ctx[c].holder = NULL /\ ctx[c].picture = "building" /\ c \in VideoProc
      /\ ctx' = [ctx EXCEPT ![c].holder = t]
      /\ UNCHANGED <<surf, queue, closed, wk, unsafe, bad>>
  BY DEF RenderNothing, RendersCopy, Renders, Locks, At, jobs
<1>2. th[t].pc \in Locking
  BY <1>1 DEF Locking
<1>3. /\ c \in Contexts /\ ctx[c] \in ContextRecord /\ ctx[c].life = "live"
      /\ Picture(c, ctx[c], surf, bad) /\ ctx \in [Contexts -> ContextRecord]
      /\ Objects(th[t], ctx[c], surf)
  BY <1>2, CallContext, CallTypes DEF Inv, CallsOK, CallOK
<1>4. /\ x \in ContextRecord /\ x.holder = t /\ x.life = "live" /\ x.picture = "building"
      /\ x.render = r /\ x.display = ctx[c].display
      /\ ctx' = [ctx EXCEPT ![c] = x]
  BY <1>1, <1>3 DEF ContextRecord
<1>5. r # NULL /\ r \in Surfaces /\ r \in OpenOf(ctx[c])
  BY <1>1, <1>3 DEF Picture, ContextRecord, OpenOf
<1>6. /\ list \in Seq(Section) /\ Only(list, {"clear", "fail"})
      /\ \A s : InList(list, s) <=> s = r
  BY <1>5, SingleList
<1> HIDE DEF x, list
<1>7. t # NULL
  BY PipelineAssumption
<1>8. Picture(c, x, surf, bad)
  BY <1>3, <1>4, <1>7, HeldPicture
<1>9. th[t].job.surface = NULL
  BY <1>1, <1>3 DEF Objects, EndPC
<1>10. OpenOf(x) = OpenOf(ctx[c])
  BY <1>4 DEF OpenOf
<1>11. ErrorPath(list, OpenOf(ctx[c]), {})
  BY <1>5, <1>6 DEF ErrorPath
<1>12. bad' = bad \cup F /\ bad \cup F = bad /\ F \in SUBSET OpenOf(ctx[c]) /\ F = {}
  BY <1>1
<1>13. "unlock" \in Holding /\ unsafe' \in BOOLEAN
  BY <1>1, CallTypes DEF Holding
<1> HIDE DEF c, F
<1>14. c = th[t].c /\ ctx[c].render = r
  BY DEF c
<1> HIDE DEF r
<1> DEFINE pc == "unlock"
<1>15. pc = "unlock" /\ pc \in Holding /\ Goto(t, pc, list)
  BY <1>1, <1>13
<1> HIDE DEF pc
<1>h. /\ F \in SUBSET OpenOf(ctx[th[t].c]) /\ ctx[th[t].c].holder \in {t, NULL}
      /\ ctx' = [ctx EXCEPT ![th[t].c] = x] /\ ctx[th[t].c].picture # "submitted"
      /\ x.render = ctx[th[t].c].render /\ x.display = ctx[th[t].c].display
      /\ Picture(th[t].c, x, surf, bad \cup F)
      /\ ErrorPath(list, OpenOf(ctx[th[t].c]), F)
      /\ x.render # NULL /\ (th[t].c \notin VideoProc => x.picture = "failed")
  BY <1>1, <1>4, <1>5, <1>8, <1>11, <1>12, <1>14
<1> QED
  BY <1>1, <1>2, <1>4, <1>6, <1>9, <1>12, <1>13, <1>15, <1>h, HoldStep

\* The picture ends without a job.
LEMMA EndWithStep ==
    ASSUME Inv, NEW t \in Threads, NEW todo \in Seq(Section),
           NEW F \in SUBSET OpenOf(ctx[th[t].c]), EndWith(t, todo, F),
           th[t].pc \in {"endLock", "endJob", "endPush"}, th[t].todo = <<>>,
           ctx[th[t].c].holder \in {t, NULL}, ctx[th[t].c].picture \in {"building", "failed"},
           ErrorPath(todo, OpenOf(ctx[th[t].c]), F), Covers(todo, OpenOf(ctx[th[t].c]))
    PROVE  Inv'
<1> DEFINE c == th[t].c
           x == [ctx[c] EXCEPT !.holder = t]
<1>1. th[t].pc \in Locking \cup Holding
  BY DEF Locking, Holding
<1>2. /\ c \in Contexts /\ ctx[c] \in ContextRecord /\ ctx[c].life = "live"
      /\ Picture(c, ctx[c], surf, bad) /\ ctx \in [Contexts -> ContextRecord]
  BY <1>1, CallContext, CallTypes
<1>3. /\ Goto(t, "endReset", todo) /\ UNCHANGED <<surf, queue, closed, wk, unsafe>>
      /\ bad' = bad \cup F /\ ctx' = [ctx EXCEPT ![c].holder = t]
  BY DEF EndWith, jobs
<1>4. /\ x \in ContextRecord /\ x.holder = t /\ x.life = "live" /\ x.picture = ctx[c].picture
      /\ x.render = ctx[c].render /\ x.display = ctx[c].display
      /\ ctx' = [ctx EXCEPT ![c] = x]
  BY <1>2, <1>3 DEF ContextRecord
<1> HIDE DEF x
<1>5. t # NULL
  BY PipelineAssumption
<1>6. Picture(c, x, surf, bad \cup F)
  BY <1>2, <1>4, <1>5, HeldPicture
<1>7. unsafe' \in BOOLEAN
  BY <1>3, CallTypes
<1> DEFINE pc == "endReset"
<1>8. pc = "endReset" /\ pc \in Holding /\ Goto(t, pc, todo)
  BY <1>3 DEF Holding
<1> HIDE DEF pc
<1>9. /\ ctx' = [ctx EXCEPT ![th[t].c] = x] /\ ctx[th[t].c].picture # "submitted"
      /\ x.render = ctx[th[t].c].render /\ x.display = ctx[th[t].c].display
      /\ x.picture \in {"building", "failed"}
      /\ Picture(th[t].c, x, surf, bad \cup F)
  BY <1>4, <1>6
<1>10. UNCHANGED <<surf, queue, closed, wk>> /\ bad' = bad \cup F
  BY <1>3
<1>11. x \in ContextRecord /\ x.holder = t /\ x.life = "live"
  BY <1>4
<1> HIDE DEF c
<1> QED
  BY <1>1, <1>7, <1>8, <1>9, <1>10, <1>11, HoldStep

\* The error paths of nvEndPicture, put together.
LEMMA ErrorPaths ==
    ASSUME NEW c \in Contexts, ctx[c] \in ContextRecord, NEW a \in Seq(Section),
           Only(a, {"clear", "fail"}), \A s \in Surfaces : InList(a, s) => s \in OpenOf(ctx[c])
    PROVE  /\ a \o FailTargets(c) \in Seq(Section)
           /\ ErrorPath(a \o FailTargets(c), OpenOf(ctx[c]), OpenOf(ctx[c]))
           /\ Covers(a \o FailTargets(c), OpenOf(ctx[c]))
<1> DEFINE b == FailTargets(c)
<1>1. /\ b \in Seq(Section) /\ Only(b, {"clear", "fail"})
      /\ \A s : InList(b, s) <=> s \in OpenOf(ctx[c])
      /\ \A s : Has(b, s, "fail") <=> s \in OpenOf(ctx[c])
  BY TargetSections
<1> HIDE DEF b
<1>2. /\ a \o b \in Seq(Section)
      /\ \A s, op : Has(a \o b, s, op) <=> Has(a, s, op) \/ Has(b, s, op)
      /\ \A s : InList(a \o b, s) <=> InList(a, s) \/ InList(b, s)
      /\ \A ops : Only(a \o b, ops) <=> Only(a, ops) /\ Only(b, ops)
  BY <1>1, ConcatList
<1>3. a \o b \in Seq(Section) /\ ErrorPath(a \o b, OpenOf(ctx[c]), OpenOf(ctx[c]))
      /\ Covers(a \o b, OpenOf(ctx[c]))
  BY <1>1, <1>2 DEF ErrorPath, Covers
<1> QED
  BY <1>3 DEF b

\* An error path that fails every target of the picture.
LEMMA EndFailures ==
    ASSUME Inv, NEW t \in Threads,
           \/ EndFailed(t) \/ EndReject(t) \/ EndNoCuda(t) \/ EndNoJob(t) \/ EndRefused(t)
           \/ EndUnsafe(t) /\ th[t].c \notin VideoProc
    PROVE  Inv'
<1> DEFINE c == th[t].c
           O == OpenOf(ctx[c])
           r == ctx[c].render
           o == OutputOf(ctx[c])
<1>1. /\ th[t].pc \in {"endLock", "endJob", "endPush"} /\ th[t].todo = <<>>
      /\ th[t].pc = "endLock" => ctx[c].holder = NULL /\ ctx[c].picture \in {"building", "failed"}
  BY DEF EndFailed, EndReject, EndNoCuda, EndNoJob, EndRefused, EndUnsafe, EndsDecode, Ends, Locks, At
<1>2. th[t].pc \in Locking \cup Holding
  BY <1>1 DEF Locking, Holding
<1>3. /\ c \in Contexts /\ ctx[c] \in ContextRecord /\ c = th[t].c
      /\ Picture(c, ctx[c], surf, bad)
      /\ th[t].pc \in Holding => ctx[c].holder = t /\ Stage(c, th[t], ctx[c], surf, bad)
  BY <1>2, CallContext
<1>4. /\ ctx[c].holder \in {t, NULL} /\ ctx[c].picture \in {"building", "failed"} /\ r # NULL
      /\ th[t].pc # "endLock" => th[t].job.surface = o
  <2>1. CASE th[t].pc = "endLock"
    BY <1>1, <1>3, <2>1 DEF Picture
  <2>2. CASE th[t].pc # "endLock"
    <3>1. th[t].pc \in Holding
      BY <1>1, <2>2 DEF Holding
    <3>2. EndStage(th[t], ctx[c], surf, bad)
      BY <1>3, <3>1 DEF Stage
    <3> QED
      BY <1>1, <1>3, <2>2, <3>1, <3>2 DEF EndStage
  <2> QED
    BY <2>1, <2>2
<1>5. /\ r \in Surfaces /\ o \in Surfaces /\ r \in O /\ o \in O /\ O \subseteq Surfaces
      /\ Output(c) = o /\ Open(c) = O
  BY <1>3, <1>4 DEF ContextRecord, OpenOf, OutputOf, Output, Open
<1>6. /\ FailTargets(c) \in Seq(Section) /\ Only(FailTargets(c), {"clear", "fail"})
      /\ \A s : InList(FailTargets(c), s) <=> s \in O
      /\ \A s : Has(FailTargets(c), s, "fail") <=> s \in O
      /\ ClearTargets(c) \in Seq(Section) /\ Only(ClearTargets(c), {"clear", "fail"})
      /\ \A s : InList(ClearTargets(c), s) <=> s \in O
  BY <1>3, TargetSections
<1>7. PICK a \in {FailTargets(c), ClearTargets(c), <<Clear(o)>>, <<Fail(o)>>, <<Fail(r)>>} :
        \/ EndWith(t, a \o FailTargets(c), O)
        \/ EndWith(t, FailTargets(c), O)
  <2>1. CASE EndFailed(t)
    BY <1>5, <2>1 DEF EndFailed
  <2>2. CASE EndReject(t)
    BY <1>5, <2>2 DEF EndReject
  <2>3. CASE EndNoCuda(t)
    BY <1>5, <2>3 DEF EndNoCuda
  <2>4. CASE EndNoJob(t)
    BY <1>5, <2>4 DEF EndNoJob
  <2>5. CASE EndRefused(t)
    <3>1. th[t].job.surface = o
      BY <1>4, <2>5 DEF EndRefused, At
    <3> QED
      BY <1>5, <2>5, <3>1 DEF EndRefused
  <2>6. CASE EndUnsafe(t) /\ th[t].c \notin VideoProc
    BY <1>5, <2>6 DEF EndUnsafe
  <2> QED
    BY <2>1, <2>2, <2>3, <2>4, <2>5, <2>6
<1>8. /\ a \in Seq(Section) /\ Only(a, {"clear", "fail"})
      /\ \A s \in Surfaces : InList(a, s) => s \in O
  <2>1. /\ <<Clear(o)>> \in Seq(Section) /\ Only(<<Clear(o)>>, {"clear", "fail"})
        /\ \A s : InList(<<Clear(o)>>, s) <=> s = o
        /\ <<Fail(o)>> \in Seq(Section) /\ Only(<<Fail(o)>>, {"clear", "fail"})
        /\ \A s : InList(<<Fail(o)>>, s) <=> s = o
    BY <1>5, SingleList
  <2>2. /\ <<Fail(r)>> \in Seq(Section) /\ Only(<<Fail(r)>>, {"clear", "fail"})
        /\ \A s : InList(<<Fail(r)>>, s) <=> s = r
    BY <1>5, SingleList
  <2> QED
    BY <1>5, <1>6, <1>7, <2>1, <2>2
<1>9. /\ FailTargets(c) \in Seq(Section) /\ ErrorPath(FailTargets(c), O, O)
      /\ Covers(FailTargets(c), O)
  BY <1>6 DEF ErrorPath, Covers
<1>10. /\ a \o FailTargets(c) \in Seq(Section) /\ ErrorPath(a \o FailTargets(c), O, O)
       /\ Covers(a \o FailTargets(c), O)
  BY <1>3, <1>8, ErrorPaths
<1> HIDE DEF c, O
<1>11. PICK l \in {a \o FailTargets(c), FailTargets(c)} : EndWith(t, l, O)
  BY <1>7
<1>12. l \in Seq(Section) /\ ErrorPath(l, O, O) /\ Covers(l, O)
  BY <1>9, <1>10, <1>11
<1>13. O = OpenOf(ctx[th[t].c])
  BY DEF O, c
<1>14. PICK G \in SUBSET OpenOf(ctx[th[t].c]) : G = O
  BY <1>13
<1>15. EndWith(t, l, G) /\ ErrorPath(l, OpenOf(ctx[th[t].c]), G)
       /\ Covers(l, OpenOf(ctx[th[t].c])) /\ l \in Seq(Section)
  BY <1>11, <1>12, <1>13, <1>14 DEF EndWith
<1>16. ctx[th[t].c].holder \in {t, NULL} /\ ctx[th[t].c].picture \in {"building", "failed"}
  BY <1>3, <1>4
<1> QED
  BY <1>1, <1>15, <1>16, EndWithStep

\* A VideoProc picture ends.
LEMMA EndCopies ==
    ASSUME Inv, NEW t \in Threads, EndVideoProc(t) \/ (EndUnsafe(t) /\ th[t].c \in VideoProc)
    PROVE  Inv'
<1> DEFINE c == th[t].c
           O == OpenOf(ctx[c])
           r == ctx[c].render
<1>1. /\ th[t].pc = "endLock" /\ th[t].todo = <<>>
      /\ ctx[c].holder = NULL /\ ctx[c].picture = "building" /\ c \in VideoProc
  BY DEF EndVideoProc, EndUnsafe, Ends, Locks, At
<1>2. th[t].pc \in Locking \cup Holding
  BY <1>1 DEF Locking
<1>3. /\ c \in Contexts /\ ctx[c] \in ContextRecord /\ c = th[t].c
      /\ Picture(c, ctx[c], surf, bad)
  BY <1>2, CallContext
<1>4. r # NULL /\ ctx[c].display = NULL
  BY <1>1, <1>3 DEF Picture
<1>5. r \in Surfaces /\ O = {r} /\ Open(c) = O
  BY <1>3, <1>4 DEF ContextRecord, OpenOf, Open
<1>6. /\ <<Clear(r)>> \in Seq(Section) /\ <<Fail(r)>> \in Seq(Section)
      /\ ErrorPath(<<Clear(r)>>, O, {}) /\ Covers(<<Clear(r)>>, O)
      /\ ErrorPath(<<Fail(r)>>, O, O) /\ Covers(<<Fail(r)>>, O)
  BY <1>5, SingleList DEF ErrorPath, Covers
<1>7. CASE EndVideoProc(t)
  <2>1. EndWith(t, <<Clear(r)>>, {})
    BY <1>7 DEF EndVideoProc
  <2>2. PICK l \in Seq(Section) : l = <<Clear(r)>>
    BY <1>6
  <2>3. EndWith(t, l, {}) /\ ErrorPath(l, O, {}) /\ Covers(l, O)
    BY <1>6, <2>1, <2>2
  <2> DEFINE F == {}
  <2>4. F \in SUBSET OpenOf(ctx[th[t].c]) /\ EndWith(t, l, F)
        /\ ErrorPath(l, OpenOf(ctx[th[t].c]), F) /\ Covers(l, OpenOf(ctx[th[t].c]))
    BY <2>3
  <2> HIDE DEF F
  <2> QED
    BY <1>1, <2>2, <2>4, EndWithStep
<1>8. CASE EndUnsafe(t)
  <2>1. EndWith(t, <<Fail(r)>>, O)
    <3>1. EndWith(t, <<Fail(r)>> \o <<>>, O)
      BY <1>1, <1>5, <1>8 DEF EndUnsafe
    <3>2. <<Fail(r)>> \o <<>> = <<Fail(r)>>
      BY <1>6
    <3> QED
      BY <3>1, <3>2
  <2>2. PICK l \in Seq(Section) : l = <<Fail(r)>>
    BY <1>6
  <2>3. PICK G \in SUBSET OpenOf(ctx[th[t].c]) : G = O
    OBVIOUS
  <2>4. EndWith(t, l, G) /\ ErrorPath(l, OpenOf(ctx[th[t].c]), G)
        /\ Covers(l, OpenOf(ctx[th[t].c]))
    BY <1>6, <2>1, <2>2, <2>3 DEF EndWith
  <2> QED
    BY <1>1, <2>2, <2>4, EndWithStep
<1> QED
  BY <1>7, <1>8

LEMMA CopyStartInv ==
    ASSUME Inv, Rules = AllRules, NEW t \in Threads, NEW src \in Surfaces, CopyStart(t, src)
    PROVE  Inv'
<1> DEFINE c == th[t].c
           x == [ctx[c] EXCEPT !.holder = t]
           p == [th[t] EXCEPT !.pc = "copyWait", !.s = src]
           F == {}
<1>1. /\ th[t].todo = <<>> /\ th[t].pc = "renderLock"
      /\ ctx[c].holder = NULL /\ ctx[c].picture = "building" /\ c \in VideoProc
      /\ ctx' = [ctx EXCEPT ![c].holder = t]
      /\ th' = [th EXCEPT ![t].pc = "copyWait", ![t].s = src]
      /\ UNCHANGED <<surf, queue, closed, wk, readers, writer, unsafe, bad>>
      /\ surf[src].life = "live" /\ ~Busy(src)
  BY DEF CopyStart, RendersCopy, Renders, Locks, At, jobs, locks, Abides, AllRules
<1>2. th[t].pc \in Locking
  BY <1>1 DEF Locking
<1>3. /\ c \in Contexts /\ ctx[c] \in ContextRecord /\ ctx[c].life = "live" /\ c # NULL
      /\ Picture(c, ctx[c], surf, bad) /\ ctx \in [Contexts -> ContextRecord]
      /\ Objects(th[t], ctx[c], surf) /\ th \in [Threads -> CallRecord] /\ th[t] \in CallRecord
  BY <1>2, CallContext, CallTypes DEF Inv, CallsOK, CallOK
<1>4. /\ x \in ContextRecord /\ x.holder = t /\ x.life = "live" /\ x.picture = "building"
      /\ x.render = ctx[c].render /\ x.display = ctx[c].display
      /\ ctx' = [ctx EXCEPT ![c] = x]
  BY <1>1, <1>3 DEF ContextRecord
<1>5. /\ p \in CallRecord /\ p.pc = "copyWait" /\ p.c = c /\ p.s = src /\ p.job = th[t].job
      /\ p.todo = <<>> /\ th' = [th EXCEPT ![t] = p]
  BY <1>1, <1>3 DEF CallRecord, ThreadPC
<1>6. ctx[c].render # NULL
  BY <1>1, <1>3 DEF Picture
<1> HIDE DEF x, p
<1>7. t # NULL /\ src # NULL
  BY PipelineAssumption
<1>8. Picture(c, x, surf, bad)
  BY <1>3, <1>4, <1>7, HeldPicture
<1>9. th[t].job.surface = NULL
  BY <1>1, <1>3 DEF Objects, EndPC
<1>10. OpenOf(x) = OpenOf(ctx[c])
  BY <1>4 DEF OpenOf
<1>11. /\ \A e \in Contexts : src \notin OpenOf(ctx[e])
       /\ \A u \in Threads : th[u].pc \in BeginPC => th[u].s # src
  BY <1>1, NotBusy
<1>12. Objects(p, x, surf')
  BY <1>1, <1>3, <1>4, <1>5, <1>7, <1>9 DEF Objects, Locking, Holding, Exclusive, ReadyPC, EndPC
<1>13. Stage(c, p, x, surf', bad')
  BY <1>1, <1>4, <1>5, <1>6 DEF Stage, EndStage, EndPC
<1>14. StepCall(t, c, p, x)
  BY <1>3, <1>5, <1>10, <1>11, <1>12, <1>13 DEF StepCall, BeginPC
<1>15. bad' = bad \cup F /\ bad \cup F = bad /\ F \in SUBSET OpenOf(ctx[c]) /\ F = {}
  BY <1>1
<1>16. t \in readers /\ writer = NULL /\ unsafe' \in BOOLEAN
  BY <1>1, CallLocks, CallTypes DEF Exclusive
<1>17. p.pc \in Holding /\ p.pc \notin Exclusive /\ p.pc # "idle"
  BY <1>5 DEF Holding, Exclusive
<1>18. /\ readers' = (IF p.pc = "idle" THEN readers \ {t} ELSE readers \cup {t})
       /\ writer' = NULL /\ x.holder = (IF p.pc \in Holding THEN t ELSE NULL)
       /\ x.life = ctx[c].life /\ p.c \in {c, NULL}
  BY <1>1, <1>3, <1>4, <1>5, <1>16, <1>17
<1> HIDE DEF F, c
<1>19. c = th[t].c
  BY DEF c
<1>20. /\ Picture(c, x, surf, bad \cup F) /\ ctx[c].picture # "submitted"
       /\ OpenOf(x) \ OpenOf(ctx[c]) = {} /\ OpenOf(ctx[c]) \ OpenOf(x) = {}
       /\ \A s \in OpenOf(ctx[c]) : s \in OpenOf(x) /\ x.picture # "submitted"
  BY <1>1, <1>4, <1>8, <1>10, <1>15
<1>22. UNCHANGED <<surf, queue, closed, wk>> /\ ctx[c].holder \in {t, NULL}
       /\ ctx' = [ctx EXCEPT ![c] = x] /\ th' = [th EXCEPT ![t] = p] /\ p.c = c
       /\ th[t].todo = <<>> /\ th[t].pc \in Locking
  BY <1>1, <1>2, <1>4, <1>5
<1>23. c \in Contexts /\ p \in CallRecord /\ x \in ContextRecord
  BY <1>3, <1>4, <1>5
<1> QED
  BY <1>14, <1>15, <1>16, <1>17, <1>18, <1>19, <1>20, <1>22, <1>23, OwnStep

LEMMA EndDecodeInv ==
    ASSUME Inv, NEW t \in Threads, NEW ok \in BOOLEAN, EndDecode(t, ok)
    PROVE  Inv'
<1> DEFINE c == th[t].c
           x == [ctx[c] EXCEPT !.holder = t]
           r == ctx[c].render
           o == OutputOf(ctx[c])
           j == [surface |-> o, generation |-> 0, ok |-> ok]
           todo == IF o = r THEN <<>> ELSE <<Mark(o), Clear(r)>>
           p == [th[t] EXCEPT !.pc = "endJob", !.job = j, !.todo = todo]
           F == {}
<1>1. /\ th[t].todo = <<>> /\ th[t].pc = "endLock"
      /\ ctx[c].holder = NULL /\ ctx[c].picture = "building" /\ c \notin VideoProc
      /\ ctx' = [ctx EXCEPT ![c].holder = t]
      /\ th' = [th EXCEPT ![t].pc = "endJob", ![t].job = j, ![t].todo = todo]
      /\ UNCHANGED <<surf, queue, closed, wk, readers, writer, unsafe, bad>>
  BY DEF EndDecode, EndsDecode, Ends, Locks, At, jobs, locks, Output, OutputOf
<1>2. th[t].pc \in Locking
  BY <1>1 DEF Locking
<1>3. /\ c \in Contexts /\ ctx[c] \in ContextRecord /\ ctx[c].life = "live" /\ c # NULL
      /\ Picture(c, ctx[c], surf, bad) /\ ctx \in [Contexts -> ContextRecord]
      /\ Objects(th[t], ctx[c], surf) /\ th \in [Threads -> CallRecord] /\ th[t] \in CallRecord
  BY <1>2, CallContext, CallTypes DEF Inv, CallsOK, CallOK
<1>4. /\ x \in ContextRecord /\ x.holder = t /\ x.life = "live" /\ x.picture = "building"
      /\ x.render = r /\ x.display = ctx[c].display
      /\ ctx' = [ctx EXCEPT ![c] = x]
  BY <1>1, <1>3 DEF ContextRecord
<1>5. r # NULL /\ surf[r].resolving /\ r \notin bad
  BY <1>1, <1>3 DEF Picture
<1>6. r \in Surfaces /\ o \in Surfaces
  BY <1>3, <1>5 DEF ContextRecord, OutputOf
<1>7. OutputOf(x) = o /\ OpenOf(x) = OpenOf(ctx[c])
  BY <1>4 DEF OutputOf, OpenOf
<1>8. j \in Job /\ j.surface = o
  BY <1>6 DEF Job
<1>9. todo \in Seq(Section)
  <2>1. Mark(o) \in Section /\ Clear(r) \in Section
    BY <1>6 DEF Mark, Clear, Section
  <2> QED
    BY <2>1
<1>10. /\ o = r => todo = <<>>
       /\ o # r => todo = <<Mark(o), Clear(r)>>
  OBVIOUS
<1> HIDE DEF x, j, todo, o
<1>11. /\ p \in CallRecord /\ p.pc = "endJob" /\ p.c = c /\ p.s = th[t].s /\ p.job = j
       /\ p.todo = todo /\ th' = [th EXCEPT ![t] = p]
  BY <1>1, <1>3, <1>8, <1>9 DEF CallRecord, ThreadPC
<1> HIDE DEF p, r
<1>12. t # NULL
  BY PipelineAssumption
<1>13. Picture(c, x, surf, bad)
  BY <1>3, <1>4, <1>12, HeldPicture DEF r
<1>14. Objects(p, x, surf')
  BY <1>1, <1>3, <1>4, <1>7, <1>8, <1>11
     DEF Objects, Locking, Holding, Exclusive, ReadyPC, EndPC, BeginPC, SourcePC
<1>15. EndStage(p, x, surf', bad')
  <2>1. CASE o = r
    BY <1>1, <1>4, <1>5, <1>7, <1>8, <1>10, <1>11, <2>1 DEF EndStage
  <2>2. CASE o # r
    BY <1>1, <1>4, <1>5, <1>7, <1>8, <1>10, <1>11, <2>2 DEF EndStage
  <2> QED
    BY <2>1, <2>2
<1>16. Stage(c, p, x, surf', bad')
  BY <1>1, <1>11, <1>15 DEF Stage
<1>17. StepCall(t, c, p, x)
  BY <1>11, <1>14, <1>16 DEF StepCall, BeginPC, SourcePC
<1>18. bad' = bad \cup F /\ bad \cup F = bad /\ F \in SUBSET OpenOf(ctx[c]) /\ F = {}
  BY <1>1
<1>19. t \in readers /\ writer = NULL /\ unsafe' \in BOOLEAN
  BY <1>1, CallLocks, CallTypes DEF Exclusive
<1>20. p.pc \in Holding /\ p.pc \notin Exclusive /\ p.pc # "idle"
  BY <1>11 DEF Holding, Exclusive
<1>21. /\ readers' = (IF p.pc = "idle" THEN readers \ {t} ELSE readers \cup {t})
       /\ writer' = NULL /\ x.holder = (IF p.pc \in Holding THEN t ELSE NULL)
       /\ x.life = ctx[c].life /\ p.c \in {c, NULL}
  BY <1>1, <1>3, <1>4, <1>11, <1>19, <1>20
<1> HIDE DEF F, c
<1>22. c = th[t].c
  BY DEF c
<1>23. /\ Picture(c, x, surf, bad \cup F) /\ ctx[c].picture # "submitted"
       /\ OpenOf(x) \ OpenOf(ctx[c]) = {} /\ OpenOf(ctx[c]) \ OpenOf(x) = {}
       /\ \A s \in OpenOf(ctx[c]) : s \in OpenOf(x) /\ x.picture # "submitted"
  BY <1>1, <1>4, <1>7, <1>13, <1>18
<1>24. UNCHANGED <<surf, queue, closed, wk>> /\ ctx[c].holder \in {t, NULL}
       /\ ctx' = [ctx EXCEPT ![c] = x] /\ th' = [th EXCEPT ![t] = p] /\ p.c = c
       /\ th[t].todo = <<>> /\ th[t].pc \in Locking
  BY <1>1, <1>2, <1>4, <1>11
<1>25. c \in Contexts /\ p \in CallRecord /\ x \in ContextRecord
  BY <1>3, <1>4, <1>11
<1> QED
  BY <1>17, <1>18, <1>19, <1>20, <1>21, <1>22, <1>23, <1>24, <1>25, OwnStep

-----------------------------------------------------------------------------
(* Critical sections on the targets of a picture.                          *)

\* What is done with the first section of a list, and what is left.
LEMMA TailList ==
    ASSUME NEW l \in Seq(Section), l # <<>>
    PROVE  /\ Head(l) \in Section /\ Tail(l) \in Seq(Section)
           /\ \A s, op : Has(l, s, op) <=>
                (Head(l).s = s /\ Head(l).op = op) \/ Has(Tail(l), s, op)
           /\ \A s : InList(l, s) <=> Head(l).s = s \/ InList(Tail(l), s)
           /\ \A ops : Only(l, ops) => Head(l).op \in ops /\ Only(Tail(l), ops)
           /\ Once(l) => Once(Tail(l)) /\ ~InList(Tail(l), Head(l).s)
<1> DEFINE h == Head(l)  m == Tail(l)
<1>1. /\ h \in Section /\ m \in Seq(Section) /\ Len(l) \in Nat /\ Len(l) > 0
      /\ Len(m) = Len(l) - 1 /\ h = l[1] /\ \A i \in 1 .. Len(m) : m[i] = l[i + 1]
  OBVIOUS
<1> HIDE DEF h, m
<1>2. /\ 1 \in 1 .. Len(l)
      /\ \A i \in 1 .. Len(m) : i + 1 \in 1 .. Len(l) /\ i + 1 # 1
      /\ \A i \in 1 .. Len(l) : i # 1 => i - 1 \in 1 .. Len(m) /\ m[i - 1] = l[i]
  BY <1>1
<1>3. \A i \in 1 .. Len(l) : l[i] = h \/ \E j \in 1 .. Len(m) : l[i] = m[j]
  BY <1>1, <1>2
<1>4. \A j \in 1 .. Len(m) : \E i \in 1 .. Len(l) : l[i] = m[j]
  BY <1>1, <1>2
<1>5. \E i \in 1 .. Len(l) : l[i] = h
  BY <1>1, <1>2
<1>6. \A s, op : Has(l, s, op) <=> (h.s = s /\ h.op = op) \/ Has(m, s, op)
  BY <1>3, <1>4, <1>5 DEF Has
<1>7. \A s : InList(l, s) <=> h.s = s \/ InList(m, s)
  BY <1>3, <1>4, <1>5 DEF InList
<1>8. \A ops : Only(l, ops) => h.op \in ops /\ Only(m, ops)
  BY <1>4, <1>5 DEF Only
<1>9. ASSUME Once(l)
      PROVE  Once(m) /\ ~InList(m, h.s)
  <2>1. ASSUME NEW i \in 1 .. Len(m), NEW j \in 1 .. Len(m), m[i].s = m[j].s
        PROVE  i = j
    <3>1. i + 1 = j + 1
      BY <1>1, <1>2, <1>9, <2>1 DEF Once
    <3> QED
      BY <3>1
  <2>2. ASSUME NEW i \in 1 .. Len(m), m[i].s = h.s
        PROVE  FALSE
    <3>1. i + 1 = 1
      BY <1>1, <1>2, <1>9, <2>2 DEF Once
    <3> QED
      BY <3>1
  <2> QED
    BY <2>1, <2>2 DEF Once, InList
<1> QED
  BY <1>1, <1>6, <1>7, <1>8, <1>9 DEF h, m

\* The call t works on the target u of its picture.
LEMMA SettleStep ==
    ASSUME Inv, NEW t \in Threads, NEW p \in CallRecord, NEW u \in OpenOf(ctx[th[t].c]),
           NEW r \in SurfaceRecord, th[t].pc \in Holding, ctx[th[t].c].picture # "submitted",
           th' = [th EXCEPT ![t] = p], surf' = [surf EXCEPT ![u] = r], r.life = "live",
           UNCHANGED <<ctx, queue, closed, wk, readers, writer>>, unsafe' \in BOOLEAN,
           bad' \subseteq Surfaces, \A s \in Surfaces \ {u} : s \in bad' <=> s \in bad,
           p.pc \in Holding, p.pc \notin BeginPC \cup SourcePC, p.c = th[t].c,
           Objects(p, ctx[th[t].c], surf'), Stage(th[t].c, p, ctx[th[t].c], surf', bad'),
           \A s \in bad' : Answered(t, p, s)
    PROVE  Inv'
<1> DEFINE c == th[t].c
           x == ctx[c]
<1>1. /\ c \in Contexts /\ x \in ContextRecord /\ x.life = "live" /\ c # NULL
      /\ Picture(c, x, surf, bad) /\ x.holder = t
      /\ OpenOf(x) \subseteq Surfaces /\ c = th[t].c /\ x = ctx[c]
  BY CallContext
<1>2. /\ th \in [Threads -> CallRecord] /\ ctx \in [Contexts -> ContextRecord]
      /\ surf \in [Surfaces -> SurfaceRecord] /\ bad \subseteq Surfaces
      /\ NULL \notin Threads
  BY CallTypes, PipelineAssumption
<1>3. t \in readers /\ writer = NULL
  BY CallLocks DEF Holding, Exclusive
<1>4. surf[u].life = "live" /\ u \in Surfaces
  BY <1>1 DEF Picture
<1>5. /\ surf'[u] = r /\ \A s \in Surfaces \ {u} : Same(s)
      /\ \A s \in Surfaces : surf'[s].life = surf[s].life
  BY <1>2, <1>4 DEF Same
<1>6. surf' \in [Surfaces -> SurfaceRecord] /\ ctx' = [ctx EXCEPT ![c] = x]
  BY <1>1, <1>2, <1>4
<1> HIDE DEF c, x
<1>7. th[t].pc \notin Exclusive /\ p.pc \notin Exclusive /\ p.pc # "idle" /\ th[t].pc # "exportSet"
  BY DEF Holding, Exclusive
<1>8. StepShape(t, c, p, x)
  <2>1. readers' = (IF p.pc = "idle" THEN readers \ {t} ELSE readers \cup {t}) /\ writer' = NULL
    BY <1>3, <1>7
  <2>2. p \in CallRecord /\ x \in ContextRecord /\ th' = [th EXCEPT ![t] = p]
        /\ th[t].c \in {c, NULL} /\ p.c \in {c, NULL}
    BY <1>1
  <2> QED
    BY <1>3, <1>6, <1>7, <2>1, <2>2 DEF StepShape
<1>9. StepPicture(t, c, p, x)
  <2>1. Picture(c, x, surf', bad')
    BY <1>1, <1>2, <1>5 DEF Picture
  <2>2. \A s \in OpenOf(x) : InFrames(s) => x.picture = "submitted"
    BY <1>1, TargetFacts
  <2> QED
    BY <1>1, <2>1, <2>2 DEF StepPicture
<1>10. StepCall(t, c, p, x)
  BY <1>1 DEF StepCall
<1>11. StepSurfaces(t, c, p, x)
  <2>1. \A s \in Surfaces : ~Mine(t, c, s) => Same(s)
    BY <1>1, <1>5 DEF Mine
  <2>2. ASSUME NEW s \in Surfaces, Mine(t, c, s) \/ s \in OpenOf(ctx[c]), surf'[s].resolving
        PROVE  s \in OpenOf(x) /\ x.picture # "submitted"
    <3>1. CASE s \in OpenOf(ctx[c])
      BY <1>1, <3>1
    <3>2. CASE s \notin OpenOf(ctx[c])
      <4>1. s = th[t].s /\ th[t].pc \in ReadyPC /\ s # u /\ Same(s)
        BY <1>1, <1>5, <2>2, <3>2 DEF Mine, ReadyPC
      <4>2. ~surf[s].resolving
        BY <4>1 DEF Inv, CallsOK, CallOK, Objects
      <4> QED
        BY <2>2, <4>1, <4>2 DEF Same
    <3> QED
      BY <3>1, <3>2
  <2> QED
    BY <1>1, <1>5, <1>7, <2>1, <2>2 DEF StepSurfaces
<1>12. c \in Contexts \cup {NULL}
  BY <1>1
<1> QED
  BY <1>8, <1>9, <1>10, <1>11, <1>12, ThreadStepInv DEF ThreadStep

\* The sections of a surface, and what they do to it.
LEMMA Sections ==
    ASSUME NEW o \in Section, o.op # "free", NEW r \in SurfaceRecord
    PROVE  /\ Apply(o, r) \in SurfaceRecord /\ Apply(o, r).life = r.life
           /\ Apply(o, r).exported = r.exported
           /\ o.op = "mark" => Apply(o, r).resolving
           /\ o.op # "mark" => ~Apply(o, r).resolving /\ Apply(o, r).submitted = r.submitted
           /\ o.op = "fail" => Apply(o, r).decodeFailed /\ Apply(o, r).status = "error"
           /\ o.op = "clear" /\ r.decodeFailed =>
                Apply(o, r).decodeFailed /\ Apply(o, r).status = "error"
<1>1. o.op = "mark" \/ o.op = "clear" \/ o.op = "fail"
  BY DEF Section
<1>2. CASE o.op = "mark"
  <2>1. Apply(o, r) = Marked(r)
    BY <1>2 DEF Apply
  <2>2. r.submitted + 1 \in Nat
    BY DEF SurfaceRecord
  <2>3. Apply(o, r) = [r EXCEPT !.submitted = r.submitted + 1, !.decodeFailed = FALSE,
                                !.status = "success", !.resolving = TRUE]
    BY <2>1 DEF Marked
  <2> DEFINE n == r.submitted + 1
  <2> HIDE DEF n
  <2>4. Apply(o, r) = [r EXCEPT !.submitted = n, !.decodeFailed = FALSE,
                                !.status = "success", !.resolving = TRUE] /\ n \in Nat
    BY <2>2, <2>3 DEF n
  <2> QED
    BY <1>2, <2>4 DEF SurfaceRecord
<1>3. CASE o.op = "clear"
  <2>1. Apply(o, r) = Cleared(r)
    BY <1>3 DEF Apply
  <2> QED
    BY <1>3, <2>1 DEF Cleared, SurfaceRecord
<1>4. CASE o.op = "fail"
  <2>1. Apply(o, r) = Failed(r)
    BY <1>4 DEF Apply
  <2> QED
    BY <1>4, <2>1 DEF Failed, SurfaceRecord
<1> QED
  BY <1>1, <1>2, <1>3, <1>4

\* A failure is answered when a section is done: it stays listed, or the section
\* reports it.
LEMMA SectionAnswered ==
    ASSUME Inv, NEW t \in Threads, NEW p, NEW o \in Section, o.op # "free",
           th[t].todo # <<>>, o = Head(th[t].todo), p.todo = Tail(th[t].todo),
           surf' = [surf EXCEPT ![o.s] = Apply(o, surf[o.s])],
           bad' = (IF o.op \in {"mark", "free"} THEN bad \ {o.s} ELSE bad)
    PROVE  \A s \in bad' : Answered(t, p, s)
<1>1. /\ surf \in [Surfaces -> SurfaceRecord] /\ bad \subseteq Surfaces
      /\ th[t].todo \in Seq(Section)
  BY CallTypes DEF CallRecord
<1>2. \A s, op : Has(th[t].todo, s, op) <=> (o.s = s /\ o.op = op) \/ Has(p.todo, s, op)
  BY <1>1, TailList
<1>3. o.s \in Surfaces /\ surf[o.s] \in SurfaceRecord
  BY <1>1 DEF Section
<1>4. surf'[o.s] = Apply(o, surf[o.s]) /\ \A s \in Surfaces \ {o.s} : surf'[s] = surf[s]
  BY <1>1, <1>3
<1>5. /\ o.op = "fail" => surf'[o.s].decodeFailed /\ surf'[o.s].status = "error"
      /\ o.op = "clear" /\ surf[o.s].decodeFailed =>
           surf'[o.s].decodeFailed /\ surf'[o.s].status = "error"
  BY <1>3, <1>4, Sections
<1> SUFFICES ASSUME NEW s \in bad'
             PROVE  Answered(t, p, s)
  OBVIOUS
<1>6. s \in bad /\ s \in Surfaces /\ (o.op = "mark" => s # o.s)
  BY <1>1
<1>7. CASE s # o.s
  BY <1>2, <1>4, <1>6, <1>7 DEF Answered, Same
<1>8. CASE s = o.s /\ o.op = "fail"
  BY <1>5, <1>8 DEF Answered
<1>9. CASE s = o.s /\ o.op = "clear"
  <2>1. Settling(s, "fail") \/ surf[s].decodeFailed
    BY <1>6 DEF Inv, SurfacesOK, FailureOK
  <2>2. CASE surf[s].decodeFailed
    BY <1>5, <1>9, <2>2 DEF Answered
  <2>3. CASE Settling(s, "fail")
    <3>1. Has(th[t].todo, s, "fail") \/ Elsewhere(t, s, "fail")
      BY <2>3 DEF Settling, Elsewhere
    <3>2. Has(th[t].todo, s, "fail") => Has(p.todo, s, "fail")
      BY <1>2, <1>9
    <3> QED
      BY <3>1, <3>2 DEF Answered
  <2> QED
    BY <2>1, <2>2, <2>3
<1> QED
  BY <1>6, <1>7, <1>8, <1>9 DEF Section

\* The next section of a call that holds pictureMutex.
LEMMA SurfaceStepHolding ==
    ASSUME Inv, NEW t \in Threads, SurfaceStep(t), th[t].pc \in Holding
    PROVE  Inv'
<1> DEFINE c == th[t].c
           x == ctx[c]
           l == th[t].todo
           o == Head(l)
           u == o.s
           r == Apply(o, surf[u])
           p == [th[t] EXCEPT !.todo = Tail(l)]
<1>1. /\ l # <<>> /\ surf' = [surf EXCEPT ![u] = r]
      /\ bad' = (IF o.op \in {"mark", "free"} THEN bad \ {u} ELSE bad)
      /\ th' = [th EXCEPT ![t].todo = Tail(l)]
      /\ UNCHANGED <<ctx, queue, closed, wk, readers, writer, unsafe>>
  BY DEF SurfaceStep, Applied, jobs, locks
<1>2. /\ c \in Contexts /\ x \in ContextRecord /\ x.life = "live" /\ c # NULL
      /\ x.holder = t /\ OpenOf(x) \subseteq Surfaces /\ Picture(c, x, surf, bad)
      /\ Stage(c, th[t], x, surf, bad) /\ Objects(th[t], x, surf)
  BY CallContext DEF Inv, CallsOK, CallOK
<1>3. /\ th \in [Threads -> CallRecord] /\ th[t] \in CallRecord /\ l \in Seq(Section)
      /\ surf \in [Surfaces -> SurfaceRecord] /\ bad \subseteq Surfaces /\ unsafe \in BOOLEAN
  BY CallTypes DEF CallRecord
<1>4. th[t].pc \in {"unlock", "endJob", "endReset"}
  BY <1>1, <1>2 DEF Objects, Holding, Exclusive
<1>5. /\ o \in Section /\ Tail(l) \in Seq(Section)
      /\ \A s : InList(l, s) <=> u = s \/ InList(Tail(l), s)
      /\ \A ops : Only(l, ops) => o.op \in ops /\ Only(Tail(l), ops)
  BY <1>1, <1>3, TailList
<1>6. /\ p \in CallRecord /\ p.pc = th[t].pc /\ p.c = c /\ p.s = th[t].s /\ p.job = th[t].job
      /\ p.todo = Tail(l) /\ th' = [th EXCEPT ![t] = p]
  BY <1>1, <1>3, <1>5 DEF CallRecord
<1>7. EndStage(th[t], x, surf, bad)
  BY <1>2 DEF Stage
<1>8. u \in Surfaces /\ surf[u] \in SurfaceRecord
  BY <1>3, <1>5 DEF Section
<1> HIDE DEF p, l
<1>9. u \in OpenOf(x) /\ o.op # "free"
  <2>1. CASE th[t].pc \in {"unlock", "endReset"}
    BY <1>2, <1>5, <1>8, <2>1 DEF Stage, l
  <2>2. CASE th[t].pc = "endJob"
    <3>1. x.render # NULL /\ OutputOf(x) \in OpenOf(x) /\ x.render \in OpenOf(x)
      BY <1>7, <2>2 DEF EndStage, OutputOf, OpenOf
    <3>2. o = Mark(OutputOf(x)) \/ o = Clear(x.render)
      BY <1>1, <1>7, <2>2 DEF EndStage, l
    <3> QED
      BY <3>1, <3>2 DEF Mark, Clear
  <2> QED
    BY <1>4, <2>1, <2>2
<1>10. x.picture # "submitted"
  <2>1. CASE th[t].pc = "unlock"
    BY <1>2, <2>1 DEF Stage
  <2>2. CASE th[t].pc \in {"endReset", "endJob"}
    BY <1>1, <1>7, <2>2 DEF EndStage, EndPC, l
  <2> QED
    BY <1>4, <2>1, <2>2
<1>11. /\ r \in SurfaceRecord /\ r.life = "live"
       /\ o.op = "mark" => r.resolving
       /\ o.op # "mark" => ~r.resolving
  BY <1>2, <1>5, <1>8, <1>9, Sections DEF Picture
<1>12. surf'[u] = r /\ \A s \in Surfaces \ {u} : surf'[s] = surf[s]
  BY <1>1, <1>3, <1>8
<1>13. bad' \subseteq Surfaces /\ \A s \in Surfaces \ {u} : s \in bad' <=> s \in bad
  BY <1>1, <1>3
<1>14. \A s \in bad' : Answered(t, p, s)
  BY <1>1, <1>5, <1>6, <1>9, SectionAnswered DEF l
<1>15. Objects(p, x, surf')
  <2>1. p.s # NULL => p.s \in Surfaces /\ surf'[p.s].life = surf[p.s].life
    BY <1>2, <1>3, <1>6, <1>8, <1>9, <1>11, <1>12 DEF CallRecord, Picture
  <2>2. p.pc \notin ReadyPC
    BY <1>4, <1>6 DEF ReadyPC
  <2> QED
    BY <1>2, <1>4, <1>6, <2>1, <2>2 DEF Objects, BeginPC, SourcePC
<1>16. EndStage(p, x, surf', bad')
  <2>1. CASE th[t].pc = "unlock"
    BY <1>6, <2>1 DEF EndStage, EndPC
  <2>2. CASE th[t].pc = "endReset"
    <3>1. ASSUME NEW s \in OpenOf(x), surf'[s].resolving
          PROVE  InList(p.todo, s)
      <4>1. o.op # "mark"
        BY <1>2, <1>5, <2>2 DEF Stage, l
      <4>2. s # u /\ s \in Surfaces /\ surf[s].resolving
        BY <1>2, <1>11, <1>12, <3>1, <4>1
      <4>3. InList(l, s)
        BY <1>7, <1>10, <2>2, <4>2 DEF EndStage, l
      <4> QED
        BY <1>5, <1>6, <4>2, <4>3
    <3> QED
      BY <1>6, <1>10, <2>2, <3>1 DEF EndStage
  <2>3. CASE th[t].pc = "endJob"
    <3>1. x.picture = "building" /\ x.render # NULL /\ th[t].job.surface = OutputOf(x)
      BY <1>7, <2>3 DEF EndStage
    <3>2. OutputOf(x) \in Surfaces /\ x.render \in Surfaces
      BY <1>2, <3>1 DEF OutputOf, ContextRecord
    <3>3. CASE l = <<Mark(OutputOf(x)), Clear(x.render)>> /\ OutputOf(x) # x.render
      <4>1. o = Mark(OutputOf(x)) /\ p.todo = <<Clear(x.render)>>
        BY <1>6, <3>3
      <4>2. surf'[OutputOf(x)].resolving /\ OutputOf(x) \notin bad'
        BY <1>1, <1>11, <1>12, <4>1 DEF Mark
      <4> QED
        BY <1>6, <2>3, <3>1, <3>3, <4>1, <4>2 DEF EndStage
    <3>4. CASE /\ l = <<Clear(x.render)>> /\ OutputOf(x) # x.render
               /\ surf[OutputOf(x)].resolving /\ OutputOf(x) \notin bad
      <4>1. o = Clear(x.render) /\ p.todo = <<>>
        BY <1>6, <3>4
      <4>2. u = x.render /\ o.op = "clear"
        BY <4>1 DEF Clear
      <4>3. surf'[OutputOf(x)].resolving /\ OutputOf(x) \notin bad' /\ ~surf'[x.render].resolving
        BY <1>11, <1>12, <1>13, <3>2, <3>4, <4>2
      <4> QED
        BY <1>6, <2>3, <3>1, <3>4, <4>1, <4>3 DEF EndStage
    <3> QED
      BY <1>1, <1>7, <2>3, <3>3, <3>4 DEF EndStage, l
  <2> QED
    BY <1>4, <2>1, <2>2, <2>3
<1>17. Stage(c, p, x, surf', bad')
  <2>1. th[t].pc \in {"unlock", "endReset"} =>
          /\ Only(p.todo, {"clear", "fail"})
          /\ \A s \in Surfaces : InList(p.todo, s) => s \in OpenOf(x)
    BY <1>2, <1>5, <1>6 DEF Stage, l
  <2> QED
    BY <1>2, <1>4, <1>6, <1>16, <2>1 DEF Stage
<1>18. p.pc \in Holding /\ p.pc \notin BeginPC \cup SourcePC
  BY <1>4, <1>6 DEF BeginPC, SourcePC
<1> HIDE DEF u, r, x, c
<1>19. /\ u \in OpenOf(ctx[th[t].c]) /\ ctx[th[t].c].picture # "submitted" /\ p.c = th[t].c
       /\ Objects(p, ctx[th[t].c], surf') /\ Stage(th[t].c, p, ctx[th[t].c], surf', bad')
  BY <1>6, <1>9, <1>10, <1>15, <1>17 DEF x, c
<1>20. /\ surf' = [surf EXCEPT ![u] = r] /\ th' = [th EXCEPT ![t] = p]
       /\ UNCHANGED <<ctx, queue, closed, wk, readers, writer>> /\ unsafe' \in BOOLEAN
       /\ p \in CallRecord /\ r \in SurfaceRecord /\ r.life = "live"
  BY <1>1, <1>3, <1>6, <1>11
<1> QED
  BY <1>13, <1>14, <1>18, <1>19, <1>20, SettleStep

LEMMA EndJobInv ==
    ASSUME Inv, NEW t \in Threads, EndJob(t)
    PROVE  Inv'
<1> DEFINE c == th[t].c
           x == ctx[c]
           job == th[t].job
           u == job.surface
           r == [surf[u] EXCEPT !.decodeFailed = ~job.ok]
           j == [job EXCEPT !.generation = surf[u].submitted]
           p == [th[t] EXCEPT !.pc = "endPush", !.job = j]
<1>1. /\ th[t].pc = "endJob" /\ th[t].todo = <<>>
      /\ surf' = [surf EXCEPT ![u].decodeFailed = ~job.ok]
      /\ bad' = (IF job.ok THEN bad ELSE bad \cup {u})
      /\ th' = [th EXCEPT ![t].pc = "endPush", ![t].job.generation = surf[u].submitted]
      /\ UNCHANGED <<ctx, queue, closed, wk, readers, writer, unsafe>>
  BY DEF EndJob, At, jobs, locks
<1>2. th[t].pc \in Holding
  BY <1>1 DEF Holding
<1>3. /\ c \in Contexts /\ x \in ContextRecord /\ x.life = "live" /\ c # NULL
      /\ x.holder = t /\ OpenOf(x) \subseteq Surfaces /\ Picture(c, x, surf, bad)
      /\ Stage(c, th[t], x, surf, bad) /\ Objects(th[t], x, surf)
  BY <1>2, CallContext DEF Inv, CallsOK, CallOK
<1>4. /\ th \in [Threads -> CallRecord] /\ th[t] \in CallRecord /\ job \in Job
      /\ surf \in [Surfaces -> SurfaceRecord] /\ bad \subseteq Surfaces /\ unsafe \in BOOLEAN
  BY CallTypes DEF CallRecord
<1>5. EndStage(th[t], x, surf, bad)
  BY <1>3 DEF Stage
<1>6. /\ x.picture = "building" /\ x.render # NULL /\ u = OutputOf(x) /\ c \notin VideoProc
      /\ surf[u].resolving /\ u \notin bad /\ (u # x.render => ~surf[x.render].resolving)
  BY <1>1, <1>3, <1>5 DEF EndStage, Stage
<1>7. u \in OpenOf(x) /\ u \in Surfaces /\ surf[u] \in SurfaceRecord /\ x.render \in Surfaces
  BY <1>3, <1>4, <1>6 DEF OutputOf, OpenOf
<1>8. /\ r \in SurfaceRecord /\ r.life = "live" /\ r.resolving /\ r.decodeFailed = ~job.ok
      /\ r.submitted = surf[u].submitted /\ surf' = [surf EXCEPT ![u] = r]
  BY <1>1, <1>3, <1>4, <1>6, <1>7 DEF SurfaceRecord, Job, Picture
<1>9. j \in Job /\ j.surface = u /\ j.ok = job.ok /\ j.generation = surf[u].submitted
  BY <1>4, <1>7 DEF Job, SurfaceRecord
<1>10. /\ p \in CallRecord /\ p.pc = "endPush" /\ p.c = c /\ p.s = th[t].s /\ p.job = j
       /\ p.todo = <<>> /\ th' = [th EXCEPT ![t] = p]
  BY <1>1, <1>4, <1>9 DEF CallRecord, ThreadPC, Job
<1> HIDE DEF p, r, j, u
<1>11. surf'[u] = r /\ \A s \in Surfaces \ {u} : surf'[s] = surf[s]
  BY <1>4, <1>7, <1>8
<1>12. bad' \subseteq Surfaces /\ \A s \in Surfaces \ {u} : s \in bad' <=> s \in bad
  BY <1>1, <1>4, <1>7
<1>13. \A s \in bad' : Answered(t, p, s)
  <2> SUFFICES ASSUME NEW s \in bad'
               PROVE  Answered(t, p, s)
    OBVIOUS
  <2>1. CASE s = u
    <3>1. surf'[s].decodeFailed /\ surf'[s].resolving
      BY <1>1, <1>4, <1>6, <1>8, <1>11, <2>1 DEF Job
    <3> QED
      BY <3>1 DEF Answered
  <2>2. CASE s # u
    <3>1. Same(s)
      BY <1>11, <1>12, <2>2 DEF Same
    <3> QED
      BY <1>1, <3>1, EmptyList DEF Answered
  <2> QED
    BY <2>1, <2>2
<1>14. Objects(p, x, surf')
  <2>1. p.s # NULL => p.s \in Surfaces /\ surf'[p.s].life = surf[p.s].life
    BY <1>3, <1>4, <1>7, <1>8, <1>10, <1>11 DEF CallRecord, Picture
  <2> QED
    BY <1>1, <1>3, <1>6, <1>9, <1>10, <2>1
       DEF Objects, BeginPC, SourcePC, ReadyPC, EndPC, Holding, Locking, Exclusive
<1>15. p.job.ok => u \notin bad'
  BY <1>1, <1>6, <1>9, <1>10
<1>16. u # x.render => ~surf'[x.render].resolving
  BY <1>6, <1>7, <1>11
<1>17. EndStage(p, x, surf', bad')
  BY <1>6, <1>8, <1>9, <1>10, <1>11, <1>15, <1>16 DEF EndStage
<1>18. Stage(c, p, x, surf', bad')
  BY <1>6, <1>10, <1>17 DEF Stage
<1>19. p.pc \in Holding /\ p.pc \notin BeginPC \cup SourcePC
  BY <1>10 DEF Holding, BeginPC, SourcePC
<1> HIDE DEF x, c
<1>20. /\ u \in OpenOf(ctx[th[t].c]) /\ ctx[th[t].c].picture # "submitted" /\ p.c = th[t].c
       /\ Objects(p, ctx[th[t].c], surf') /\ Stage(th[t].c, p, ctx[th[t].c], surf', bad')
  BY <1>6, <1>7, <1>10, <1>14, <1>18 DEF x, c
<1>21. /\ surf' = [surf EXCEPT ![u] = r] /\ th' = [th EXCEPT ![t] = p]
       /\ UNCHANGED <<ctx, queue, closed, wk, readers, writer>> /\ unsafe' \in BOOLEAN
       /\ p \in CallRecord /\ r \in SurfaceRecord /\ r.life = "live"
  BY <1>1, <1>4, <1>8, <1>10
<1> QED
  BY <1>2, <1>12, <1>13, <1>19, <1>20, <1>21, SettleStep

\* The verdict on the source of a copy, or on an exported surface, is final: nobody
\* settles it any more.
LEMMA SourceSettled ==
    ASSUME Inv, NEW t \in Threads, th[t].pc \in {"copy", "exportSet"}
    PROVE  /\ th[t].s \in Surfaces /\ ~surf[th[t].s].resolving
           /\ \A e \in Contexts : th[t].s \notin OpenOf(ctx[e])
           /\ th[t].s \in bad => surf[th[t].s].decodeFailed /\ surf[th[t].s].status = "error"
<1> DEFINE s == th[t].s
<1>1. s \in Surfaces /\ ~surf[s].resolving
  BY CallTypes DEF Inv, CallsOK, CallOK, Objects, CallRecord, SourcePC, ReadyPC
<1>2. \A e \in Contexts : s \notin OpenOf(ctx[e])
  BY DEF Inv, Claims, SourcePC
<1>3. ~InFrames(s)
  BY <1>1 DEF Inv, FramesOK
<1> HIDE DEF s
<1>4. ASSUME NEW d \in Contexts, NEW op, Has(wk[d].todo, s, op)
      PROVE  FALSE
  BY <1>3, <1>4 DEF InFrames, InLine, InList, Has
<1>5. ASSUME NEW u \in Threads, NEW op, Has(th[u].todo, s, op)
      PROVE  FALSE
  <2>1. th[u].pc \notin Exclusive
    <3>1. t \in readers
      BY CallLocks DEF Exclusive
    <3>2. writer = NULL
      BY <3>1 DEF Inv, LocksOK
    <3> QED
      BY <3>2, PipelineAssumption DEF Inv, LocksOK
  <2>2. th[u].todo # <<>> /\ InList(th[u].todo, s)
    BY <1>5, EmptyList DEF Has, InList
  <2>3. th[u].pc \in {"unlock", "endJob", "endReset"}
    BY <2>1, <2>2 DEF Inv, CallsOK, CallOK, Objects
  <2>4. th[u].pc \in Holding
    BY <2>3 DEF Holding
  <2>5. /\ th[u].c \in Contexts /\ Stage(th[u].c, th[u], ctx[th[u].c], surf, bad)
    BY <2>4, CallContext
  <2>6. CASE th[u].pc \in {"unlock", "endReset"}
    BY <1>1, <1>2, <2>2, <2>5, <2>6 DEF Stage
  <2>7. CASE th[u].pc = "endJob"
    <3> DEFINE y == ctx[th[u].c]
    <3>1. EndStage(th[u], y, surf, bad)
      BY <2>5 DEF Stage
    <3>2. \/ th[u].todo = <<Mark(OutputOf(y)), Clear(y.render)>>
          \/ th[u].todo = <<Clear(y.render)>>
      BY <2>2, <2>7, <3>1 DEF EndStage
    <3>3. \A i \in 1 .. Len(th[u].todo) : th[u].todo[i].s \in {OutputOf(y), y.render}
      <4> HIDE DEF y
      <4>1. CASE th[u].todo = <<Mark(OutputOf(y)), Clear(y.render)>>
        BY <4>1 DEF Mark, Clear
      <4>2. CASE th[u].todo = <<Clear(y.render)>>
        BY <4>2 DEF Clear
      <4> QED
        BY <3>2, <4>1, <4>2
    <3>4. y.render # NULL
      BY <2>7, <3>1 DEF EndStage
    <3>5. {OutputOf(y), y.render} \subseteq OpenOf(y)
      BY <3>4 DEF OutputOf, OpenOf
    <3> QED
      BY <1>2, <2>2, <2>5, <3>3, <3>5 DEF InList
  <2> QED
    BY <2>3, <2>6, <2>7
<1>6. s \in bad => surf[s].decodeFailed /\ surf[s].status = "error"
  BY <1>1, <1>4, <1>5 DEF Inv, SurfacesOK, FailureOK, Settling
<1> QED
  BY <1>1, <1>2, <1>6 DEF s

LEMMA CopyDoneInv ==
    ASSUME Inv, NEW t \in Threads, CopyDone(t)
    PROVE  Inv'
<1> DEFINE c == th[t].c
           x == ctx[c]
           u == x.render
           src == th[t].s
           r == [surf[u] EXCEPT !.decodeFailed = surf[src].decodeFailed]
           todo == <<Clear(u)>>
<1>1. /\ th[t].pc = "copy" /\ th[t].todo = <<>>
      /\ surf' = [surf EXCEPT ![u].decodeFailed = surf[src].decodeFailed]
      /\ bad' = (IF src \in bad THEN bad \cup {u} ELSE bad \ {u})
      /\ Goto(t, "unlock", todo)
      /\ UNCHANGED <<ctx, queue, closed, wk, readers, writer, unsafe>>
  BY DEF CopyDone, At, jobs, locks, Goto
<1>2. th[t].pc \in Holding
  BY <1>1 DEF Holding
<1>3. /\ c \in Contexts /\ x \in ContextRecord /\ x.life = "live" /\ c # NULL
      /\ x.holder = t /\ OpenOf(x) \subseteq Surfaces /\ Picture(c, x, surf, bad)
      /\ Stage(c, th[t], x, surf, bad) /\ Objects(th[t], x, surf)
  BY <1>2, CallContext DEF Inv, CallsOK, CallOK
<1>4. /\ th \in [Threads -> CallRecord] /\ th[t] \in CallRecord
      /\ surf \in [Surfaces -> SurfaceRecord] /\ bad \subseteq Surfaces /\ unsafe \in BOOLEAN
  BY CallTypes
<1>5. c \in VideoProc /\ x.picture = "building" /\ u # NULL
  BY <1>1, <1>3 DEF Stage
<1>6. /\ src \in Surfaces /\ src \notin OpenOf(x) /\ (src \in bad => surf[src].decodeFailed)
  BY <1>1, <1>3, SourceSettled
<1>7. u \in OpenOf(x) /\ u \in Surfaces /\ surf[u] \in SurfaceRecord /\ src # u
  BY <1>3, <1>4, <1>5, <1>6 DEF OpenOf
<1>8. surf[src].decodeFailed \in BOOLEAN
  BY <1>4, <1>6 DEF SurfaceRecord
<1>9. /\ r \in SurfaceRecord /\ r.life = "live" /\ r.decodeFailed = surf[src].decodeFailed
      /\ surf' = [surf EXCEPT ![u] = r]
  BY <1>1, <1>3, <1>4, <1>7, <1>8 DEF SurfaceRecord, Picture
<1>10. /\ todo \in Seq(Section) /\ Only(todo, {"clear", "fail"})
       /\ \A s : InList(todo, s) <=> s = u
       /\ Has(todo, u, "clear")
  BY <1>7, SingleList
<1> HIDE DEF todo, r, u, src
<1> DEFINE pc == "unlock"
<1>11. pc \in ThreadPC /\ Goto(t, pc, todo) /\ pc = "unlock"
  BY <1>1 DEF ThreadPC
<1> HIDE DEF pc
<1>12. PICK p \in CallRecord :
             /\ th' = [th EXCEPT ![t] = p]
             /\ p.pc = pc /\ p.c = th[t].c /\ p.s = th[t].s /\ p.job = th[t].job
             /\ p.todo = todo
  BY <1>10, <1>11, GotoPoint
<1>13. surf'[u] = r /\ \A s \in Surfaces \ {u} : surf'[s] = surf[s]
  BY <1>4, <1>7, <1>9
<1>14. bad' \subseteq Surfaces /\ \A s \in Surfaces \ {u} : s \in bad' <=> s \in bad
  BY <1>1, <1>4, <1>7
<1>15. \A s \in bad' : Answered(t, p, s)
  <2> SUFFICES ASSUME NEW s \in bad'
               PROVE  Answered(t, p, s)
    OBVIOUS
  <2>1. CASE s = u
    <3>1. surf'[s].decodeFailed /\ Has(p.todo, s, "clear")
      BY <1>1, <1>6, <1>9, <1>10, <1>12, <1>13, <2>1
    <3> QED
      BY <3>1 DEF Answered
  <2>2. CASE s # u
    <3>1. Same(s)
      BY <1>13, <1>14, <2>2 DEF Same
    <3> QED
      BY <1>1, <3>1, EmptyList DEF Answered
  <2> QED
    BY <2>1, <2>2
<1>16. Objects(p, x, surf')
  <2>1. p.s = src /\ surf'[src].life = surf[src].life
    BY <1>6, <1>7, <1>12, <1>13 DEF src
  <2>2. th[t].job.surface = NULL
    BY <1>1, <1>3 DEF Objects, EndPC
  <2> QED
    BY <1>1, <1>3, <1>11, <1>12, <2>1, <2>2
       DEF Objects, BeginPC, SourcePC, ReadyPC, EndPC, Holding, Locking, Exclusive, src
<1>17. Stage(c, p, x, surf', bad')
  BY <1>5, <1>7, <1>10, <1>11, <1>12 DEF Stage, EndStage, EndPC, u
<1>18. p.pc \in Holding /\ p.pc \notin BeginPC \cup SourcePC
  BY <1>11, <1>12 DEF Holding, BeginPC, SourcePC
<1> HIDE DEF x, c
<1>19. /\ u \in OpenOf(ctx[th[t].c]) /\ ctx[th[t].c].picture # "submitted" /\ p.c = th[t].c
       /\ Objects(p, ctx[th[t].c], surf') /\ Stage(th[t].c, p, ctx[th[t].c], surf', bad')
  BY <1>5, <1>7, <1>12, <1>16, <1>17 DEF x, c
<1>20. /\ surf' = [surf EXCEPT ![u] = r] /\ th' = [th EXCEPT ![t] = p]
       /\ UNCHANGED <<ctx, queue, closed, wk, readers, writer>> /\ unsafe' \in BOOLEAN
       /\ p \in CallRecord /\ r \in SurfaceRecord /\ r.life = "live"
  BY <1>1, <1>4, <1>9, <1>12
<1> QED
  BY <1>2, <1>14, <1>15, <1>18, <1>19, <1>20, SettleStep

\* A new generation starts.
LEMMA BeginMarkInv ==
    ASSUME Inv, NEW t \in Threads, BeginMark(t)
    PROVE  Inv'
<1> DEFINE c == th[t].c
           u == th[t].s
           y == [ctx[c] EXCEPT !.render = u, !.display = IF c \in VideoProc THEN @ ELSE u]
           x == [y EXCEPT !.holder = NULL]
           o == Mark(u)
           r == Apply(o, surf[u])
           p == IdleThread
<1>1. /\ th[t].pc = "beginMark" /\ th[t].todo = <<>>
      /\ surf' = [surf EXCEPT ![u] = r] /\ bad' = bad \ {u}
      /\ ctx' = [ctx EXCEPT ![c] = x] /\ th' = [th EXCEPT ![t] = p]
      /\ readers' = readers \ {t} /\ writer' = (IF writer = t THEN NULL ELSE writer)
      /\ UNCHANGED <<queue, closed, wk, unsafe>>
  BY DEF BeginMark, Release, Return, At, jobs, Applied, Mark
<1>2. th[t].pc \in Holding /\ th[t].pc \notin Exclusive
  BY <1>1 DEF Holding, Exclusive
<1>3. /\ c \in Contexts /\ ctx[c] \in ContextRecord /\ ctx[c].life = "live" /\ c # NULL
      /\ ctx[c].holder = t /\ Stage(c, th[t], ctx[c], surf, bad)
      /\ Objects(th[t], ctx[c], surf)
  BY <1>2, CallContext DEF Inv, CallsOK, CallOK
<1>4. /\ th \in [Threads -> CallRecord] /\ th[t] \in CallRecord
      /\ surf \in [Surfaces -> SurfaceRecord] /\ bad \subseteq Surfaces /\ unsafe \in BOOLEAN
      /\ NULL \notin Surfaces /\ NULL \notin Threads
  BY CallTypes, PipelineAssumption
<1>5. t \in readers /\ writer = NULL
  BY <1>1, <1>2, CallLocks
<1>6. ctx[c].picture = "building" /\ ctx[c].render = NULL /\ ctx[c].display = NULL
  BY <1>1, <1>3 DEF Stage
<1>7. u \in Surfaces /\ surf[u].life = "live" /\ ~surf[u].resolving /\ surf[u] \in SurfaceRecord
  BY <1>1, <1>3, <1>4 DEF Objects, CallRecord, BeginPC, ReadyPC
<1>8. /\ x \in ContextRecord /\ x.render = u /\ x.display = (IF c \in VideoProc THEN NULL ELSE u)
      /\ x.picture = "building" /\ x.holder = NULL /\ x.life = "live"
  BY <1>3, <1>6, <1>7 DEF ContextRecord
<1>9. o \in Section /\ o.op = "mark"
  BY <1>7 DEF Mark, Section
<1>10. r \in SurfaceRecord /\ r.life = "live" /\ r.resolving
  BY <1>7, <1>9, Sections
<1> HIDE DEF u, y, x, o, r, c
<1>11. surf'[u] = r /\ \A s \in Surfaces \ {u} : surf'[s] = surf[s]
  BY <1>1, <1>4, <1>7
<1>12. OpenOf(x) = {u} /\ OpenOf(ctx[c]) = {}
  BY <1>4, <1>6, <1>7, <1>8 DEF OpenOf
<1>13. ~InFrames(u)
  BY <1>7 DEF Inv, FramesOK
<1>14. /\ \A d \in Contexts : u \notin OpenOf(ctx[d])
       /\ \A v \in Threads \ {t} : th[v].pc \in BeginPC \cup SourcePC => th[v].s # u
  BY <1>1 DEF Inv, Claims, BeginPC, u
<1>15. /\ p \in CallRecord /\ p.pc = "idle" /\ p.c = NULL /\ p.s = NULL
       /\ p.job.surface = NULL /\ p.todo = <<>> /\ p = IdleThread
  BY FreshTypes DEF IdleThread, NoJob
<1> HIDE DEF p
<1>16. StepShape(t, c, p, x)
  <2>1. surf' \in [Surfaces -> SurfaceRecord] /\ bad' \subseteq Surfaces
    BY <1>1, <1>4, <1>7, <1>10
  <2>2. readers' = (IF p.pc = "idle" THEN readers \ {t} ELSE readers \cup {t}) /\ writer' = NULL
    BY <1>1, <1>5, <1>15
  <2>3. th[t].c \in {c, NULL} /\ p.c \in {c, NULL} /\ p.pc \notin Exclusive
    BY <1>15 DEF c, Exclusive
  <2> QED
    BY <1>1, <1>2, <1>4, <1>5, <1>8, <1>15, <2>1, <2>2, <2>3 DEF StepShape
<1>17. StepPicture(t, c, p, x)
  <2>1. Picture(c, x, surf', bad')
    <3>1. u # NULL /\ u \notin bad' /\ surf'[u].life = "live" /\ surf'[u].resolving
      BY <1>1, <1>4, <1>7, <1>10, <1>11
    <3>2. x.render # NULL /\ x.display \in {NULL, x.render}
          /\ (c \in VideoProc <=> x.display = NULL)
      BY <1>8, <3>1
    <3> QED
      BY <1>8, <1>12, <3>1, <3>2 DEF Picture
  <2>2. p.pc \notin Holding
    BY <1>15 DEF Holding
  <2> QED
    BY <1>3, <1>4, <1>8, <1>12, <1>13, <1>14, <2>1, <2>2 DEF StepPicture
<1>18. StepCall(t, c, p, x)
  <2>1. Objects(p, x, surf')
    BY <1>15 DEF Objects, Locking, Holding, BeginPC, SourcePC, ReadyPC
  <2> QED
    BY <1>15, <2>1 DEF StepCall, Locking, Holding, BeginPC, SourcePC
<1>19. StepSurfaces(t, c, p, x)
  <2>1. \A s \in Surfaces \ {u} : Same(s)
    BY <1>1, <1>11 DEF Same
  <2>2. \A s \in Surfaces : Mine(t, c, s) <=> s = u
    BY <1>1, <1>12 DEF Mine, u
  <2>3. \A s \in bad' : Answered(t, p, s)
    <3>1. \A s \in bad' : s \in Surfaces \ {u}
      BY <1>1, <1>4
    <3> QED
      BY <1>1, <2>1, <3>1, EmptyList DEF Answered
  <2>4. \A s \in Surfaces : surf'[s].life = surf[s].life
    BY <1>7, <1>10, <1>11
  <2>5. \A s \in Surfaces : Mine(t, c, s) \/ s \in OpenOf(ctx[c]) =>
            s \in OpenOf(x) /\ x.picture # "submitted"
    BY <1>8, <1>12, <2>2
  <2> QED
    BY <1>1, <1>3, <1>12, <2>1, <2>2, <2>3, <2>4, <2>5 DEF StepSurfaces
<1>20. c \in Contexts \cup {NULL}
  BY <1>3
<1> QED
  BY <1>16, <1>17, <1>18, <1>19, <1>20, ThreadStepInv DEF ThreadStep

LEMMA ExportSetInv ==
    ASSUME Inv, NEW t \in Threads, ExportSet(t)
    PROVE  Inv'
<1> DEFINE c == th[t].c
           u == th[t].s
           x == ctx[c]
           r == [surf[u] EXCEPT !.exported = TRUE]
           p == IdleThread
<1>1. /\ th[t].pc = "exportSet" /\ th[t].todo = <<>>
      /\ surf' = [surf EXCEPT ![u].exported = TRUE] /\ th' = [th EXCEPT ![t] = p]
      /\ readers' = readers \ {t} /\ writer' = (IF writer = t THEN NULL ELSE writer)
      /\ UNCHANGED <<ctx, queue, closed, wk, unsafe, bad>>
  BY DEF ExportSet, Return, At, jobs
<1>2. th[t].pc \notin Exclusive /\ th[t].pc \notin Holding
  BY <1>1 DEF Exclusive, Holding
<1>3. /\ th \in [Threads -> CallRecord] /\ th[t] \in CallRecord
      /\ ctx \in [Contexts -> ContextRecord]
      /\ surf \in [Surfaces -> SurfaceRecord] /\ bad \subseteq Surfaces /\ unsafe \in BOOLEAN
      /\ NULL \notin Contexts
  BY CallTypes, PipelineAssumption
<1>4. c \in Contexts \cup {NULL}
  BY <1>3 DEF CallRecord
<1>5. t \in readers /\ writer = NULL
  BY <1>1, <1>2, CallLocks
<1>6. /\ u \in Surfaces /\ ~surf[u].resolving
      /\ \A e \in Contexts : u \notin OpenOf(ctx[e])
      /\ u \in bad => surf[u].decodeFailed /\ surf[u].status = "error"
  BY <1>1, SourceSettled
<1>7. /\ r \in SurfaceRecord /\ surf' = [surf EXCEPT ![u] = r] /\ r.life = surf[u].life
      /\ r.resolving = surf[u].resolving /\ r.decodeFailed = surf[u].decodeFailed
      /\ r.status = surf[u].status
  BY <1>1, <1>3, <1>6 DEF SurfaceRecord
<1>8. ctx' = [ctx EXCEPT ![c] = x]
  BY <1>1, <1>3, <1>4
<1> HIDE DEF r
<1>9. surf'[u] = r /\ \A s \in Surfaces \ {u} : surf'[s] = surf[s]
  BY <1>3, <1>6, <1>7
<1>10. /\ p \in CallRecord /\ p.pc = "idle" /\ p.c = NULL /\ p.s = NULL
       /\ p.job.surface = NULL /\ p.todo = <<>> /\ p = IdleThread
  BY FreshTypes DEF IdleThread, NoJob
<1>11. c \in Contexts => x \in ContextRecord /\ x.holder # t /\ Picture(c, x, surf, bad)
                         /\ OpenOf(x) \subseteq Surfaces
  BY <1>2, <1>3 DEF Inv, HoldersOK, PicturesOK, ContextRecord, OpenOf
<1> HIDE DEF p, x, c
<1>x. x = ctx[c]
  BY DEF x
<1>12. StepShape(t, c, p, x)
  <2>1. surf' \in [Surfaces -> SurfaceRecord] /\ bad' \subseteq Surfaces
    BY <1>1, <1>3, <1>6, <1>7
  <2>2. readers' = (IF p.pc = "idle" THEN readers \ {t} ELSE readers \cup {t}) /\ writer' = NULL
    BY <1>1, <1>5, <1>10
  <2>3. th[t].c \in {c, NULL} /\ p.c \in {c, NULL} /\ p.pc \notin Exclusive
    BY <1>10 DEF c, Exclusive
  <2>4. c # NULL => x \in ContextRecord
    BY <1>4, <1>11
  <2> QED
    BY <1>1, <1>2, <1>3, <1>5, <1>8, <1>10, <2>1, <2>2, <2>3, <2>4 DEF StepShape
<1>13. StepPicture(t, c, p, x)
  <2> SUFFICES ASSUME c \in Contexts PROVE StepPicture(t, c, p, x)
    BY <1>4 DEF StepPicture
  <2>1. \A s \in OpenOf(x) : surf'[s] = surf[s] /\ (s \in bad' <=> s \in bad)
    BY <1>1, <1>6, <1>9, <1>11, <1>x
  <2>2. Picture(c, x, surf', bad')
    BY <1>11, <2>1, PictureFrame
  <2>3. \A s \in OpenOf(x) : InFrames(s) => x.picture = "submitted"
    BY <1>x, TargetFacts
  <2>4. p.pc \notin Holding
    BY <1>10 DEF Holding
  <2> QED
    BY <1>11, <1>x, <2>2, <2>3, <2>4 DEF StepPicture
<1>14. StepCall(t, c, p, x)
  <2>1. Objects(p, x, surf')
    BY <1>10 DEF Objects, Locking, Holding, BeginPC, SourcePC, ReadyPC
  <2> QED
    BY <1>10, <2>1 DEF StepCall, Locking, Holding, BeginPC, SourcePC
<1>15. StepSurfaces(t, c, p, x)
  <2>1. \A s \in Surfaces \ {u} : Same(s)
    BY <1>1, <1>9 DEF Same
  <2>2. \A s \in Surfaces : ~Mine(t, c, s) => Same(s)
    BY <1>1, <2>1 DEF Mine
  <2>3. ASSUME NEW s \in bad'
        PROVE  Answered(t, p, s)
    <3>1. CASE s = u
      BY <1>1, <1>6, <1>7, <1>9, <2>3, <3>1 DEF Answered
    <3>2. CASE s # u
      BY <1>1, <1>3, <2>1, <2>3, <3>2, EmptyList DEF Answered
    <3> QED
      BY <3>1, <3>2
  <2>4. \A s \in Surfaces : surf'[s].life = surf[s].life /\ surf'[s].resolving = surf[s].resolving
    BY <1>7, <1>9
  <2>5. ASSUME NEW s \in Surfaces, surf'[s].resolving,
               Mine(t, c, s) \/ (c # NULL /\ s \in OpenOf(ctx[c]))
        PROVE  InFrames(s) \/ (c # NULL /\ s \in OpenOf(x) /\ x.picture # "submitted")
    <3>1. surf[s].resolving /\ s # u
      BY <1>6, <2>4, <2>5
    <3>2. c \in Contexts /\ s \in OpenOf(ctx[c])
      BY <1>1, <1>4, <2>5, <3>1 DEF Mine
    <3>3. c # NULL
      BY <1>3, <3>2
    <3> QED
      BY <1>x, <3>1, <3>2, <3>3, TargetFacts
  <2>6. OpenOf(ctx[c]) \ OpenOf(x) = {}
    BY <1>x
  <2> QED
    BY <1>6, <2>2, <2>3, <2>4, <2>5, <2>6 DEF StepSurfaces
<1> QED
  BY <1>4, <1>12, <1>13, <1>14, <1>15, ThreadStepInv DEF ThreadStep

-----------------------------------------------------------------------------
(* The job is accepted: the picture is submitted and its frame under way.  *)

LEMMA AppendQueue ==
    ASSUME NEW q \in Seq(Job), NEW j \in Job
    PROVE  /\ Append(q, j) \in Seq(Job) /\ Len(Append(q, j)) = Len(q) + 1
           /\ Append(q, j)[Len(q) + 1] = j
           /\ \A i \in 1 .. Len(q) + 1 : i \in 1 .. Len(q) \/ i = Len(q) + 1
           /\ \A i \in 1 .. Len(q) : i \in 1 .. Len(q) + 1 /\ Append(q, j)[i] = q[i] /\ i # Len(q) + 1
           /\ \A s : InQueue(Append(q, j), s) <=> InQueue(q, s) \/ s = j.surface
<1> DEFINE q2 == Append(q, j)  n == Len(q)
<1>1. /\ q2 \in Seq(Job) /\ Len(q2) = n + 1 /\ q2[n + 1] = j /\ n \in Nat
      /\ \A i \in 1 .. n : q2[i] = q[i]
  OBVIOUS
<1> HIDE DEF q2, n
<1>2. /\ \A i \in 1 .. n + 1 : i \in 1 .. n \/ i = n + 1
      /\ \A i \in 1 .. n : i \in 1 .. n + 1 /\ i # n + 1
      /\ n + 1 \in 1 .. n + 1
  BY <1>1
<1>3. \A s : InQueue(q2, s) <=> InQueue(q, s) \/ s = j.surface
  <2> SUFFICES ASSUME NEW s
               PROVE  InQueue(q2, s) <=> InQueue(q, s) \/ s = j.surface
    OBVIOUS
  <2>1. ASSUME InQueue(q2, s) PROVE InQueue(q, s) \/ s = j.surface
    <3>1. PICK i \in 1 .. n + 1 : q2[i].surface = s
      BY <1>1, <2>1 DEF InQueue
    <3> QED
      BY <1>1, <1>2, <3>1 DEF InQueue, n
  <2>2. ASSUME InQueue(q, s) PROVE InQueue(q2, s)
    <3>1. PICK i \in 1 .. n : q[i].surface = s
      BY <2>2 DEF InQueue, n
    <3> QED
      BY <1>1, <1>2, <3>1 DEF InQueue
  <2>3. ASSUME s = j.surface PROVE InQueue(q2, s)
    BY <1>1, <1>2, <2>3 DEF InQueue
  <2> QED
    BY <2>1, <2>2, <2>3
<1> QED
  BY <1>1, <1>2, <1>3 DEF q2, n

\* The step, in terms of the call p, the picture x and the queue q it leads to.
Pushed(t, c, p, x, q) ==
    /\ c = th[t].c /\ p \in CallRecord /\ x \in ContextRecord
    /\ q = Append(queue[c], th[t].job)
    /\ th' = [th EXCEPT ![t] = p] /\ ctx' = [ctx EXCEPT ![c] = x]
    /\ queue' = [queue EXCEPT ![c] = q]
    /\ UNCHANGED <<surf, closed, wk, readers, writer, unsafe, bad>>
    /\ th[t].pc = "endPush" /\ th[t].todo = <<>>
    /\ p.pc = "endShared" /\ p.c = c /\ p.s = th[t].s /\ p.job = th[t].job /\ p.todo = <<>>
    /\ x.picture = "submitted" /\ x.render = ctx[c].render /\ x.display = ctx[c].display
    /\ x.holder = ctx[c].holder /\ x.life = ctx[c].life
    /\ ~closed[c] /\ Len(queue[c]) < Capacity

LEMMA PushedShape ==
    ASSUME Inv, NEW t \in Threads, EndPush(t)
    PROVE  \E c \in Contexts, p \in CallRecord, x \in ContextRecord, q \in Seq(Job) :
               Pushed(t, c, p, x, q)
<1> DEFINE c == th[t].c
           p == [th[t] EXCEPT !.pc = "endShared", !.todo = <<>>]
           x == [ctx[c] EXCEPT !.picture = "submitted"]
           q == Append(queue[c], th[t].job)
<1>1. /\ th[t].pc = "endPush" /\ th[t].todo = <<>> /\ ~closed[c] /\ Len(queue[c]) < Capacity
      /\ queue' = [queue EXCEPT ![c] = Append(@, th[t].job)]
      /\ ctx' = [ctx EXCEPT ![c].picture = "submitted"]
      /\ th' = [th EXCEPT ![t].pc = "endShared", ![t].todo = <<>>]
      /\ UNCHANGED <<surf, closed, wk, readers, writer, unsafe, bad>>
  BY DEF EndPush, At, Goto, locks
<1>2. th[t].pc \in Holding
  BY <1>1 DEF Holding
<1>3. /\ c \in Contexts /\ ctx[c] \in ContextRecord
  BY <1>2, CallContext
<1>4. /\ th \in [Threads -> CallRecord] /\ th[t] \in CallRecord /\ th[t].job \in Job
      /\ ctx \in [Contexts -> ContextRecord] /\ queue \in [Contexts -> Seq(Job)]
  BY CallTypes DEF CallRecord, Inv, TypeOK
<1>5. q \in Seq(Job) /\ queue' = [queue EXCEPT ![c] = q]
  BY <1>1, <1>3, <1>4
<1>6. /\ p \in CallRecord /\ p.pc = "endShared" /\ p.c = c /\ p.s = th[t].s
      /\ p.job = th[t].job /\ p.todo = <<>> /\ th' = [th EXCEPT ![t] = p]
  <2>1. <<>> \in Seq(Section)
    OBVIOUS
  <2> QED
    BY <1>1, <1>4, <2>1 DEF CallRecord, ThreadPC
<1>7. /\ x \in ContextRecord /\ x.picture = "submitted" /\ x.render = ctx[c].render
      /\ x.display = ctx[c].display /\ x.holder = ctx[c].holder /\ x.life = ctx[c].life
      /\ ctx' = [ctx EXCEPT ![c] = x]
  BY <1>1, <1>3, <1>4 DEF ContextRecord
<1> HIDE DEF p, x
<1>8. Pushed(t, c, p, x, q)
  BY <1>1, <1>5, <1>6, <1>7 DEF Pushed
<1> HIDE DEF c, q
<1>9. c \in Contexts /\ p \in CallRecord /\ x \in ContextRecord /\ q \in Seq(Job)
  BY <1>3, <1>5, <1>6, <1>7 DEF c
<1> QED
  BY <1>8, <1>9

\* The state before the step, and after it.
LEMMA PushedFacts ==
    ASSUME Inv, NEW t \in Threads, NEW c \in Contexts, NEW p \in CallRecord,
           NEW x \in ContextRecord, NEW q \in Seq(Job), Pushed(t, c, p, x, q)
    PROVE  /\ th'[t] = p /\ \A v \in Threads \ {t} : th'[v] = th[v]
           /\ ctx'[c] = x /\ \A d \in Contexts \ {c} : ctx'[d] = ctx[d]
           /\ queue'[c] = q /\ \A d \in Contexts \ {c} : queue'[d] = queue[d]
           /\ OpenOf(x) = OpenOf(ctx[c]) /\ OutputOf(x) = OutputOf(ctx[c])
           /\ ctx[c].holder = t /\ c \notin VideoProc /\ ctx[c].life = "live"
           /\ ctx[c].picture = "building" /\ ctx[c].render # NULL
           /\ th[t].job \in Job /\ th[t].job.surface = OutputOf(x)
           /\ OutputOf(x) \in OpenOf(x) /\ OpenOf(x) \subseteq Surfaces
           /\ th[t].job.generation = surf[OutputOf(x)].submitted
           /\ surf[OutputOf(x)].resolving /\ surf[OutputOf(x)].life = "live"
           /\ th[t].job.ok => OutputOf(x) \notin bad
           /\ \A s \in OpenOf(x) : s # OutputOf(x) => ~surf[s].resolving
           /\ ~InFrames(OutputOf(x))
           /\ \A v \in Threads : th[v].pc \notin Exclusive
           /\ \A d \in Contexts : ctx'[d].life = ctx[d].life /\ OpenOf(ctx'[d]) = OpenOf(ctx[d])
<1> DEFINE u == OutputOf(x)
<1>1. th[t].pc = "endPush" /\ c = th[t].c
  BY DEF Pushed
<1>2. th[t].pc \in Holding /\ th[t].pc \notin Exclusive /\ th[t].pc # "idle"
  BY <1>1 DEF Holding, Exclusive
<1>3. /\ ctx[c] \in ContextRecord /\ ctx[c].life = "live" /\ ctx[c].holder = t
      /\ Stage(c, th[t], ctx[c], surf, bad) /\ OpenOf(ctx[c]) \subseteq Surfaces
      /\ Picture(c, ctx[c], surf, bad)
  BY <1>1, <1>2, CallContext
<1>4. /\ th \in [Threads -> CallRecord] /\ th[t] \in CallRecord /\ th[t].job \in Job
      /\ ctx \in [Contexts -> ContextRecord] /\ queue \in [Contexts -> Seq(Job)]
  BY CallTypes DEF CallRecord, Inv, TypeOK
<1>5. /\ th'[t] = p /\ \A v \in Threads \ {t} : th'[v] = th[v]
      /\ ctx'[c] = x /\ \A d \in Contexts \ {c} : ctx'[d] = ctx[d]
      /\ queue'[c] = q /\ \A d \in Contexts \ {c} : queue'[d] = queue[d]
  BY <1>4 DEF Pushed
<1>6. OpenOf(x) = OpenOf(ctx[c]) /\ u = OutputOf(ctx[c]) /\ x.render = ctx[c].render
      /\ x.display = ctx[c].display /\ x.life = ctx[c].life
  BY DEF Pushed, OpenOf, OutputOf
<1>7. EndStage(th[t], ctx[c], surf, bad) /\ c \notin VideoProc
  BY <1>1, <1>3 DEF Stage
<1>8. /\ ctx[c].picture = "building" /\ ctx[c].render # NULL /\ th[t].job.surface = u
      /\ th[t].job.generation = surf[u].submitted /\ surf[u].resolving
      /\ th[t].job.ok => u \notin bad
      /\ u # x.render => ~surf[x.render].resolving
  BY <1>1, <1>6, <1>7 DEF EndStage
<1>9. u \in OpenOf(x) /\ \A s \in OpenOf(x) : s # u => s = x.render
  BY <1>6, <1>8 DEF OpenOf, OutputOf
<1>10. surf[u].life = "live" /\ ~InFrames(u)
  BY <1>3, <1>6, <1>8, <1>9, TargetFacts
<1>11. \A v \in Threads : th[v].pc \notin Exclusive
  <2>1. writer = NULL
    BY <1>2, CallLocks
  <2> QED
    BY <2>1, PipelineAssumption DEF Inv, LocksOK
<1>12. \A d \in Contexts : ctx'[d].life = ctx[d].life /\ OpenOf(ctx'[d]) = OpenOf(ctx[d])
  BY <1>5, <1>6
<1> QED
  BY <1>3, <1>4, <1>5, <1>6, <1>7, <1>8, <1>9, <1>10, <1>11, <1>12

LEMMA PushedCalls ==
    ASSUME Inv, NEW t \in Threads, NEW c \in Contexts, NEW p \in CallRecord,
           NEW x \in ContextRecord, NEW q \in Seq(Job), Pushed(t, c, p, x, q)
    PROVE  TypeOK' /\ LocksOK' /\ HoldersOK' /\ PicturesOK' /\ Apart' /\ CallsOK' /\ Claims'
<1>1. /\ th'[t] = p /\ \A v \in Threads \ {t} : th'[v] = th[v]
      /\ ctx'[c] = x /\ \A d \in Contexts \ {c} : ctx'[d] = ctx[d]
      /\ queue'[c] = q /\ \A d \in Contexts \ {c} : queue'[d] = queue[d]
      /\ OpenOf(x) = OpenOf(ctx[c]) /\ OutputOf(x) = OutputOf(ctx[c])
      /\ ctx[c].holder = t /\ c \notin VideoProc /\ ctx[c].life = "live"
      /\ ctx[c].picture = "building" /\ ctx[c].render # NULL
      /\ th[t].job.surface = OutputOf(x)
      /\ OpenOf(x) \subseteq Surfaces
      /\ \A s \in OpenOf(x) : s # OutputOf(x) => ~surf[s].resolving
      /\ \A v \in Threads : th[v].pc \notin Exclusive
      /\ \A d \in Contexts : ctx'[d].life = ctx[d].life /\ OpenOf(ctx'[d]) = OpenOf(ctx[d])
  BY PushedFacts
<1>2. /\ th[t].pc = "endPush" /\ c = th[t].c /\ p.pc = "endShared" /\ p.c = c /\ p.s = th[t].s
      /\ p.job = th[t].job /\ p.todo = <<>> /\ x.picture = "submitted"
      /\ x.render = ctx[c].render /\ x.display = ctx[c].display
      /\ x.holder = ctx[c].holder /\ x.life = ctx[c].life
      /\ q = Append(queue[c], th[t].job) /\ Len(queue[c]) < Capacity
      /\ UNCHANGED <<surf, closed, wk, readers, writer, unsafe, bad>>
  BY DEF Pushed
<1>3. t # NULL /\ Capacity \in Nat
  BY PipelineAssumption
<1>4. TypeOK'
  <2>1. /\ th \in [Threads -> CallRecord] /\ ctx \in [Contexts -> ContextRecord]
        /\ queue \in [Contexts -> Seq(Job)] /\ \A d \in Contexts : Len(queue[d]) <= Capacity
    BY DEF Inv, TypeOK, CallRecord
  <2>2. /\ th' \in [Threads -> CallRecord] /\ ctx' \in [Contexts -> ContextRecord]
        /\ queue' \in [Contexts -> Seq(Job)]
    BY <2>1 DEF Pushed
  <2>3. Len(q) = Len(queue[c]) + 1 /\ Len(queue[c]) \in Nat
    BY <1>2, <2>1, AppendQueue, PushedFacts
  <2>4. \A d \in Contexts : Len(queue'[d]) <= Capacity
    BY <1>1, <1>2, <1>3, <2>1, <2>3
  <2> QED
    BY <1>2, <2>2, <2>4 DEF Inv, TypeOK, CallRecord
<1>5. LocksOK'
  BY <1>1, <1>2 DEF Inv, LocksOK, Exclusive
<1>6. HoldersOK'
  BY <1>1, <1>2 DEF Inv, HoldersOK, Holding
<1>7. PicturesOK'
  <2>1. Picture(c, x, surf, bad)
    BY <1>1, <1>2, <1>3 DEF Inv, PicturesOK, Picture
  <2> QED
    BY <1>1, <1>2, <2>1 DEF Inv, PicturesOK
<1>8. Apart'
  BY <1>1 DEF Inv, Apart
<1>9. Claims'
  BY <1>1, <1>2 DEF Inv, Claims, BeginPC, SourcePC
<1>10. CallOK(p)'
  <2>1. Objects(th[t], ctx[c], surf)
    BY <1>2 DEF Inv, CallsOK, CallOK
  <2>2. Objects(p, x, surf)
    BY <1>1, <1>2, <2>1
       DEF Objects, Locking, Holding, Exclusive, BeginPC, SourcePC, ReadyPC, EndPC
  <2>3. EndStage(p, x, surf, bad)
    BY <1>1, <1>2 DEF EndStage
  <2>4. Stage(c, p, x, surf, bad)
    BY <1>2, <2>3 DEF Stage
  <2>5. Teardown(p, ctx'[c], queue'[c], closed'[c], surf')
    BY <1>2 DEF Teardown, Exclusive
  <2> QED
    BY <1>1, <1>2, <2>2, <2>4, <2>5 DEF CallOK
<1>11. ASSUME NEW v \in Threads \ {t}
       PROVE  CallOK(th[v])'
  <2>1. CallOK(th[v])
    BY DEF Inv, CallsOK
  <2>2. th[v].c \in Contexts /\ th[v].pc \in Holding => th[v].c # c
    BY <1>1 DEF Inv, HoldersOK
  <2>3. th[v].c \in Contexts \cup {NULL}
    BY CallTypes DEF CallRecord
  <2>4. th[v].pc \in Locking \cup Holding => th[v].c \in Contexts
    BY <2>1, <2>3 DEF CallOK, Objects
  <2>5. /\ th[v].pc \in Locking => ctx'[th[v].c].life = ctx[th[v].c].life
        /\ th[v].pc \in Holding => ctx'[th[v].c] = ctx[th[v].c]
    BY <1>1, <2>2, <2>4
  <2>6. th[v].pc # "retire" /\ th[v].pc \notin Exclusive /\ th'[v] = th[v]
    BY <1>1 DEF Exclusive
  <2>7. Objects(th[v], ctx[th[v].c], surf)
    BY <2>1 DEF CallOK
  <2>8. Objects(th[v], ctx'[th[v].c], surf)
    BY <2>5, <2>6, <2>7, ObjectsFrame
  <2>9. Teardown(th[v], ctx'[th[v].c], queue'[th[v].c], closed'[th[v].c], surf')
    BY <2>6 DEF Teardown, Exclusive
  <2>10. th[v].pc \in Holding => Stage(th[v].c, th[v], ctx'[th[v].c], surf, bad)
    BY <2>1, <2>5 DEF CallOK
  <2> QED
    BY <1>2, <2>6, <2>8, <2>9, <2>10 DEF CallOK
<1>12. CallsOK'
  BY <1>1, <1>10, <1>11 DEF CallsOK
<1> QED
  BY <1>4, <1>5, <1>6, <1>7, <1>8, <1>9, <1>12

LEMMA PushedFrames ==
    ASSUME Inv, NEW t \in Threads, NEW c \in Contexts, NEW p \in CallRecord,
           NEW x \in ContextRecord, NEW q \in Seq(Job), Pushed(t, c, p, x, q)
    PROVE  WorkersOK' /\ FramesOK' /\ SurfacesOK'
<1> DEFINE j == th[t].job
           u == OutputOf(x)
<1>1. /\ th'[t] = p /\ \A v \in Threads \ {t} : th'[v] = th[v]
      /\ ctx'[c] = x /\ \A d \in Contexts \ {c} : ctx'[d] = ctx[d]
      /\ queue'[c] = q /\ \A d \in Contexts \ {c} : queue'[d] = queue[d]
      /\ OpenOf(x) = OpenOf(ctx[c]) /\ c \notin VideoProc /\ ctx[c].life = "live"
      /\ ctx[c].picture = "building" /\ OpenOf(x) \subseteq Surfaces
      /\ \A v \in Threads : th[v].pc \notin Exclusive
      /\ \A d \in Contexts : ctx'[d].life = ctx[d].life /\ OpenOf(ctx'[d]) = OpenOf(ctx[d])
  BY PushedFacts
<1>2. /\ j \in Job /\ j.surface = u /\ u \in OpenOf(x) /\ j.generation = surf[u].submitted
      /\ surf[u].resolving /\ surf[u].life = "live" /\ ~InFrames(u) /\ (j.ok => u \notin bad)
      /\ \A s \in OpenOf(x) : s # u => ~surf[s].resolving
  BY PushedFacts
<1>3. /\ th[t].todo = <<>> /\ p.todo = <<>> /\ p.pc = "endShared" /\ x.picture = "submitted"
      /\ q = Append(queue[c], j) /\ ~closed[c] /\ x.life = ctx[c].life
      /\ UNCHANGED <<surf, closed, wk, readers, writer, unsafe, bad>>
  BY DEF Pushed
<1> HIDE DEF j, u
<1>4. queue \in [Contexts -> Seq(Job)] /\ u \in Surfaces /\ NULL \notin Surfaces
  BY <1>1, <1>2, PipelineAssumption DEF Inv, TypeOK
<1>5. \A s : InQueue(q, s) <=> InQueue(queue[c], s) \/ s = u
  BY <1>2, <1>3, <1>4, AppendQueue
<1>6. /\ \A s : InLine(queue'[c], wk'[c], s) <=> InLine(queue[c], wk[c], s) \/ s = u
      /\ \A d \in Contexts \ {c} : \A s : InLine(queue'[d], wk'[d], s) <=> InLine(queue[d], wk[d], s)
  BY <1>1, <1>3, <1>5 DEF InLine
<1>7. \A s : ~Retiring(s) /\ ~Retiring(s)'
  BY <1>1, <1>3 DEF Retiring, Exclusive
<1>8. \A s : InFrames(s)' <=> InFrames(s) \/ s = u
  BY <1>6, <1>7 DEF InFrames
<1>9. \A d \in Contexts : ~InLine(queue[d], wk[d], u)
  BY <1>2 DEF InFrames
<1>10. WorkersOK'
  <2>1. Worker(c, ctx[c], queue[c], closed[c], wk[c], surf, bad)
    BY DEF Inv, WorkersOK
  <2>2. Worker(c, x, q, closed[c], wk[c], surf, bad)
    BY <1>1, <1>3, <2>1 DEF Worker
  <2> QED
    BY <1>1, <1>3, <2>2 DEF Inv, WorkersOK
<1>11. Jobs(q, wk[c], surf, bad)
  <2>1. Jobs(queue[c], wk[c], surf, bad)
    BY DEF Inv, FramesOK
  <2> DEFINE n == Len(queue[c])
  <2>2. /\ Len(q) = n + 1 /\ q[n + 1] = j
        /\ \A i \in 1 .. n + 1 : i \in 1 .. n \/ i = n + 1
        /\ \A i \in 1 .. n : i \in 1 .. n + 1 /\ q[i] = queue[c][i]
    BY <1>2, <1>3, <1>4, AppendQueue
  <2>3. ~InWork(wk[c], u) /\ \A i \in 1 .. n : queue[c][i].surface # u
    BY <1>9 DEF InLine, InQueue
  <2> HIDE DEF n
  <2>4. ASSUME NEW i \in 1 .. n
        PROVE  /\ q[i].surface # NULL
               /\ q[i].generation = surf[q[i].surface].submitted
               /\ q[i].ok => q[i].surface \notin bad
               /\ ~InWork(wk[c], q[i].surface)
    BY <2>1, <2>2 DEF Jobs, n
  <2>5. ASSUME NEW i \in 1 .. n, NEW k \in 1 .. n, q[i].surface = q[k].surface
        PROVE  i = k
    BY <2>1, <2>2, <2>5 DEF Jobs, n
  <2>6. wk[c].pc \in {"resolve", "check"} =>
          wk[c].job.generation = surf[wk[c].job.surface].submitted
    BY <2>1 DEF Jobs
  <2>7. ASSUME NEW i \in 1 .. n + 1
        PROVE  /\ q[i].surface # NULL
               /\ q[i].generation = surf[q[i].surface].submitted
               /\ q[i].ok => q[i].surface \notin bad
               /\ ~InWork(wk[c], q[i].surface)
    <3>1. CASE i = n + 1
      BY <1>2, <1>4, <2>2, <2>3, <3>1
    <3> QED
      BY <2>2, <2>4, <3>1
  <2>8. ASSUME NEW i \in 1 .. n + 1, NEW k \in 1 .. n + 1, q[i].surface = q[k].surface
        PROVE  i = k
    BY <1>2, <2>2, <2>3, <2>5, <2>8
  <2> QED
    BY <2>2, <2>6, <2>7, <2>8 DEF Jobs
<1>12. FramesOK'
  <2>1. \A d \in Contexts : Jobs(queue[d], wk[d], surf, bad)'
    BY <1>1, <1>3, <1>11 DEF Inv, FramesOK
  <2>2. \A d, e \in Contexts, s \in Surfaces :
         d # e /\ InLine(queue[d], wk[d], s)' => ~InLine(queue[e], wk[e], s)'
    BY <1>6, <1>9 DEF Inv, FramesOK
  <2>3. \A s \in Surfaces : InFrames(s)' => surf'[s].resolving /\ surf'[s].life # "absent"
    BY <1>2, <1>3, <1>8 DEF Inv, FramesOK
  <2>4. ASSUME NEW s \in Surfaces, NEW d \in Contexts, InFrames(s)', s \in OpenOf(ctx'[d])
        PROVE  ctx'[d].picture = "submitted"
    <3>1. CASE d = c
      BY <1>1, <1>3, <3>1
    <3>2. CASE d # c
      <4>1. s \in OpenOf(ctx[d]) /\ ctx'[d] = ctx[d]
        BY <1>1, <2>4, <3>2
      <4>2. s # u
        BY <1>1, <1>2, <3>2, <4>1 DEF Inv, Apart
      <4>3. InFrames(s)
        BY <1>8, <2>4, <4>2
      <4> QED
        BY <4>1, <4>3 DEF Inv, FramesOK
    <3> QED
      BY <3>1, <3>2
  <2> QED
    BY <1>7, <2>1, <2>2, <2>3, <2>4 DEF FramesOK
<1>13. SurfacesOK'
  <2> SUFFICES ASSUME NEW s \in Surfaces
               PROVE  AbsentOK(s)' /\ OwnedOK(s)' /\ FailureOK(s)' /\ ExportOK(s)'
    BY DEF SurfacesOK
  <2>1. AbsentOK(s) /\ OwnedOK(s) /\ FailureOK(s) /\ ExportOK(s)
    BY DEF Inv, SurfacesOK
  <2>2. AbsentOK(s)'
    BY <1>3, <2>1 DEF AbsentOK
  <2>3. OwnedOK(s)'
    <3> SUFFICES ASSUME surf[s].resolving, s # u
                 PROVE  Pending(s)' \/ InFrames(s)
      BY <1>3, <1>8 DEF OwnedOK
    <3>1. s \notin OpenOf(ctx[c])
      BY <1>1, <1>2
    <3>2. CASE Pending(s)
      BY <1>1, <3>1, <3>2 DEF Pending
    <3> QED
      BY <2>1, <3>2 DEF OwnedOK
  <2>4. \A op : Settling(s, op)' <=> Settling(s, op)
    BY <1>1, <1>3 DEF Settling
  <2>5. FailureOK(s)'
    BY <1>3, <2>1, <2>4 DEF FailureOK
  <2>6. ExportOK(s)'
    <3> SUFFICES ASSUME surf[s].exported, ~Targeted(s)', NEW d \in Contexts
                 PROVE  ~Running(queue'[d], wk'[d], s)
      BY <1>3 DEF ExportOK
    <3>1. ~Targeted(s) /\ s # u
      BY <1>1, <1>2 DEF Targeted
    <3>2. ~Running(queue[d], wk[d], s)
      BY <2>1, <3>1 DEF ExportOK
    <3> QED
      BY <1>1, <1>3, <1>5, <3>1, <3>2 DEF Running
  <2> QED
    BY <2>2, <2>3, <2>5, <2>6
<1> QED
  BY <1>10, <1>12, <1>13

LEMMA EndPushInv ==
    ASSUME Inv, NEW t \in Threads, EndPush(t)
    PROVE  Inv'
<1>1. PICK c \in Contexts, p \in CallRecord, x \in ContextRecord, q \in Seq(Job) :
               Pushed(t, c, p, x, q)
  BY PushedShape
<1> QED
  BY <1>1, PushedCalls, PushedFrames DEF Inv

-----------------------------------------------------------------------------
(* A step of the worker of c.  Its queue becomes q, the worker w, and k    *)
(* says whether the queue is exiting.                                      *)

\* What has become of the failure of s, after the step.
WorkAnswered(c, w, s) ==
    \/ /\ Same(s)
       /\ Has(wk[c].todo, s, "fail") => Has(w.todo, s, "fail")
       /\ Has(wk[c].todo, s, "clear") => Has(w.todo, s, "clear")
    \/ Has(w.todo, s, "fail")
    \/ surf'[s].decodeFailed /\ (surf'[s].resolving \/ surf'[s].status = "error")

WorkShape(c, q, k, w) ==
    /\ queue' = [queue EXCEPT ![c] = q] /\ closed' = [closed EXCEPT ![c] = k]
    /\ wk' = [wk EXCEPT ![c] = w]
    /\ UNCHANGED <<ctx, th, readers, writer>>
    /\ Len(q) <= Len(queue[c]) /\ (closed[c] => k) /\ (queue[c] = <<>> => q = <<>>)
    /\ surf' \in [Surfaces -> SurfaceRecord] /\ bad' \subseteq Surfaces /\ unsafe' \in BOOLEAN

WorkLine(c, q, w) ==
    /\ \A s : InLine(q, w, s) => InLine(queue[c], wk[c], s)
    /\ \A s : Running(q, w, s) => Running(queue[c], wk[c], s)
    /\ \A s \in Surfaces : InLine(q, w, s) => surf'[s].resolving
    /\ \A s \in Surfaces : InLine(queue[c], wk[c], s) /\ surf'[s].resolving => InLine(q, w, s)

WorkSurfaces(c, w) ==
    /\ \A s \in Surfaces : ~InLine(queue[c], wk[c], s) => Same(s)
    /\ \A s \in Surfaces : /\ surf'[s].life = surf[s].life
                           /\ surf'[s].exported = surf[s].exported
                           /\ surf'[s].resolving => surf[s].resolving
    /\ \A s \in bad' : WorkAnswered(c, w, s)

WorkStep(c, q, k, w) ==
    /\ WorkShape(c, q, k, w) /\ WorkLine(c, q, w) /\ WorkSurfaces(c, w)
    /\ Worker(c, ctx[c], q, k, w, surf', bad') /\ Jobs(q, w, surf', bad')

LEMMA WorkPoints ==
    ASSUME Inv, NEW c \in Contexts, NEW q \in Seq(Job), NEW k \in BOOLEAN,
           NEW w \in WorkerRecord, WorkShape(c, q, k, w)
    PROVE  /\ queue'[c] = q /\ closed'[c] = k /\ wk'[c] = w
           /\ \A d \in Contexts \ {c} :
                queue'[d] = queue[d] /\ closed'[d] = closed[d] /\ wk'[d] = wk[d]
           /\ queue \in [Contexts -> Seq(Job)] /\ wk \in [Contexts -> WorkerRecord]
           /\ TypeOK'
<1>1. /\ queue \in [Contexts -> Seq(Job)] /\ wk \in [Contexts -> WorkerRecord]
      /\ closed \in [Contexts -> BOOLEAN]
      /\ \A d \in Contexts : Len(queue[d]) \in Nat /\ Len(queue[d]) <= Capacity
  BY DEF Inv, TypeOK, WorkerRecord
<1>2. /\ queue'[c] = q /\ closed'[c] = k /\ wk'[c] = w
      /\ \A d \in Contexts \ {c} :
           queue'[d] = queue[d] /\ closed'[d] = closed[d] /\ wk'[d] = wk[d]
  BY <1>1 DEF WorkShape
<1>3. /\ queue' \in [Contexts -> Seq(Job)] /\ wk' \in [Contexts -> WorkerRecord]
      /\ closed' \in [Contexts -> BOOLEAN]
  BY <1>1 DEF WorkShape
<1>4. \A d \in Contexts : Len(queue'[d]) <= Capacity
  <2>1. Len(q) \in Nat /\ Capacity \in Nat
    BY PipelineAssumption
  <2>2. Len(q) <= Capacity
    BY <1>1, <2>1 DEF WorkShape
  <2> QED
    BY <1>1, <1>2, <2>2
<1>5. TypeOK'
  <2>1. /\ UNCHANGED <<ctx, th, readers, writer>> /\ surf' \in [Surfaces -> SurfaceRecord]
        /\ bad' \subseteq Surfaces /\ unsafe' \in BOOLEAN
    BY DEF WorkShape
  <2> QED
    BY <1>3, <1>4, <2>1 DEF Inv, TypeOK, WorkerRecord
<1> QED
  BY <1>1, <1>2, <1>5

\* What the worker changes belongs to a picture that has been submitted.
LEMMA WorkTargets ==
    ASSUME Inv, NEW c \in Contexts, NEW q \in Seq(Job), NEW k \in BOOLEAN,
           NEW w \in WorkerRecord, WorkStep(c, q, k, w)
    PROVE  PicturesOK' /\ CallsOK'
<1>1. WorkShape(c, q, k, w) /\ WorkSurfaces(c, w)
  BY DEF WorkStep
<1>2. /\ queue'[c] = q /\ closed'[c] = k
      /\ \A d \in Contexts \ {c} : queue'[d] = queue[d] /\ closed'[d] = closed[d]
  BY <1>1, WorkPoints
<1>3. UNCHANGED <<ctx, th>> /\ (closed[c] => k) /\ (queue[c] = <<>> => q = <<>>)
  BY <1>1 DEF WorkShape
<1>4. /\ \A s \in Surfaces : ~InLine(queue[c], wk[c], s) => Same(s)
      /\ \A s \in Surfaces : /\ surf'[s].life = surf[s].life
                             /\ surf'[s].exported = surf[s].exported
                             /\ surf'[s].resolving => surf[s].resolving
  BY <1>1 DEF WorkSurfaces
<1>5. ASSUME NEW d \in Contexts, NEW s \in OpenOf(ctx[d])
      PROVE  /\ s \in Surfaces
             /\ \/ surf'[s] = surf[s] /\ (s \in bad' <=> s \in bad)
                \/ /\ ctx[d].picture = "submitted"
                   /\ surf'[s].life = surf[s].life /\ surf'[s].exported = surf[s].exported
                   /\ surf'[s].resolving => surf[s].resolving
  <2>1. s \in Surfaces /\ (InFrames(s) => ctx[d].picture = "submitted")
    BY TargetFacts
  <2>2. InLine(queue[c], wk[c], s) => InFrames(s)
    BY DEF InFrames
  <2> QED
    BY <1>4, <2>1, <2>2 DEF Same
<1>6. PicturesOK'
  <2> SUFFICES ASSUME NEW d \in Contexts
               PROVE  Picture(d, ctx[d], surf', bad')
    BY <1>3 DEF PicturesOK
  <2>1. Picture(d, ctx[d], surf, bad)
    BY DEF Inv, PicturesOK
  <2>2. \A s \in OpenOf(ctx[d]) :
             \/ surf'[s] = surf[s] /\ (s \in bad' <=> s \in bad)
             \/ ctx[d].picture = "submitted" /\ surf'[s].life = surf[s].life
    BY <1>5
  <2> QED
    BY <2>1, <2>2, PictureFrame
<1>7. ASSUME NEW t \in Threads
      PROVE  CallOK(th[t])'
  <2> DEFINE p == th[t]
             x == ctx[p.c]
  <2>1. CallOK(p)
    BY DEF Inv, CallsOK
  <2>2. p.c \in Contexts \cup {NULL} /\ (p.s = NULL \/ p.s \in Surfaces)
    BY CallTypes DEF CallRecord
  <2>3. p.pc \in Holding \cup {"retire"} => p.c \in Contexts
    BY <2>1, <2>2 DEF CallOK, Objects
  <2>4. p.pc \in ReadyPC => p.s \in Surfaces
    BY <2>1, <2>2 DEF CallOK, Objects, ReadyPC, BeginPC, SourcePC
  <2>5. Objects(p, x, surf')
    BY <1>4, <2>1, <2>2, <2>4, ObjectsFrame DEF CallOK
  <2>6. Teardown(p, x, queue'[p.c], closed'[p.c], surf')
    <3>1. Teardown(p, x, queue[p.c], closed[p.c], surf)
      BY <2>1 DEF CallOK
    <3>2. p.pc = "retire" =>
            /\ queue[p.c] = <<>> => queue'[p.c] = <<>>
            /\ closed[p.c] => closed'[p.c]
      BY <1>2, <1>3, <2>3
    <3> QED
      BY <1>4, <3>1, <3>2 DEF Teardown
  <2>7. ASSUME p.pc \in Holding
        PROVE  Stage(p.c, p, x, surf', bad')
    <3>1. Stage(p.c, p, x, surf, bad) /\ p.c \in Contexts
      BY <2>1, <2>3, <2>7 DEF CallOK
    <3>2. \A s \in OpenOf(x) :
             \/ surf'[s] = surf[s] /\ (s \in bad' <=> s \in bad)
             \/ /\ x.picture = "submitted" /\ surf'[s].exported = surf[s].exported
                /\ surf'[s].resolving => surf[s].resolving
      BY <1>5, <3>1
    <3> HIDE DEF p, x
    <3> QED
      BY <3>1, <3>2, StageFrame
  <2> QED
    BY <1>3, <2>5, <2>6, <2>7 DEF CallOK
<1> QED
  BY <1>3, <1>6, <1>7 DEF CallsOK

LEMMA WorkStepInv ==
    ASSUME Inv, NEW c \in Contexts, NEW q \in Seq(Job), NEW k \in BOOLEAN,
           NEW w \in WorkerRecord, WorkStep(c, q, k, w)
    PROVE  Inv'
<1>1. /\ WorkShape(c, q, k, w) /\ WorkSurfaces(c, w) /\ WorkLine(c, q, w)
      /\ Worker(c, ctx[c], q, k, w, surf', bad') /\ Jobs(q, w, surf', bad')
  BY DEF WorkStep
<1>2. /\ queue'[c] = q /\ closed'[c] = k /\ wk'[c] = w
      /\ \A d \in Contexts \ {c} :
           queue'[d] = queue[d] /\ closed'[d] = closed[d] /\ wk'[d] = wk[d]
      /\ queue \in [Contexts -> Seq(Job)] /\ wk \in [Contexts -> WorkerRecord]
      /\ TypeOK'
  BY <1>1, WorkPoints
<1>3. UNCHANGED <<ctx, th, readers, writer>>
  BY <1>1 DEF WorkShape
<1>4. /\ \A s \in Surfaces : ~InLine(queue[c], wk[c], s) => Same(s)
      /\ \A s \in Surfaces : /\ surf'[s].life = surf[s].life
                             /\ surf'[s].exported = surf[s].exported
                             /\ surf'[s].resolving => surf[s].resolving
      /\ \A s \in bad' : WorkAnswered(c, w, s)
  BY <1>1 DEF WorkSurfaces
<1>5. /\ \A s : InLine(q, w, s) => InLine(queue[c], wk[c], s)
      /\ \A s : Running(q, w, s) => Running(queue[c], wk[c], s)
      /\ \A s \in Surfaces : InLine(q, w, s) => surf'[s].resolving
      /\ \A s \in Surfaces : InLine(queue[c], wk[c], s) /\ surf'[s].resolving => InLine(q, w, s)
  BY <1>1 DEF WorkLine
<1>6. LocksOK' /\ HoldersOK' /\ Apart' /\ Claims'
  BY <1>3 DEF Inv, LocksOK, HoldersOK, Apart, Claims
<1>7. PicturesOK' /\ CallsOK'
  BY WorkTargets
<1>8. ASSUME NEW d \in Contexts \ {c}, NEW s \in Surfaces, InLine(queue[d], wk[d], s)
      PROVE  surf'[s] = surf[s] /\ (s \in bad' <=> s \in bad) /\ ~InLine(queue[c], wk[c], s)
  <2>1. ~InLine(queue[c], wk[c], s)
    BY <1>8 DEF Inv, FramesOK
  <2> QED
    BY <1>4, <2>1 DEF Same
<1>9. ASSUME NEW d \in Contexts
      PROVE  /\ Worker(d, ctx[d], queue[d], closed[d], wk[d], surf, bad)'
             /\ Jobs(queue[d], wk[d], surf, bad)'
  <2>1. CASE d = c
    BY <1>1, <1>2, <1>3, <2>1
  <2>2. CASE d # c
    <3>1. /\ Worker(d, ctx[d], queue[d], closed[d], wk[d], surf, bad)
          /\ Jobs(queue[d], wk[d], surf, bad) /\ queue[d] \in Seq(Job) /\ wk[d] \in WorkerRecord
      BY <1>2 DEF Inv, WorkersOK, FramesOK
    <3>2. wk[d].pc \in WorkPC => wk[d].job.surface # NULL
      BY <3>1 DEF Worker
    <3>3. \A s \in Surfaces : InLine(queue[d], wk[d], s) =>
             /\ surf'[s].submitted = surf[s].submitted
             /\ surf'[s].decodeFailed = surf[s].decodeFailed
             /\ s \in bad' <=> s \in bad
      BY <1>8, <2>2
    <3>4. Worker(d, ctx[d], queue[d], closed[d], wk[d], surf', bad')
      BY <3>1, <3>3, WorkerFrame
    <3>5. Jobs(queue[d], wk[d], surf', bad')
      BY <3>1, <3>2, <3>3, JobsFrame
    <3> QED
      BY <1>2, <1>3, <2>2, <3>4, <3>5
  <2> QED
    BY <2>1, <2>2
<1>10. \A s : Retiring(s)' <=> Retiring(s)
  BY <1>3 DEF Retiring
<1>11. \A d \in Contexts, s \in Surfaces :
          InLine(queue[d], wk[d], s)' => InLine(queue[d], wk[d], s)
  BY <1>2, <1>5
<1>12. \A s \in Surfaces : InFrames(s)' => InFrames(s)
  BY <1>10, <1>11 DEF InFrames
<1>13. FramesOK'
  <2>1. \A d \in Contexts, s \in Surfaces : InLine(queue[d], wk[d], s)' => ~Retiring(s)'
    BY <1>10, <1>11 DEF Inv, FramesOK
  <2>2. \A d, e \in Contexts, s \in Surfaces :
         d # e /\ InLine(queue[d], wk[d], s)' => ~InLine(queue[e], wk[e], s)'
    BY <1>11 DEF Inv, FramesOK
  <2>3. ASSUME NEW s \in Surfaces, InFrames(s)'
        PROVE  surf'[s].resolving /\ surf'[s].life # "absent"
    <3>1. surf[s].resolving /\ surf[s].life # "absent"
      BY <1>12, <2>3 DEF Inv, FramesOK
    <3>2. CASE InLine(queue[c], wk[c], s)
      <4>1. InLine(q, w, s)
        <5>1. ~Retiring(s) /\ \A d \in Contexts \ {c} : ~InLine(queue[d], wk[d], s)
          BY <3>2 DEF Inv, FramesOK
        <5>2. \E d \in Contexts : InLine(queue'[d], wk'[d], s)
          BY <1>10, <2>3, <5>1 DEF InFrames
        <5> QED
          BY <1>2, <5>1, <5>2
      <4> QED
        BY <1>4, <1>5, <3>1, <4>1
    <3>3. CASE ~InLine(queue[c], wk[c], s)
      BY <1>4, <3>1, <3>3 DEF Same
    <3> QED
      BY <3>2, <3>3
  <2>4. \A s \in Surfaces, d \in Contexts :
         InFrames(s)' /\ s \in OpenOf(ctx'[d]) => ctx'[d].picture = "submitted"
    BY <1>3, <1>12 DEF Inv, FramesOK
  <2> QED
    BY <1>9, <2>1, <2>2, <2>3, <2>4 DEF FramesOK
<1>14. SurfacesOK'
  <2> SUFFICES ASSUME NEW s \in Surfaces
               PROVE  AbsentOK(s)' /\ OwnedOK(s)' /\ FailureOK(s)' /\ ExportOK(s)'
    BY DEF SurfacesOK
  <2>1. AbsentOK(s) /\ OwnedOK(s) /\ FailureOK(s) /\ ExportOK(s)
    BY DEF Inv, SurfacesOK
  <2>2. AbsentOK(s)'
    <3> SUFFICES ASSUME surf'[s].life = "absent"
                 PROVE  surf'[s] = NoSurface /\ s \notin bad'
      BY DEF AbsentOK
    <3>1. surf[s].life = "absent" /\ surf[s] = NoSurface /\ s \notin bad
      BY <1>4, <2>1 DEF AbsentOK
    <3>2. ~InFrames(s)
      BY <3>1 DEF Inv, FramesOK
    <3>3. Same(s)
      BY <1>4, <3>2 DEF InFrames
    <3> QED
      BY <3>1, <3>3 DEF Same
  <2>3. OwnedOK(s)'
    <3> SUFFICES ASSUME surf'[s].resolving
                 PROVE  Pending(s)' \/ InFrames(s)'
      BY DEF OwnedOK
    <3>1. Pending(s) \/ InFrames(s)
      BY <1>4, <2>1 DEF OwnedOK
    <3>2. Pending(s) => Pending(s)'
      BY <1>3 DEF Pending
    <3>3. ASSUME NEW d \in Contexts, InLine(queue[d], wk[d], s)
          PROVE  InLine(queue[d], wk[d], s)'
      BY <1>2, <1>5, <3>3
    <3> QED
      BY <1>10, <3>1, <3>2, <3>3 DEF InFrames
  <2>4. FailureOK(s)'
    <3> SUFFICES ASSUME s \in bad'
                 PROVE  \/ Settling(s, "fail")'
                        \/ /\ surf'[s].decodeFailed
                           /\ \/ surf'[s].resolving \/ surf'[s].status = "error"
                              \/ Settling(s, "clear")'
      BY DEF FailureOK
    <3>1. WorkAnswered(c, w, s)
      BY <1>4
    <3>2. \A op : Has(w.todo, s, op) => Settling(s, op)'
      BY <1>2 DEF Settling
    <3>3. CASE Has(w.todo, s, "fail")
      BY <3>2, <3>3
    <3>4. CASE surf'[s].decodeFailed /\ (surf'[s].resolving \/ surf'[s].status = "error")
      BY <3>4
    <3>5. CASE /\ Same(s)
               /\ Has(wk[c].todo, s, "fail") => Has(w.todo, s, "fail")
               /\ Has(wk[c].todo, s, "clear") => Has(w.todo, s, "clear")
      <4>1. ASSUME NEW op \in {"fail", "clear"}, Settling(s, op)
            PROVE  Settling(s, op)'
        <5>1. Has(wk[c].todo, s, op) => Has(w.todo, s, op)
          BY <3>5
        <5>2. CASE Has(wk[c].todo, s, op)
          BY <3>2, <5>1, <5>2
        <5>3. CASE \E t \in Threads : Has(th[t].todo, s, op)
          BY <1>3, <5>3 DEF Settling
        <5>4. CASE \E d \in Contexts \ {c} : Has(wk[d].todo, s, op)
          BY <1>2, <5>4 DEF Settling
        <5> QED
          BY <4>1, <5>2, <5>3, <5>4 DEF Settling
      <4>2. s \in bad /\ surf'[s] = surf[s]
        BY <3>5 DEF Same
      <4> QED
        BY <2>1, <4>1, <4>2 DEF FailureOK
    <3> QED
      BY <3>1, <3>3, <3>4, <3>5 DEF WorkAnswered
  <2>5. ExportOK(s)'
    <3> SUFFICES ASSUME surf'[s].exported, ~Targeted(s)', NEW d \in Contexts
                 PROVE  ~Running(queue'[d], wk'[d], s)
      BY DEF ExportOK
    <3>1. ~Targeted(s) /\ surf[s].exported
      BY <1>3, <1>4 DEF Targeted
    <3>2. ~Running(queue[d], wk[d], s)
      BY <2>1, <3>1 DEF ExportOK
    <3> QED
      BY <1>2, <1>5, <3>2
  <2> QED
    BY <2>2, <2>3, <2>4, <2>5
<1>15. WorkersOK'
  BY <1>9 DEF WorkersOK
<1> QED
  BY <1>2, <1>6, <1>7, <1>13, <1>14, <1>15 DEF Inv

-----------------------------------------------------------------------------
(* The steps of a worker.                                                  *)

LEMMA WorkerFacts ==
    ASSUME Inv, NEW c \in Contexts
    PROVE  /\ wk \in [Contexts -> WorkerRecord] /\ wk[c] \in WorkerRecord
           /\ queue \in [Contexts -> Seq(Job)] /\ queue[c] \in Seq(Job)
           /\ closed \in [Contexts -> BOOLEAN] /\ closed[c] \in BOOLEAN
           /\ surf \in [Surfaces -> SurfaceRecord] /\ bad \subseteq Surfaces /\ unsafe \in BOOLEAN
           /\ Worker(c, ctx[c], queue[c], closed[c], wk[c], surf, bad)
           /\ Jobs(queue[c], wk[c], surf, bad)
           /\ \A s \in Surfaces : InLine(queue[c], wk[c], s) => surf[s].resolving
           /\ wk[c].pc \in WorkPC => wk[c].job.surface \in Surfaces
           /\ wk[c].pc # "aborted" => wk[c].todo = <<>>
           /\ wk[c].pc # "none" => ctx[c].life # "absent" /\ c \notin VideoProc
<1>1. /\ wk \in [Contexts -> WorkerRecord] /\ wk[c] \in WorkerRecord
      /\ queue \in [Contexts -> Seq(Job)] /\ queue[c] \in Seq(Job)
      /\ closed \in [Contexts -> BOOLEAN] /\ closed[c] \in BOOLEAN
      /\ surf \in [Surfaces -> SurfaceRecord] /\ bad \subseteq Surfaces /\ unsafe \in BOOLEAN
  BY DEF Inv, TypeOK, WorkerRecord
<1>2. /\ Worker(c, ctx[c], queue[c], closed[c], wk[c], surf, bad)
      /\ Jobs(queue[c], wk[c], surf, bad)
  BY DEF Inv, WorkersOK, FramesOK
<1>3. \A s \in Surfaces : InLine(queue[c], wk[c], s) => surf[s].resolving
  <2>1. \A s \in Surfaces : InLine(queue[c], wk[c], s) => InFrames(s)
    BY DEF InFrames
  <2> QED
    BY <2>1 DEF Inv, FramesOK
<1>4. wk[c].pc \in WorkPC => wk[c].job.surface \in Surfaces
  BY <1>1, <1>2 DEF Worker, WorkerRecord, Job
<1>5. wk[c].pc # "none" => ctx[c].life # "absent" /\ c \notin VideoProc
  BY <1>2 DEF Worker, NoWorker
<1> QED
  BY <1>1, <1>2, <1>3, <1>4, <1>5 DEF Worker

\* A step that changes no surface and keeps the frames in line.
LEMMA QuietWork ==
    ASSUME Inv, NEW c \in Contexts, NEW q \in Seq(Job), NEW k \in BOOLEAN,
           NEW w \in WorkerRecord,
           queue' = [queue EXCEPT ![c] = q], closed' = [closed EXCEPT ![c] = k],
           wk' = [wk EXCEPT ![c] = w], UNCHANGED <<surf, ctx, th, readers, writer, bad>>,
           unsafe' \in BOOLEAN, Len(q) <= Len(queue[c]), closed[c] => k,
           queue[c] = <<>> => q = <<>>, wk[c].todo = <<>>, w.todo = <<>>,
           \A s : InLine(q, w, s) <=> InLine(queue[c], wk[c], s),
           \A s : Running(q, w, s) => Running(queue[c], wk[c], s),
           Worker(c, ctx[c], q, k, w, surf, bad), Jobs(q, w, surf, bad)
    PROVE  Inv'
<1>1. /\ surf \in [Surfaces -> SurfaceRecord] /\ bad \subseteq Surfaces
      /\ \A s \in Surfaces : InLine(queue[c], wk[c], s) => surf[s].resolving
  BY WorkerFacts
<1>2. WorkShape(c, q, k, w)
  BY <1>1 DEF WorkShape
<1>3. WorkLine(c, q, w)
  BY <1>1 DEF WorkLine
<1>4. WorkSurfaces(c, w)
  <2>1. \A s : Same(s)
    BY DEF Same
  <2> QED
    BY <2>1, EmptyList DEF WorkSurfaces, WorkAnswered
<1>5. WorkStep(c, q, k, w)
  BY <1>2, <1>3, <1>4 DEF WorkStep
<1> QED
  BY <1>5, WorkStepInv

\* The worker starts, looks at the job it has taken, or leaves.
LEMMA WorkerMoves ==
    ASSUME Inv, NEW c \in Contexts,
           \/ WorkerStart(c) \/ WorkerExit(c)
           \/ \E failed \in BOOLEAN : WorkerResolve(c, failed)
    PROVE  Inv'
<1>1. PICK pc \in WorkerPC, f \in BOOLEAN :
        /\ wk' = [wk EXCEPT ![c].pc = pc, ![c].failed = f] /\ unsafe' \in BOOLEAN
        /\ UNCHANGED <<surf, ctx, queue, closed, th, readers, writer, bad>>
        /\ \/ wk[c].pc = "start" /\ pc = "pop"
           \/ wk[c].pc = "pop" /\ queue[c] = <<>> /\ closed[c] /\ pc = "exited"
           \/ wk[c].pc = "resolve" /\ pc = "check" /\ (~wk[c].job.ok => f)
  <2>0. wk \in [Contexts -> WorkerRecord] /\ unsafe \in BOOLEAN /\ wk[c].failed \in BOOLEAN
    BY WorkerFacts DEF WorkerRecord
  <2>1. CASE WorkerStart(c)
    <3>1. wk' = [wk EXCEPT ![c].pc = "pop", ![c].failed = wk[c].failed]
      BY <2>0, <2>1 DEF WorkerStart, WorkerRecord
    <3> QED
      BY <2>0, <2>1, <3>1 DEF WorkerStart, locks, WorkerPC
  <2>2. CASE WorkerExit(c)
    <3>1. wk' = [wk EXCEPT ![c].pc = "exited", ![c].failed = wk[c].failed]
      BY <2>0, <2>2 DEF WorkerExit, WorkerRecord
    <3> QED
      BY <2>0, <2>2, <3>1 DEF WorkerExit, locks, WorkerPC
  <2>3. ASSUME NEW failed \in BOOLEAN, WorkerResolve(c, failed)
        PROVE  /\ wk' = [wk EXCEPT ![c].pc = "check", ![c].failed = failed] /\ unsafe' \in BOOLEAN
               /\ UNCHANGED <<surf, ctx, queue, closed, th, readers, writer, bad>>
               /\ wk[c].pc = "resolve" /\ (~wk[c].job.ok => failed)
    BY <2>0, <2>3 DEF WorkerResolve, locks
  <2>4. "check" \in WorkerPC
    BY DEF WorkerPC
  <2> QED
    BY <2>1, <2>2, <2>3, <2>4
<1> DEFINE q == queue[c]
           k == closed[c]
           w == [wk[c] EXCEPT !.pc = pc, !.failed = f]
<1>2. /\ wk \in [Contexts -> WorkerRecord] /\ wk[c] \in WorkerRecord
      /\ queue \in [Contexts -> Seq(Job)] /\ queue[c] \in Seq(Job)
      /\ closed \in [Contexts -> BOOLEAN] /\ closed[c] \in BOOLEAN
      /\ Worker(c, ctx[c], q, k, wk[c], surf, bad) /\ Jobs(q, wk[c], surf, bad)
      /\ (wk[c].pc # "aborted" => wk[c].todo = <<>>)
      /\ (wk[c].pc # "none" => ctx[c].life # "absent" /\ c \notin VideoProc)
  BY WorkerFacts
<1>3. /\ w \in WorkerRecord /\ w.pc = pc /\ w.failed = f /\ w.job = wk[c].job
      /\ w.todo = wk[c].todo /\ wk' = [wk EXCEPT ![c] = w]
  BY <1>1, <1>2 DEF WorkerRecord
<1>4. queue' = [queue EXCEPT ![c] = q] /\ closed' = [closed EXCEPT ![c] = k]
  BY <1>1, <1>2
<1> HIDE DEF w
<1>5. wk[c].todo = <<>> /\ w.todo = <<>> /\ ctx[c].life # "absent" /\ c \notin VideoProc
  BY <1>1, <1>2, <1>3
<1>6. pc \in WorkPC <=> wk[c].pc \in WorkPC
  BY <1>1 DEF WorkPC
<1>7. \A s : InLine(q, w, s) <=> InLine(queue[c], wk[c], s)
  BY <1>3, <1>6 DEF InLine, InWork
<1>8. \A s : Running(q, w, s) => Running(queue[c], wk[c], s)
  BY <1>1, <1>3 DEF Running
<1>9. Worker(c, ctx[c], q, k, w, surf, bad)
  BY <1>1, <1>2, <1>3, <1>5, <1>6 DEF Worker, Only, Once, WorkPC
<1>10. Jobs(q, w, surf, bad)
  BY <1>1, <1>2, <1>3, <1>6 DEF Jobs, InWork
<1> HIDE DEF q, k
<1>11. q \in Seq(Job) /\ k \in BOOLEAN /\ q = queue[c] /\ k = closed[c] /\ Len(q) \in Nat
  BY <1>2 DEF q, k
<1>12. /\ Len(q) <= Len(queue[c]) /\ (closed[c] => k) /\ (queue[c] = <<>> => q = <<>>)
       /\ UNCHANGED <<surf, ctx, th, readers, writer, bad>> /\ unsafe' \in BOOLEAN
  BY <1>1, <1>11
<1> QED
  BY <1>3, <1>4, <1>5, <1>7, <1>8, <1>9, <1>10, <1>11, <1>12, QuietWork

\* What is taken from a queue, and what is left.
LEMMA TailQueue ==
    ASSUME NEW l \in Seq(Job), l # <<>>
    PROVE  /\ Head(l) \in Job /\ Tail(l) \in Seq(Job) /\ Len(Tail(l)) <= Len(l)
           /\ Head(l) = l[1] /\ 1 \in 1 .. Len(l)
           /\ \A i \in 1 .. Len(Tail(l)) : /\ Tail(l)[i] = l[i + 1] /\ i + 1 \in 1 .. Len(l)
                                           /\ i + 1 # 1
           /\ \A s : InQueue(l, s) <=> Head(l).surface = s \/ InQueue(Tail(l), s)
<1> DEFINE h == Head(l)  m == Tail(l)
<1>1. /\ h \in Job /\ m \in Seq(Job) /\ Len(l) \in Nat /\ Len(l) > 0
      /\ Len(m) = Len(l) - 1 /\ h = l[1] /\ \A i \in 1 .. Len(m) : m[i] = l[i + 1]
  OBVIOUS
<1> HIDE DEF h, m
<1>2. /\ 1 \in 1 .. Len(l) /\ Len(m) <= Len(l)
      /\ \A i \in 1 .. Len(m) : i + 1 \in 1 .. Len(l) /\ i + 1 # 1
      /\ \A i \in 1 .. Len(l) : i # 1 => i - 1 \in 1 .. Len(m) /\ m[i - 1] = l[i]
  BY <1>1
<1>3. \A i \in 1 .. Len(l) : l[i] = h \/ \E j \in 1 .. Len(m) : l[i] = m[j]
  BY <1>1, <1>2
<1>4. \A j \in 1 .. Len(m) : \E i \in 1 .. Len(l) : l[i] = m[j]
  BY <1>1, <1>2
<1>5. \A s : InQueue(l, s) <=> h.surface = s \/ InQueue(m, s)
  <2>1. \E i \in 1 .. Len(l) : l[i] = h
    BY <1>1, <1>2
  <2> QED
    BY <1>3, <1>4, <2>1 DEF InQueue
<1> QED
  BY <1>1, <1>2, <1>5 DEF h, m

LEMMA WorkerPopInv ==
    ASSUME Inv, NEW c \in Contexts, WorkerPop(c)
    PROVE  Inv'
<1> DEFINE l == queue[c]
           q == Tail(l)
           k == closed[c]
           j == Head(l)
           w == [wk[c] EXCEPT !.pc = "resolve", !.job = j]
<1>1. /\ wk[c].pc = "pop" /\ l # <<>>
      /\ wk' = [wk EXCEPT ![c].pc = "resolve", ![c].job = j]
      /\ queue' = [queue EXCEPT ![c] = Tail(@)]
      /\ UNCHANGED <<surf, ctx, closed, th, readers, writer, unsafe, bad>>
  BY DEF WorkerPop, locks
<1>2. /\ wk \in [Contexts -> WorkerRecord] /\ wk[c] \in WorkerRecord
      /\ queue \in [Contexts -> Seq(Job)] /\ l \in Seq(Job)
      /\ closed \in [Contexts -> BOOLEAN] /\ k \in BOOLEAN /\ unsafe \in BOOLEAN
      /\ Worker(c, ctx[c], l, k, wk[c], surf, bad) /\ Jobs(l, wk[c], surf, bad)
      /\ (wk[c].pc # "aborted" => wk[c].todo = <<>>)
      /\ (wk[c].pc # "none" => ctx[c].life # "absent" /\ c \notin VideoProc)
  BY WorkerFacts
<1>3. /\ j \in Job /\ q \in Seq(Job) /\ Len(q) <= Len(l) /\ j = l[1] /\ 1 \in 1 .. Len(l)
      /\ \A i \in 1 .. Len(q) : q[i] = l[i + 1] /\ i + 1 \in 1 .. Len(l) /\ i + 1 # 1
      /\ \A s : InQueue(l, s) <=> j.surface = s \/ InQueue(q, s)
  BY <1>1, <1>2, TailQueue
<1>4. /\ w \in WorkerRecord /\ w.pc = "resolve" /\ w.failed = wk[c].failed /\ w.job = j
      /\ w.todo = <<>> /\ wk[c].todo = <<>> /\ wk' = [wk EXCEPT ![c] = w]
  BY <1>1, <1>2, <1>3 DEF WorkerRecord, WorkerPC
<1>5. queue' = [queue EXCEPT ![c] = q] /\ closed' = [closed EXCEPT ![c] = k]
  BY <1>1, <1>2
<1> HIDE DEF w, l, q, j, k
<1>6. /\ j.surface # NULL /\ j.generation = surf[j.surface].submitted
      /\ j.ok => j.surface \notin bad
  BY <1>2, <1>3 DEF Jobs
<1>7. \A s : InLine(q, w, s) <=> InLine(queue[c], wk[c], s)
  BY <1>1, <1>3, <1>4 DEF InLine, InWork, WorkPC, l
<1>8. \A s : Running(q, w, s) => Running(queue[c], wk[c], s)
  BY <1>3, <1>4 DEF Running, l
<1>9. Worker(c, ctx[c], q, k, w, surf, bad)
  BY <1>1, <1>2, <1>4, <1>6 DEF Worker, Only, Once, WorkPC
<1>10. Jobs(q, w, surf, bad)
  <2>1. ASSUME NEW i \in 1 .. Len(q)
        PROVE  /\ q[i].surface # NULL /\ q[i].generation = surf[q[i].surface].submitted
               /\ q[i].ok => q[i].surface \notin bad
               /\ ~InWork(w, q[i].surface)
    <3>1. q[i] = l[i + 1] /\ i + 1 \in 1 .. Len(l) /\ i + 1 # 1
      BY <1>3
    <3>2. l[i + 1].surface # l[1].surface
      BY <1>2, <1>3, <3>1 DEF Jobs
    <3>3. /\ q[i].surface # NULL /\ q[i].generation = surf[q[i].surface].submitted
          /\ q[i].ok => q[i].surface \notin bad
      BY <1>2, <3>1 DEF Jobs
    <3> QED
      BY <1>3, <1>4, <3>1, <3>2, <3>3 DEF InWork
  <2>2. ASSUME NEW i \in 1 .. Len(q), NEW n \in 1 .. Len(q), q[i].surface = q[n].surface
        PROVE  i = n
    <3>1. i + 1 = n + 1
      BY <1>2, <1>3, <2>2 DEF Jobs
    <3> QED
      BY <3>1
  <2> QED
    BY <1>4, <1>6, <2>1, <2>2 DEF Jobs
<1>11. /\ Len(q) <= Len(queue[c]) /\ (closed[c] => k) /\ (queue[c] = <<>> => q = <<>>)
       /\ UNCHANGED <<surf, ctx, th, readers, writer, bad>> /\ unsafe' \in BOOLEAN
       /\ q \in Seq(Job) /\ k \in BOOLEAN
  BY <1>1, <1>2, <1>3 DEF l, k
<1> QED
  BY <1>4, <1>5, <1>7, <1>8, <1>9, <1>10, <1>11, QuietWork

\* The verdict: the job's generation is the latest one, as nobody has marked its
\* surface since.
LEMMA WorkerCheckInv ==
    ASSUME Inv, NEW c \in Contexts, WorkerCheck(c)
    PROVE  Inv'
<1> DEFINE q == queue[c]
           k == closed[c]
           u == wk[c].job.surface
           f == wk[c].failed \/ unsafe
           r == [surf[u] EXCEPT !.decodeFailed = f]
           w == [wk[c] EXCEPT !.pc = "publish"]
<1>1. /\ wk \in [Contexts -> WorkerRecord] /\ wk[c] \in WorkerRecord
      /\ queue \in [Contexts -> Seq(Job)] /\ q \in Seq(Job)
      /\ closed \in [Contexts -> BOOLEAN] /\ k \in BOOLEAN /\ unsafe \in BOOLEAN
      /\ surf \in [Surfaces -> SurfaceRecord] /\ bad \subseteq Surfaces
      /\ Worker(c, ctx[c], q, k, wk[c], surf, bad) /\ Jobs(q, wk[c], surf, bad)
      /\ \A s \in Surfaces : InLine(q, wk[c], s) => surf[s].resolving
      /\ (wk[c].pc \in WorkPC => u \in Surfaces)
      /\ (wk[c].pc # "aborted" => wk[c].todo = <<>>)
      /\ (wk[c].pc # "none" => ctx[c].life # "absent" /\ c \notin VideoProc)
  BY WorkerFacts
<1>2. wk[c].pc = "check" /\ UNCHANGED <<ctx, queue, closed, th, readers, writer, unsafe>>
  BY DEF WorkerCheck, locks
<1>3. surf[u].submitted = wk[c].job.generation
  BY <1>1, <1>2 DEF Jobs
<1>4. /\ surf' = [surf EXCEPT ![u].decodeFailed = f]
      /\ bad' = (IF f THEN bad \cup {u} ELSE bad)
      /\ wk' = [wk EXCEPT ![c].pc = "publish"]
  BY <1>3 DEF WorkerCheck
<1>5. u \in Surfaces /\ surf[u].resolving /\ f \in BOOLEAN
  BY <1>1, <1>2 DEF WorkPC, InLine, InWork, WorkerRecord
<1>6. /\ r \in SurfaceRecord /\ r.life = surf[u].life /\ r.exported = surf[u].exported
      /\ r.resolving /\ r.decodeFailed = f /\ surf' = [surf EXCEPT ![u] = r]
  BY <1>1, <1>4, <1>5 DEF SurfaceRecord
<1>7. /\ w \in WorkerRecord /\ w.pc = "publish" /\ w.job = wk[c].job /\ w.todo = <<>>
      /\ w.failed = wk[c].failed /\ wk' = [wk EXCEPT ![c] = w] /\ wk[c].todo = <<>>
  BY <1>1, <1>2, <1>4 DEF WorkerRecord, WorkerPC
<1>8. queue' = [queue EXCEPT ![c] = q] /\ closed' = [closed EXCEPT ![c] = k] /\ Len(q) \in Nat
  BY <1>1, <1>2
<1>9. f \/ (wk[c].job.ok /\ u \notin bad)
  BY <1>1, <1>2 DEF Worker
<1> HIDE DEF r, w, f
<1>10. surf'[u] = r /\ \A s \in Surfaces \ {u} : surf'[s] = surf[s] /\ (s \in bad' <=> s \in bad)
  BY <1>1, <1>4, <1>5, <1>6
<1>11. WorkShape(c, q, k, w)
  <2>1. surf' \in [Surfaces -> SurfaceRecord] /\ bad' \subseteq Surfaces
    BY <1>1, <1>4, <1>5, <1>6
  <2>2. Len(q) <= Len(queue[c]) /\ unsafe' \in BOOLEAN
    BY <1>1, <1>2, <1>8
  <2> QED
    BY <1>2, <1>7, <1>8, <2>1, <2>2 DEF WorkShape
<1>12. \A s : InLine(q, w, s) <=> InLine(queue[c], wk[c], s)
  BY <1>2, <1>7 DEF InLine, InWork, WorkPC
<1>13. WorkLine(c, q, w)
  <2>1. \A s : Running(q, w, s) => Running(queue[c], wk[c], s)
    BY <1>7 DEF Running
  <2>2. \A s \in Surfaces : InLine(q, w, s) => surf'[s].resolving
    BY <1>1, <1>6, <1>10, <1>12
  <2> QED
    BY <1>12, <2>1, <2>2 DEF WorkLine
<1>14. WorkSurfaces(c, w)
  <2>1. \A s \in Surfaces \ {u} : Same(s)
    BY <1>10 DEF Same
  <2>2. InLine(queue[c], wk[c], u)
    BY <1>2 DEF InLine, InWork, WorkPC
  <2>3. ASSUME NEW s \in bad'
        PROVE  WorkAnswered(c, w, s)
    <3>1. CASE s = u
      <4>1. f
        BY <1>4, <1>9, <2>3, <3>1
      <4> QED
        BY <1>6, <1>10, <3>1, <4>1 DEF WorkAnswered
    <3>2. CASE s # u
      <4>1. Same(s)
        BY <1>11, <2>1, <2>3, <3>2 DEF WorkShape
      <4> QED
        BY <1>7, <4>1, EmptyList DEF WorkAnswered
    <3> QED
      BY <3>1, <3>2
  <2>4. \A s \in Surfaces : /\ surf'[s].life = surf[s].life
                            /\ surf'[s].exported = surf[s].exported
                            /\ surf'[s].resolving => surf[s].resolving
    BY <1>5, <1>6, <1>10
  <2> QED
    BY <2>1, <2>2, <2>3, <2>4 DEF WorkSurfaces
<1>15. Worker(c, ctx[c], q, k, w, surf', bad')
  <2>1. u \in bad' => surf'[u].decodeFailed
    BY <1>4, <1>6, <1>9, <1>10
  <2> QED
    BY <1>1, <1>2, <1>7, <2>1 DEF Worker, Only, Once, WorkPC
<1>16. Jobs(q, w, surf', bad')
  <2>1. ASSUME NEW i \in 1 .. Len(q)
        PROVE  /\ q[i].surface # NULL /\ q[i].generation = surf'[q[i].surface].submitted
               /\ q[i].ok => q[i].surface \notin bad'
               /\ ~InWork(w, q[i].surface)
    <3>1. /\ q[i].surface # NULL /\ q[i].generation = surf[q[i].surface].submitted
          /\ q[i].ok => q[i].surface \notin bad
          /\ ~InWork(wk[c], q[i].surface)
      BY <1>1 DEF Jobs
    <3>2. q[i].surface # u /\ q[i].surface \in Surfaces
      <4>1. q[i] \in Job
        BY <1>1
      <4> QED
        BY <1>2, <3>1, <4>1 DEF InWork, WorkPC, Job
    <3> QED
      BY <1>7, <1>10, <3>1, <3>2 DEF InWork
  <2>2. \A i, n \in 1 .. Len(q) : q[i].surface = q[n].surface => i = n
    BY <1>1 DEF Jobs
  <2> QED
    BY <1>7, <2>1, <2>2 DEF Jobs
<1>17. WorkStep(c, q, k, w)
  BY <1>11, <1>13, <1>14, <1>15, <1>16 DEF WorkStep
<1> HIDE DEF q, k
<1> QED
  BY <1>1, <1>7, <1>17, WorkStepInv

LEMMA WorkerPublishInv ==
    ASSUME Inv, NEW c \in Contexts, WorkerPublish(c)
    PROVE  Inv'
<1> DEFINE q == queue[c]
           k == closed[c]
           u == wk[c].job.surface
           o == Clear(u)
           r == Apply(o, surf[u])
           w == [NoWorker EXCEPT !.pc = "pop"]
<1>1. /\ wk \in [Contexts -> WorkerRecord] /\ wk[c] \in WorkerRecord
      /\ queue \in [Contexts -> Seq(Job)] /\ q \in Seq(Job)
      /\ closed \in [Contexts -> BOOLEAN] /\ k \in BOOLEAN /\ unsafe \in BOOLEAN
      /\ surf \in [Surfaces -> SurfaceRecord] /\ bad \subseteq Surfaces
      /\ Worker(c, ctx[c], q, k, wk[c], surf, bad) /\ Jobs(q, wk[c], surf, bad)
      /\ \A s \in Surfaces : InLine(q, wk[c], s) => surf[s].resolving
      /\ (wk[c].pc \in WorkPC => u \in Surfaces)
      /\ (wk[c].pc # "aborted" => wk[c].todo = <<>>)
      /\ (wk[c].pc # "none" => ctx[c].life # "absent" /\ c \notin VideoProc)
  BY WorkerFacts
<1>2. /\ wk[c].pc = "publish"
      /\ surf' = [surf EXCEPT ![u] = r] /\ wk' = [wk EXCEPT ![c] = w]
      /\ UNCHANGED <<ctx, queue, closed, th, readers, writer, unsafe, bad>>
  BY DEF WorkerPublish, locks, Applied, Clear
<1>3. u \in Surfaces /\ surf[u] \in SurfaceRecord /\ wk[c].todo = <<>>
  BY <1>1, <1>2 DEF WorkPC
<1>4. o \in Section /\ o.op = "clear"
  BY <1>3 DEF Clear, Section
<1>5. /\ r \in SurfaceRecord /\ r.life = surf[u].life /\ r.exported = surf[u].exported
      /\ ~r.resolving /\ r.submitted = surf[u].submitted
      /\ surf[u].decodeFailed => r.decodeFailed /\ r.status = "error"
  BY <1>3, <1>4, Sections
<1>6. u \in bad => surf[u].decodeFailed
  BY <1>1, <1>2 DEF Worker
<1>7. /\ w \in WorkerRecord /\ w.pc = "pop" /\ w.todo = <<>> /\ w.job.surface = NULL
  BY FreshTypes DEF NoWorker, NoJob, WorkerRecord, WorkerPC
<1>8. queue' = [queue EXCEPT ![c] = q] /\ closed' = [closed EXCEPT ![c] = k] /\ Len(q) \in Nat
  BY <1>1, <1>2
<1> HIDE DEF r, w, o
<1>9. surf'[u] = r /\ \A s \in Surfaces \ {u} : surf'[s] = surf[s]
  BY <1>1, <1>2, <1>3
<1>10. WorkShape(c, q, k, w)
  <2>1. surf' \in [Surfaces -> SurfaceRecord] /\ bad' \subseteq Surfaces
    BY <1>1, <1>2, <1>3, <1>5
  <2>2. Len(q) <= Len(queue[c]) /\ unsafe' \in BOOLEAN
    BY <1>1, <1>2, <1>8
  <2> QED
    BY <1>2, <1>8, <2>1, <2>2 DEF WorkShape
<1>11. \A i \in 1 .. Len(q) : q[i].surface # u
  BY <1>1, <1>2 DEF Jobs, InWork, WorkPC
<1>12. \A s : InLine(q, w, s) <=> InLine(queue[c], wk[c], s) /\ s # u
  <2>1. \A s : InLine(q, w, s) <=> InQueue(q, s)
    BY <1>7, EmptyList DEF InLine, InWork, WorkPC
  <2>2. \A s : InLine(queue[c], wk[c], s) <=> InQueue(q, s) \/ s = u
    BY <1>2, <1>3, EmptyList DEF InLine, InWork, WorkPC
  <2> QED
    BY <1>11, <2>1, <2>2 DEF InQueue
<1>13. WorkLine(c, q, w)
  <2>1. \A s : Running(q, w, s) => Running(queue[c], wk[c], s)
    BY <1>7 DEF Running
  <2>2. \A s \in Surfaces : InLine(q, w, s) => surf'[s].resolving
    BY <1>1, <1>9, <1>12
  <2>3. ~surf'[u].resolving
    BY <1>5, <1>9
  <2> QED
    BY <1>12, <2>1, <2>2, <2>3 DEF WorkLine
<1>14. WorkSurfaces(c, w)
  <2>1. \A s \in Surfaces \ {u} : Same(s)
    BY <1>2, <1>9 DEF Same
  <2>2. InLine(queue[c], wk[c], u)
    BY <1>2 DEF InLine, InWork, WorkPC
  <2>3. ASSUME NEW s \in bad'
        PROVE  WorkAnswered(c, w, s)
    <3>1. CASE s = u
      BY <1>2, <1>5, <1>6, <1>9, <2>3, <3>1 DEF WorkAnswered
    <3>2. CASE s # u
      <4>1. Same(s)
        BY <1>10, <2>1, <2>3, <3>2 DEF WorkShape
      <4> QED
        BY <1>3, <4>1, EmptyList DEF WorkAnswered
    <3> QED
      BY <3>1, <3>2
  <2>4. \A s \in Surfaces : /\ surf'[s].life = surf[s].life
                            /\ surf'[s].exported = surf[s].exported
                            /\ surf'[s].resolving => surf[s].resolving
    BY <1>5, <1>9
  <2> QED
    BY <2>1, <2>2, <2>3, <2>4 DEF WorkSurfaces
<1>15. Worker(c, ctx[c], q, k, w, surf', bad')
  BY <1>1, <1>2, <1>7 DEF Worker, Only, Once, WorkPC
<1>16. Jobs(q, w, surf', bad')
  <2>1. ASSUME NEW i \in 1 .. Len(q)
        PROVE  /\ q[i].surface # NULL /\ q[i].generation = surf'[q[i].surface].submitted
               /\ q[i].ok => q[i].surface \notin bad'
               /\ ~InWork(w, q[i].surface)
    <3>1. /\ q[i].surface # NULL /\ q[i].generation = surf[q[i].surface].submitted
          /\ q[i].ok => q[i].surface \notin bad
      BY <1>1 DEF Jobs
    <3>2. q[i].surface # u /\ q[i].surface \in Surfaces
      <4>1. q[i] \in Job
        BY <1>1
      <4> QED
        BY <1>11, <3>1, <4>1 DEF Job
    <3> QED
      BY <1>2, <1>7, <1>9, <3>1, <3>2 DEF InWork, WorkPC
  <2>2. \A i, n \in 1 .. Len(q) : q[i].surface = q[n].surface => i = n
    BY <1>1 DEF Jobs
  <2> QED
    BY <1>7, <2>1, <2>2 DEF Jobs
<1>17. WorkStep(c, q, k, w)
  BY <1>10, <1>13, <1>14, <1>15, <1>16 DEF WorkStep
<1> HIDE DEF q, k
<1> QED
  BY <1>1, <1>7, <1>17, WorkStepInv

\* The jobs a cancelled queue hands back are failed, each once.
LEMMA FailJobsList ==
    ASSUME Inv, NEW c \in Contexts
    PROVE  /\ FailJobs(c) \in Seq(Section) /\ Only(FailJobs(c), {"fail"}) /\ Once(FailJobs(c))
           /\ \A s : InList(FailJobs(c), s) <=> InQueue(queue[c], s)
           /\ \A s : Has(FailJobs(c), s, "fail") <=> InQueue(queue[c], s)
           /\ \A s : ~Has(FailJobs(c), s, "clear")
           /\ \A s : s \in QueuedSurfaces(c) <=> InQueue(queue[c], s)
           /\ QueuedSurfaces(c) \subseteq Surfaces
<1> DEFINE q == queue[c]
           f == FailJobs(c)
<1>1. q \in Seq(Job) /\ Jobs(q, wk[c], surf, bad) /\ Len(q) \in Nat
  BY WorkerFacts
<1>2. f = [i \in 1 .. Len(q) |-> Fail(q[i].surface)]
  BY DEF FailJobs
<1>3. /\ \A i \in 1 .. Len(q) : q[i].surface \in Surfaces
      /\ \A i, n \in 1 .. Len(q) : q[i].surface = q[n].surface => i = n
  <2>1. \A i \in 1 .. Len(q) : q[i] \in Job
    BY <1>1
  <2> HIDE DEF q
  <2>2. \A i \in 1 .. Len(q) : q[i].surface # NULL
    BY <1>1 DEF Jobs
  <2>3. \A i \in 1 .. Len(q) : q[i].surface \in Surfaces
    BY <2>1, <2>2 DEF Job
  <2> QED
    BY <1>1, <2>3 DEF Jobs
<1>4. \A s \in QueuedSurfaces(c) : InQueue(q, s) /\ s \in Surfaces
  BY <1>3 DEF QueuedSurfaces, InQueue
<1>5. \A s : InQueue(q, s) => s \in QueuedSurfaces(c)
  BY DEF QueuedSurfaces, InQueue
<1> HIDE DEF f, q
<1>6. \A s \in Surfaces : Fail(s) \in Section /\ Fail(s).op = "fail" /\ Fail(s).s = s
  BY DEF Fail, Section
<1>7. f \in [1 .. Len(q) -> Section]
  BY <1>2, <1>3, <1>6
<1>8. f \in Seq(Section) /\ Len(f) = Len(q)
  BY <1>1, <1>7
<1>9. \A i \in 1 .. Len(f) : f[i].s = q[i].surface /\ f[i].op = "fail"
  BY <1>2, <1>3, <1>6, <1>8
<1>10. Only(f, {"fail"}) /\ Once(f)
  BY <1>3, <1>8, <1>9 DEF Only, Once
<1>11. /\ \A s : InList(f, s) <=> InQueue(q, s)
       /\ \A s : Has(f, s, "fail") <=> InQueue(q, s)
       /\ \A s : ~Has(f, s, "clear")
  BY <1>8, <1>9 DEF InList, Has, InQueue
<1> QED
  BY <1>4, <1>5, <1>8, <1>10, <1>11 DEF f, q

LEMMA WorkerAbortInv ==
    ASSUME Inv, NEW c \in Contexts, WorkerAbort(c)
    PROVE  Inv'
<1> DEFINE q == <<>>
           k == TRUE
           l == FailJobs(c)
           w == [wk[c] EXCEPT !.pc = "aborted", !.todo = l]
<1>1. /\ wk \in [Contexts -> WorkerRecord] /\ wk[c] \in WorkerRecord
      /\ queue \in [Contexts -> Seq(Job)] /\ queue[c] \in Seq(Job) /\ Len(queue[c]) \in Nat
      /\ closed \in [Contexts -> BOOLEAN] /\ closed[c] \in BOOLEAN /\ unsafe \in BOOLEAN
      /\ surf \in [Surfaces -> SurfaceRecord] /\ bad \subseteq Surfaces
      /\ Worker(c, ctx[c], queue[c], closed[c], wk[c], surf, bad)
      /\ \A s \in Surfaces : InLine(queue[c], wk[c], s) => surf[s].resolving
      /\ (wk[c].pc # "aborted" => wk[c].todo = <<>>)
      /\ (wk[c].pc # "none" => ctx[c].life # "absent" /\ c \notin VideoProc)
  BY WorkerFacts
<1>2. /\ wk[c].pc = "start"
      /\ closed' = [closed EXCEPT ![c] = k] /\ queue' = [queue EXCEPT ![c] = q]
      /\ bad' = bad \cup QueuedSurfaces(c)
      /\ wk' = [wk EXCEPT ![c].pc = "aborted", ![c].todo = l]
      /\ UNCHANGED <<surf, ctx, th, readers, writer, unsafe>>
  BY DEF WorkerAbort, locks
<1>3. /\ l \in Seq(Section) /\ Only(l, {"fail"}) /\ Once(l)
      /\ \A s : InList(l, s) <=> InQueue(queue[c], s)
      /\ \A s : Has(l, s, "fail") <=> InQueue(queue[c], s)
      /\ \A s : ~Has(l, s, "clear")
      /\ \A s : s \in QueuedSurfaces(c) <=> InQueue(queue[c], s)
      /\ QueuedSurfaces(c) \subseteq Surfaces
  BY FailJobsList
<1>4. /\ w \in WorkerRecord /\ w.pc = "aborted" /\ w.todo = l /\ w.job = wk[c].job
      /\ wk' = [wk EXCEPT ![c] = w] /\ wk[c].todo = <<>>
  BY <1>1, <1>2, <1>3 DEF WorkerRecord, WorkerPC
<1>5. q \in Seq(Job) /\ k \in BOOLEAN /\ Len(q) = 0 /\ k /\ \A s : ~InQueue(q, s)
  BY DEF InQueue
<1>6. q = <<>>
  OBVIOUS
<1> HIDE DEF l, w, q, k
<1>7. WorkShape(c, q, k, w)
  <2>1. Len(q) <= Len(queue[c]) /\ unsafe' \in BOOLEAN /\ bad' \subseteq Surfaces
        /\ surf' \in [Surfaces -> SurfaceRecord]
    BY <1>1, <1>2, <1>3, <1>5
  <2> QED
    BY <1>2, <1>4, <1>5, <1>6, <2>1 DEF WorkShape
<1>8. \A s : InLine(q, w, s) <=> InLine(queue[c], wk[c], s)
  BY <1>2, <1>3, <1>4, <1>5, EmptyList DEF InLine, InWork, WorkPC
<1>9. WorkLine(c, q, w)
  <2>1. \A s : ~Running(q, w, s)
    BY <1>4, <1>5 DEF Running
  <2> QED
    BY <1>1, <1>2, <1>8, <2>1 DEF WorkLine
<1>10. WorkSurfaces(c, w)
  <2>1. \A s : s \notin QueuedSurfaces(c) => Same(s)
    BY <1>2 DEF Same
  <2>2. ASSUME NEW s \in bad'
        PROVE  WorkAnswered(c, w, s)
    <3>1. CASE s \in QueuedSurfaces(c)
      BY <1>3, <1>4, <3>1 DEF WorkAnswered
    <3>2. CASE s \notin QueuedSurfaces(c)
      BY <1>4, <2>1, <3>2, EmptyList DEF WorkAnswered
    <3> QED
      BY <3>1, <3>2
  <2>3. \A s : ~InLine(queue[c], wk[c], s) => Same(s)
    BY <1>3, <2>1 DEF InLine
  <2> QED
    BY <1>2, <2>2, <2>3 DEF WorkSurfaces
<1>11. Worker(c, ctx[c], q, k, w, surf', bad')
  BY <1>1, <1>2, <1>3, <1>4, <1>5, <1>6 DEF Worker, WorkPC
<1>12. Jobs(q, w, surf', bad')
  BY <1>4, <1>5 DEF Jobs
<1>13. WorkStep(c, q, k, w)
  BY <1>7, <1>9, <1>10, <1>11, <1>12 DEF WorkStep
<1> QED
  BY <1>4, <1>5, <1>13, WorkStepInv

LEMMA WorkerFailJobInv ==
    ASSUME Inv, NEW c \in Contexts, WorkerFailJob(c)
    PROVE  Inv'
<1> DEFINE q == queue[c]
           k == closed[c]
           l == wk[c].todo
           o == Head(l)
           u == o.s
           r == Apply(o, surf[u])
           w == [wk[c] EXCEPT !.todo = Tail(l)]
<1>1. /\ wk \in [Contexts -> WorkerRecord] /\ wk[c] \in WorkerRecord /\ l \in Seq(Section)
      /\ queue \in [Contexts -> Seq(Job)] /\ q \in Seq(Job) /\ Len(q) \in Nat
      /\ closed \in [Contexts -> BOOLEAN] /\ k \in BOOLEAN /\ unsafe \in BOOLEAN
      /\ surf \in [Surfaces -> SurfaceRecord] /\ bad \subseteq Surfaces
      /\ Worker(c, ctx[c], q, k, wk[c], surf, bad)
      /\ \A s \in Surfaces : InLine(q, wk[c], s) => surf[s].resolving
      /\ (wk[c].pc # "none" => ctx[c].life # "absent" /\ c \notin VideoProc)
  BY WorkerFacts DEF WorkerRecord
<1>2. /\ l # <<>> /\ surf' = [surf EXCEPT ![u] = r]
      /\ wk' = [wk EXCEPT ![c].todo = Tail(l)]
      /\ UNCHANGED <<ctx, queue, closed, th, readers, writer, unsafe, bad>>
  BY DEF WorkerFailJob, locks, Applied
<1>3. /\ o \in Section /\ Tail(l) \in Seq(Section)
      /\ \A s, op : Has(l, s, op) <=> (u = s /\ o.op = op) \/ Has(Tail(l), s, op)
      /\ \A s : InList(l, s) <=> u = s \/ InList(Tail(l), s)
      /\ \A ops : Only(l, ops) => o.op \in ops /\ Only(Tail(l), ops)
      /\ Once(l) => Once(Tail(l)) /\ ~InList(Tail(l), u)
  BY <1>1, <1>2, TailList
<1>4. wk[c].pc = "aborted" /\ Only(l, {"fail"}) /\ Once(l) /\ q = <<>> /\ k
  BY <1>1, <1>2 DEF Worker
<1>5. o.op = "fail" /\ Only(Tail(l), {"fail"}) /\ Once(Tail(l)) /\ ~InList(Tail(l), u)
  BY <1>3, <1>4
<1>6. u \in Surfaces /\ surf[u] \in SurfaceRecord
  BY <1>1, <1>3 DEF Section
<1>7. /\ r \in SurfaceRecord /\ r.life = surf[u].life /\ r.exported = surf[u].exported
      /\ ~r.resolving /\ r.decodeFailed /\ r.status = "error"
  BY <1>3, <1>5, <1>6, Sections
<1>8. /\ w \in WorkerRecord /\ w.pc = "aborted" /\ w.todo = Tail(l) /\ w.job = wk[c].job
      /\ w.failed = wk[c].failed /\ wk' = [wk EXCEPT ![c] = w]
  BY <1>1, <1>2, <1>3, <1>4 DEF WorkerRecord
<1>9. queue' = [queue EXCEPT ![c] = q] /\ closed' = [closed EXCEPT ![c] = k]
  BY <1>1, <1>2
<1>10. \A s : ~InQueue(q, s)
  BY <1>4 DEF InQueue
<1> HIDE DEF r, w, l, u
<1>11. surf'[u] = r /\ \A s \in Surfaces \ {u} : surf'[s] = surf[s]
  BY <1>1, <1>2, <1>6
<1>12. WorkShape(c, q, k, w)
  <2>1. surf' \in [Surfaces -> SurfaceRecord] /\ bad' \subseteq Surfaces
    BY <1>1, <1>2, <1>6, <1>7
  <2>2. Len(q) <= Len(queue[c]) /\ unsafe' \in BOOLEAN
    BY <1>1, <1>2
  <2> QED
    BY <1>2, <1>8, <1>9, <2>1, <2>2 DEF WorkShape
<1>13. /\ \A s : InLine(q, w, s) <=> InList(Tail(l), s)
       /\ \A s : InLine(queue[c], wk[c], s) <=> InList(l, s)
  BY <1>4, <1>8, <1>10 DEF InLine, InWork, WorkPC, l
<1>14. WorkLine(c, q, w)
  <2>1. \A s : ~Running(q, w, s)
    BY <1>8, <1>10 DEF Running
  <2>2. \A s \in Surfaces : InLine(q, w, s) => surf'[s].resolving
    BY <1>1, <1>3, <1>5, <1>11, <1>13
  <2>3. \A s \in Surfaces : InLine(queue[c], wk[c], s) /\ surf'[s].resolving => InLine(q, w, s)
    BY <1>3, <1>7, <1>11, <1>13
  <2> QED
    BY <1>3, <1>13, <2>1, <2>2, <2>3 DEF WorkLine
<1>15. WorkSurfaces(c, w)
  <2>1. \A s \in Surfaces \ {u} : Same(s)
    BY <1>2, <1>11 DEF Same
  <2>2. InLine(queue[c], wk[c], u)
    BY <1>3, <1>13
  <2>3. ASSUME NEW s \in bad'
        PROVE  WorkAnswered(c, w, s)
    <3>1. CASE s = u
      BY <1>7, <1>11, <3>1 DEF WorkAnswered
    <3>2. CASE s # u
      <4>1. Same(s)
        BY <1>12, <2>1, <2>3, <3>2 DEF WorkShape
      <4>2. \A op : Has(wk[c].todo, s, op) => Has(w.todo, s, op)
        BY <1>3, <1>8, <3>2 DEF l
      <4> QED
        BY <4>1, <4>2 DEF WorkAnswered
    <3> QED
      BY <3>1, <3>2
  <2>4. \A s \in Surfaces : /\ surf'[s].life = surf[s].life
                            /\ surf'[s].exported = surf[s].exported
                            /\ surf'[s].resolving => surf[s].resolving
    BY <1>7, <1>11
  <2> QED
    BY <2>1, <2>2, <2>3, <2>4 DEF WorkSurfaces
<1>16. Worker(c, ctx[c], q, k, w, surf', bad')
  BY <1>1, <1>4, <1>5, <1>8 DEF Worker, WorkPC
<1>17. Jobs(q, w, surf', bad')
  <2>1. Len(q) = 0
    BY <1>4
  <2> QED
    BY <1>8, <2>1 DEF Jobs
<1>18. WorkStep(c, q, k, w)
  BY <1>12, <1>14, <1>15, <1>16, <1>17 DEF WorkStep
<1> HIDE DEF q, k
<1> QED
  BY <1>1, <1>8, <1>18, WorkStepInv

-----------------------------------------------------------------------------
(* Steps of a call that holds the lifetime lock for writing, or takes it.  *)
(* Nobody else is in a call.                                               *)

\* t is alone.
Alone(t) ==
    /\ \A u \in Threads \ {t} : th[u] = IdleThread
    /\ th[t].pc \in {"idle"} \cup Exclusive
    /\ \A c \in Contexts : ctx[c].holder = NULL

\* The call of t becomes p.
AloneTo(t, p) ==
    /\ Alone(t)
    /\ p \in CallRecord /\ p.pc \in {"idle"} \cup Exclusive
    /\ th' = [th EXCEPT ![t] = p]
    /\ readers' = {} /\ writer' = (IF p.pc = "idle" THEN NULL ELSE t)

LEMMA AloneFacts ==
    ASSUME Inv, NEW t \in Threads,
           (readers = {} /\ writer = NULL /\ th[t].pc = "idle") \/ th[t].pc \in Exclusive
    PROVE  Alone(t) /\ readers = {} /\ (th[t].pc \in Exclusive => writer = t)
<1>1. readers = {} /\ (th[t].pc \in Exclusive => writer = t) /\ t # NULL
  BY PipelineAssumption DEF Inv, LocksOK
<1>2. \A u \in Threads \ {t} : writer # u
  BY <1>1, PipelineAssumption
<1>3. \A u \in Threads \ {t} : th[u].pc = "idle"
  BY <1>1, <1>2 DEF Inv, LocksOK
<1>4. \A u \in Threads \ {t} : th[u] = IdleThread
  BY <1>3 DEF Inv, CallsOK, CallOK, Objects
<1>5. \A u \in Threads : th[u].pc \notin Holding
  BY <1>3 DEF Exclusive, Holding
<1>6. \A c \in Contexts : ctx[c].holder \in Threads \cup {NULL}
  BY DEF Inv, TypeOK, ContextRecord
<1>7. \A c \in Contexts : ctx[c].holder = NULL
  BY <1>5, <1>6 DEF Inv, HoldersOK
<1> QED
  BY <1>1, <1>4, <1>7 DEF Alone

LEMMA IdleFacts ==
    /\ IdleThread.pc = "idle" /\ IdleThread.c = NULL /\ IdleThread.s = NULL
    /\ IdleThread.job.surface = NULL /\ IdleThread.todo = <<>>
    /\ \A x, S : Objects(IdleThread, x, S)
    /\ \A x, q, k, S : Teardown(IdleThread, x, q, k, S)
<1>1. /\ IdleThread.pc = "idle" /\ IdleThread.c = NULL /\ IdleThread.s = NULL
      /\ IdleThread.job.surface = NULL /\ IdleThread.todo = <<>>
  BY DEF IdleThread, NoJob
<1> QED
  BY <1>1 DEF Objects, Teardown, Locking, Holding, Exclusive, BeginPC, SourcePC, ReadyPC

\* No frame under way is the target of a picture: it would have been submitted, by
\* somebody who holds pictureMutex.
LEMMA AloneTargets ==
    ASSUME Inv, NEW t \in Threads, Alone(t), NEW s \in Surfaces, InFrames(s)
    PROVE  ~Targeted(s)
<1>1. ASSUME NEW c \in Contexts, s \in OpenOf(ctx[c])
      PROVE  FALSE
  <2>1. ctx[c].picture = "submitted"
    BY <1>1 DEF Inv, FramesOK
  <2>2. Picture(c, ctx[c], surf, bad) /\ ctx[c].holder = NULL
    BY DEF Inv, PicturesOK, Alone
  <2> QED
    BY <2>1, <2>2 DEF Picture
<1> QED
  BY <1>1 DEF Targeted

\* The calls after the step.
LEMMA AloneCalls ==
    ASSUME Inv, NEW t \in Threads, NEW p, AloneTo(t, p),
           \A d \in Contexts : ctx'[d].holder = NULL,
           p.pc = "idle" => p = IdleThread,
           Objects(p, ctx'[p.c], surf'),
           Teardown(p, ctx'[p.c], queue'[p.c], closed'[p.c], surf')
    PROVE  /\ LocksOK' /\ HoldersOK' /\ CallsOK' /\ Claims'
           /\ th' \in [Threads -> CallRecord] /\ th'[t] = p
           /\ \A u \in Threads \ {t} : th'[u] = IdleThread
           /\ \A s : Retiring(s)' <=> p.pc = "retire" /\ InList(p.todo, s)
           /\ \A s, op : Settling(s, op)' <=>
                Has(p.todo, s, op) \/ \E c \in Contexts : Has(wk'[c].todo, s, op)
<1>1. th \in [Threads -> CallRecord] /\ NULL \notin Threads
  BY CallTypes, PipelineAssumption
<1>2. /\ th' \in [Threads -> CallRecord] /\ th'[t] = p
      /\ \A u \in Threads \ {t} : th'[u] = IdleThread
  BY <1>1 DEF AloneTo, Alone
<1>3. \A u \in Threads : th'[u].pc \in {"idle"} \cup Exclusive
  BY <1>2, IdleFacts DEF AloneTo
<1>4. \A u \in Threads \ {t} : th'[u].pc = "idle"
  BY <1>2, IdleFacts
<1>5. /\ readers' = {} /\ writer' = (IF p.pc = "idle" THEN NULL ELSE t)
      /\ p.pc \in {"idle"} \cup Exclusive
  BY DEF AloneTo
<1>6. LocksOK'
  <2>1. p.pc = "idle" => p.pc \notin Exclusive
    BY DEF Exclusive
  <2>2. \A u \in Threads : writer' = u <=> th'[u].pc \in Exclusive
    BY <1>1, <1>2, <1>4, <1>5, <2>1 DEF Exclusive
  <2>3. \A u \in Threads : u \in readers' <=> th'[u].pc \notin {"idle"} \cup Exclusive
    BY <1>3, <1>5
  <2> QED
    BY <1>5, <2>2, <2>3 DEF LocksOK
<1>7. HoldersOK'
  <2>1. \A u \in Threads : th'[u].pc \notin Holding
    BY <1>3 DEF Holding, Exclusive
  <2> QED
    BY <1>1, <2>1 DEF HoldersOK
<1>8. Claims'
  <2>1. \A u \in Threads : th'[u].pc \notin BeginPC \cup SourcePC
    BY <1>3 DEF BeginPC, SourcePC, Exclusive
  <2> QED
    BY <2>1 DEF Claims
<1>9. CallsOK'
  <2>1. CallOK(p)'
    <3>1. p.pc \notin Holding
      BY <1>5 DEF Holding, Exclusive
    <3> QED
      BY <3>1 DEF CallOK
  <2>2. CallOK(IdleThread)'
    <3>1. IdleThread.pc \notin Holding
      BY IdleFacts DEF Holding
    <3>2. /\ Objects(IdleThread, ctx'[IdleThread.c], surf')
          /\ Teardown(IdleThread, ctx'[IdleThread.c], queue'[IdleThread.c],
                      closed'[IdleThread.c], surf')
      BY IdleFacts
    <3> QED
      BY <3>1, <3>2 DEF CallOK
  <2> QED
    BY <1>2, <2>1, <2>2 DEF CallsOK
<1>10. \A s : Retiring(s)' <=> p.pc = "retire" /\ InList(p.todo, s)
  BY <1>2, <1>4 DEF Retiring
<1>11. \A u \in Threads \ {t} : th'[u].todo = <<>>
  BY <1>2, IdleFacts
<1>12. \A s, op : Settling(s, op)' <=>
          Has(p.todo, s, op) \/ \E c \in Contexts : Has(wk'[c].todo, s, op)
  BY <1>2, <1>11, EmptyList DEF Settling
<1> QED
  BY <1>2, <1>6, <1>7, <1>8, <1>9, <1>10, <1>12

\* What a section of nvDestroySurfaces or nvDestroyContext does to s: if it changes
\* a surface with a frame under way, it changes nothing the frame depends on.
AloneSurface(t, p, s) ==
    /\ \/ Same(s)
       \/ /\ ~Targeted(s)
          /\ \A d \in Contexts : InLine(queue[d], wk[d], s) =>
               /\ surf'[s].submitted = surf[s].submitted
               /\ surf'[s].decodeFailed = surf[s].decodeFailed
               /\ surf'[s].resolving = surf[s].resolving /\ surf'[s].life # "absent"
               /\ s \in bad' <=> s \in bad
    /\ p.pc = "retire" /\ InList(p.todo, s) => surf'[s].resolving /\ surf'[s].life # "absent"
    /\ surf'[s].resolving =>
         surf[s].resolving /\ (Retiring(s) => p.pc = "retire" /\ InList(p.todo, s))
    /\ surf'[s].exported => surf[s].exported
    /\ surf'[s].life = "absent" => surf'[s] = NoSurface /\ s \notin bad'
    /\ s \in bad' =>
         \/ surf'[s].decodeFailed /\ surf'[s].status = "error"
         \/ /\ s \in bad
            /\ surf'[s].decodeFailed = surf[s].decodeFailed
            /\ surf'[s].resolving = surf[s].resolving /\ surf'[s].status = surf[s].status
            /\ Has(th[t].todo, s, "fail") => Has(p.todo, s, "fail")
            /\ Has(th[t].todo, s, "clear") => Has(p.todo, s, "clear")

LEMMA AloneStep ==
    ASSUME Inv, NEW t \in Threads, NEW p, AloneTo(t, p),
           UNCHANGED <<ctx, queue, closed, wk>>, unsafe' \in BOOLEAN,
           surf' \in [Surfaces -> SurfaceRecord], bad' \subseteq Surfaces,
           p.pc = "idle" => p = IdleThread,
           Objects(p, ctx[p.c], surf'),
           Teardown(p, ctx[p.c], queue[p.c], closed[p.c], surf'),
           p.pc = "retire" => \A s \in Surfaces : InList(p.todo, s) => Retiring(s),
           \A s \in Surfaces : AloneSurface(t, p, s)
    PROVE  Inv'
<1>1. /\ Alone(t) /\ \A d \in Contexts : ctx'[d].holder = NULL
      /\ readers' = {} /\ writer' \in Threads \cup {NULL}
  BY DEF AloneTo, Alone
<1>2. Objects(p, ctx'[p.c], surf') /\ Teardown(p, ctx'[p.c], queue'[p.c], closed'[p.c], surf')
  OBVIOUS
<1>3. /\ LocksOK' /\ HoldersOK' /\ CallsOK' /\ Claims'
      /\ th' \in [Threads -> CallRecord] /\ th'[t] = p
      /\ \A u \in Threads \ {t} : th'[u] = IdleThread
      /\ \A s : Retiring(s)' <=> p.pc = "retire" /\ InList(p.todo, s)
      /\ \A s, op : Settling(s, op)' <=>
           Has(p.todo, s, op) \/ \E c \in Contexts : Has(wk'[c].todo, s, op)
  BY <1>1, <1>2, AloneCalls
<1>4. TypeOK'
  BY <1>1, <1>3 DEF Inv, TypeOK, CallRecord
<1>5. \A s \in Surfaces :
         /\ Retiring(s)' => Retiring(s)
         /\ Retiring(s)' => surf'[s].resolving /\ surf'[s].life # "absent"
         /\ InFrames(s)' => InFrames(s)
  BY <1>3 DEF InFrames, AloneSurface
<1>6. PicturesOK' /\ Apart'
  <2>1. ASSUME NEW d \in Contexts
        PROVE  Picture(d, ctx[d], surf', bad')
    <3>1. Picture(d, ctx[d], surf, bad) /\ OpenOf(ctx[d]) \subseteq Surfaces
      BY DEF Inv, PicturesOK, TypeOK, ContextRecord, OpenOf
    <3>2. \A s \in OpenOf(ctx[d]) : surf'[s] = surf[s] /\ (s \in bad' <=> s \in bad)
      BY <3>1 DEF AloneSurface, Same, Targeted
    <3> QED
      BY <3>1, <3>2, PictureFrame
  <2> QED
    BY <2>1 DEF Inv, PicturesOK, Apart
<1>7. \A d \in Contexts, s \in Surfaces : InLine(queue[d], wk[d], s) =>
         /\ surf'[s].submitted = surf[s].submitted /\ surf'[s].decodeFailed = surf[s].decodeFailed
         /\ s \in bad' <=> s \in bad
  BY DEF AloneSurface, Same
<1>8. ASSUME NEW d \in Contexts
      PROVE  /\ Worker(d, ctx[d], queue[d], closed[d], wk[d], surf', bad')
             /\ Jobs(queue[d], wk[d], surf', bad')
  <2>1. /\ queue[d] \in Seq(Job) /\ wk[d] \in WorkerRecord
        /\ Worker(d, ctx[d], queue[d], closed[d], wk[d], surf, bad)
        /\ Jobs(queue[d], wk[d], surf, bad)
    BY WorkerFacts
  <2>2. wk[d].pc \in WorkPC => wk[d].job.surface # NULL
    BY <2>1 DEF Worker
  <2>3. \A s \in Surfaces : InLine(queue[d], wk[d], s) =>
         /\ surf'[s].submitted = surf[s].submitted /\ surf'[s].decodeFailed = surf[s].decodeFailed
         /\ s \in bad' <=> s \in bad
    BY <1>7
  <2>4. Worker(d, ctx[d], queue[d], closed[d], wk[d], surf', bad')
    BY <2>1, <2>3, WorkerFrame
  <2>5. Jobs(queue[d], wk[d], surf', bad')
    BY <2>1, <2>2, <2>3, JobsFrame
  <2> QED
    BY <2>4, <2>5
<1>9. FramesOK'
  <2>1. \A d \in Contexts, s \in Surfaces : InLine(queue[d], wk[d], s)' => ~Retiring(s)'
    BY <1>5 DEF Inv, FramesOK
  <2>2. \A d, e \in Contexts, s \in Surfaces :
         d # e /\ InLine(queue[d], wk[d], s)' => ~InLine(queue[e], wk[e], s)'
    BY DEF Inv, FramesOK
  <2>3. ASSUME NEW s \in Surfaces, InFrames(s)'
        PROVE  surf'[s].resolving /\ surf'[s].life # "absent"
    <3>1. CASE Retiring(s)'
      BY <1>5, <3>1
    <3>2. CASE \E d \in Contexts : InLine(queue[d], wk[d], s)
      <4>1. surf[s].resolving /\ surf[s].life # "absent"
        BY <3>2 DEF Inv, FramesOK, InFrames
      <4> QED
        BY <3>2, <4>1 DEF AloneSurface, Same
    <3> QED
      BY <2>3, <3>1, <3>2 DEF InFrames
  <2>4. \A s \in Surfaces, d \in Contexts :
         InFrames(s)' /\ s \in OpenOf(ctx'[d]) => ctx'[d].picture = "submitted"
    BY <1>5 DEF Inv, FramesOK
  <2> QED
    BY <1>8, <2>1, <2>2, <2>3, <2>4 DEF FramesOK
<1>10. SurfacesOK'
  <2> SUFFICES ASSUME NEW s \in Surfaces
               PROVE  AbsentOK(s)' /\ OwnedOK(s)' /\ FailureOK(s)' /\ ExportOK(s)'
    BY DEF SurfacesOK
  <2>1. AbsentOK(s) /\ OwnedOK(s) /\ FailureOK(s) /\ ExportOK(s) /\ AloneSurface(t, p, s)
    BY DEF Inv, SurfacesOK
  <2>2. AbsentOK(s)'
    BY <2>1 DEF AbsentOK, AloneSurface
  <2>3. OwnedOK(s)'
    <3> SUFFICES ASSUME surf'[s].resolving
                 PROVE  Pending(s)' \/ InFrames(s)'
      BY DEF OwnedOK
    <3>1. surf[s].resolving /\ (Retiring(s) => Retiring(s)')
      BY <1>3, <2>1 DEF AloneSurface
    <3>2. Pending(s) \/ InFrames(s)
      BY <2>1, <3>1 DEF OwnedOK
    <3> QED
      BY <3>1, <3>2 DEF Pending, InFrames
  <2>4. FailureOK(s)'
    <3> SUFFICES ASSUME s \in bad'
                 PROVE  \/ Settling(s, "fail")'
                        \/ /\ surf'[s].decodeFailed
                           /\ \/ surf'[s].resolving \/ surf'[s].status = "error"
                              \/ Settling(s, "clear")'
      BY DEF FailureOK
    <3>1. CASE surf'[s].decodeFailed /\ surf'[s].status = "error"
      BY <3>1
    <3>2. CASE /\ s \in bad
               /\ surf'[s].decodeFailed = surf[s].decodeFailed
               /\ surf'[s].resolving = surf[s].resolving /\ surf'[s].status = surf[s].status
               /\ Has(th[t].todo, s, "fail") => Has(p.todo, s, "fail")
               /\ Has(th[t].todo, s, "clear") => Has(p.todo, s, "clear")
      <4>1. \A u \in Threads \ {t} : th[u].todo = <<>>
        BY <1>1, IdleFacts DEF Alone
      <4>2. ASSUME NEW op \in {"fail", "clear"}, Settling(s, op)
            PROVE  Settling(s, op)'
        <5>1. Has(th[t].todo, s, op) \/ \E d \in Contexts : Has(wk[d].todo, s, op)
          BY <4>1, <4>2, EmptyList DEF Settling
        <5> QED
          BY <1>3, <3>2, <5>1
      <4> QED
        BY <2>1, <3>2, <4>2 DEF FailureOK
    <3> QED
      BY <2>1, <3>1, <3>2 DEF AloneSurface
  <2>5. ExportOK(s)'
    BY <2>1 DEF ExportOK, AloneSurface, Targeted
  <2> QED
    BY <2>2, <2>3, <2>4, <2>5
<1>11. WorkersOK'
  BY <1>8 DEF WorkersOK
<1> QED
  BY <1>3, <1>4, <1>6, <1>9, <1>10, <1>11 DEF Inv

LEMMA DestroyReturnInv ==
    ASSUME Inv, NEW t \in Threads, DestroyReturn(t)
    PROVE  Inv'
<1> DEFINE p == IdleThread
<1>1. /\ th[t].pc = "destroyed" /\ th[t].todo = <<>> /\ th' = [th EXCEPT ![t] = p]
      /\ readers' = readers \ {t} /\ writer' = (IF writer = t THEN NULL ELSE writer)
      /\ UNCHANGED <<surf, ctx, queue, closed, wk, unsafe, bad>>
  BY DEF DestroyReturn, At, Return, jobs
<1>2. th[t].pc \in Exclusive
  BY <1>1 DEF Exclusive
<1>3. Alone(t) /\ readers = {} /\ writer = t
  BY <1>2, AloneFacts
<1>4. /\ surf \in [Surfaces -> SurfaceRecord] /\ bad \subseteq Surfaces /\ unsafe \in BOOLEAN
  BY CallTypes
<1>5. p \in CallRecord /\ p.pc = "idle" /\ p.todo = <<>> /\ p = IdleThread
  BY FreshTypes, IdleFacts
<1>6. Objects(p, ctx[p.c], surf') /\ Teardown(p, ctx[p.c], queue[p.c], closed[p.c], surf')
  BY IdleFacts
<1> HIDE DEF p
<1>7. AloneTo(t, p)
  BY <1>1, <1>3, <1>5 DEF AloneTo
<1>8. \A s : ~Retiring(s)
  BY <1>1, <1>3, IdleFacts DEF Alone, Retiring
<1>9. ASSUME NEW s \in Surfaces
      PROVE  AloneSurface(t, p, s)
  <2>1. Same(s)
    BY <1>1 DEF Same
  <2>2. AbsentOK(s)
    BY DEF Inv, SurfacesOK
  <2> QED
    BY <1>1, <1>5, <1>8, <2>1, <2>2, EmptyList DEF AloneSurface, AbsentOK, Same
<1>10. /\ UNCHANGED <<ctx, queue, closed, wk>> /\ unsafe' \in BOOLEAN
       /\ surf' \in [Surfaces -> SurfaceRecord] /\ bad' \subseteq Surfaces
       /\ p.pc # "retire" /\ p = IdleThread
  BY <1>1, <1>4, <1>5
<1> QED
  BY <1>6, <1>7, <1>9, <1>10, AloneStep

\* nvDestroySurfaces removes the surfaces from the object table first.
LEMMA NvDestroySurfacesInv ==
    ASSUME Inv, Rules = AllRules, NEW t \in Threads, NEW list \in SurfaceLists,
           NvDestroySurfaces(t, list)
    PROVE  Inv'
<1> DEFINE l == [i \in DOMAIN list |-> Free(list[i])]
           p == [th[t] EXCEPT !.pc = "destroyed", !.todo = l]
           Removed(s) == \E i \in DOMAIN list : list[i] = s
<1>1. /\ th[t].pc = "idle" /\ readers = {} /\ writer = NULL /\ writer' = t
      /\ \A i \in DOMAIN list : surf[list[i]].life = "live"
      /\ \A i \in DOMAIN list : list[i] \notin OpenTargets
      /\ surf' = [s \in Surfaces |->
                    IF \E i \in DOMAIN list : list[i] = s
                    THEN [surf[s] EXCEPT !.life = "removed"] ELSE surf[s]]
      /\ th' = [th EXCEPT ![t].pc = "destroyed", ![t].todo = l]
      /\ UNCHANGED <<ctx, queue, closed, wk, readers, unsafe, bad>>
  BY DEF NvDestroySurfaces, Abides, AllRules, jobs
<1>2. Alone(t)
  BY <1>1, AloneFacts
<1>3. /\ surf \in [Surfaces -> SurfaceRecord] /\ bad \subseteq Surfaces /\ unsafe \in BOOLEAN
      /\ th \in [Threads -> CallRecord] /\ th[t] \in CallRecord
  BY CallTypes
<1>4. th[t] = IdleThread
  BY <1>1 DEF Inv, CallsOK, CallOK, Objects
<1>5. Cardinality(Surfaces) \in Nat
  BY PipelineAssumption, FS_CardinalityType
<1>6. PICK n \in 1 .. Cardinality(Surfaces) : list \in [1 .. n -> Surfaces]
  BY DEF SurfaceLists
<1>7. n \in Nat /\ DOMAIN list = 1 .. n
  BY <1>5, <1>6
<1>8. /\ l \in [1 .. n -> Section]
      /\ \A i \in 1 .. n : l[i].s = list[i] /\ l[i].op = "free"
  BY <1>6, <1>7 DEF Free, Section
<1>9. l \in Seq(Section) /\ Len(l) = n
  <2> HIDE DEF l
  <2> QED
    BY <1>7, <1>8
<1>10. \A i, j \in 1 .. n : list[i] = list[j] => i = j
  BY <1>7 DEF SurfaceLists
<1> HIDE DEF l
<1>11. /\ Once(l) /\ Only(l, {"free"})
       /\ \A s : InList(l, s) <=> Removed(s)
  BY <1>7, <1>8, <1>9, <1>10 DEF Once, Only, InList
<1>12. /\ p \in CallRecord /\ p.pc = "destroyed" /\ p.c = NULL /\ p.s = NULL
       /\ p.job.surface = NULL /\ p.todo = l /\ th' = [th EXCEPT ![t] = p]
  BY <1>1, <1>3, <1>4, <1>9, IdleFacts DEF CallRecord, ThreadPC
<1>13. \A s \in Surfaces :
          /\ Removed(s) => surf'[s] = [surf[s] EXCEPT !.life = "removed"] /\ s \notin OpenTargets
          /\ ~Removed(s) => surf'[s] = surf[s]
  BY <1>1
<1> HIDE DEF p, Removed
<1>14. surf' \in [Surfaces -> SurfaceRecord]
  <2>1. ASSUME NEW s \in Surfaces
        PROVE  surf'[s] \in SurfaceRecord
    <3>1. surf[s] \in SurfaceRecord
      BY <1>3
    <3>2. surf'[s] = surf[s] \/ surf'[s] = [surf[s] EXCEPT !.life = "removed"]
      BY <1>13
    <3> QED
      BY <3>1, <3>2 DEF SurfaceRecord
  <2> QED
    BY <1>1, <2>1
<1>15. AloneTo(t, p)
  BY <1>1, <1>2, <1>12 DEF AloneTo, Exclusive
<1>16. \A s : ~Retiring(s)
  BY <1>1, <1>2, IdleFacts DEF Alone, Retiring
<1>17. ASSUME NEW s \in Surfaces
       PROVE  AloneSurface(t, p, s)
  <2>1. AbsentOK(s)
    BY DEF Inv, SurfacesOK
  <2>2. CASE ~Removed(s)
    <3>1. Same(s)
      BY <1>1, <1>13, <2>2 DEF Same
    <3> QED
      BY <1>1, <1>4, <1>12, <1>16, <2>1, <3>1, EmptyList, IdleFacts
      DEF AloneSurface, AbsentOK, Same
  <2>3. CASE Removed(s)
    <3>1. surf'[s] = [surf[s] EXCEPT !.life = "removed"] /\ surf[s] \in SurfaceRecord
      BY <1>3, <1>13, <2>3
    <3>2. /\ surf'[s].life = "removed" /\ surf'[s].resolving = surf[s].resolving
          /\ surf'[s].submitted = surf[s].submitted
          /\ surf'[s].decodeFailed = surf[s].decodeFailed
          /\ surf'[s].exported = surf[s].exported /\ surf'[s].status = surf[s].status
      BY <3>1 DEF SurfaceRecord
    <3>3. ~Targeted(s)
      BY <1>13, <2>3 DEF Targeted, OpenTargets, OpenOf, Open
    <3>4. bad' = bad
      BY <1>1
    <3> QED
      BY <1>4, <1>12, <1>16, <3>2, <3>3, <3>4, EmptyList, IdleFacts DEF AloneSurface
  <2> QED
    BY <2>2, <2>3
<1>18. Objects(p, ctx[p.c], surf')
  BY <1>12 DEF Objects, Locking, Holding, BeginPC, SourcePC, ReadyPC, Exclusive
<1>19. Teardown(p, ctx[p.c], queue[p.c], closed[p.c], surf')
  <2>1. \A s \in Surfaces : InList(p.todo, s) => surf'[s].life = "removed"
    <3> SUFFICES ASSUME NEW s \in Surfaces, InList(p.todo, s)
                 PROVE  surf'[s].life = "removed"
      OBVIOUS
    <3>1. surf'[s] = [surf[s] EXCEPT !.life = "removed"] /\ surf[s] \in SurfaceRecord
      BY <1>3, <1>11, <1>12, <1>13
    <3> QED
      BY <3>1 DEF SurfaceRecord
  <2> QED
    BY <1>11, <1>12, <2>1 DEF Teardown
<1>20. /\ UNCHANGED <<ctx, queue, closed, wk>> /\ unsafe' \in BOOLEAN
       /\ bad' \subseteq Surfaces /\ p.pc # "retire" /\ p.pc # "idle"
  BY <1>1, <1>3, <1>12
<1> QED
  BY <1>14, <1>15, <1>17, <1>18, <1>19, <1>20, AloneStep

\* A surface is freed, or a cancelled job is failed.
LEMMA SurfaceStepExclusive ==
    ASSUME Inv, NEW t \in Threads, SurfaceStep(t), th[t].pc \in Exclusive
    PROVE  Inv'
<1> DEFINE l == th[t].todo
           o == Head(l)
           u == o.s
           r == Apply(o, surf[u])
           p == [th[t] EXCEPT !.todo = Tail(l)]
<1>1. /\ l # <<>> /\ (o.op = "free" => ~surf[u].resolving)
      /\ surf' = [surf EXCEPT ![u] = r]
      /\ bad' = (IF o.op \in {"mark", "free"} THEN bad \ {u} ELSE bad)
      /\ th' = [th EXCEPT ![t].todo = Tail(l)]
      /\ UNCHANGED <<ctx, queue, closed, wk, readers, writer, unsafe>>
  BY DEF SurfaceStep, MayApply, Applied, jobs, locks
<1>2. Alone(t) /\ readers = {} /\ writer = t
  BY AloneFacts
<1>3. /\ surf \in [Surfaces -> SurfaceRecord] /\ bad \subseteq Surfaces /\ unsafe \in BOOLEAN
      /\ th \in [Threads -> CallRecord] /\ th[t] \in CallRecord /\ l \in Seq(Section)
  BY CallTypes DEF CallRecord
<1>4. /\ Objects(th[t], ctx[th[t].c], surf)
      /\ Teardown(th[t], ctx[th[t].c], queue[th[t].c], closed[th[t].c], surf)
  BY DEF Inv, CallsOK, CallOK
<1>5. Once(l) /\ (th[t].pc = "destroyed" => Only(l, {"free"}))
      /\ (th[t].pc = "retire" => Only(l, {"fail"}))
  BY <1>4 DEF Teardown
<1>6. /\ o \in Section /\ Tail(l) \in Seq(Section)
      /\ \A s, op : Has(l, s, op) <=> (u = s /\ o.op = op) \/ Has(Tail(l), s, op)
      /\ \A s : InList(l, s) <=> u = s \/ InList(Tail(l), s)
      /\ \A ops : Only(l, ops) => o.op \in ops /\ Only(Tail(l), ops)
      /\ Once(Tail(l)) /\ ~InList(Tail(l), u)
  BY <1>1, <1>3, <1>5, TailList
<1>7. /\ p \in CallRecord /\ p.pc = th[t].pc /\ p.c = th[t].c /\ p.s = th[t].s
      /\ p.job = th[t].job /\ p.todo = Tail(l) /\ th' = [th EXCEPT ![t] = p]
  BY <1>1, <1>3, <1>6 DEF CallRecord
<1>8. u \in Surfaces /\ surf[u] \in SurfaceRecord
  BY <1>3, <1>6 DEF Section
<1>9. surf'[u] = r /\ \A s \in Surfaces \ {u} : surf'[s] = surf[s]
  BY <1>1, <1>3, <1>8
<1>10. th[t].pc = "destroyed" => o.op = "free" /\ surf[u].life = "removed"
  BY <1>4, <1>5, <1>6, <1>8 DEF Teardown
<1>11. th[t].pc = "retire" => o.op = "fail" /\ InFrames(u) /\ Retiring(u)
  BY <1>5, <1>6 DEF InFrames, Retiring
<1>12. th[t].pc = "destroyed" \/ th[t].pc = "retire"
  BY DEF Exclusive
<1> HIDE DEF p, l, r, u
<1>13. \A s : Retiring(s) <=> th[t].pc = "retire" /\ InList(l, s)
  BY <1>2, IdleFacts DEF Alone, Retiring, l
<1>14. r \in SurfaceRecord
  <2>1. CASE o.op = "free"
    BY <2>1, FreshTypes DEF r, Apply
  <2>2. CASE o.op # "free"
    BY <1>6, <1>8, <2>2, Sections DEF r
  <2> QED
    BY <2>1, <2>2
<1>15. surf' \in [Surfaces -> SurfaceRecord] /\ bad' \subseteq Surfaces
  BY <1>1, <1>3, <1>8, <1>14
<1>16. AloneTo(t, p)
  BY <1>1, <1>2, <1>7 DEF AloneTo, Exclusive
<1>17. p.s = NULL
  BY <1>4, <1>7 DEF Objects
<1>18. Objects(p, ctx[p.c], surf')
  BY <1>4, <1>7, <1>12, <1>17 DEF Objects, ReadyPC, Exclusive
<1>19. Teardown(p, ctx[p.c], queue[p.c], closed[p.c], surf')
  <2>1. th[t].pc = "destroyed" =>
           \A s \in Surfaces : InList(Tail(l), s) => s # u /\ surf[s].life = "removed"
    BY <1>4, <1>6 DEF Teardown, l
  <2>2. th[t].pc = "destroyed" =>
           \A s \in Surfaces : InList(Tail(l), s) => surf'[s].life = "removed"
    BY <1>9, <2>1
  <2>3. /\ Once(Tail(l)) /\ (th[t].pc = "destroyed" => Only(Tail(l), {"free"}))
        /\ (th[t].pc = "retire" => Only(Tail(l), {"fail"}))
    BY <1>5, <1>6
  <2> QED
    BY <1>4, <1>7, <1>12, <2>2, <2>3 DEF Teardown
<1>20. p.pc = "retire" => \A s \in Surfaces : InList(p.todo, s) => Retiring(s)
  BY <1>6, <1>7, <1>13
<1>21. ASSUME NEW s \in Surfaces
       PROVE  AloneSurface(t, p, s)
  <2>1. AbsentOK(s)
    BY DEF Inv, SurfacesOK
  <2>2. \A d \in Contexts : InLine(queue[d], wk[d], s) => surf[s].resolving /\ ~Retiring(s)
    BY DEF Inv, FramesOK, InFrames
  <2>3. CASE s # u
    <3>1. Same(s)
      BY <1>1, <1>9, <2>3 DEF Same
    <3>2. Retiring(s) => surf[s].resolving /\ surf[s].life # "absent"
      BY DEF Inv, FramesOK, InFrames
    <3>3. \A op : Has(th[t].todo, s, op) => Has(p.todo, s, op)
      BY <1>6, <1>7, <2>3 DEF l
    <3>4. p.pc = "retire" /\ InList(p.todo, s) => Retiring(s)
      BY <1>20
    <3>5. Retiring(s) => p.pc = "retire" /\ InList(p.todo, s)
      BY <1>6, <1>7, <1>13, <2>3
    <3> QED
      BY <2>1, <3>1, <3>2, <3>3, <3>4, <3>5 DEF AloneSurface, AbsentOK, Same
  <2>4. CASE s = u /\ th[t].pc = "destroyed"
    <3>1. o.op = "free" /\ surf[s].life = "removed" /\ ~surf[s].resolving
      BY <1>1, <1>10, <2>4
    <3>2. r = NoSurface /\ s \notin bad' /\ surf'[s] = NoSurface
      BY <1>1, <1>9, <2>4, <3>1 DEF r, Apply
    <3>3. ~NoSurface.resolving /\ ~NoSurface.exported
      BY DEF NoSurface, FreshSurface
    <3>4. ~Targeted(s)
      BY <3>1 DEF Targeted, Inv, PicturesOK, Picture
    <3>5. \A d \in Contexts : ~InLine(queue[d], wk[d], s)
      BY <2>2, <3>1
    <3> QED
      BY <1>7, <2>4, <3>2, <3>3, <3>4, <3>5 DEF AloneSurface
  <2>5. CASE s = u /\ th[t].pc = "retire"
    <3>1. o.op = "fail" /\ InFrames(s) /\ Retiring(s)
      BY <1>11, <2>5
    <3>2. ~Targeted(s)
      BY <1>2, <3>1, AloneTargets
    <3>3. \A d \in Contexts : ~InLine(queue[d], wk[d], s)
      BY <2>2, <3>1
    <3>4. surf[s].life # "absent"
      BY <3>1 DEF Inv, FramesOK
    <3>5. /\ ~r.resolving /\ r.decodeFailed /\ r.status = "error" /\ r.life = surf[s].life
          /\ r.exported = surf[s].exported
      BY <1>6, <1>8, <2>5, <3>1, Sections DEF r
    <3>6. surf'[s] = r /\ ~InList(p.todo, s)
      BY <1>6, <1>7, <1>9, <2>5
    <3> QED
      BY <3>2, <3>3, <3>4, <3>5, <3>6 DEF AloneSurface
  <2> QED
    BY <1>12, <2>3, <2>4, <2>5
<1>22. /\ UNCHANGED <<ctx, queue, closed, wk>> /\ unsafe' \in BOOLEAN /\ p.pc # "idle"
  BY <1>1, <1>3, <1>7, <1>12
<1> QED
  BY <1>15, <1>16, <1>18, <1>19, <1>20, <1>21, <1>22, AloneStep

\* nvDestroyContext cancels the queue.  The jobs that were waiting are failed one by
\* one while the worker is already being stopped.
LEMMA NvDestroyContextInv ==
    ASSUME Inv, Rules = AllRules, NEW t \in Threads, NEW c \in Contexts,
           NvDestroyContext(t, c)
    PROVE  Inv'
<1> DEFINE l == FailJobs(c)
           k == closed[c] \/ wk[c].pc # "none"
           p == [th[t] EXCEPT !.pc = "retire", !.c = c, !.todo = l]
<1>1. /\ th[t].pc = "idle" /\ readers = {} /\ writer = NULL /\ writer' = t
      /\ ctx[c].life = "live" /\ ctx[c].picture = "idle"
      /\ closed' = [closed EXCEPT ![c] = @ \/ wk[c].pc # "none"]
      /\ queue' = [queue EXCEPT ![c] = <<>>] /\ bad' = bad \cup QueuedSurfaces(c)
      /\ th' = [th EXCEPT ![t].pc = "retire", ![t].c = c, ![t].todo = l]
      /\ UNCHANGED <<surf, ctx, wk, readers, unsafe>>
  BY DEF NvDestroyContext, Abides, AllRules
<1>2. Alone(t)
  BY <1>1, AloneFacts
<1>3. /\ surf \in [Surfaces -> SurfaceRecord] /\ bad \subseteq Surfaces /\ unsafe \in BOOLEAN
      /\ th \in [Threads -> CallRecord] /\ th[t] \in CallRecord
      /\ ctx \in [Contexts -> ContextRecord]
  BY CallTypes
<1>4. th[t] = IdleThread
  BY <1>1 DEF Inv, CallsOK, CallOK, Objects
<1>5. /\ l \in Seq(Section) /\ Only(l, {"fail"}) /\ Once(l)
      /\ \A s : InList(l, s) <=> InQueue(queue[c], s)
      /\ \A s : Has(l, s, "fail") <=> InQueue(queue[c], s)
      /\ \A s : s \in QueuedSurfaces(c) <=> InQueue(queue[c], s)
      /\ QueuedSurfaces(c) \subseteq Surfaces
  BY FailJobsList
<1>6. /\ wk \in [Contexts -> WorkerRecord] /\ wk[c] \in WorkerRecord
      /\ queue \in [Contexts -> Seq(Job)] /\ queue[c] \in Seq(Job)
      /\ closed \in [Contexts -> BOOLEAN] /\ closed[c] \in BOOLEAN
      /\ Worker(c, ctx[c], queue[c], closed[c], wk[c], surf, bad)
      /\ Jobs(queue[c], wk[c], surf, bad)
  BY WorkerFacts
<1> HIDE DEF l
<1>7. /\ p \in CallRecord /\ p.pc = "retire" /\ p.c = c /\ p.s = NULL
      /\ p.job.surface = NULL /\ p.todo = l /\ th' = [th EXCEPT ![t] = p]
  BY <1>1, <1>3, <1>4, <1>5, IdleFacts DEF CallRecord, ThreadPC
<1>8. k \in BOOLEAN /\ closed' = [closed EXCEPT ![c] = k] /\ closed'[c] = k
      /\ (k <=> closed[c] \/ wk[c].pc # "none")
  BY <1>1, <1>6
<1> HIDE DEF p, k
<1>9. /\ queue'[c] = <<>> /\ \A d \in Contexts \ {c} : queue'[d] = queue[d]
      /\ \A d \in Contexts \ {c} : closed'[d] = closed[d]
      /\ queue' \in [Contexts -> Seq(Job)] /\ closed' \in [Contexts -> BOOLEAN]
  BY <1>1, <1>6, <1>8
<1>10. ctx' = ctx /\ wk' = wk /\ surf' = surf /\ unsafe' = unsafe
  BY <1>1
<1>11. AloneTo(t, p)
  BY <1>1, <1>2, <1>7 DEF AloneTo, Exclusive
<1>12. Objects(p, ctx'[p.c], surf')
  <2>1. c # NULL
    BY PipelineAssumption
  <2> QED
    BY <1>1, <1>7, <1>10, <2>1 DEF Objects, BeginPC, SourcePC, ReadyPC, Exclusive
<1>13. Teardown(p, ctx'[p.c], queue'[p.c], closed'[p.c], surf')
  <2>1. c \in VideoProc \/ k
    BY <1>1, <1>6, <1>8 DEF Worker
  <2> QED
    BY <1>1, <1>5, <1>7, <1>8, <1>9, <1>10, <2>1 DEF Teardown
<1>14. /\ \A d \in Contexts : ctx'[d].holder = NULL
       /\ p.pc = "idle" => p = IdleThread
  BY <1>2, <1>7, <1>10 DEF Alone
<1>15. /\ LocksOK' /\ HoldersOK' /\ CallsOK' /\ Claims'
       /\ th' \in [Threads -> CallRecord] /\ th'[t] = p
       /\ \A u \in Threads \ {t} : th'[u] = IdleThread
       /\ \A s : Retiring(s)' <=> p.pc = "retire" /\ InList(p.todo, s)
       /\ \A s, op : Settling(s, op)' <=>
            Has(p.todo, s, op) \/ \E d \in Contexts : Has(wk'[d].todo, s, op)
  BY <1>11, <1>12, <1>13, <1>14, AloneCalls
<1>16. \A s : Retiring(s)' <=> InQueue(queue[c], s)
  BY <1>5, <1>7, <1>15
<1>17. \A s : ~InQueue(<<>>, s)
  BY DEF InQueue
<1>18. \A s : ~Retiring(s)
  BY <1>1, <1>2, IdleFacts DEF Alone, Retiring
<1>19. ASSUME NEW s, NEW d \in Contexts
       PROVE  /\ InLine(queue'[d], wk'[d], s) => InLine(queue[d], wk[d], s)
              /\ d # c /\ InLine(queue[d], wk[d], s) => InLine(queue'[d], wk'[d], s)
              /\ InLine(queue[c], wk[c], s) => InQueue(queue[c], s) \/ InLine(queue'[c], wk'[c], s)
  <2>1. d # c => queue'[d] = queue[d]
    BY <1>9
  <2> QED
    BY <1>9, <1>10, <1>17, <2>1 DEF InLine
<1>20. \A s : InFrames(s)' <=> InFrames(s)
  <2>1. \A s : InFrames(s)' => InFrames(s)
    <3>1. \A s : InQueue(queue[c], s) => InFrames(s)
      BY DEF InFrames, InLine
    <3> QED
      BY <1>16, <1>19, <3>1 DEF InFrames
  <2>2. ASSUME NEW s, InFrames(s)
        PROVE  InFrames(s)'
    <3>1. PICK d \in Contexts : InLine(queue[d], wk[d], s)
      BY <1>18, <2>2 DEF InFrames
    <3>2. Retiring(s)' \/ InLine(queue'[d], wk'[d], s)
      BY <1>16, <1>19, <3>1
    <3> QED
      BY <3>2 DEF InFrames
  <2> QED
    BY <2>1, <2>2
<1>21. TypeOK'
  <2>1. \A d \in Contexts : Len(queue'[d]) <= Capacity
    <3>1. \A d \in Contexts : Len(queue[d]) <= Capacity
      BY DEF Inv, TypeOK
    <3>2. Len(queue'[c]) <= Capacity
      BY <1>9, PipelineAssumption
    <3> QED
      BY <1>9, <3>1, <3>2
  <2>2. bad' \subseteq Surfaces /\ readers' \subseteq Threads /\ writer' \in Threads \cup {NULL}
    BY <1>1, <1>3, <1>5
  <2>3. th' \in [Threads -> [pc : ThreadPC, c : Contexts \cup {NULL}, s : Surfaces \cup {NULL},
                             job : Job, todo : Seq(Section)]]
    BY <1>15 DEF CallRecord
  <2> QED
    BY <1>9, <1>10, <2>1, <2>2, <2>3 DEF Inv, TypeOK
\* What was queued is nobody's target and in no other place.
<1>22. ASSUME NEW s \in Surfaces, InQueue(queue[c], s)
       PROVE  /\ ~Targeted(s) /\ ~InWork(wk[c], s) /\ ~InList(wk[c].todo, s)
              /\ \A d \in Contexts \ {c} : ~InLine(queue[d], wk[d], s)
  <2>1. InLine(queue[c], wk[c], s)
    BY <1>22 DEF InLine
  <2>2. InFrames(s)
    BY <2>1 DEF InFrames
  <2>3. ~InWork(wk[c], s)
    BY <1>6, <1>22 DEF Jobs, InQueue
  <2>4. queue[c] # <<>>
    BY <1>17, <1>22
  <2>5. wk[c].todo = <<>>
    BY <1>6, <2>4 DEF Worker
  <2> QED
    BY <1>2, <2>1, <2>2, <2>3, <2>5, AloneTargets, EmptyList DEF Inv, FramesOK
<1>23. \A s \in Surfaces : Targeted(s) => (s \in bad' <=> s \in bad)
  BY <1>1, <1>5, <1>22
<1>24. PicturesOK' /\ Apart'
  <2>1. ASSUME NEW d \in Contexts
        PROVE  Picture(d, ctx[d], surf', bad')
    <3>1. Picture(d, ctx[d], surf, bad) /\ OpenOf(ctx[d]) \subseteq Surfaces
      BY DEF Inv, PicturesOK, TypeOK, ContextRecord, OpenOf
    <3>2. \A s \in OpenOf(ctx[d]) : surf'[s] = surf[s] /\ (s \in bad' <=> s \in bad)
      BY <1>10, <1>23, <3>1 DEF Targeted
    <3> QED
      BY <3>1, <3>2, PictureFrame
  <2> QED
    BY <1>10, <2>1 DEF Inv, PicturesOK, Apart
<1>25. ASSUME NEW d \in Contexts
       PROVE  /\ Worker(d, ctx'[d], queue'[d], closed'[d], wk'[d], surf', bad')
              /\ Jobs(queue'[d], wk'[d], surf', bad')
  <2>1. /\ queue[d] \in Seq(Job) /\ wk[d] \in WorkerRecord
        /\ Worker(d, ctx[d], queue[d], closed[d], wk[d], surf, bad)
        /\ Jobs(queue[d], wk[d], surf, bad)
    BY WorkerFacts
  <2>2. wk[d].pc \in WorkPC => wk[d].job.surface # NULL /\ wk[d].job.surface \in Surfaces
    BY <2>1 DEF Worker, WorkerRecord, Job
  <2>3. CASE d # c
    <3>1. \A s \in Surfaces : InLine(queue[d], wk[d], s) =>
            /\ surf'[s].submitted = surf[s].submitted /\ surf'[s].decodeFailed = surf[s].decodeFailed
            /\ s \in bad' <=> s \in bad
      BY <1>1, <1>5, <1>10, <1>22, <2>3
    <3>2. Worker(d, ctx[d], queue[d], closed[d], wk[d], surf', bad')
      BY <2>1, <3>1, WorkerFrame
    <3>3. Jobs(queue[d], wk[d], surf', bad')
      BY <2>1, <2>2, <3>1, JobsFrame
    <3> QED
      BY <1>9, <1>10, <2>3, <3>2, <3>3
  <2>4. CASE d = c
    <3>1. wk[c].pc \in WorkPC => (wk[c].job.surface \in bad' <=> wk[c].job.surface \in bad)
      BY <1>1, <1>5, <1>22, <2>2, <2>4 DEF InWork
    <3>2. Worker(c, ctx[c], <<>>, k, wk[c], surf, bad')
      BY <1>1, <1>6, <1>8, <3>1 DEF Worker, WorkPC
    <3>3. Jobs(<<>>, wk[c], surf, bad')
      BY <1>6 DEF Jobs
    <3> QED
      BY <1>8, <1>9, <1>10, <2>4, <3>2, <3>3
  <2> QED
    BY <2>3, <2>4
<1>26. WorkersOK'
  BY <1>25 DEF WorkersOK
<1>27. FramesOK'
  <2>1. ASSUME NEW d \in Contexts, NEW s \in Surfaces, InLine(queue'[d], wk'[d], s)
        PROVE  ~Retiring(s)'
    <3>1. CASE d # c
      BY <1>16, <1>19, <1>22, <2>1, <3>1
    <3>2. CASE d = c
      BY <1>9, <1>10, <1>16, <1>17, <1>22, <2>1, <3>2 DEF InLine
    <3> QED
      BY <3>1, <3>2
  <2>2. \A d, e \in Contexts, s \in Surfaces :
          d # e /\ InLine(queue'[d], wk'[d], s) => ~InLine(queue'[e], wk'[e], s)
    BY <1>19 DEF Inv, FramesOK
  <2>3. \A s \in Surfaces : InFrames(s)' => surf'[s].resolving /\ surf'[s].life # "absent"
    BY <1>10, <1>20 DEF Inv, FramesOK
  <2>4. \A s \in Surfaces, d \in Contexts :
          InFrames(s)' /\ s \in OpenOf(ctx'[d]) => ctx'[d].picture = "submitted"
    BY <1>10, <1>20 DEF Inv, FramesOK
  <2> QED
    BY <1>25, <2>1, <2>2, <2>3, <2>4 DEF FramesOK
<1>28. SurfacesOK'
  <2> SUFFICES ASSUME NEW s \in Surfaces
               PROVE  AbsentOK(s)' /\ OwnedOK(s)' /\ FailureOK(s)' /\ ExportOK(s)'
    BY DEF SurfacesOK
  <2>1. AbsentOK(s) /\ OwnedOK(s) /\ FailureOK(s) /\ ExportOK(s)
    BY DEF Inv, SurfacesOK
  <2>2. AbsentOK(s)'
    <3>1. InQueue(queue[c], s) => surf[s].life # "absent"
      BY DEF Inv, FramesOK, InFrames, InLine
    <3> QED
      BY <1>1, <1>5, <2>1, <3>1 DEF AbsentOK
  <2>3. OwnedOK(s)'
    BY <1>10, <1>20, <2>1 DEF OwnedOK, Pending
  <2>4. FailureOK(s)'
    <3>1. InQueue(queue[c], s) => Settling(s, "fail")'
      BY <1>5, <1>7, <1>15
    <3>2. \A op : Settling(s, op) => Settling(s, op)'
      <4>1. \A u \in Threads : th[u].todo = <<>>
        BY <1>2, <1>4, IdleFacts DEF Alone
      <4> QED
        BY <1>10, <1>15, <4>1, EmptyList DEF Settling
    <3> QED
      BY <1>1, <1>5, <2>1, <3>1, <3>2 DEF FailureOK
  <2>5. ExportOK(s)'
    <3>1. \A d \in Contexts : Running(queue'[d], wk'[d], s) => Running(queue[d], wk[d], s)
      BY <1>9, <1>10, <1>17 DEF Running
    <3> QED
      BY <1>10, <2>1, <3>1 DEF ExportOK, Targeted
  <2> QED
    BY <2>2, <2>3, <2>4, <2>5
<1> QED
  BY <1>15, <1>21, <1>24, <1>26, <1>27, <1>28 DEF Inv

-----------------------------------------------------------------------------
(* Contexts and surfaces come and go.                                      *)

\* What the initial values are.
LEMMA FreshFacts ==
    /\ NoContext.life = "absent" /\ NoContext.picture = "idle" /\ NoContext.holder = NULL
    /\ NoContext.render = NULL /\ NoContext.display = NULL /\ OpenOf(NoContext) = {}
    /\ FreshContext.life = "live" /\ FreshContext.picture = "idle" /\ FreshContext.holder = NULL
    /\ FreshContext.render = NULL /\ FreshContext.display = NULL /\ OpenOf(FreshContext) = {}
    /\ NoWorker.pc = "none" /\ NoWorker.job.surface = NULL /\ NoWorker.todo = <<>>
    /\ \A s : ~InLine(<<>>, NoWorker, s)
    /\ \A c, S, B : Picture(c, NoContext, S, B) /\ Picture(c, FreshContext, S, B)
<1>1. /\ NoContext.life = "absent" /\ NoContext.picture = "idle" /\ NoContext.holder = NULL
      /\ NoContext.render = NULL /\ NoContext.display = NULL
      /\ FreshContext.life = "live" /\ FreshContext.picture = "idle" /\ FreshContext.holder = NULL
      /\ FreshContext.render = NULL /\ FreshContext.display = NULL
  BY DEF NoContext, FreshContext
<1>2. OpenOf(NoContext) = {} /\ OpenOf(FreshContext) = {}
  BY <1>1 DEF OpenOf
<1>3. /\ NoWorker.pc = "none" /\ NoWorker.job.surface = NULL /\ NoWorker.todo = <<>>
  BY DEF NoWorker, NoJob
<1>4. \A s : ~InLine(<<>>, NoWorker, s)
  BY <1>3, EmptyList DEF InLine, InQueue, InWork, WorkPC
<1>5. \A c, S, B : Picture(c, NoContext, S, B) /\ Picture(c, FreshContext, S, B)
  BY <1>1, <1>2 DEF Picture
<1> QED
  BY <1>1, <1>2, <1>3, <1>4, <1>5

\* A context c without a picture and without frames becomes x, its worker w: the
\* frames and the pictures stay what they are.
CalmContext(c, x, k, w) ==
    /\ x \in ContextRecord /\ k \in BOOLEAN /\ w \in WorkerRecord
    /\ ctx' = [ctx EXCEPT ![c] = x] /\ closed' = [closed EXCEPT ![c] = k]
    /\ wk' = [wk EXCEPT ![c] = w]
    /\ UNCHANGED <<surf, queue, unsafe, bad>>
    /\ OpenOf(ctx[c]) = {} /\ OpenOf(x) = {} /\ x.holder = ctx[c].holder
    /\ queue[c] = <<>> /\ wk[c].todo = <<>> /\ wk[c].pc \notin WorkPC
    /\ w.todo = <<>> /\ w.pc \notin WorkPC
    /\ Picture(c, x, surf, bad) /\ Worker(c, x, <<>>, k, w, surf, bad)

LEMMA CalmContextStep ==
    ASSUME Inv, NEW c \in Contexts, NEW x, NEW k, NEW w, CalmContext(c, x, k, w),
           th' \in [Threads -> CallRecord], readers' \subseteq Threads,
           writer' \in Threads \cup {NULL},
           LocksOK', HoldersOK', CallsOK', Claims',
           \A s : Retiring(s)' <=> Retiring(s),
           \A s, op : Settling(s, op) => Settling(s, op)'
    PROVE  Inv'
<1>1. /\ wk \in [Contexts -> WorkerRecord] /\ closed \in [Contexts -> BOOLEAN]
      /\ queue \in [Contexts -> Seq(Job)]
      /\ Jobs(queue[c], wk[c], surf, bad)
  BY WorkerFacts
<1>2. ctx \in [Contexts -> ContextRecord]
  BY DEF Inv, TypeOK
<1>3. /\ ctx'[c] = x /\ closed'[c] = k /\ wk'[c] = w
      /\ \A d \in Contexts \ {c} : ctx'[d] = ctx[d] /\ closed'[d] = closed[d] /\ wk'[d] = wk[d]
      /\ ctx' \in [Contexts -> ContextRecord] /\ closed' \in [Contexts -> BOOLEAN]
      /\ wk' \in [Contexts -> WorkerRecord]
      /\ surf' = surf /\ queue' = queue /\ unsafe' = unsafe /\ bad' = bad
  BY <1>1, <1>2 DEF CalmContext
<1>4. /\ OpenOf(ctx[c]) = {} /\ OpenOf(x) = {} /\ queue[c] = <<>>
      /\ wk[c].todo = <<>> /\ wk[c].pc \notin WorkPC
      /\ w.todo = <<>> /\ w.pc \notin WorkPC
      /\ Picture(c, x, surf, bad) /\ Worker(c, x, <<>>, k, w, surf, bad)
  BY DEF CalmContext
<1>5. \A s : ~InLine(queue[c], wk[c], s) /\ ~InLine(queue[c], w, s)
  BY <1>4, EmptyList DEF InLine, InQueue, InWork
<1>6. \A s : \A d \in Contexts : InLine(queue'[d], wk'[d], s) <=> InLine(queue[d], wk[d], s)
  BY <1>3, <1>5
<1>7. \A s : InFrames(s)' <=> InFrames(s)
  BY <1>6 DEF InFrames
<1>8. \A d \in Contexts : OpenOf(ctx'[d]) = OpenOf(ctx[d])
  BY <1>3, <1>4
<1>9. \A d \in Contexts : \A s \in OpenOf(ctx[d]) : ctx'[d].picture = ctx[d].picture
  BY <1>3, <1>4
<1>10. \A s : (Targeted(s)' <=> Targeted(s)) /\ (Pending(s)' <=> Pending(s))
  BY <1>8, <1>9 DEF Targeted, Pending
<1>11. TypeOK'
  <2>1. th' \in [Threads -> [pc : ThreadPC, c : Contexts \cup {NULL}, s : Surfaces \cup {NULL},
                             job : Job, todo : Seq(Section)]]
    BY DEF CallRecord
  <2>2. wk' \in [Contexts -> [pc : WorkerPC, job : Job, failed : BOOLEAN, todo : Seq(Section)]]
    BY <1>3 DEF WorkerRecord
  <2> QED
    BY <1>3, <2>1, <2>2 DEF Inv, TypeOK
<1>12. PicturesOK'
  <2>1. \A d \in Contexts : Picture(d, ctx[d], surf, bad)
    BY DEF Inv, PicturesOK
  <2>2. \A d \in Contexts : Picture(d, ctx'[d], surf', bad')
    BY <1>3, <1>4, <2>1
  <2> QED
    BY <2>2 DEF PicturesOK
<1>13. Apart'
  BY <1>8 DEF Inv, Apart
<1>14. WorkersOK'
  <2>1. \A d \in Contexts : Worker(d, ctx[d], queue[d], closed[d], wk[d], surf, bad)
    BY DEF Inv, WorkersOK
  <2>2. \A d \in Contexts : Worker(d, ctx'[d], queue'[d], closed'[d], wk'[d], surf', bad')
    BY <1>3, <1>4, <2>1
  <2> QED
    BY <2>2 DEF WorkersOK
<1>15. FramesOK'
  <2>1. Jobs(<<>>, w, surf, bad)
    BY <1>4 DEF Jobs, WorkPC
  <2>2. \A d \in Contexts : Jobs(queue[d], wk[d], surf, bad)
    BY DEF Inv, FramesOK
  <2>3. \A d \in Contexts : Jobs(queue'[d], wk'[d], surf', bad')
    BY <1>3, <1>4, <2>1, <2>2
  <2>4. \A d \in Contexts, s \in Surfaces : InLine(queue'[d], wk'[d], s) => ~Retiring(s)'
    BY <1>6 DEF Inv, FramesOK
  <2>5. \A d, e \in Contexts, s \in Surfaces :
          d # e /\ InLine(queue'[d], wk'[d], s) => ~InLine(queue'[e], wk'[e], s)
    BY <1>6 DEF Inv, FramesOK
  <2>6. \A s \in Surfaces : InFrames(s)' => surf'[s].resolving /\ surf'[s].life # "absent"
    BY <1>3, <1>7 DEF Inv, FramesOK
  <2>7. \A s \in Surfaces, d \in Contexts :
          InFrames(s)' /\ s \in OpenOf(ctx'[d]) => ctx'[d].picture = "submitted"
    BY <1>7, <1>8, <1>9 DEF Inv, FramesOK
  <2> QED
    BY <2>3, <2>4, <2>5, <2>6, <2>7 DEF FramesOK
<1>16. SurfacesOK'
  <2> SUFFICES ASSUME NEW s \in Surfaces
               PROVE  AbsentOK(s)' /\ OwnedOK(s)' /\ FailureOK(s)' /\ ExportOK(s)'
    BY DEF SurfacesOK
  <2>1. AbsentOK(s) /\ OwnedOK(s) /\ FailureOK(s) /\ ExportOK(s)
    BY DEF Inv, SurfacesOK
  <2>2. AbsentOK(s)' /\ OwnedOK(s)' /\ FailureOK(s)'
    BY <1>3, <1>7, <1>10, <2>1 DEF AbsentOK, OwnedOK, FailureOK
  <2>3. ExportOK(s)'
    <3>1. \A d \in Contexts : Running(queue'[d], wk'[d], s) => Running(queue[d], wk[d], s)
      BY <1>3, <1>4 DEF Running, WorkPC
    <3> QED
      BY <1>3, <1>10, <2>1, <3>1 DEF ExportOK
  <2> QED
    BY <2>2, <2>3
<1> QED
  BY <1>11, <1>12, <1>13, <1>14, <1>15, <1>16 DEF Inv

\* The worker has been joined: the context goes away, or stays without a worker.
LEMMA RetireInv ==
    ASSUME Inv, NEW t \in Threads, Retire(t) \/ RetireFail(t)
    PROVE  Inv'
<1> DEFINE p == IdleThread
<1>1. /\ th[t].pc = "retire" /\ th[t].todo = <<>> /\ th' = [th EXCEPT ![t] = p]
      /\ readers' = readers \ {t} /\ writer' = (IF writer = t THEN NULL ELSE writer)
      /\ UNCHANGED <<surf, queue, unsafe, bad>>
  BY DEF Retire, RetireFail, At, Return
<1>2. Alone(t) /\ readers = {} /\ writer = t
  BY <1>1, AloneFacts DEF Exclusive
<1>3. /\ th \in [Threads -> CallRecord] /\ th[t] \in CallRecord
      /\ ctx \in [Contexts -> ContextRecord]
  BY CallTypes
<1>4. /\ Objects(th[t], ctx[th[t].c], surf)
      /\ Teardown(th[t], ctx[th[t].c], queue[th[t].c], closed[th[t].c], surf)
  BY DEF Inv, CallsOK, CallOK
<1>5. PICK c \in Contexts : c = th[t].c
  BY <1>1, <1>3, <1>4 DEF Objects, CallRecord
<1>6. /\ ctx[c].life = "live" /\ ctx[c].picture = "idle" /\ queue[c] = <<>>
      /\ c \in VideoProc \/ closed[c]
  BY <1>1, <1>4, <1>5 DEF Objects, Teardown
<1>7. /\ wk \in [Contexts -> WorkerRecord] /\ wk[c] \in WorkerRecord
      /\ closed \in [Contexts -> BOOLEAN] /\ closed[c] \in BOOLEAN
      /\ Worker(c, ctx[c], queue[c], closed[c], wk[c], surf, bad)
  BY WorkerFacts
<1>8. /\ wk[c].pc \in {"none", "exited", "aborted"} /\ wk[c].todo = <<>>
      /\ wk' = [wk EXCEPT ![c] = NoWorker]
      /\ \/ ctx' = [ctx EXCEPT ![c] = NoContext] /\ closed' = [closed EXCEPT ![c] = FALSE]
         \/ ctx' = ctx /\ closed' = closed
  BY <1>5 DEF Retire, RetireFail, WorkerGone
<1>9. \E x, k : /\ (x = NoContext /\ k = FALSE) \/ (x = ctx[c] /\ k = closed[c])
                /\ ctx' = [ctx EXCEPT ![c] = x] /\ closed' = [closed EXCEPT ![c] = k]
  <2>1. ctx = [ctx EXCEPT ![c] = ctx[c]] /\ closed = [closed EXCEPT ![c] = closed[c]]
    BY <1>3, <1>7
  <2>2. CASE ctx' = [ctx EXCEPT ![c] = NoContext] /\ closed' = [closed EXCEPT ![c] = FALSE]
    <3> WITNESS NoContext, FALSE
    <3> QED
      BY <2>2
  <2>3. CASE ctx' = ctx /\ closed' = closed
    <3>1. /\ ctx' = [ctx EXCEPT ![c] = ctx[c]]
          /\ closed' = [closed EXCEPT ![c] = closed[c]]
      BY <2>1, <2>3
    <3> QED
      BY <3>1
  <2> QED
    BY <1>8, <2>2, <2>3
<1>10. PICK x, k : /\ (x = NoContext /\ k = FALSE) \/ (x = ctx[c] /\ k = closed[c])
                   /\ ctx' = [ctx EXCEPT ![c] = x] /\ closed' = [closed EXCEPT ![c] = k]
  BY <1>9
<1>11. /\ Picture(c, ctx[c], surf, bad) /\ ctx[c].holder = NULL
  BY <1>2 DEF Inv, PicturesOK, Alone
<1>12. OpenOf(ctx[c]) = {}
  BY <1>6, <1>11 DEF Picture, OpenOf
<1>13. CalmContext(c, x, k, NoWorker)
  <2>1. x \in ContextRecord /\ k \in BOOLEAN /\ NoWorker \in WorkerRecord
    BY <1>3, <1>7, <1>10, FreshTypes
  <2>2. OpenOf(x) = {} /\ x.holder = ctx[c].holder /\ Picture(c, x, surf, bad)
    BY <1>10, <1>11, <1>12, FreshFacts
  <2>3. NoWorker.pc = "none" /\ NoWorker.todo = <<>> /\ NoWorker.job.surface = NULL
    BY FreshFacts
  <2>4. Worker(c, x, <<>>, k, NoWorker, surf, bad)
    <3>1. (x.life = "absent" => ~k) /\ (c \in VideoProc \/ x.life = "absent" \/ k)
      BY <1>6, <1>10, FreshFacts
    <3>2. Only(<<>>, {"fail"}) /\ Once(<<>>)
      BY DEF Only, Once
    <3> QED
      BY <2>3, <3>1, <3>2 DEF Worker, WorkPC
  <2>5. "none" \notin WorkPC /\ wk[c].pc \notin WorkPC
    BY <1>8 DEF WorkPC
  <2> QED
    BY <1>1, <1>6, <1>8, <1>10, <1>12, <2>1, <2>2, <2>3, <2>4, <2>5 DEF CalmContext
<1>14. p \in CallRecord /\ p.pc = "idle" /\ p.todo = <<>> /\ p = IdleThread
  BY FreshTypes, IdleFacts
<1>15. /\ Objects(p, ctx'[p.c], surf') /\ Teardown(p, ctx'[p.c], queue'[p.c], closed'[p.c], surf')
  BY IdleFacts
<1> HIDE DEF p
<1>16. AloneTo(t, p)
  BY <1>1, <1>2, <1>14 DEF AloneTo
<1>17. \A d \in Contexts : ctx'[d].holder = NULL
  BY <1>2, <1>3, <1>10, FreshFacts DEF Alone
<1>18. /\ LocksOK' /\ HoldersOK' /\ CallsOK' /\ Claims'
       /\ th' \in [Threads -> CallRecord] /\ th'[t] = p
       /\ \A u \in Threads \ {t} : th'[u] = IdleThread
       /\ \A s : Retiring(s)' <=> p.pc = "retire" /\ InList(p.todo, s)
       /\ \A s, op : Settling(s, op)' <=>
            Has(p.todo, s, op) \/ \E d \in Contexts : Has(wk'[d].todo, s, op)
  BY <1>14, <1>15, <1>16, <1>17, AloneCalls
<1>19. \A s : Retiring(s)' <=> Retiring(s)
  BY <1>1, <1>2, <1>14, <1>18, EmptyList, IdleFacts DEF Retiring, Alone
<1>20. \A s, op : Settling(s, op) => Settling(s, op)'
  <2>1. \A u \in Threads : th[u].todo = <<>>
    BY <1>1, <1>2, IdleFacts DEF Alone
  <2>2. \A d \in Contexts : wk'[d].todo = wk[d].todo
    BY <1>7, <1>8, FreshFacts
  <2> QED
    BY <1>18, <2>1, <2>2, EmptyList DEF Settling
<1>21. readers' \subseteq Threads /\ writer' \in Threads \cup {NULL}
  BY <1>1, <1>2
<1> QED
  BY <1>13, <1>18, <1>19, <1>20, <1>21, CalmContextStep

LEMMA NvCreateContextInv ==
    ASSUME Inv, NEW c \in Contexts, NvCreateContext(c)
    PROVE  Inv'
<1> DEFINE w == [wk[c] EXCEPT !.pc = IF c \in VideoProc THEN "none" ELSE "start"]
<1>1. /\ writer = NULL /\ ctx[c].life = "absent" /\ ctx' = [ctx EXCEPT ![c] = FreshContext]
      /\ wk' = [wk EXCEPT ![c].pc = IF c \in VideoProc THEN "none" ELSE "start"]
      /\ UNCHANGED <<surf, queue, closed, th, readers, writer, unsafe, bad>>
  BY DEF NvCreateContext, locks
<1>2. /\ wk \in [Contexts -> WorkerRecord] /\ wk[c] \in WorkerRecord
      /\ closed \in [Contexts -> BOOLEAN] /\ closed[c] \in BOOLEAN
      /\ Worker(c, ctx[c], queue[c], closed[c], wk[c], surf, bad)
  BY WorkerFacts
<1>3. /\ ctx \in [Contexts -> ContextRecord] /\ th \in [Threads -> CallRecord]
      /\ readers \subseteq Threads /\ writer \in Threads \cup {NULL}
  BY DEF Inv, TypeOK, CallRecord
<1>4. ctx[c] = NoContext
  BY <1>1 DEF Inv, PicturesOK, Picture
<1>5. wk[c] = NoWorker /\ ~closed[c] /\ queue[c] = <<>>
  <2>1. wk[c] = NoWorker /\ ~closed[c]
    BY <1>1, <1>2 DEF Worker
  <2>2. wk[c].pc = "none"
    BY <2>1, FreshFacts
  <2> QED
    BY <1>2, <2>1, <2>2 DEF Worker
<1>6. /\ w \in WorkerRecord /\ w.todo = <<>> /\ w.job.surface = NULL
      /\ w.pc = (IF c \in VideoProc THEN "none" ELSE "start") /\ wk' = [wk EXCEPT ![c] = w]
  <2>1. wk[c].todo = <<>> /\ wk[c].job.surface = NULL
    BY <1>5, FreshFacts
  <2> QED
    BY <1>1, <1>2, <2>1 DEF WorkerRecord, WorkerPC
<1> HIDE DEF w
<1>7. CalmContext(c, FreshContext, closed[c], w)
  <2>1. /\ FreshContext \in ContextRecord /\ OpenOf(FreshContext) = {} /\ OpenOf(ctx[c]) = {}
        /\ FreshContext.holder = ctx[c].holder /\ Picture(c, FreshContext, surf, bad)
        /\ FreshContext.life = "live"
    BY <1>4, FreshTypes, FreshFacts
  <2>2. wk[c].todo = <<>> /\ wk[c].pc \notin WorkPC /\ w.pc \notin WorkPC
    BY <1>5, <1>6, FreshFacts DEF WorkPC
  <2>3. closed' = [closed EXCEPT ![c] = closed[c]]
    BY <1>1, <1>2
  <2>4. Only(<<>>, {"fail"}) /\ Once(<<>>)
    BY DEF Only, Once
  <2>5. Worker(c, FreshContext, <<>>, closed[c], w, surf, bad)
    BY <1>6, <2>1, <2>4 DEF Worker, WorkPC
  <2> QED
    BY <1>1, <1>2, <1>5, <1>6, <2>1, <2>2, <2>3, <2>5 DEF CalmContext
<1>8. /\ ctx'[c] = FreshContext /\ \A d \in Contexts \ {c} : ctx'[d] = ctx[d]
      /\ wk'[c] = w /\ \A d \in Contexts \ {c} : wk'[d] = wk[d]
      /\ th' = th /\ readers' = readers /\ writer' = writer
  BY <1>1, <1>2, <1>3, <1>6
<1>9. \A d \in Contexts : ctx'[d].holder = ctx[d].holder /\ OpenOf(ctx'[d]) = OpenOf(ctx[d])
  BY <1>4, <1>8, FreshFacts
<1>10. LocksOK' /\ HoldersOK' /\ Claims'
  BY <1>8, <1>9 DEF Inv, LocksOK, HoldersOK, Claims
<1>11. CallsOK'
  <2> SUFFICES ASSUME NEW u \in Threads
               PROVE  CallOK(th[u])'
    BY <1>8 DEF CallsOK
  <2>1. PICK p \in CallRecord : p = th[u]
    BY <1>3
  <2>2. CallOK(p)
    BY <2>1 DEF Inv, CallsOK
  <2>3. p.pc \notin Exclusive
    BY <1>1, <2>1, PipelineAssumption DEF Inv, LocksOK
  <2>4. p.pc \in Locking \cup Holding \cup {"retire"} => ctx'[p.c] = ctx[p.c]
    BY <1>1, <1>8, <2>2, <2>3 DEF CallOK, Objects, CallRecord
  <2>5. Objects(p, ctx[p.c], surf) /\ surf' = surf /\ bad' = bad
    BY <1>1, <2>2 DEF CallOK
  <2>6. Objects(p, ctx'[p.c], surf')
    BY <2>4, <2>5, ObjectsFrame
  <2>7. Teardown(p, ctx'[p.c], queue'[p.c], closed'[p.c], surf')
    BY <2>3 DEF Teardown, Exclusive
  <2>8. p.pc \in Holding => Stage(p.c, p, ctx'[p.c], surf', bad')
    BY <2>2, <2>4, <2>5 DEF CallOK
  <2>9. CallOK(p)'
    BY <2>6, <2>7, <2>8 DEF CallOK
  <2> QED
    BY <1>8, <2>1, <2>9
<1>12. \A s : Retiring(s)' <=> Retiring(s)
  BY <1>8 DEF Retiring
<1>13. \A s, op : Settling(s, op) => Settling(s, op)'
  <2>1. \A d \in Contexts : wk'[d].todo = wk[d].todo
    BY <1>5, <1>6, <1>8, FreshFacts
  <2> QED
    BY <1>8, <2>1 DEF Settling
<1> QED
  BY <1>3, <1>7, <1>8, <1>10, <1>11, <1>12, <1>13, CalmContextStep

LEMMA NvCreateSurfaceInv ==
    ASSUME Inv, NEW v \in Surfaces, NvCreateSurface(v)
    PROVE  Inv'
<1>1. /\ surf[v].life = "absent" /\ surf' = [surf EXCEPT ![v] = FreshSurface]
      /\ UNCHANGED <<ctx, queue, closed, wk, th, readers, writer, unsafe, bad>>
  BY DEF NvCreateSurface, jobs, locks
<1>2. surf \in [Surfaces -> SurfaceRecord] /\ FreshSurface \in SurfaceRecord
  BY FreshTypes DEF Inv, TypeOK
<1>3. /\ surf'[v] = FreshSurface /\ \A s \in Surfaces \ {v} : surf'[s] = surf[s]
      /\ surf' \in [Surfaces -> SurfaceRecord]
  BY <1>1, <1>2
<1>4. /\ FreshSurface.life = "live" /\ ~FreshSurface.resolving /\ ~FreshSurface.exported
  BY DEF FreshSurface
<1>5. v \notin bad
  BY <1>1 DEF Inv, SurfacesOK, AbsentOK
<1>6. ~InFrames(v)
  BY <1>1 DEF Inv, FramesOK
<1>7. \A d \in Contexts : v \notin OpenOf(ctx[d]) /\ OpenOf(ctx[d]) \subseteq Surfaces
  BY <1>1 DEF Inv, PicturesOK, Picture, TypeOK, ContextRecord, OpenOf
<1>8. TypeOK' /\ LocksOK' /\ HoldersOK' /\ Apart' /\ Claims'
  BY <1>1, <1>3 DEF Inv, TypeOK, LocksOK, HoldersOK, Apart, Claims
<1>9. PicturesOK'
  <2> SUFFICES ASSUME NEW d \in Contexts
               PROVE  Picture(d, ctx[d], surf', bad)
    BY <1>1 DEF PicturesOK
  <2>1. Picture(d, ctx[d], surf, bad)
    BY DEF Inv, PicturesOK
  <2>2. \A s \in OpenOf(ctx[d]) : surf'[s] = surf[s]
    BY <1>3, <1>7
  <2> QED
    BY <2>1, <2>2, PictureFrame
<1>10. CallsOK'
  <2> SUFFICES ASSUME NEW u \in Threads
               PROVE  CallOK(th[u])'
    BY <1>1 DEF CallsOK
  <2>1. PICK p \in CallRecord : p = th[u]
    BY DEF Inv, TypeOK, CallRecord
  <2>2. CallOK(p)
    BY <2>1 DEF Inv, CallsOK
  <2>3. p.s # NULL => surf'[p.s] = surf[p.s]
    <3>1. p.s # NULL => p.s \in Surfaces /\ surf[p.s].life = "live"
      BY <2>2 DEF CallOK, Objects, CallRecord
    <3> QED
      BY <1>1, <1>3, <3>1
  <2>4. Objects(p, ctx[p.c], surf')
    <3>1. Objects(p, ctx[p.c], surf)
      BY <2>2 DEF CallOK
    <3>2. p.pc \in ReadyPC => p.s # NULL
      BY <3>1 DEF Objects, ReadyPC, BeginPC, SourcePC
    <3> QED
      BY <2>3, <3>1, <3>2, ObjectsFrame
  <2>5. Teardown(p, ctx[p.c], queue[p.c], closed[p.c], surf')
    <3>1. Teardown(p, ctx[p.c], queue[p.c], closed[p.c], surf)
      BY <2>2 DEF CallOK
    <3>2. p.pc = "destroyed" => \A s \in Surfaces : InList(p.todo, s) => surf'[s].life = "removed"
      BY <1>1, <1>3, <3>1 DEF Teardown
    <3> QED
      BY <3>1, <3>2 DEF Teardown
  <2>6. ASSUME p.pc \in Holding
        PROVE  Stage(p.c, p, ctx[p.c], surf', bad)
    <3>1. Stage(p.c, p, ctx[p.c], surf, bad) /\ p.c \in Contexts
      BY <2>2, <2>6 DEF CallOK, Objects, CallRecord
    <3>2. \A s \in OpenOf(ctx[p.c]) : surf'[s] = surf[s]
      BY <1>3, <1>7, <3>1
    <3> QED
      BY <3>1, <3>2, StageFrame
  <2>7. CallOK(p)'
    BY <1>1, <2>4, <2>5, <2>6 DEF CallOK
  <2> QED
    BY <1>1, <2>1, <2>7
<1>11. ASSUME NEW d \in Contexts
       PROVE  /\ Worker(d, ctx[d], queue[d], closed[d], wk[d], surf', bad)
              /\ Jobs(queue[d], wk[d], surf', bad)
  <2>1. /\ queue[d] \in Seq(Job) /\ wk[d] \in WorkerRecord
        /\ Worker(d, ctx[d], queue[d], closed[d], wk[d], surf, bad)
        /\ Jobs(queue[d], wk[d], surf, bad)
    BY WorkerFacts
  <2>2. wk[d].pc \in WorkPC => wk[d].job.surface # NULL
    BY <2>1 DEF Worker
  <2>3. \A s \in Surfaces : InLine(queue[d], wk[d], s) =>
          /\ surf'[s].submitted = surf[s].submitted /\ surf'[s].decodeFailed = surf[s].decodeFailed
          /\ s \in bad <=> s \in bad
    BY <1>3, <1>6 DEF InFrames
  <2>4. Worker(d, ctx[d], queue[d], closed[d], wk[d], surf', bad)
    BY <2>1, <2>3, WorkerFrame
  <2>5. Jobs(queue[d], wk[d], surf', bad)
    BY <2>1, <2>2, <2>3, JobsFrame
  <2> QED
    BY <2>4, <2>5
<1>12. WorkersOK'
  BY <1>1, <1>11 DEF WorkersOK
<1>13. \A s : (InFrames(s)' <=> InFrames(s)) /\ (Retiring(s)' <=> Retiring(s))
  BY <1>1 DEF InFrames, Retiring
<1>14. FramesOK'
  <2>1. \A s \in Surfaces : InFrames(s)' => surf'[s].resolving /\ surf'[s].life # "absent"
    BY <1>3, <1>6, <1>13 DEF Inv, FramesOK
  <2>2. \A d \in Contexts : Jobs(queue[d], wk[d], surf, bad)'
    BY <1>1, <1>11
  <2> QED
    BY <1>1, <1>13, <2>1, <2>2 DEF Inv, FramesOK
<1>15. SurfacesOK'
  <2> SUFFICES ASSUME NEW s \in Surfaces
               PROVE  AbsentOK(s)' /\ OwnedOK(s)' /\ FailureOK(s)' /\ ExportOK(s)'
    BY DEF SurfacesOK
  <2>1. CASE s = v
    BY <1>1, <1>3, <1>4, <1>5, <2>1 DEF AbsentOK, OwnedOK, FailureOK, ExportOK
  <2>2. CASE s # v
    <3>1. AbsentOK(s) /\ OwnedOK(s) /\ FailureOK(s) /\ ExportOK(s)
      BY DEF Inv, SurfacesOK
    <3>2. surf'[s] = surf[s] /\ bad' = bad /\ queue' = queue /\ wk' = wk /\ ctx' = ctx /\ th' = th
      BY <1>1, <1>3, <2>2
    <3> QED
      BY <1>13, <3>1, <3>2
      DEF AbsentOK, OwnedOK, FailureOK, ExportOK, Pending, Targeted, Settling
  <2> QED
    BY <2>1, <2>2
<1> QED
  BY <1>8, <1>9, <1>10, <1>12, <1>14, <1>15 DEF Inv

LEMMA InitInv == Init => Inv
<1> SUFFICES ASSUME Init
             PROVE  Inv
  OBVIOUS
<1>1. /\ surf = [s \in Surfaces |-> NoSurface] /\ ctx = [c \in Contexts |-> NoContext]
      /\ queue = [c \in Contexts |-> <<>>] /\ closed = [c \in Contexts |-> FALSE]
      /\ wk = [c \in Contexts |-> NoWorker] /\ th = [t \in Threads |-> IdleThread]
      /\ readers = {} /\ writer = NULL /\ unsafe = FALSE /\ bad = {}
  BY DEF Init
<1>2. /\ \A s \in Surfaces : surf[s] = NoSurface
      /\ \A c \in Contexts : ctx[c] = NoContext /\ queue[c] = <<>> /\ ~closed[c] /\ wk[c] = NoWorker
      /\ \A t \in Threads : th[t] = IdleThread
  BY <1>1
<1>3. TypeOK
  <2>1. << >> \in Seq(Job) /\ Len(<< >>) = 0
    OBVIOUS
  <2>2. th \in [Threads -> CallRecord] /\ wk \in [Contexts -> WorkerRecord]
        /\ surf \in [Surfaces -> SurfaceRecord] /\ ctx \in [Contexts -> ContextRecord]
        /\ queue \in [Contexts -> Seq(Job)] /\ closed \in [Contexts -> BOOLEAN]
    BY <1>1, <2>1, FreshTypes
  <2>3. \A c \in Contexts : Len(queue[c]) <= Capacity
    BY <1>2, <2>1, PipelineAssumption
  <2> QED
    BY <1>1, <2>2, <2>3 DEF TypeOK, CallRecord, WorkerRecord
<1>4. /\ \A t \in Threads : th[t].pc = "idle" /\ th[t].s = NULL /\ th[t].todo = <<>>
      /\ NULL \notin Threads
  BY <1>2, IdleFacts, PipelineAssumption
<1>5. LocksOK /\ Claims
  BY <1>1, <1>4 DEF LocksOK, Claims, Exclusive, BeginPC, SourcePC
<1>6. /\ HoldersOK /\ PicturesOK /\ Apart
  <2>1. \A c \in Contexts : ctx[c].holder = NULL /\ OpenOf(ctx[c]) = {}
    BY <1>2, FreshFacts
  <2>2. PicturesOK
    BY <1>2, FreshFacts DEF PicturesOK
  <2> QED
    BY <1>4, <2>1, <2>2 DEF HoldersOK, Apart, Holding
<1>7. CallsOK
  <2>1. IdleThread.pc \notin Holding
    BY IdleFacts DEF Holding
  <2>2. CallOK(IdleThread)
    BY <2>1, IdleFacts DEF CallOK
  <2> QED
    BY <1>2, <2>2 DEF CallsOK
<1>8. WorkersOK
  <2>1. /\ NoWorker.pc = "none" /\ NoWorker.job.surface = NULL /\ NoWorker.todo = <<>>
        /\ NoContext.life = "absent"
    BY FreshFacts
  <2>2. Only(<<>>, {"fail"}) /\ Once(<<>>)
    BY DEF Only, Once
  <2>3. \A c : Worker(c, NoContext, <<>>, FALSE, NoWorker, surf, bad)
    BY <2>1, <2>2 DEF Worker, WorkPC
  <2>4. \A c \in Contexts : closed[c] = FALSE
    BY <1>1
  <2> QED
    BY <1>2, <2>3, <2>4 DEF WorkersOK
<1>9. \A s : ~InFrames(s)
  BY <1>2, <1>4, FreshFacts DEF InFrames, Retiring
<1>10. FramesOK
  <2>1. Jobs(<<>>, NoWorker, surf, bad)
    BY FreshFacts DEF Jobs
  <2>2. \A c \in Contexts : \A s : ~InLine(queue[c], wk[c], s)
    BY <1>2, FreshFacts
  <2> QED
    BY <1>2, <1>9, <2>1, <2>2 DEF FramesOK
<1>11. SurfacesOK
  <2>1. ~NoSurface.resolving /\ ~NoSurface.exported
    BY DEF NoSurface, FreshSurface
  <2> QED
    BY <1>1, <1>2, <2>1 DEF SurfacesOK, AbsentOK, OwnedOK, FailureOK, ExportOK
<1> QED
  BY <1>3, <1>5, <1>6, <1>7, <1>8, <1>10, <1>11 DEF Inv

-----------------------------------------------------------------------------
(* Every step preserves the invariant.                                     *)

LEMMA CallInv ==
    ASSUME Inv, Rules = AllRules, NEW t \in Threads, Call(t)
    PROVE  Inv'
<1>1. CASE \E c \in Contexts : \E s \in Surfaces : NvBeginPicture(t, c, s)
  BY <1>1, NvBeginPictureInv
<1>2. CASE \E c \in Contexts : NvRenderPicture(t, c)
  BY <1>2, NvRenderPictureInv
<1>3. CASE \E c \in Contexts : NvEndPicture(t, c)
  BY <1>3, NvEndPictureInv
<1>4. CASE \E c \in Contexts : NvDestroyContext(t, c)
  BY <1>4, NvDestroyContextInv
<1>5. CASE \E s \in Surfaces : NvSyncSurface(t, s)
  BY <1>5, NvSyncSurfaceInv
<1>6. CASE \E s \in Surfaces : NvExportSurfaceHandle(t, s)
  BY <1>6, NvExportSurfaceHandleInv
<1>7. CASE \E list \in SurfaceLists : NvDestroySurfaces(t, list)
  BY <1>7, NvDestroySurfacesInv
<1> QED
  BY <1>1, <1>2, <1>3, <1>4, <1>5, <1>6, <1>7 DEF Call

LEMMA LockInv ==
    ASSUME Inv, Rules = AllRules, NEW t \in Threads, Lock(t)
    PROVE  Inv'
<1>1. CASE BeginLock(t)
  BY <1>1, BeginLockInv
<1>2. CASE \/ BeginUnsafe(t) \/ WrongState(t, "beginLock", {"idle"})
           \/ WrongState(t, "renderLock", {"building"})
           \/ WrongState(t, "endLock", {"building", "failed"})
  BY <1>2, QuietReturns
<1>3. CASE RenderAccept(t)
  BY <1>3, KeepRelease
<1>4. CASE RenderRefuse(t) \/ RenderInvalid(t) \/ CopyRefused(t)
  BY <1>4, RenderFailures
<1>5. CASE RenderNothing(t)
  BY <1>5, RenderNothingInv
<1>6. CASE \E s \in Surfaces : RenderFilmGrain(t, s)
  BY <1>6, RenderFilmGrainInv
<1>7. CASE \E s \in Surfaces : CopyStart(t, s)
  BY <1>7, CopyStartInv
<1>8. CASE EndFailed(t) \/ EndReject(t) \/ EndNoCuda(t)
  BY <1>8, EndFailures
<1>9. CASE EndUnsafe(t)
  <2>1. CASE th[t].c \in VideoProc
    BY <1>9, <2>1, EndCopies
  <2>2. CASE th[t].c \notin VideoProc
    BY <1>9, <2>2, EndFailures
  <2> QED
    BY <2>1, <2>2
<1>10. CASE EndVideoProc(t)
  BY <1>10, EndCopies
<1>11. CASE \E ok \in BOOLEAN : EndDecode(t, ok)
  BY <1>11, EndDecodeInv
<1> QED
  BY <1>1, <1>2, <1>3, <1>4, <1>5, <1>6, <1>7, <1>8, <1>9, <1>10, <1>11 DEF Lock

LEMMA ContinueInv ==
    ASSUME Inv, NEW t \in Threads, Continue(t)
    PROVE  Inv'
<1>1. CASE SurfaceStep(t)
  <2>1. th[t].todo # <<>> /\ Objects(th[t], ctx[th[t].c], surf)
    BY <1>1 DEF SurfaceStep, Inv, CallsOK, CallOK
  <2>2. th[t].pc \in Holding \/ th[t].pc \in Exclusive
    BY <2>1 DEF Objects, Holding
  <2>3. CASE th[t].pc \in Holding
    BY <1>1, <2>3, SurfaceStepHolding
  <2>4. CASE th[t].pc \in Exclusive
    BY <1>1, <2>4, SurfaceStepExclusive
  <2> QED
    BY <2>2, <2>3, <2>4
<1>2. CASE Unlock(t)
  BY <1>2, KeepRelease
<1>3. CASE BeginWait(t) \/ CopyWait(t) \/ ExportWait(t)
  BY <1>3, QuietGotos
<1>4. CASE BeginFail(t)
  BY <1>4, BeginFailInv
<1>5. CASE BeginMark(t)
  BY <1>5, BeginMarkInv
<1>6. CASE CopyDone(t)
  BY <1>6, CopyDoneInv
<1>7. CASE CopyFail(t)
  BY <1>7, RenderFailures
<1>8. CASE EndNoJob(t) \/ EndRefused(t)
  BY <1>8, EndFailures
<1>9. CASE EndJob(t)
  BY <1>9, EndJobInv
<1>10. CASE EndPush(t)
  BY <1>10, EndPushInv
<1>11. CASE EndShared(t) \/ EndWait(t)
  BY <1>11, EndWaits
<1>12. CASE EndReset(t)
  BY <1>12, EndResetInv
<1>13. CASE SyncWait(t) \/ ExportFail(t)
  BY <1>13, QuietReturns
<1>14. CASE ExportRead(t)
  BY <1>14, QuietReturns, QuietGotos
<1>15. CASE ExportSet(t)
  BY <1>15, ExportSetInv
<1>16. CASE DestroyReturn(t)
  BY <1>16, DestroyReturnInv
<1>17. CASE Retire(t) \/ RetireFail(t)
  BY <1>17, RetireInv
<1> QED
  BY <1>1, <1>2, <1>3, <1>4, <1>5, <1>6, <1>7, <1>8, <1>9, <1>10, <1>11, <1>12, <1>13, <1>14,
     <1>15, <1>16, <1>17 DEF Continue

LEMMA WorkInv ==
    ASSUME Inv, NEW c \in Contexts, Work(c)
    PROVE  Inv'
<1>1. CASE \/ WorkerStart(c) \/ WorkerExit(c)
           \/ \E failed \in BOOLEAN : WorkerResolve(c, failed)
  BY <1>1, WorkerMoves
<1>2. CASE WorkerAbort(c)
  BY <1>2, WorkerAbortInv
<1>3. CASE WorkerFailJob(c)
  BY <1>3, WorkerFailJobInv
<1>4. CASE WorkerPop(c)
  BY <1>4, WorkerPopInv
<1>5. CASE WorkerCheck(c)
  BY <1>5, WorkerCheckInv
<1>6. CASE WorkerPublish(c)
  BY <1>6, WorkerPublishInv
<1> QED
  BY <1>1, <1>2, <1>3, <1>4, <1>5, <1>6 DEF Work

LEMMA StutterInv ==
    ASSUME Inv, UNCHANGED vars
    PROVE  Inv'
<1>1. /\ surf' = surf /\ ctx' = ctx /\ queue' = queue /\ closed' = closed /\ wk' = wk
      /\ th' = th /\ readers' = readers /\ writer' = writer /\ unsafe' = unsafe /\ bad' = bad
  BY DEF vars
<1>2. TypeOK' /\ LocksOK' /\ HoldersOK' /\ PicturesOK' /\ Apart' /\ Claims' /\ WorkersOK'
  BY <1>1 DEF Inv, TypeOK, LocksOK, HoldersOK, PicturesOK, Apart, Claims, WorkersOK
<1>3. CallsOK'
  BY <1>1 DEF Inv, CallsOK, CallOK
<1>4. \A s : (InFrames(s)' <=> InFrames(s)) /\ (Retiring(s)' <=> Retiring(s))
  BY <1>1 DEF InFrames, Retiring
<1>5. FramesOK'
  BY <1>1, <1>4 DEF Inv, FramesOK
<1>6. SurfacesOK'
  BY <1>1, <1>4 DEF Inv, SurfacesOK, AbsentOK, OwnedOK, FailureOK, ExportOK, Pending, Targeted, Settling
<1> QED
  BY <1>2, <1>3, <1>5, <1>6 DEF Inv

LEMMA NextInv ==
    ASSUME Inv, Rules = AllRules, [Next]_vars
    PROVE  Inv'
<1>1. CASE \E s \in Surfaces : NvCreateSurface(s)
  BY <1>1, NvCreateSurfaceInv
<1>2. CASE \E c \in Contexts : NvCreateContext(c)
  BY <1>2, NvCreateContextInv
<1>3. CASE \E c \in Contexts : Work(c)
  BY <1>3, WorkInv
<1>4. CASE \E t \in Threads : Call(t)
  BY <1>4, CallInv
<1>5. CASE \E t \in Threads : Lock(t)
  BY <1>5, LockInv
<1>6. CASE \E t \in Threads : Continue(t)
  BY <1>6, ContinueInv
<1>7. CASE UNCHANGED vars
  BY <1>7, StutterInv
<1> QED
  BY <1>1, <1>2, <1>3, <1>4, <1>5, <1>6, <1>7 DEF Next

LEMMA Invariance ==
    ASSUME Rules = AllRules
    PROVE  Spec => []Inv
<1>1. Inv /\ [Next]_vars => Inv'
  BY NextInv
<1> QED
  BY <1>1, InitInv, PTL DEF Spec

-----------------------------------------------------------------------------
(* What follows from the invariant.                                        *)

\* A surface with a job that is not complete has a frame under way.
LEMMA OutstandingFacts ==
    ASSUME Inv, NEW s \in Surfaces
    PROVE  /\ Outstanding(s) <=> \E c \in Contexts : Running(queue[c], wk[c], s)
           /\ Outstanding(s) => InFrames(s)
           /\ s \in OpenTargets <=> Targeted(s)
<1>1. Outstanding(s) <=> \E c \in Contexts : Running(queue[c], wk[c], s)
  BY DEF Outstanding, Running, InQueue
<1>2. \A c \in Contexts : Running(queue[c], wk[c], s) => InLine(queue[c], wk[c], s)
  BY DEF Running, InLine, InWork, WorkPC
<1>3. s \in OpenTargets <=> Targeted(s)
  BY DEF OpenTargets, Open, Targeted, OpenOf
<1> QED
  BY <1>1, <1>2, <1>3 DEF InFrames

LEMMA NoDangling ==
    Inv => NoDanglingSurface
<1> SUFFICES ASSUME Inv
             PROVE  NoDanglingSurface
  OBVIOUS
<1>1. ASSUME NEW s \in Surfaces, InFrames(s)
      PROVE  surf[s].life # "absent"
  BY <1>1 DEF Inv, FramesOK
<1>2. ASSUME NEW c \in Contexts
      PROVE  /\ \A i \in 1 .. Len(queue[c]) : Allocated(queue[c][i].surface)
             /\ Allocated(wk[c].job.surface)
             /\ \A i \in 1 .. Len(wk[c].todo) : Allocated(wk[c].todo[i].s)
             /\ Allocated(ctx[c].render) /\ Allocated(ctx[c].display)
  <2>1. /\ wk[c] \in WorkerRecord /\ queue[c] \in Seq(Job)
        /\ Worker(c, ctx[c], queue[c], closed[c], wk[c], surf, bad)
    BY WorkerFacts
  <2>2. \A s : InLine(queue[c], wk[c], s) => InFrames(s)
    BY DEF InFrames
  <2>3. ASSUME NEW i \in 1 .. Len(queue[c])
        PROVE  Allocated(queue[c][i].surface)
    <3>1. queue[c][i] \in Job
      BY <2>1
    <3>2. InFrames(queue[c][i].surface)
      BY <2>2 DEF InLine, InQueue
    <3> QED
      BY <1>1, <3>1, <3>2 DEF Job, Allocated
  <2>4. Allocated(wk[c].job.surface)
    <3> SUFFICES ASSUME wk[c].job.surface # NULL
                 PROVE  surf[wk[c].job.surface].life # "absent"
      BY DEF Allocated
    <3>1. wk[c].job.surface \in Surfaces
      BY <2>1 DEF WorkerRecord, Job
    <3>2. InLine(queue[c], wk[c], wk[c].job.surface)
      BY <2>1 DEF Worker, InLine, InWork
    <3> QED
      BY <1>1, <2>2, <3>1, <3>2
  <2>5. ASSUME NEW i \in 1 .. Len(wk[c].todo)
        PROVE  Allocated(wk[c].todo[i].s)
    <3>1. wk[c].todo \in Seq(Section)
      BY <2>1 DEF WorkerRecord
    <3>2. wk[c].todo[i] \in Section
      BY <3>1
    <3>3. InFrames(wk[c].todo[i].s)
      BY <2>2 DEF InLine, InList
    <3> QED
      BY <1>1, <3>2, <3>3 DEF Section, Allocated
  <2>6. Allocated(ctx[c].render) /\ Allocated(ctx[c].display)
    <3>1. Picture(c, ctx[c], surf, bad)
      BY DEF Inv, PicturesOK
    <3> QED
      BY <3>1 DEF Picture, OpenOf, Allocated
  <2> QED
    BY <2>3, <2>4, <2>5, <2>6
<1>3. ASSUME NEW t \in Threads
      PROVE  /\ Allocated(th[t].s) /\ Allocated(th[t].job.surface)
             /\ \A i \in 1 .. Len(th[t].todo) : Allocated(th[t].todo[i].s)
  <2>1. /\ th[t] \in CallRecord /\ CallOK(th[t]) /\ Objects(th[t], ctx[th[t].c], surf)
    BY CallTypes DEF Inv, CallsOK, CallOK
  <2>2. Allocated(th[t].s)
    BY <2>1 DEF Objects, Allocated
  <2>3. ASSUME th[t].pc \in Holding
        PROVE  /\ th[t].c \in Contexts
               /\ \A s \in OpenOf(ctx[th[t].c]) : s \in Surfaces /\ surf[s].life = "live"
    <3>1. th[t].c \in Contexts
      BY <2>1, <2>3 DEF Objects, CallRecord
    <3> QED
      BY <3>1 DEF Inv, PicturesOK, Picture, TypeOK, ContextRecord, OpenOf
  <2>4. Allocated(th[t].job.surface)
    <3> SUFFICES ASSUME th[t].job.surface # NULL
                 PROVE  surf[th[t].job.surface].life # "absent"
      BY DEF Allocated
    <3>1. th[t].pc \in Holding /\ th[t].job.surface = OutputOf(ctx[th[t].c])
      BY <2>1 DEF Objects, EndPC, Holding
    <3>2. th[t].job.surface \in OpenOf(ctx[th[t].c])
      BY <3>1 DEF OutputOf, OpenOf
    <3> QED
      BY <2>3, <3>1, <3>2
  <2>5. ASSUME NEW i \in 1 .. Len(th[t].todo)
        PROVE  Allocated(th[t].todo[i].s)
    <3>1. th[t].todo \in Seq(Section)
      BY <2>1 DEF CallRecord
    <3> DEFINE s == th[t].todo[i].s
    <3>2. s \in Surfaces /\ InList(th[t].todo, s) /\ th[t].todo # <<>>
      <4>1. th[t].todo[i] \in Section
        BY <3>1
      <4> QED
        BY <4>1 DEF Section, InList
    <3> HIDE DEF s
    <3>3. th[t].pc \in {"unlock", "endReset", "endJob"} \/ th[t].pc = "destroyed"
          \/ th[t].pc = "retire"
      BY <2>1, <3>2 DEF Objects, Exclusive
    <3>4. CASE th[t].pc \in {"unlock", "endReset", "endJob"}
      <4>1. th[t].pc \in Holding
        BY <3>4 DEF Holding
      <4>2. Stage(th[t].c, th[t], ctx[th[t].c], surf, bad)
        BY <2>1, <4>1 DEF CallOK
      <4>3. s \in OpenOf(ctx[th[t].c])
        <5>1. CASE th[t].pc \in {"unlock", "endReset"}
          BY <3>2, <4>2, <5>1 DEF Stage
        <5>2. CASE th[t].pc = "endJob"
          <6> DEFINE x == ctx[th[t].c]
          <6>1. EndStage(th[t], x, surf, bad)
            BY <4>2 DEF Stage
          <6> HIDE DEF x
          <6>2. x.render # NULL /\ OutputOf(x) \in OpenOf(x) /\ x.render \in OpenOf(x)
            BY <5>2, <6>1 DEF EndStage, OutputOf, OpenOf
          <6>3. \/ th[t].todo = <<Mark(OutputOf(x)), Clear(x.render)>>
                \/ th[t].todo = <<Clear(x.render)>>
            BY <3>2, <5>2, <6>1 DEF EndStage
          <6>4. s = OutputOf(x) \/ s = x.render
            BY <3>2, <6>3 DEF InList, Mark, Clear
          <6> QED
            BY <6>2, <6>4 DEF x
        <5> QED
          BY <3>4, <5>1, <5>2
      <4> QED
        BY <2>3, <4>1, <4>3 DEF Allocated, s
    <3>5. CASE th[t].pc = "destroyed"
      <4>1. surf[s].life = "removed"
        BY <2>1, <3>2, <3>5 DEF CallOK, Teardown
      <4> QED
        BY <4>1 DEF Allocated, s
    <3>6. CASE th[t].pc = "retire"
      <4>1. InFrames(s)
        BY <3>2, <3>6 DEF InFrames, Retiring
      <4> QED
        BY <1>1, <3>2, <4>1 DEF Allocated, s
    <3> QED
      BY <3>3, <3>4, <3>5, <3>6
  <2> QED
    BY <2>2, <2>4, <2>5
<1> QED
  BY <1>2, <1>3 DEF NoDanglingSurface

LEMMA Owned ==
    Inv => ResolvingIsOwned
<1> SUFFICES ASSUME Inv, NEW s \in Surfaces, surf[s].resolving
             PROVE  \/ s \in OpenTargets
                    \/ StillToSettle(s)
                    \/ \E c \in Contexts :
                        /\ s \in QueuedSurfaces(c) \cup {wk[c].job.surface}
                        /\ wk[c].pc \notin {"none", "exited", "aborted"}
  BY DEF ResolvingIsOwned
<1>1. Pending(s) \/ InFrames(s)
  BY DEF Inv, SurfacesOK, OwnedOK
<1>2. CASE Pending(s)
  BY <1>2, OutstandingFacts DEF Pending, Targeted
<1>3. CASE Retiring(s)
  BY <1>3 DEF Retiring, StillToSettle, InList
<1>4. ASSUME NEW c \in Contexts, InLine(queue[c], wk[c], s)
      PROVE  \/ StillToSettle(s)
             \/ /\ s \in QueuedSurfaces(c) \cup {wk[c].job.surface}
                /\ wk[c].pc \notin {"none", "exited", "aborted"}
  <2>1. Worker(c, ctx[c], queue[c], closed[c], wk[c], surf, bad)
    BY WorkerFacts
  <2>2. CASE InList(wk[c].todo, s)
    BY <2>2 DEF InList, StillToSettle
  <2>3. CASE InWork(wk[c], s)
    BY <2>3 DEF InWork, WorkPC
  <2>4. CASE InQueue(queue[c], s)
    <3>1. s \in QueuedSurfaces(c) /\ queue[c] # <<>>
      BY <2>4 DEF QueuedSurfaces, InQueue
    <3> QED
      BY <2>1, <3>1 DEF Worker
  <2> QED
    BY <1>4, <2>2, <2>3, <2>4 DEF InLine
<1> QED
  BY <1>1, <1>2, <1>3, <1>4 DEF InFrames

-----------------------------------------------------------------------------
(* The theorems.  The clients are assumed to follow the rules that         *)
(* DecodePipeline names.                                                   *)

\* Every variable has its type, and no queue holds more jobs than its capacity,
\* however many threads end pictures on the context.
THEOREM TypeCorrect ==
    ASSUME Rules = AllRules
    PROVE  Spec => []TypeOK
<1>1. Inv => TypeOK
  BY DEF Inv
<1> QED
  BY <1>1, Invariance, PTL

\* No queued job, worker, open picture or running call refers to a surface that
\* has been freed: nvDestroySurfaces excludes every other call and waits for the
\* jobs of the surface.
THEOREM SurfacesOutlivePointers ==
    ASSUME Rules = AllRules
    PROVE  Spec => []NoDanglingSurface
BY NoDangling, Invariance, PTL

\* When waitSurfaceResolved returns there is no frame under way for the surface,
\* in any queue or worker.
THEOREM ResolvedMeansDone ==
    ASSUME Rules = AllRules
    PROVE  Spec => []ReadyMeansDone
<1>1. Inv => ReadyMeansDone
  <2> SUFFICES ASSUME Inv, NEW s \in Surfaces, ~surf[s].resolving, Outstanding(s)
               PROVE  FALSE
    BY DEF ReadyMeansDone
  <2>1. InFrames(s)
    BY OutstandingFacts
  <2> QED
    BY <2>1 DEF Inv, FramesOK
<1> QED
  BY <1>1, Invariance, PTL

\* A surface that is resolving has an open picture, somebody in an error path, or a
\* job in the hands of a worker that has not left: nobody waits in vain.
THEOREM WaitersAreServed ==
    ASSUME Rules = AllRules
    PROVE  Spec => []ResolvingIsOwned
BY Owned, Invariance, PTL

\* A generation that is known to have failed is reported as an error once its error
\* path is through, whoever found it and in whatever order the sections ran.
THEOREM FailuresReported ==
    ASSUME Rules = AllRules
    PROVE  Spec => []FailureReported
<1>1. Inv => FailureReported
  <2> SUFFICES ASSUME Inv, NEW s \in bad, ~surf[s].resolving, ~StillToSettle(s)
               PROVE  surf[s].status = "error"
    BY DEF FailureReported
  <2>1. s \in Surfaces
    BY DEF Inv, TypeOK
  <2>2. \A op : ~Settling(s, op)
    BY DEF Settling, Has, StillToSettle
  <2> QED
    BY <2>1, <2>2 DEF Inv, SurfacesOK, FailureOK
<1> QED
  BY <1>1, Invariance, PTL

\* The frame of an exported surface is complete whenever the surface is not the
\* target of an open picture: nvEndPicture waited for it.
THEOREM ExportsFinished ==
    ASSUME Rules = AllRules
    PROVE  Spec => []ExportedFrameFinished
<1>1. Inv => ExportedFrameFinished
  <2> SUFFICES ASSUME Inv, NEW s \in Surfaces, surf[s].exported, s \notin OpenTargets,
                      Outstanding(s)
               PROVE  FALSE
    BY DEF ExportedFrameFinished
  <2> QED
    BY OutstandingFacts DEF Inv, SurfacesOK, ExportOK
<1> QED
  BY <1>1, Invariance, PTL

\* A section that is not setSurfaceResolving(s, true) starts no generation.
LEMMA SettleKeeps ==
    ASSUME Inv, NEW o \in Section, o.op # "mark", surf' = Applied(o), NEW s \in Surfaces
    PROVE  ~(surf'[s].submitted > surf[s].submitted)
<1>1. surf \in [Surfaces -> SurfaceRecord] /\ surf[s] \in SurfaceRecord
  BY DEF Inv, TypeOK
<1>2. o.s \in Surfaces /\ surf' = [surf EXCEPT ![o.s] = Apply(o, surf[o.s])]
  BY DEF Section, Applied
<1>3. surf[s].submitted \in Nat
  BY <1>1 DEF SurfaceRecord
<1>4. CASE s # o.s
  BY <1>1, <1>2, <1>3, <1>4
<1>5. CASE s = o.s
  <2>1. surf'[s] = Apply(o, surf[s])
    BY <1>1, <1>2, <1>5
  <2>2. CASE o.op = "free"
    <3>1. Apply(o, surf[s]).submitted = 0
      BY <2>2 DEF Apply, NoSurface, FreshSurface
    <3> QED
      BY <1>3, <2>1, <3>1
  <2>3. CASE o.op # "free"
    <3>1. Apply(o, surf[s]).submitted = surf[s].submitted
      BY <1>1, <2>3, Sections
    <3> QED
      BY <1>3, <2>1, <3>1
  <2> QED
    BY <2>2, <2>3
<1> QED
  BY <1>4, <1>5

\* Neither does a step that sets another field of a surface.
LEMMA FieldKeeps ==
    ASSUME Inv, NEW u, NEW v, NEW s \in Surfaces,
           \/ surf' = [surf EXCEPT ![u].decodeFailed = v]
           \/ surf' = [surf EXCEPT ![u].exported = v]
    PROVE  ~(surf'[s].submitted > surf[s].submitted)
<1>1. surf \in [Surfaces -> SurfaceRecord] /\ surf[s] \in SurfaceRecord
  BY DEF Inv, TypeOK
<1>2. surf[s].submitted \in Nat
  BY <1>1 DEF SurfaceRecord
<1>3. surf'[s].submitted = surf[s].submitted
  <2>1. CASE s = u
    BY <1>1, <2>1 DEF SurfaceRecord
  <2>2. CASE s # u
    BY <1>1, <2>2
  <2> QED
    BY <2>1, <2>2
<1> QED
  BY <1>2, <1>3

\* The generations that begin: in nvBeginPicture, and for a film grain display
\* surface in nvEndPicture.
LEMMA GenerationStep ==
    ASSUME Inv, [Next]_vars, NEW s \in Surfaces, surf'[s].submitted > surf[s].submitted
    PROVE  ~Outstanding(s)
<1>1. surf \in [Surfaces -> SurfaceRecord] /\ surf[s] \in SurfaceRecord
  BY DEF Inv, TypeOK
<1>2. surf[s].submitted \in Nat
  BY <1>1 DEF SurfaceRecord
<1>3. surf' # surf
  BY <1>2
<1>4. CASE \E u \in Surfaces : NvCreateSurface(u)
  <2>1. PICK u \in Surfaces : surf[u].life = "absent" /\ surf' = [surf EXCEPT ![u] = FreshSurface]
    BY <1>4 DEF NvCreateSurface
  <2>2. s = u
    BY <1>1, <1>2, <2>1
  <2>3. surf'[s] = FreshSurface
    BY <1>1, <2>1, <2>2
  <2>4. FreshSurface.submitted = 0
    BY DEF FreshSurface
  <2> QED
    BY <1>2, <2>3, <2>4
<1>5. ASSUME NEW c \in Contexts, NvCreateContext(c) \/ Work(c)
      PROVE  ~Outstanding(s)
  <2>1. /\ wk[c] \in WorkerRecord
        /\ Worker(c, ctx[c], queue[c], closed[c], wk[c], surf, bad)
    BY WorkerFacts
  <2>2. WorkerFailJob(c) \/ WorkerCheck(c) \/ WorkerPublish(c)
    BY <1>3, <1>5 DEF NvCreateContext, Work, WorkerStart, WorkerAbort, WorkerPop, WorkerResolve,
                      WorkerExit
  <2>3. CASE WorkerFailJob(c)
    <3>1. PICK o : o = Head(wk[c].todo) /\ surf' = Applied(o) /\ wk[c].todo # <<>>
      BY <2>3 DEF WorkerFailJob
    <3>2. wk[c].todo \in Seq(Section) /\ Only(wk[c].todo, {"fail"})
      BY <2>1 DEF Worker, WorkerRecord
    <3>3. o \in Section /\ o.op = "fail"
      BY <3>1, <3>2, TailList
    <3> QED
      BY <3>1, <3>3, SettleKeeps
  <2>4. CASE WorkerCheck(c)
    <3>1. surf' = [surf EXCEPT ![wk[c].job.surface].decodeFailed = wk[c].failed \/ unsafe]
      BY <1>3, <2>4 DEF WorkerCheck
    <3> QED
      BY <3>1, FieldKeeps
  <2>5. CASE WorkerPublish(c)
    <3>1. wk[c].pc = "publish" /\ wk[c].job.surface \in Surfaces
          /\ surf' = Applied(Clear(wk[c].job.surface))
      BY <2>1, <2>5 DEF WorkerPublish, Worker, WorkerRecord, Job, WorkPC
    <3>2. PICK o : o = Clear(wk[c].job.surface)
      OBVIOUS
    <3>3. o \in Section /\ o.op = "clear" /\ surf' = Applied(o)
      BY <3>1, <3>2 DEF Clear, Section
    <3> QED
      BY <3>3, SettleKeeps
  <2> QED
    BY <2>2, <2>3, <2>4, <2>5
<1>6. ASSUME NEW t \in Threads, Call(t)
      PROVE  ~Outstanding(s)
  <2>1. \E list \in SurfaceLists : NvDestroySurfaces(t, list)
    BY <1>3, <1>6 DEF Call, NvBeginPicture, NvRenderPicture, NvEndPicture, NvDestroyContext,
                      NvSyncSurface, NvExportSurfaceHandle, Enter
  <2>2. \/ surf'[s] = surf[s]
        \/ surf'[s] = [surf[s] EXCEPT !.life = "removed"]
    BY <2>1 DEF NvDestroySurfaces
  <2>3. surf'[s].submitted = surf[s].submitted
    BY <1>1, <2>2 DEF SurfaceRecord
  <2> QED
    BY <1>2, <2>3
<1>7. ASSUME NEW t \in Threads, Lock(t)
      PROVE  ~Outstanding(s)
  <2>1. surf' = surf
    BY <1>7 DEF Lock, BeginLock, BeginUnsafe, RenderAccept, RenderRefuse, RenderInvalid,
                RenderNothing, RenderFilmGrain, CopyStart, CopyRefused, EndFailed, EndUnsafe,
                EndVideoProc, EndReject, EndNoCuda, EndDecode, WrongState, RenderFailure, EndWith
  <2> QED
    BY <1>3, <2>1
<1>8. ASSUME NEW t \in Threads, Continue(t)
      PROVE  ~Outstanding(s)
  <2>1. SurfaceStep(t) \/ BeginMark(t) \/ CopyDone(t) \/ EndJob(t) \/ ExportSet(t)
    BY <1>3, <1>8 DEF Continue, Unlock, BeginWait, BeginFail, CopyWait, CopyFail, RenderFailure,
                      EndNoJob, EndWith, EndPush, EndRefused, EndShared, EndWait, EndReset,
                      SyncWait, ExportWait, ExportRead, ExportFail, DestroyReturn, Retire,
                      RetireFail
  <2>2. CASE CopyDone(t) \/ EndJob(t) \/ ExportSet(t)
    BY <2>2, FieldKeeps DEF CopyDone, EndJob, ExportSet
  <2>3. CASE BeginMark(t)
    <3>1. th[t].pc = "beginMark" /\ surf' = [surf EXCEPT ![th[t].s] = Apply(Mark(th[t].s), @)]
      BY <2>3 DEF BeginMark, At, Applied, Mark
    <3>2. s = th[t].s
      BY <1>1, <1>2, <3>1
    <3>3. ~surf[s].resolving
      BY <3>1, <3>2 DEF Inv, CallsOK, CallOK, Objects, ReadyPC
    <3> QED
      BY <3>3, OutstandingFacts DEF Inv, FramesOK
  <2>4. CASE SurfaceStep(t)
    <3>1. PICK o : o = Head(th[t].todo) /\ surf' = Applied(o) /\ th[t].todo # <<>>
      BY <2>4 DEF SurfaceStep
    <3>2. /\ th[t].todo \in Seq(Section) /\ CallOK(th[t]) /\ th[t] \in CallRecord
          /\ Objects(th[t], ctx[th[t].c], surf)
      BY CallTypes DEF CallRecord, Inv, CallsOK, CallOK
    <3>3. /\ o \in Section
          /\ \A ops : Only(th[t].todo, ops) => o.op \in ops
      BY <3>1, <3>2, TailList
    <3>4. CASE o.op # "mark"
      BY <3>1, <3>3, <3>4, SettleKeeps
    <3>5. CASE o.op = "mark"
      <4>1. th[t].pc \notin Exclusive
        BY <3>2, <3>3, <3>5 DEF CallOK, Teardown, Exclusive
      <4>2. th[t].pc \in {"unlock", "endJob", "endReset"}
        BY <3>1, <3>2, <4>1 DEF Objects
      <4>3. th[t].pc \in Holding
        BY <4>2 DEF Holding
      <4>4. Stage(th[t].c, th[t], ctx[th[t].c], surf, bad)
        BY <3>2, <4>3 DEF CallOK
      <4>5. th[t].pc = "endJob"
        BY <3>3, <3>5, <4>2, <4>4 DEF Stage
      <4>6. EndStage(th[t], ctx[th[t].c], surf, bad)
        BY <4>4 DEF Stage
      <4>7. PICK c \in Contexts : c = th[t].c
        BY <3>2, <4>3 DEF Objects, CallRecord
      <4>8. /\ ctx[c].picture = "building" /\ ctx[c].render # NULL
            /\ o = Mark(OutputOf(ctx[c])) \/ o = Clear(ctx[c].render)
        BY <3>1, <4>5, <4>6, <4>7 DEF EndStage
      <4>9. o.s \in OpenOf(ctx[c])
        BY <4>8 DEF Mark, Clear, OpenOf, OutputOf
      <4>10. ~InFrames(o.s)
        BY <3>3, <4>8, <4>9 DEF Inv, FramesOK, Section
      <4>11. surf' = [surf EXCEPT ![o.s] = Apply(o, surf[o.s])]
        BY <3>1 DEF Applied
      <4>12. s = o.s
        BY <1>1, <1>2, <4>11
      <4> QED
        BY <4>10, <4>12, OutstandingFacts
    <3> QED
      BY <3>4, <3>5
  <2> QED
    BY <2>1, <2>2, <2>3, <2>4
<1>9. CASE UNCHANGED vars
  BY <1>3, <1>9 DEF vars
<1> QED
  BY <1>4, <1>5, <1>6, <1>7, <1>8, <1>9 DEF Next

\* nvBeginPicture and nvEndPicture start a generation of a surface only when no job
\* of an earlier one is queued or being copied.
THEOREM GenerationsWait ==
    ASSUME Rules = AllRules
    PROVE  Spec => NewGenerationWaits
<1>1. Inv /\ [Next]_vars =>
        [\A s \in Surfaces : surf'[s].submitted > surf[s].submitted => ~Outstanding(s)]_vars
  BY GenerationStep
<1> QED
  BY <1>1, Invariance, PTL DEF Spec, NewGenerationWaits
=============================================================================
