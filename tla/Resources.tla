----------------------------- MODULE Resources -----------------------------
(***************************************************************************)
(* The life of a display, from vaInitialize to vaTerminate, and of         *)
(* everything it owns: locks, threads, device handles, file descriptors,   *)
(* CUDA objects, backing images.  Every call may fail at every step that   *)
(* can fail; the scripts of DeviceScripts and DriverScripts say what is    *)
(* released then.  Calls are atomic here: the races between them are the   *)
(* subject of DecodePipeline, PictureIndex and BackingImages.              *)
(*                                                                         *)
(* A display has one context, and two images: image 1 of video and image 2 *)
(* of RGB, which only the direct backend can allocate.                     *)
(***************************************************************************)
EXTENDS DriverScripts

CONSTANTS Displays,      \* VADriverContextP
          MaxInstances,  \* NVD_MAX_INSTANCES, 0 for no limit
          MaxCalls       \* bound on the calls of the process

ASSUME ResourcesAssumption == MaxInstances \in Nat /\ MaxCalls \in Nat

VARIABLES backend,    \* the backend of the process: "direct" or "egl"
          instances,  \* the driver's count of displays
          display,    \* the state of each display, see Ownership
          calls       \* history: the number of calls made

vars == <<backend, instances, display, calls>>

Images == {1, 2}

Unopened ==
    [phase |-> "none", external |-> {}, held |-> {}, kept |-> {},
     busy |-> {}, unsafe |-> FALSE, wrong |-> {}, hot |-> {}, leaked |-> {},
     faults |-> 0]

Init ==
    /\ backend \in {"direct", "egl"}
    /\ instances = 0
    /\ display = [d \in Displays |-> Unopened]
    /\ calls = 0

---------------------------------------------------------------------------
(* The backend's functions *)

Direct == backend = "direct"

RealiseSurface(g) ==
    IF Direct THEN Direct_realiseSurface(g)
    ELSE IF g = 1 THEN Egl_realiseSurface(g)
    ELSE When(Img(g), Image(g), <<>>, Fail)

ExportCudaPtr(g) == IF Direct THEN Direct_exportCudaPtr(g) ELSE Egl_exportCudaPtr(g)

ReleaseExporter == IF Direct THEN Free_nvdriver ELSE Egl_releaseExporter

DestroyImage(s, g) ==
    IF g \in s.external THEN NvDestroyImportedBackingImage(g) \o DeleteSurface(g)
    ELSE IF Direct THEN DestroyBackingImage(g)
    ELSE Egl_destroyBackingImage(g)

---------------------------------------------------------------------------
(* Calls *)

Exists(s, place, r) == <<place, r>> \in s.kept

Outcome(d, S) ==
    /\ calls < MaxCalls
    /\ \E s \in S : display' = [display EXCEPT ![d] = Returned(s)]
    /\ calls' = calls + 1

Up(d) == display[d].phase = "up"

(* A call that reports its result and leaves the display as it is *)
Call(d, script) ==
    /\ Up(d)
    /\ LET run == Run({display[d]}, script) IN Outcome(d, run.ok \cup run.failed)
    /\ UNCHANGED <<backend, instances>>

(* instances is counted with the slot a display takes and gives back. *)
CountSlots(d) ==
    LET slots(s) == IF Exists(s, Drv, Slot) THEN 1 ELSE 0
    IN  instances' = (instances + slots(display'[d])) - slots(display[d])

(* The slot is counted before anything else and given back on failure.     *)
(* What an earlier life of the display left behind is history.             *)
DriverInitialise(d) ==
    /\ display[d].phase = "none"
    /\ MaxInstances = 0 \/ instances < MaxInstances
    /\ LET run == Run({[display[d] EXCEPT !.leaked = {}, !.external = {}]},
                      DriverInit(IF Direct THEN Direct_initExporter ELSE Egl_initExporter,
                                 ReleaseExporter))
       IN  \/ Outcome(d, {[s EXCEPT !.phase = "up"] : s \in run.ok})
           \/ Outcome(d, run.failed)
    /\ CountSlots(d)
    /\ UNCHANGED backend

(* A display that cannot stop its work safely is kept for good, and so is  *)
(* its slot: libva calls it no more.                                       *)
NvTerminateFails(d) ==
    /\ Up(d)
    /\ Outcome(d, {[s EXCEPT !.phase = "zombie"] :
                      s \in Run({display[d]}, TerminateBegin).failed})
    /\ UNCHANGED <<backend, instances>>

(* Imported images are not in drv->images.  deleteAllObjects frees their   *)
(* surfaces with the image still attached, and with them its only name.    *)
NvTerminate(d) ==
    LET s == display[d]
        destroyImages ==
            Each(SetToSeq(Images \ s.external), LAMBDA g : DestroyImage(s, g))
            \o Each(SetToSeq(s.external), LAMBDA g :
                   Forget(Img(g), ImageFields(g)) \o DeleteSurface(g))
        run == Run({s}, TerminateBegin \o TerminateEnd(destroyImages, ReleaseExporter))
    IN  /\ Up(d)
        /\ Outcome(d, {[t EXCEPT !.phase = "none"] : t \in run.ok})
        /\ CountSlots(d)
        /\ UNCHANGED backend

NvCreateContextCall(d) ==
    ~Exists(display[d], Ctx, D("context")) /\ Call(d, NvCreateContext)

NvDestroyContextCall(d) ==
    Exists(display[d], Ctx, D("context")) /\ Call(d, NvDestroyContext)

(* The first picture of a context makes its decoder. *)
BeginPicture(d) ==
    /\ Exists(display[d], Ctx, D("resolveThread"))
    /\ Call(d, Safe \o CreateDecoderForContext)

(* The worker resolves a picture into image 1. *)
Resolve(d) ==
    /\ {<<Ctx, D("worker")>>, <<Ctx, D("decoder")>>} \subseteq display[d].kept
    /\ Call(d, ResolveJob(ExportCudaPtr(1)))

VideoProc(d) ==
    /\ Exists(display[d], Ctx, D("context"))
    /\ Call(d, Safe \o CopySurfaceBackingImage(RealiseSurface(1), RealiseSurface(2)))

(* Surfaces of the client's own memory, one or several in a call *)
ImportSurfaces(d, surfaces) ==
    /\ Up(d)
    /\ \A g \in Range(surfaces) : ~Exists(display[d], Img(g), Image(g))
    /\ LET run == Run({display[d]}, NvCreateSurfaces2(surfaces, Direct))
       IN  Outcome(d, {[s EXCEPT !.external = @ \cup Range(surfaces)] : s \in run.ok}
                        \cup run.failed)
    /\ UNCHANGED <<backend, instances>>

ExportSurfaceHandle(d, g) ==
    Call(d, RealiseSurface(g)
              \o (IF Direct THEN Direct_fillExportDescriptor(g)
                  ELSE Egl_fillExportDescriptor(g)))

(* The surface is destroyed, and its image not kept for another. *)
DestroySurface(d, g) ==
    /\ Up(d)
    /\ Exists(display[d], Img(g), Image(g))
    /\ Outcome(d, {[s EXCEPT !.external = @ \ {g}] :
                      s \in Run({display[d]}, DestroyImage(display[d], g)).ok})
    /\ UNCHANGED <<backend, instances>>

Next == \E d \in Displays :
    \/ DriverInitialise(d) \/ NvTerminate(d) \/ NvTerminateFails(d)
    \/ NvCreateContextCall(d) \/ NvDestroyContextCall(d)
    \/ BeginPicture(d) \/ Resolve(d) \/ VideoProc(d)
    \/ \E surfaces \in {<<1>>, <<2>>, <<1, 2>>} : ImportSurfaces(d, surfaces)
    \/ \E g \in Images : ExportSurfaceHandle(d, g) \/ DestroySurface(d, g)

Spec == Init /\ [][Next]_vars

---------------------------------------------------------------------------
(* Properties *)

(* What a closed display has left open: the images of the surfaces that    *)
(* the client had imported and not destroyed when it called vaTerminate.   *)
LeftImports(s) == IF s.phase = "none" THEN UNION {ImageFields(g) : g \in s.external} ELSE {}

(* Whatever call fails wherever it can fail, the driver names nothing that *)
(* no longer exists, a display that is closed owns nothing, and as long as *)
(* the completion of GPU work is known nothing is lost without being       *)
(* released but for two leaks the code has: nvTerminate never releases the *)
(* image of an import the client left (deleteAllObjects), and the EGL      *)
(* backend loses a frame that the stream does not hand back.  The          *)
(* instances counted are the displays that are open or could not be        *)
(* closed, within the limit.                                               *)
AccountsExact ==
    /\ instances = Cardinality({d \in Displays : display[d].phase # "none"})
    /\ MaxInstances = 0 \/ instances <= MaxInstances
    /\ \A d \in Displays :
        LET s == display[d]
        IN  /\ Named(s) \subseteq s.held
            /\ s.phase = "none" => s.held = {}
            /\ ~s.unsafe => s.leaked \subseteq LeftImports(s) \cup (IF Direct THEN {} ELSE EglFrame)

(* No cleanup path closes, unloads or destroys what an earlier step        *)
(* already released or gave away (a descriptor that CUDA took over, an     *)
(* entry that was reset), and no variable is overwritten while it names    *)
(* the only reference to something that is still open.                     *)
NothingFreedTwice == \A d \in Displays : display[d].wrong = {}

(* Once a wait for the GPU has failed, the direct backend releases nothing *)
(* that the unfinished work may use, not even to close the display.        *)
Quarantine == Direct => \A d \in Displays : display[d].hot = {}
=============================================================================
