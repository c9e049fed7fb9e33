--------------------------- MODULE DriverScripts ---------------------------
(***************************************************************************)
(* The scripts of the calls that make and destroy contexts, run a resolve  *)
(* job, convert a surface and start and stop a display (vabackend.c).      *)
(* VideoProc converts image 1 to image 2.                                  *)
(***************************************************************************)
EXTENDS DeviceScripts

D(name) == R(name, 0, 0)

(* cuMemFree may fail here, and the variable then keeps the pointer. *)
FreeOrKeep(bs) == Each(SetToSeq(bs), LAMBDA b :
    When(Drv, b, Try(Release(Drv, {b}), <<>>), <<>>))

---------------------------------------------------------------------------
(* Surfaces made of imported memory *)

SurfaceObjects(g) == {R("vaSurface", g, 0), R("vaMutex", g, 0), R("vaCond", g, 0)}

DeleteSurface(g) == CloseIf(Img(g), SurfaceObjects(g))

(* When one surface of several cannot be made, none of them is left. *)
NvCreateSurfaces2(surfaces, direct) ==
    LET rollback(g) ==
            When(Img(g), Image(g), NvDestroyImportedBackingImage(g), <<>>)
            \o DeleteSurface(g)
    IN  Check
        \o Try(Each(surfaces, LAMBDA g :
                   Take(Img(g), R("vaSurface", g, 0)) \o Take(Img(g), R("vaMutex", g, 0))
                   \o Take(Img(g), R("vaCond", g, 0))
                   \o CreateImportedBackingImage(g, direct)),
               Each(surfaces, rollback) \o Fail)

---------------------------------------------------------------------------
(* Contexts *)

ContextLocks == {D("surfaceCreationMutex"), D("pictureMutex"), D("resolveQueue")}
WorkerObjects == {D("decoder"), D("resolveStream"), D("resolveCompleteEvent")}

InitializeContextSynchronization ==
    LET attrib == D("mutexattr")
    IN  Take(Local, attrib)
        \o Finally(Check \o Take(Ctx, D("surfaceCreationMutex")), Drop({attrib}))
        \o Try(Take(Ctx, D("pictureMutex")) \o Take(Ctx, D("resolveQueue")),
               CloseIf(Ctx, ContextLocks) \o Fail)

(* The end of the worker: the queue is cancelled, and what the GPU may     *)
(* still use stays.                                                        *)
ResolveSurfacesExit ==
    Try(Drain, <<>>) \o Try(Safe \o CloseIf(Ctx, WorkerObjects), <<>>)

DestroyContext ==
    When(Ctx, D("resolveThread"),
         When(Ctx, D("worker"), ResolveSurfacesExit \o CloseIf(Ctx, {D("worker")}), <<>>)
           \o Release(Ctx, {D("resolveThread")}),
         <<>>)
    \o Safe
    \o When(Ctx, D("decoder"), Check \o Release(Ctx, {D("decoder")}), <<>>)
    \o CloseIf(Ctx, ContextLocks)

DeleteContext ==
    CloseIf(Ctx, {D("context")}) \o Forget(Ctx, ContextLocks \cup WorkerObjects)

(* A worker that cannot enter the CUDA context is no use, but is joined; a *)
(* worker without a stream of its own uses the default stream.             *)
ResolveSurfacesStart ==
    Either(<<>>,
        Hold(Ctx, D("worker"))
        \o Try(Take(Ctx, D("resolveStream")) \o Take(Ctx, D("resolveCompleteEvent")),
               CloseIf(Ctx, WorkerObjects)))

(* A VideoProc context has no worker. *)
NvCreateContext ==
    Check \o Take(Ctx, D("context"))
    \o Either(Try(InitializeContextSynchronization, DeleteContext \o Fail),
              Try(InitializeContextSynchronization \o Take(Ctx, D("resolveThread")),
                  Try(DestroyContext, <<>>) \o DeleteContext \o Fail)
                \o ResolveSurfacesStart)

NvDestroyContext == DestroyContext \o DeleteContext

CreateDecoderForContext ==
    When(Ctx, D("decoder"), <<>>,
         Check \o Take(Local, D("decoder")) \o Try(Check, Drop({D("decoder")}) \o Fail)
           \o Move(Local, Ctx, {D("decoder")}))

(* One turn of the worker.  A frame that cannot be unmapped goes with its  *)
(* decoder, and so does one whose copy may be unfinished.                  *)
ResolveJob(export) ==
    LET frame == D("frame")
    IN  Check \o Safe \o Take(Local, frame) \o Try(Submit({frame}), <<>>)
        \o Try(export, Try(Drain, <<>>))
        \o Try(Safe \o Release(Local, {frame}), Pass({frame}) \o Forget(Local, {frame}))

---------------------------------------------------------------------------
(* VideoProc *)

VideoProcStream == D("videoProcStream")
VideoProcEvent == D("videoProcEvent")
VideoProcModules == {D("arrayModule"), D("nv12Module"), D("p010Module")}
GpuScratch == {D("videoProcY"), D("videoProcUV"), D("videoProcArgb")}
CpuScratch == {D("cpuY"), D("cpuUV"), D("cpuArgb")}

(* A module whose kernel is missing is unloaded, and not tried again: here *)
(* the next attempt may fail like the first.                               *)
LoadVideoProcKernel(module) ==
    When(Drv, module, <<>>,
         Take(Drv, module) \o Try(Check, CloseIf(Drv, {module}) \o Fail))

LoadVideoProcArrayKernel == LoadVideoProcKernel(D("arrayModule"))

EnsureVideoProcStream ==
    When(Drv, VideoProcStream, <<>>, Take(Drv, VideoProcStream))
    \o When(Drv, VideoProcEvent, <<>>,
            Try(Take(Drv, VideoProcEvent), CloseIf(Drv, {VideoProcStream}) \o Fail))

FinishVideoProcStream == Check \o Finish

GetCachedVideoProcObject(name, g, p) ==
    When(Img(g), R(name, g, p), <<>>, Take(Img(g), R(name, g, p)))

(* The new block is there before the old one is freed. *)
EnsureVideoProcBuffer(buffer) ==
    LET new == R("new", 0, buffer)
    IN  Either(When(Drv, buffer, <<>>, Fail),
               Check \o Take(Local, new)
                 \o When(Drv, buffer,
                         Try(Release(Drv, {buffer}), Drop({new}) \o Fail), <<>>)
                 \o Adopt(Drv, new, buffer))

(* realloc moves or grows the block in place, or fails and keeps it. *)
EnsureCpuVideoProcBuffer(buffer) ==
    Check \o When(Drv, buffer, <<>>, Take(Drv, buffer))

TrimVideoProcScratch(gpu, cpu) ==
    (IF gpu THEN FreeOrKeep(GpuScratch) ELSE <<>>)
    \o (IF cpu THEN CloseIf(Drv, CpuScratch) ELSE <<>>)

(* After enough frames without a fallback to the CPU *)
NoteVideoProcCudaSuccess(directArrayPath) ==
    Either(<<>>, TrimVideoProcScratch(directArrayPath, TRUE))

(* Imports that CUDA sees as linear memory, or only the CPU, have no arrays. *)
NeedArrays ==
    When(Img(1), R("devPtr", 1, 1), Fail, When(Img(1), R("mapping", 1, 1), Fail, <<>>))

QuietIfStream == When(Drv, VideoProcStream, Quiet, <<>>)

ConvertNV12ArrayToARGBCuda ==
    NeedArrays \o EnsureVideoProcStream \o LoadVideoProcArrayKernel
    \o Try(GetCachedVideoProcObject("texture", 1, 1)
             \o GetCachedVideoProcObject("texture", 1, 2)
             \o When(Img(2), R("devPtr", 2, 1), <<>>,
                     GetCachedVideoProcObject("surface", 2, 1))
             \o Submit(Pixels(1) \cup Pixels(2)) \o FinishVideoProcStream,
           Quiet \o Fail)

ConvertNV12ToARGBCuda ==
    NeedArrays
    \o Try(ConvertNV12ArrayToARGBCuda \o NoteVideoProcCudaSuccess(TRUE),
        Try(Either(LoadVideoProcKernel(D("nv12Module")),
                   LoadVideoProcKernel(D("p010Module")))
              \o EnsureVideoProcStream
              \o EnsureVideoProcBuffer(D("videoProcY"))
              \o EnsureVideoProcBuffer(D("videoProcUV"))
              \o When(Img(2), R("devPtr", 2, 1), <<>>,
                      EnsureVideoProcBuffer(D("videoProcArgb")))
              \o Submit(Pixels(1) \cup {D("videoProcY")})
              \o Submit({D("videoProcUV")}) \o Submit(Pixels(2))
              \o When(Img(2), R("devPtr", 2, 1), <<>>, Submit({D("videoProcArgb")}))
              \o FinishVideoProcStream \o NoteVideoProcCudaSuccess(FALSE),
            QuietIfStream \o Fail))

(* Access of the CPU to those of the images that are mapped, around body;  *)
(* what was begun is ended whatever happens, and a failure to end it fails *)
(* the whole.                                                              *)
WithHostAccess(body) ==
    LET begin(g) == When(Img(g), R("mapping", g, 1), BeginHostAccess(g), <<>>)
        ended(g) == When(Local, Access(g), Drop({Access(g)}) \o Check, <<>>)
    IN  Try(begin(1) \o begin(2) \o body,
            CloseIf(Local, {Access(2), Access(1)}) \o Fail)
        \o Try(ended(2), CloseIf(Local, {Access(1)}) \o Fail)
        \o ended(1)

ConvertNV12ToARGB ==
    Try(When(Img(2), R("mapping", 2, 1), Fail, ConvertNV12ToARGBCuda),
        WithHostAccess(
            EnsureCpuVideoProcBuffer(D("cpuY")) \o EnsureCpuVideoProcBuffer(D("cpuUV"))
            \o When(Img(2), R("mapping", 2, 1), <<>>,
                    EnsureCpuVideoProcBuffer(D("cpuArgb")))
            \o Check))

(* Images of one format are copied plane by plane, the last one (and all   *)
(* of those in CPU memory) synchronously.                                  *)
CopyPlanes ==
    WithHostAccess(
        When(Img(1), R("mapping", 1, 1), Check,
             When(Img(2), R("mapping", 2, 1), Check,
                  Submit(Pixels(1) \cup Pixels(2)) \o Finish)))

CopySurfaceBackingImage(realiseSource, realiseTarget) ==
    Check \o realiseSource \o realiseTarget \o Check
    \o Either(ConvertNV12ToARGB, CopyPlanes)

---------------------------------------------------------------------------
(* Displays *)

Slot == D("instanceSlot")

DriverLocks ==
    {D(n) : n \in {"objectLifetimeLock", "objectCreationMutex", "imagesMutex",
                   "exportMutex", "bufferPoolMutex", "securityClearMutex"}}

DriverInit(initExporter, releaseExporter) ==
    LET attrib == D("mutexattr")
    IN  Hold(Drv, Slot)
        \o Try(Check \o Take(Drv, D("drv")), CloseIf(Drv, {Slot}) \o Fail)
        \o Try(Take(Drv, D("objectLifetimeLock"))
                 \o Take(Local, attrib)
                 \o Finally(Check \o Take(Drv, D("objectCreationMutex"))
                              \o Take(Drv, D("imagesMutex")), Drop({attrib}))
                 \o Take(Drv, D("exportMutex")) \o Take(Drv, D("bufferPoolMutex"))
                 \o Take(Drv, D("securityClearMutex"))
                 \o initExporter \o Hold(Drv, D("exporter"))
                 \o Take(Drv, D("cudaContext")) \o Check,
               When(Drv, D("exporter"), releaseExporter, <<>>)
                 \o CloseIf(Drv, {D("exporter"), D("cudaContext")} \cup DriverLocks)
                 \o CloseIf(Drv, {D("drv")}) \o CloseIf(Drv, {Slot}) \o Fail)

DrainStreams ==
    When(Drv, ClearStream, Drain, <<>>) \o When(Drv, VideoProcStream, Drain, <<>>)

(* The part of nvTerminate that may give up, with the display kept as it is *)
TerminateBegin ==
    When(Ctx, D("context"), NvDestroyContext, <<>>) \o Check
    \o Try(DrainStreams, <<>>) \o Safe

(* The buffers that cuMemFree did not free end with the CUDA context. *)
TerminateEnd(destroyImages, releaseExporter) ==
    destroyImages
    \o CloseIf(Drv, {ClearBuffer, ClearStream}) \o QuietIfStream
    \o CloseIf(Drv, {VideoProcEvent, VideoProcStream} \cup VideoProcModules)
    \o TrimVideoProcScratch(TRUE, TRUE)
    \o releaseExporter
    \o CloseIf(Drv, {D("exporter"), D("cudaContext")} \cup GpuScratch)
    \o CloseIf(Drv, DriverLocks) \o CloseIf(Drv, {Slot}) \o CloseIf(Drv, {D("drv")})
=============================================================================
