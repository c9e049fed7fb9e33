--------------------------- MODULE DeviceScripts ---------------------------
(***************************************************************************)
(* The scripts of the functions that open the GPU, allocate device memory  *)
(* and build, clear, import, export and destroy backing images, in the     *)
(* direct backend (nv-driver.c, direct-export-buf.c), the EGL backend      *)
(* (export-buf.c) and the code they share (backend-common.c, vabackend.c). *)
(* Backing image g has the fields of place Img(g).  Images of video have   *)
(* two planes and RGB images one; index 0 is the one buffer of a packed    *)
(* image.  Results the code ignores, such as those of cuMemFree on cleanup *)
(* paths, are taken to release.                                            *)
(***************************************************************************)
EXTENDS Ownership, SequencesExt

Planes == <<1, 2>>
Objects == <<1, 2>>

Each(seq, Script(_)) == FlattenSeq([i \in DOMAIN seq |-> Script(seq[i])])

All(name, g) == {R(name, g, i) : i \in 0 .. 2}

Image(g) == R("image", g, 0)
Sync(g) == R("sync", g, 0)
DrmFd(g, p) == R("drmFd", g, p)
MemFd(g, p) == R("memFd", g, p)
MemFd2(g, p) == R("memFd2", g, p)
ExtMem(g, p) == R("extMem", g, p)
Mipmap(g, p) == R("mipmap", g, p)
Array(g, p) == R("array", g, p)
EglImage(g) == R("eglImage", g, 0)

(* GPU memory of an image: what a copy or a kernel reads or writes *)
Pixels(g) == UNION {All(n, g) : n \in {"extMem", "mipmap", "array", "devPtr"}}

ImageFields(g) ==
    UNION {All(n, g) : n \in {"image", "sync", "drmFd", "extMem", "mipmap",
        "array", "eglImage", "texture", "surface", "mapping", "devPtr", "objMem"}}

ClearStream == R("clearStream", 0, 0)
ClearBuffer == R("clearBuffer", 0, 0)

DeviceHandles == {R(n, 0, 0) : n \in {"subdevice", "device", "client"}}
DeviceFds == {R(n, 0, 0) : n \in {"nvctlFd", "nv0Fd", "gpuFd"}}

---------------------------------------------------------------------------
(* nv-driver.c *)

Export_dmabuf_memory(g) ==
    LET private == R("privateFd", g, 0)
        handle == R("gem", g, 0)
    IN  Take(Local, private)
        \o Try(Take(Local, handle)
                 \o Take(Local, MemFd(g, 0))
                 \o Try(Check, Drop({MemFd(g, 0)}) \o Fail),
               CloseIf(Local, {handle, private}) \o Fail)
        \o Drop({handle, private})

Alloc_memory(g, p) ==
    LET rm == R("rmMemory", g, p)
    IN  Take(Local, rm)
        \o Try(Take(Local, MemFd(g, p)) \o Check \o Release(Local, {rm}),
               CloseIf(Local, {MemFd(g, p)}) \o Drop({rm}) \o Fail)

(* Mutant: the duplicate of the memory descriptor is left open. *)
Import_and_export_bufferDup(g, p) ==
    LET gem == R("gem", g, p)
    IN  Take(Local, MemFd2(g, p))
        \o Take(Local, gem)
        \o Try(Take(Local, DrmFd(g, p))
                 \o Try(Release(Local, {gem}), Drop({DrmFd(g, p)}) \o Fail),
               Drop({gem}) \o Fail)

Import_and_export_buffer(g, p) ==
    LET gem == R("gem", g, p)
    IN  Take(Local, MemFd2(g, p))
        \o Try(Take(Local, gem)
                 \o Try(Take(Local, DrmFd(g, p))
                          \o Try(Release(Local, {gem}), Drop({DrmFd(g, p)}) \o Fail),
                        Drop({gem}) \o Fail),
               Drop({MemFd2(g, p)}) \o Fail)

Alloc_buffer(g, p) ==
    Check \o Alloc_memory(g, p)
    \o Try(Import_and_export_buffer(g, p), Drop({MemFd(g, p)}) \o Fail)

Alloc_image(g, p) ==
    Check \o Alloc_memory(g, p)
    \o Try(Import_and_export_buffer(g, p), Drop({MemFd(g, p)}) \o Fail)

Init_nvdriver ==
    LET nvctl == R("nvctlFd", 0, 0)
        nv0 == R("nv0Fd", 0, 0)
        version == R("version", 0, 0)
    IN  Try(Take(Local, nvctl) \o Take(Local, nv0)
              \o Take(Local, version) \o Finally(Check, Drop({version}))
              \o Check
              \o Take(Drv, R("client", 0, 0)) \o Check
              \o Take(Drv, R("device", 0, 0))
              \o Take(Drv, R("subdevice", 0, 0)) \o Check,
            CloseIf(Drv, DeviceHandles) \o CloseIf(Local, {nvctl, nv0}) \o Fail)
        \o Move(Local, Drv, DeviceFds)

Free_nvdriver == CloseIf(Drv, DeviceHandles \cup DeviceFds)

---------------------------------------------------------------------------
(* Direct backend *)

Direct_initExporter ==
    LET fd == R("gpuFd", 0, 0)
    IN  Take(Local, fd)
        \o Try(Init_nvdriver, Drop({fd}) \o Fail)
        \o Try(Check, Free_nvdriver \o Fail)

(* cuImportExternalMemory takes the memory descriptor over when it         *)
(* succeeds.                                                               *)
Import_to_cuda(g, p) ==
    Take(Img(g), ExtMem(g, p)) \o Pass({MemFd(g, p)})
    \o Close({MemFd2(g, p)}) \o Forget(Local, {MemFd(g, p), MemFd2(g, p)})
    \o Take(Img(g), Mipmap(g, p)) \o Check

InitBackingImageSync(g) == Take(Img(g), Sync(g))

FreshBackingImage(g) ==
    Take(Img(g), Image(g))
    \o Try(InitBackingImageSync(g), CloseIf(Img(g), {Image(g)}) \o Fail)

(* Mutant: an image is freed whether or not the GPU has finished. *)
DestroyBackingImageAny(g) == CloseIf(Img(g), ImageFields(g))

(* Images whose GPU work may be unfinished are left alone; the caller      *)
(* forgets them all the same.                                              *)
DestroyBackingImage(g) ==
    Try(Safe \o CloseIf(Img(g), ImageFields(g)), <<>>)
    \o Forget(Img(g), ImageFields(g))

EnsureSecurityClearResources ==
    When(Drv, ClearStream, <<>>, Take(Drv, ClearStream))
    \o When(Drv, ClearBuffer,
            Either(<<>>, Drain \o Release(Drv, {ClearBuffer}) \o Take(Drv, ClearBuffer)),
            Take(Drv, ClearBuffer))

ClearBackingImageGpu(g) ==
    Safe \o Check
    \o Finally(EnsureSecurityClearResources
                 \o Submit({ClearBuffer}) \o Submit(Pixels(g)) \o Check,
               When(Drv, ClearStream, Drain, <<>>))

ClearBackingImagePlaneHost(g, p) ==
    LET rows == R("rows", g, p)
    IN  Take(Local, rows) \o Finally(Check, Drop({rows}))

ClearBackingImage(g, planes) ==
    Try(ClearBackingImageGpu(g),
        Each(planes, LAMBDA p : Safe \o ClearBackingImagePlaneHost(g, p)))

Direct_allocateBackingImage_perPlane(g) ==
    LET plane(p) ==
            Alloc_buffer(g, p)
            \o Try(Take(Img(g), ExtMem(g, p)),
                   Drop({MemFd(g, p), MemFd2(g, p), DrmFd(g, p)}) \o Fail)
            \o Pass({MemFd(g, p)}) \o Close({MemFd2(g, p)})
            \o Forget(Local, {MemFd(g, p), MemFd2(g, p)})
            \o Move(Local, Img(g), {DrmFd(g, p)})
            \o Take(Img(g), Mipmap(g, p)) \o Check
    IN  FreshBackingImage(g)
        \o Try(Check \o Each(Planes, plane) \o ClearBackingImage(g, Planes),
               DestroyBackingImage(g) \o Fail)

(* Mutant: the descriptors that CUDA and the close took keep their names. *)
Direct_allocateBackingImage_singleStale(g) ==
    LET fds == {MemFd(g, 0), MemFd2(g, 0)}
    IN  FreshBackingImage(g)
        \o Try(Check \o Alloc_buffer(g, 0)
                 \o Take(Img(g), ExtMem(g, 0)) \o Pass({MemFd(g, 0)})
                 \o Close({MemFd2(g, 0)})
                 \o Each(Planes, LAMBDA p : Take(Img(g), Mipmap(g, p)) \o Check)
                 \o Move(Local, Img(g), {DrmFd(g, 0)})
                 \o ClearBackingImage(g, Planes),
               CloseIf(Local, fds \cup {DrmFd(g, 0)}) \o DestroyBackingImage(g) \o Fail)

Direct_allocateBackingImage_single(g) ==
    LET fds == {MemFd(g, 0), MemFd2(g, 0)}
    IN  FreshBackingImage(g)
        \o Try(Check \o Alloc_buffer(g, 0)
                 \o Take(Img(g), ExtMem(g, 0)) \o Pass({MemFd(g, 0)})
                 \o Close({MemFd2(g, 0)}) \o Forget(Local, fds)
                 \o Each(Planes, LAMBDA p : Take(Img(g), Mipmap(g, p)) \o Check)
                 \o Move(Local, Img(g), {DrmFd(g, 0)})
                 \o ClearBackingImage(g, Planes),
               CloseIf(Local, fds \cup {DrmFd(g, 0)}) \o DestroyBackingImage(g) \o Fail)

(* The RGB image of the direct backend has one plane and is not cleared. *)
Direct_allocateBackingImage_rgb(g) ==
    FreshBackingImage(g)
    \o Try(Alloc_image(g, 1) \o Import_to_cuda(g, 1),
           CloseIf(Local, {MemFd(g, 1), MemFd2(g, 1), DrmFd(g, 1)})
             \o DestroyBackingImage(g) \o Fail)
    \o Move(Local, Img(g), {DrmFd(g, 1)})

(* Image 1 holds video, in one of two layouts, image 2 RGB. *)
Direct_allocateBackingImage(g) ==
    Safe \o (IF g = 2 THEN Direct_allocateBackingImage_rgb(g)
             ELSE Either(Direct_allocateBackingImage_single(g),
                         Direct_allocateBackingImage_perPlane(g)))

Direct_realiseSurface(g) ==
    When(Img(g), Image(g), <<>>,
         Direct_allocateBackingImage(g) \o Try(Check, DestroyBackingImage(g) \o Fail))

---------------------------------------------------------------------------
(* Access of the CPU to an imported image, and the copy of a frame *)

Access(g) == R("access", g, 0)

(* DMA_BUF_SYNC_START may report a failure after it has begun the access   *)
(* to some of the objects, so that it is ended in any case.                *)
BeginHostAccess(g) == Hold(Local, Access(g)) \o Try(Check, Drop({Access(g)}) \o Fail)

EndHostAccess(g) == Drop({Access(g)}) \o Check

Direct_copyFrameToSurface(g) ==
    When(Img(g), R("mapping", g, 1),
         BeginHostAccess(g)
           \o Try(Drain \o Check, Drop({Access(g)}) \o Fail)
           \o EndHostAccess(g),
         Finally(Submit(Pixels(g)) \o Submit(Pixels(g)) \o Check, Drain))

Direct_exportCudaPtr(g) ==
    Safe \o Direct_realiseSurface(g) \o Direct_copyFrameToSurface(g)

FillExportDescriptor(g) ==
    LET exported(p) == R("exported", g, p)
        fds == {exported(p) : p \in 0 .. 2}
    IN  Try(Each(<<0, 1, 2>>, LAMBDA p :
                When(Img(g), DrmFd(g, p), Take(Local, exported(p)), <<>>)),
            CloseIf(Local, fds) \o Fail)
        \o Each(<<0, 1, 2>>, LAMBDA p :
                When(Local, exported(p), Pass({exported(p)}), <<>>))
        \o Forget(Local, fds)

Direct_fillExportDescriptor(g) == Safe \o Check \o FillExportDescriptor(g)

---------------------------------------------------------------------------
(* Images imported from the client *)

Direct_importBackingImage(g) ==
    Check \o Export_dmabuf_memory(g)
    \o Try(Take(Img(g), ExtMem(g, 0)), Drop({MemFd(g, 0)}) \o Fail)
    \o Pass({MemFd(g, 0)}) \o Forget(Local, {MemFd(g, 0)})
    \o Try(Each(Planes, LAMBDA p : Take(Img(g), Mipmap(g, p)) \o Check),
           CloseIf(Img(g), All("mipmap", g) \cup {ExtMem(g, 0)}) \o Fail)

ReleaseExternalCudaBuffers(g) == CloseIf(Img(g), All("devPtr", g) \cup All("objMem", g))

ImportExternalBuffersToCuda(g, objects) ==
    LET importFd(o) == R("importFd", g, o)
    IN  Check
        \o Try(Each(objects, LAMBDA o :
                   Take(Local, importFd(o))
                   \o Try(Take(Img(g), R("objMem", g, o)), Drop({importFd(o)}) \o Fail)
                   \o Pass({importFd(o)}) \o Forget(Local, {importFd(o)})
                   \o Take(Img(g), R("devPtr", g, o))),
               ReleaseExternalCudaBuffers(g) \o Fail)

MapExternalBacking(g, objects) ==
    Check
    \o Try(Each(objects, LAMBDA o : Take(Img(g), R("mapping", g, o))),
           CloseIf(Img(g), All("mapping", g)) \o Fail)

CreateImportedBackingImage(g, direct) ==
    LET body(objects) ==
            Each(objects, LAMBDA o : Take(Img(g), DrmFd(g, o)) \o Check)
            \o Check
            \o Try(IF direct /\ Len(objects) = 1
                   THEN Direct_importBackingImage(g) ELSE Fail,
                   Try(ImportExternalBuffersToCuda(g, objects),
                       MapExternalBacking(g, objects)))
    IN  Check \o Take(Img(g), Image(g))
        \o Try(Either(body(<<1>>), body(Objects)),
               ReleaseExternalCudaBuffers(g)
                 \o CloseIf(Img(g), All("mapping", g) \cup All("drmFd", g))
                 \o CloseIf(Img(g), {Image(g)}) \o Fail)

NvDestroyImportedBackingImage(g) ==
    Try(Safe \o CloseIf(Img(g), ImageFields(g)), <<>>)
    \o Forget(Img(g), ImageFields(g))

---------------------------------------------------------------------------
(* EGL backend *)

EglStream == R("eglStream", 0, 0)
EglConnection == R("eglConnection", 0, 0)

(* What a frame consists of while it is on its way through the stream *)
EglFrame == {Array(1, 1), Array(1, 2), EglImage(1)}

(* The display is never terminated, so that only the connection and the    *)
(* stream are owned; both are made by the first frame.                     *)
Egl_initExporter == Check

Egl_releaseExporter == CloseIf(Drv, {EglConnection, EglStream})

Reconnect ==
    When(Drv, EglConnection, Release(Drv, {EglConnection}), <<>>)
    \o CloseIf(Drv, {EglStream})
    \o Take(Drv, EglStream) \o Check \o Take(Drv, EglConnection)

(* A later plane may share the object of the first: it comes without a     *)
(* descriptor, or with one of the same object that is closed.              *)
ExportBackingImage(g) ==
    LET fds == {DrmFd(g, 1), DrmFd(g, 2)}
    IN  Check \o Hold(Local, DrmFd(g, 1))
        \o Either(Hold(Local, DrmFd(g, 2)), <<>>)
        \o Try(Check \o Move(Local, Img(g), {DrmFd(g, 1)})
                 \o Check
                 \o When(Local, DrmFd(g, 2),
                         Either(Move(Local, Img(g), {DrmFd(g, 2)}), Drop({DrmFd(g, 2)})),
                         <<>>)
                 \o Check,
               CloseIf(Local, fds) \o CloseIf(Img(g), fds) \o Fail)

(* Without memory for the image the frame is lost. *)
CreateBackingImage(g) ==
    Take(Img(g), Image(g)) \o Move(Local, Img(g), EglFrame)
    \o Try(ExportBackingImage(g),
           CloseIf(Img(g), EglFrame \cup {Image(g)}) \o Fail)

(* The frame is lost, too, when the stream does not hand it back. *)
Egl_allocateBackingImage(g) ==
    LET present == Check
        arrays == {Array(g, 1), Array(g, 2)}
    IN  Check \o Take(Local, Array(g, 1))
        \o Try(Take(Local, Array(g, 2)), Drop({Array(g, 1)}) \o Fail)
        \o Try(present, Try(Reconnect \o present, Drop(arrays) \o Fail))
        \o Take(Local, EglImage(g)) \o CreateBackingImage(g)

Egl_destroyBackingImage(g) == CloseIf(Img(g), ImageFields(g))

(* The second allocation works around drivers that mix up NV12 and NV21. *)
Egl_realiseSurface(g) ==
    When(Img(g), Image(g), <<>>,
         Egl_allocateBackingImage(g)
           \o Either(<<>>, Egl_destroyBackingImage(g) \o Egl_allocateBackingImage(g))
           \o Try(Check, Egl_destroyBackingImage(g) \o Fail))

Egl_copyFrameToSurface(g) ==
    Submit(Pixels(g)) \o Submit(Pixels(g)) \o Check \o Finish

Egl_exportCudaPtr(g) == Egl_realiseSurface(g) \o Egl_copyFrameToSurface(g)

Egl_fillExportDescriptor(g) == Check \o FillExportDescriptor(g)
=============================================================================
