---------------------------- MODULE ImageLayout ----------------------------
(***************************************************************************)
(* The arithmetic of image memory: how the direct backend lays the planes  *)
(* of an image out in blocks of GOBs, how large a VA image is, and which   *)
(* layouts of a client's own buffers the import of a surface accepts.      *)
(*                                                                         *)
(* The code computes in 32- and 64-bit words and a GOB is 64 x 8 bytes.    *)
(* Word sizes, GOB and alignment are constants here, so that the limits    *)
(* come within TLC's reach with their proportions kept.                    *)
(***************************************************************************)
EXTENDS Integers, Sequences, FiniteSets

Seqs == INSTANCE SequencesExt

CONSTANTS GobWidth,       \* GOB_WIDTH_IN_BYTES
          GobHeight,      \* GOB_HEIGHT_IN_BYTES
          PlaneAlignment, \* SINGLE_BUFFER_PLANE_ALIGNMENT, also of allocations
          MaxLegacyBuffers, \* NVD_MAX_LEGACY_SURFACE_BUFFERS
          Int32Max, UInt32Max, UInt64Max

(* An accepted product stays within TLC's own integers. *)
ASSUME WordsAssumption ==
    /\ {GobWidth, GobHeight, PlaneAlignment, Int32Max, UInt32Max, UInt64Max} \subseteq Nat \ {0}
    /\ UInt32Max >= 2 * Int32Max
    /\ UInt64Max >= UInt32Max * UInt32Max
    /\ PlaneAlignment <= UInt32Max
    /\ MaxLegacyBuffers \in Nat \ {0}

(* What follows from a request: a record, or none of one. *)
Refused == [ok |-> FALSE]

-----------------------------------------------------------------------------
(* Formats: bytes per component and, for each plane, its components and    *)
(* the shifts of its subsampling.                                          *)
Plane(channels, x, y) == [channels |-> channels, x |-> x, y |-> y]

FormatsInfo ==
    [NV12 |-> [bppc |-> 1, planes |-> <<Plane(1, 0, 0), Plane(2, 1, 1)>>],
     P010 |-> [bppc |-> 2, planes |-> <<Plane(1, 0, 0), Plane(2, 1, 1)>>],
     YUV444 |-> [bppc |-> 1, planes |-> <<Plane(1, 0, 0), Plane(1, 0, 0), Plane(1, 0, 0)>>],
     Q416 |-> [bppc |-> 2, planes |-> <<Plane(1, 0, 0), Plane(1, 0, 0), Plane(1, 0, 0)>>],
     ARGB |-> [bppc |-> 1, planes |-> <<Plane(4, 0, 0)>>]]

(* nvPlaneExtent: a subsampled extent is rounded up. *)
PlaneExtent(value, shift) == (value + 2 ^ shift - 1) \div 2 ^ shift

RowBytes(format, i, width) ==
    LET info == FormatsInfo[format]
    IN  PlaneExtent(width, info.planes[i].x) * info.bppc * info.planes[i].channels

Rows(format, i, height) == PlaneExtent(height, FormatsInfo[format].planes[i].y)

RoundUp(n, m) == ((n + m - 1) \div m) * m

-----------------------------------------------------------------------------
(* nv-driver.c: block-linear layouts.                                      *)

(* The block height, as a power of two of GOBs: at most 16, lowered while  *)
(* a block is higher than one and a half images, then while half a block   *)
(* would hold the image.                                                   *)
Log2GobsPerBlockY(height) ==
    LET Capped(k) == GobHeight * 2 ^ k > height + height \div 2
        capped == CHOOSE k \in 0 .. 4 : /\ k = 0 \/ ~Capped(k)
                                        /\ \A j \in k + 1 .. 4 : Capped(j)
        Halved(k) == GobHeight * 2 ^ (k - 1) >= height
    IN  CHOOSE k \in 0 .. capped : /\ k = 0 \/ ~Halved(k)
                                   /\ \A j \in k + 1 .. capped : Halved(j)

(* Planes of one buffer share one modifier, hence the largest height. *)
BlockHeight(natural, i, unify) ==
    IF unify THEN CHOOSE k \in Seqs!ToSet(natural) : \A j \in Seqs!ToSet(natural) : j <= k ELSE natural[i]

(* No planes so far, neither of a layout nor of an image. *)
NoPlanes == [ok |-> TRUE, size |-> 0, planes |-> <<>>]

NaturalHeights(format, height) ==
    [i \in 1 .. Len(FormatsInfo[format].planes) |-> Log2GobsPerBlockY(Rows(format, i, height))]

PutPlane(format, width, height, unify, layout, i) ==
    LET log2 == BlockHeight(NaturalHeights(format, height), i, unify)
        pitch == RoundUp(RowBytes(format, i, width), GobWidth)
        aligned == RoundUp(Rows(format, i, height), GobHeight * 2 ^ log2)
        end == RoundUp(layout.size + pitch * aligned, PlaneAlignment)
        plane == [offset |-> layout.size, pitch |-> pitch, memory |-> pitch * aligned, log2 |-> log2]
    IN  IF \/ ~layout.ok \/ pitch > Int32Max \/ aligned > UInt32Max
           \/ layout.size > Int32Max \/ pitch * aligned > UInt32Max \/ end > UInt32Max
        THEN Refused
        ELSE [layout EXCEPT !.size = end, !.planes = Append(@, plane)]

(* One plane after the other; the first that does not fit refuses all. *)
UnifiedImageLayout(format, width, height, unify) ==
    IF width = 0 \/ height = 0 THEN Refused
    ELSE Seqs!FoldLeft(LAMBDA layout, i : PutPlane(format, width, height, unify, layout, i), NoPlanes,
                       [i \in 1 .. Len(FormatsInfo[format].planes) |-> i])

(* alloc_buffer, alloc_image: what is asked of the kernel. *)
AllocationSize(size) ==
    LET allocated == RoundUp(size, PlaneAlignment)
    IN  IF allocated > UInt32Max THEN Refused ELSE [ok |-> TRUE, size |-> allocated]

(* A layout the backend hands out keeps its planes apart and inside the    *)
(* allocation, gives every row of every plane room, starts planes where a  *)
(* shared buffer allows, fits the signed offsets and pitches of an image,  *)
(* and under one modifier has one block height, that none of the planes    *)
(* alone would exceed.  A block wastes less than the image it holds.       *)
LayoutSound(format, width, height, unify) ==
    LET layout == UnifiedImageLayout(format, width, height, unify)
        P == layout.planes
    IN  layout.ok =>
        /\ AllocationSize(layout.size).ok /\ AllocationSize(layout.size).size >= layout.size
        /\ \A i \in DOMAIN P :
              /\ P[i].offset <= Int32Max /\ P[i].pitch <= Int32Max
              /\ P[i].offset % PlaneAlignment = 0
              /\ P[i].pitch % GobWidth = 0 /\ P[i].pitch >= RowBytes(format, i, width)
              /\ P[i].offset + P[i].memory <= layout.size
              /\ P[i].memory >= Rows(format, i, height) * P[i].pitch
              /\ P[i].memory % (P[i].pitch * GobHeight * 2 ^ P[i].log2) = 0
              /\ \/ P[i].memory <= 2 * Rows(format, i, height) * P[i].pitch
                 \/ P[i].memory = GobHeight * P[i].pitch
                 \/ unify /\ i > 1
              /\ \A j \in DOMAIN P : i < j => P[i].offset + P[i].memory <= P[j].offset
              /\ P[i].log2 >= Log2GobsPerBlockY(Rows(format, i, height))
              /\ unify => P[i].log2 = P[1].log2
              /\ ~unify => P[i].log2 = Log2GobsPerBlockY(Rows(format, i, height))

-----------------------------------------------------------------------------
(* vabackend.c: VA images, which live in the memory of a VA buffer.        *)

CheckedMultiply(a, b) == IF a # 0 /\ b > UInt64Max \div a THEN Refused ELSE [ok |-> TRUE, size |-> a * b]

CheckedAdd(a, b) == IF a > UInt64Max - b THEN Refused ELSE [ok |-> TRUE, size |-> a + b]

(* The planes of nvCreateImage lie one behind the other without padding. *)
PutImagePlane(format, width, height, image, i) ==
    LET info == FormatsInfo[format]
        pixels == CheckedMultiply(PlaneExtent(width, info.planes[i].x), Rows(format, i, height))
        bytes == CheckedMultiply(pixels.size, info.bppc * info.planes[i].channels)
        end == CheckedAdd(image.size, bytes.size)
        plane == [offset |-> image.size, pitch |-> RowBytes(format, i, width)]
    IN  IF ~image.ok THEN Refused
        ELSE IF ~pixels.ok THEN Refused
        ELSE IF ~bytes.ok THEN Refused
        ELSE IF ~end.ok \/ plane.pitch > UInt32Max THEN Refused
        ELSE [image EXCEPT !.size = end.size, !.planes = Append(@, plane)]

CreateImage(format, width, height) ==
    LET image == Seqs!FoldLeft(LAMBDA a, i : PutImagePlane(format, width, height, a, i), NoPlanes,
                               [i \in 1 .. Len(FormatsInfo[format].planes) |-> i])
    IN  IF width <= 0 \/ height <= 0 \/ ~image.ok THEN Refused
        ELSE IF image.size > UInt32Max THEN Refused ELSE image

(* nvGetImage: the copies of a region of a surface into an image, a plane  *)
(* each, or no copy at all.  dst counts bytes of the image's buffer.       *)
CopyPlane(format, image, x, y, width, height, copies, i) ==
    LET info == FormatsInfo[format]
        plane == info.planes[i]
        pitch == RowBytes(format, i, image.width)
        Coordinate(v, shift) == v \div 2 ^ shift
    IN  [next |-> copies.next + pitch * Rows(format, i, image.height),
         list |-> Append(copies.list,
             [srcX |-> Coordinate(x, plane.x) * info.bppc * plane.channels,
              srcY |-> Coordinate(y, plane.y),
              dst |-> copies.next, pitch |-> pitch,
              bytes |-> RowBytes(format, i, width), rows |-> Rows(format, i, height)])]

GetImage(format, surface, image, x, y, width, height) ==
    IF \/ x < 0 \/ y < 0 \/ width = 0 \/ height = 0
       \/ x + width > surface.width \/ y + height > surface.height
       \/ width > image.width \/ height > image.height
    THEN <<>>
    ELSE Seqs!FoldLeft(LAMBDA copies, i : CopyPlane(format, image, x, y, width, height, copies, i),
                       [next |-> 0, list |-> <<>>],
                       [i \in 1 .. Len(FormatsInfo[format].planes) |-> i]).list

(* An image is as large as its planes; one is refused only if its bytes do *)
(* not fit 32 bits.  A region that is read back comes from inside the      *)
(* planes of the surface and goes to the planes the client was told of.    *)
ImageSound(format, surface, size, x, y, width, height) ==
    LET image == CreateImage(format, size.width, size.height)
        n == Len(FormatsInfo[format].planes)
        bytes == Seqs!FoldLeft(LAMBDA sum, i : sum + RowBytes(format, i, size.width) * Rows(format, i, size.height),
                               0, [i \in 1 .. n |-> i])
        copies == GetImage(format, surface, size, x, y, width, height)
    IN  /\ image.ok <=> bytes <= UInt32Max
        /\ image.ok =>
             /\ image.size = bytes
             /\ \A i \in DOMAIN copies :
                  /\ copies[i].dst = image.planes[i].offset /\ copies[i].pitch = image.planes[i].pitch
                  /\ copies[i].bytes <= copies[i].pitch
                  /\ copies[i].dst + copies[i].rows * copies[i].pitch
                       <= (IF i = n THEN image.size ELSE image.planes[i + 1].offset)
                  /\ copies[i].srcX + copies[i].bytes <= RowBytes(format, i, surface.width)
                  /\ copies[i].srcY + copies[i].rows <= Rows(format, i, surface.height)

-----------------------------------------------------------------------------
(* surface-import.c: descriptors of a client's own buffers.  A PRIME_2     *)
(* descriptor names objects and, layer by layer, the planes inside them; a *)
(* legacy PRIME descriptor names one buffer for each surface.              *)

ParsePrime2(desc) ==
    LET planes == Seqs!FlattenSeq(desc.layers)
        bytes == Seqs!FoldLeft(LAMBDA sum, o : sum + o.size, 0, desc.objects)
    IN  IF \/ Len(desc.layers) \notin 1 .. 4 \/ Len(desc.objects) \notin 1 .. 4
           \/ \E o \in Seqs!ToSet(desc.objects) : o.fd < 0
           \/ bytes > UInt64Max
           \/ \E l \in Seqs!ToSet(desc.layers) : Len(l) \notin 1 .. 4
           \/ Len(planes) > 4
           \/ \E p \in Seqs!ToSet(planes) : p.object > Len(desc.objects)
        THEN Refused
        ELSE [ok |-> TRUE, legacy |-> FALSE, width |-> desc.width, height |-> desc.height,
              objects |-> desc.objects, planes |-> planes, buffers |-> <<>>]

ParsePrime(desc) ==
    IF \/ Len(desc.planes) \notin 1 .. 4 \/ Len(desc.buffers) \notin 1 .. MaxLegacyBuffers \/ desc.tiled
       \/ \E fd \in Seqs!ToSet(desc.buffers) : fd > Int32Max
    THEN Refused
    ELSE [ok |-> TRUE, legacy |-> TRUE, width |-> desc.width, height |-> desc.height,
          objects |-> <<[fd |-> desc.buffers[1], size |-> desc.size]>>,
          planes |-> [i \in DOMAIN desc.planes |-> [desc.planes[i] EXCEPT !.object = 1]],
          buffers |-> desc.buffers]

ParseSurfaceImportAttributes(desc) ==
    CASE desc.memory = "prime 2" -> ParsePrime2(desc)
      [] desc.memory = "prime" -> ParsePrime(desc)
      [] OTHER -> Refused

(* The import of the surface at index, of n surfaces that are created. *)
SelectIndex(imported, index, n) ==
    IF ~imported.legacy THEN (IF n = 1 THEN imported ELSE Refused)
    ELSE IF Len(imported.buffers) # n \/ imported.buffers[index] > Int32Max THEN Refused
    ELSE [imported EXCEPT !.objects[1].fd = imported.buffers[index]]

(* createImportedBackingImageImpl up to the validation: fdSize is the size *)
(* of the file behind a descriptor, 0 when the kernel does not tell.       *)
ImportedObjects(imported, fdSize) ==
    LET Size(o) == IF o.size # 0 THEN o.size ELSE fdSize[o.fd]
        sizes == [i \in DOMAIN imported.objects |-> Size(imported.objects[i])]
    IN  IF \/ \E i \in DOMAIN sizes : \/ sizes[i] = 0
                                     \/ /\ fdSize[imported.objects[i].fd] # 0
                                        /\ sizes[i] > fdSize[imported.objects[i].fd]
           \/ Seqs!FoldLeft(LAMBDA sum, s : sum + s, 0, sizes) > UInt64Max
           \/ \E p \in Seqs!ToSet(imported.planes) : p.pitch > Int32Max \/ p.offset > Int32Max
        THEN Refused
        ELSE [ok |-> TRUE, sizes |-> sizes, fds |-> [i \in DOMAIN sizes |-> imported.objects[i].fd],
              planes |-> imported.planes]

\* A mutant: the last row is thought to end with its first byte.
EndsInsideLoose(plane, rows, rowBytes, size) == plane.offset + (rows - 1) * plane.pitch <= size

(* The end of the last row, in 64 bits. *)
EndsInside(plane, rows, rowBytes, size) ==
    /\ rows - 1 <= (UInt64Max - plane.offset - rowBytes) \div plane.pitch
    /\ (plane.offset + (rows - 1) * plane.pitch + rowBytes) % (UInt64Max + 1) <= size

ValidateImportedLayout(format, img, width, height) ==
    /\ Len(img.planes) = Len(FormatsInfo[format].planes)
    /\ \A i \in DOMAIN img.planes :
          LET plane == img.planes[i]
              rows == Rows(format, i, height)
          IN  /\ plane.pitch > 0 /\ plane.pitch >= RowBytes(format, i, width) /\ rows > 0
              /\ EndsInside(plane, rows, RowBytes(format, i, width), img.sizes[plane.object])

(* nvCreateSurfaces2: the image behind surface index, or a refusal. *)
ImportSurface(format, desc, index, n, width, height, fdSize) ==
    LET imported == ParseSurfaceImportAttributes(desc)
        selected == SelectIndex(imported, index, n)
        img == ImportedObjects(selected, fdSize)
    IN  IF ~imported.ok THEN Refused
        ELSE IF imported.width # width \/ imported.height # height \/ ~selected.ok THEN Refused
        ELSE IF ~img.ok THEN Refused
        ELSE IF ValidateImportedLayout(format, img, width, height) THEN img ELSE Refused

(* VideoProc and nvGetImage check the mapped objects once more. *)
VideoProcImageRangeValid(format, img, imageWidth, imageHeight, width, height) ==
    /\ width \in 1 .. imageWidth /\ height \in 1 .. imageHeight
    /\ Len(img.planes) >= Len(FormatsInfo[format].planes)
    /\ \A i \in DOMAIN FormatsInfo[format].planes :
          LET plane == img.planes[i]
              rowBytes == RowBytes(format, i, width)
          IN  /\ plane.object <= Len(img.sizes) /\ plane.offset >= 0
              /\ plane.pitch > 0 /\ rowBytes <= plane.pitch
              /\ EndsInside(plane, Rows(format, i, height), rowBytes, img.sizes[plane.object])

(* Every row of an accepted import lies inside the file of the surface's   *)
(* own buffer, and VideoProc may be asked for any part of it.              *)
ImportSound(format, desc, index, n, width, height, fdSize) ==
    LET img == ImportSurface(format, desc, index, n, width, height, fdSize)
        planes == IF desc.memory = "prime" THEN desc.planes ELSE Seqs!FlattenSeq(desc.layers)
        Fd(p) == IF desc.memory = "prime" THEN desc.buffers[index] ELSE desc.objects[p.object].fd
        Declared(p) == IF desc.memory = "prime" THEN desc.size ELSE desc.objects[p.object].size
        Room(p) == IF Declared(p) = 0 THEN fdSize[Fd(p)] ELSE Declared(p)
        Inside(i) == /\ planes[i].pitch >= RowBytes(format, i, width)
                     /\ \A row \in 0 .. Rows(format, i, height) - 1 :
                           planes[i].offset + row * planes[i].pitch + RowBytes(format, i, width) <= Room(planes[i])
    IN  img.ok =>
        /\ \A i \in DOMAIN planes :
              /\ Inside(i)
              /\ img.fds[img.planes[i].object] = Fd(planes[i])
              /\ fdSize[Fd(planes[i])] # 0 => Room(planes[i]) <= fdSize[Fd(planes[i])]
        /\ \A w \in 1 .. width, h \in 1 .. height :
              VideoProcImageRangeValid(format, img, width, height, w, h)

-----------------------------------------------------------------------------
(* Layouts, images and imports keep to their memory, sample by sample. *)
MemorySound(x) ==
    CASE x.about = "layout" -> LayoutSound(x.format, x.width, x.height, x.unify)
      [] x.about = "image" -> ImageSound(x.format, x.surface, x.image, x.x, x.y, x.width, x.height)
      [] x.about = "import" -> ImportSound(x.format, x.desc, x.index, x.n, x.width, x.height, x.fdSize)
=============================================================================
