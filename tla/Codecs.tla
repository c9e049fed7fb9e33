------------------------------- MODULE Codecs -------------------------------
(***************************************************************************)
(* How a decode context turns the buffers of a picture into what it gives  *)
(* the hardware: the handlers of src/src/{h264,hevc,mpeg2,mpeg4,vc1,vp8,   *)
(* vp9,jpeg,av1}.c, src/src/codec-utils.c, and the parts of                *)
(* nvBeginPicture, nvRenderPicture and nvEndPicture in                     *)
(* src/src/vabackend.c that drive them.                                    *)
(*                                                                         *)
(* One context, driven under pictureMutex, so each call is one step.  A    *)
(* call of nvRenderPicture with several buffers is a step for each: the    *)
(* loop ends at the first failure, and a failed picture refuses the rest.  *)
(* A byte of slice data is a cell that names its picture, its buffer and   *)
(* its position; a JPEG segment the driver writes is one cell.             *)
(***************************************************************************)
EXTENDS IntervalIndex, FiniteSets, SequencesExt

CONSTANTS
    CodecNames,         \* the codecs of which a context is tried
    Groups,             \* codec -> what a pair of slice parameter and data buffers holds
    Pictures,           \* codec -> the picture parameters a client may send
    Matrices,           \* the quantisation matrices a client may send
    Tables,             \* JPEG: the IQ and Huffman buffers a client may send
    Blocks,             \* the values of `mem': the largest block to be had
    MaxLength,          \* UINT32_MAX, the largest bitstream CUVID takes
    MaxTiles,           \* NVD_MAX_AV1_TILES
    TrimThreshold,      \* drv->hostBufferTrimThresholdBytes
    TrimFrames,         \* drv->hostBufferTrimFrames
    MaxPictures,        \* bound: pictures of a context
    MaxGroups           \* bound: pairs of slice buffers of a picture

NONE == [none |-> TRUE]         \* no picture parameters
IsSet(p) == p # NONE

\* The fields of the AV1 parameter buffers are unsigned.
ASSUME CodecAssumption ==
    /\ CodecNames \subseteq {"H264", "HEVC", "MPEG2", "MPEG4", "VC1", "VP8", "VP9", "JPEG", "AV1"}
    /\ "AV1" \in CodecNames =>
          /\ \A g \in Groups["AV1"] :
                g.size \in Nat /\ g.slices \in Seq([offset : Nat, size : Nat, row : Nat, col : Nat])
          /\ \A p \in Pictures["AV1"] : IsSet(p) /\ (p.usable => p.cols \in Nat /\ p.rows \in Nat)

VARIABLES
    codec,              \* nvCtx->codec
    pictureState,       \* "idle", "building" or "failed"
    ctx,                \* what the handlers read and write of the NVContext
    client,             \* what the client has sent of this picture
    submitted           \* the last picture given to cuvidDecodePicture, or NONE

vars == <<codec, pictureState, ctx, client, submitted>>

NoTiles == [seen |-> {}, intervals |-> EmptyIndex, min |-> MaxLength, maxEnd |-> 0,
            compacted |-> FALSE]

FreshContext ==
    [bitstream |-> EmptyBuffer, offsets |-> EmptyBuffer, params |-> EmptyBuffer,
     sliceCount |-> 0,                  \* lastSliceParamsCount
     invalid |-> FALSE,                 \* inputValidationFailed
     dataOffset |-> 0,                  \* bitstreamDataOffset
     picture |-> NONE, intra |-> FALSE, \* pPicParams
     matrix |-> <<0, 0>>,               \*   its quantisation matrices
     numSlices |-> 0, dataLen |-> 0,
     jpegPicture |-> NONE,              \* the JPEGContext
     quant |-> [t \in 0 .. 3 |-> 0],    \*   0: the table is not valid
     huffman |-> [t \in 0 .. 1 |-> 0],
     codecData |-> FALSE,               \* the codec's own context exists
     av1 |-> NoTiles,
     underuse |-> 0]                    \* hostBufferUnderuseFrames

\* What a client has sent of the picture `order'; `pending' is the group of
\* which `sent' slices' parameters have been sent, but not all of the rest.
NewClient == [order |-> 0, picture |-> NONE, matrix |-> <<0, 0>>, groups |-> <<>>, pending |-> NONE, sent |-> 0,
              quant |-> [t \in 0 .. 3 |-> 0], huffman |-> [t \in 0 .. 1 |-> 0],
              layout |-> <<>>,          \* AV1: the tiles of the last picture that was submitted
              unusable |-> FALSE, lost |-> FALSE]

\* The slices of the client's i-th pair of buffers.
SentSlices(i) == client.groups[i].slices
\* AV1: the tiles of a picture are those whose parameters reached the driver,
\* all but those the client stopped at; without any, those of the picture before.
TilesSent == IF client.sent = 0 THEN client.layout ELSE SubSeq(SentSlices(1), 1, client.sent)

\* The cells of the n-th data buffer of a picture.  A cell carries the OBU
\* that starts at it, if one does: that is what av1_find_obu_start_for_tile
\* reads there.
ObuAt(g, i) == LET here == {k \in 1 .. Len(g.obus) :
                               i = FoldLeft(LAMBDA a, o : a + o.header + o.payload, 1,
                                            SubSeq(g.obus, 1, k - 1))}
               IN  IF here = {} THEN NONE ELSE g.obus[CHOOSE k \in here : TRUE]
Data(g, picture, n) ==
    [i \in 1 .. g.size |-> [is |-> IF i = g.size /\ g.eoi THEN <<"EOI">>
                                   ELSE <<"data", picture, n, i>>,
                            obu |-> ObuAt(g, i)]]
Written(what) == [is |-> what, obu |-> NONE]    \* a cell the driver makes
Part(data, s) == SubSeq(data, s.offset + 1, s.offset + s.size)

SumSizes(slices, header) == FoldLeft(LAMBDA a, s : a + s.size + header, 0, slices)

-----------------------------------------------------------------------------
(* codec-utils.c                                                           *)

\* nvInRange
InRange(s, size) == s.offset <= size /\ s.size <= size - s.offset
Invalid(c) == [c EXCEPT !.invalid = TRUE]

CanAppend(c, bytes) == c.bitstream.size <= MaxLength /\ bytes <= MaxLength - c.bitstream.size
Commit(c) == [c EXCEPT !.dataLen = c.bitstream.size]
AddSlices(c, n) ==
    IF n > MaxLength - c.numSlices THEN Invalid(c) ELSE [c EXCEPT !.numSlices = @ + n]

\* lastSliceParams points into the context's own copy of the parameters.
Slices(c) == SubSeq(c.params.cells, 1, c.sliceCount)
RememberSlices(c) == [c EXCEPT !.sliceCount = c.params.size]

-----------------------------------------------------------------------------
(* H.264, HEVC, MPEG-2, MPEG-4, VC-1 and VP9.  Every range is checked and  *)
(* all memory is taken before the first byte is written.                   *)

StartCode == <<Written(<<"0">>), Written(<<"0">>), Written(<<"1">>)>>

PutSlice(c, header, part, mem) ==
    [c EXCEPT !.offsets = AppendBuffer(@, <<c.bitstream.size>>, mem),
              !.bitstream = AppendBuffer(AppendBuffer(@, header, mem), part, mem)]

CopySlices(c, data, header, mem) ==
    LET slices == Slices(c)
        bytes == SumSizes(slices, Len(header))
        ranged == \A i \in 1 .. Len(slices) : InRange(slices[i], Len(data))
        offsets == ReserveAdditional(c.offsets, Len(slices), mem)
        bitstream == ReserveAdditional(c.bitstream, bytes, mem)
        Put(a, s) == PutSlice(a, header, Part(data, s), mem)
        all == FoldLeft(Put, c, slices)
    IN  CASE ~ranged \/ ~CanAppend(c, bytes) -> Invalid(c)
          [] OTHER ->
             IF ~CanReserve(c.offsets, Len(slices), mem) THEN [c EXCEPT !.offsets = offsets]
             ELSE IF ~CanReserve(c.bitstream, bytes, mem)
                  THEN [c EXCEPT !.offsets = offsets, !.bitstream = bitstream]
             ELSE Commit([c EXCEPT !.offsets = all.offsets, !.bitstream = all.bitstream])

CountSlices(c) == AddSlices(RememberSlices(c), c.params.size)

CopyH264PicParam(c, p) == [c EXCEPT !.picture = p, !.intra = TRUE]
\* The slice type is read from the first element of the buffer.
CopyH264SliceParam(c) == CountSlices([c EXCEPT !.intra = @ /\ c.params.cells[1].intra])
CopyH264SliceData(c, data, mem) == CopySlices(c, data, StartCode, mem)

\* More tile rows or columns than the arrays hold are refused.
CopyHEVCPicParam(c, p) ==
    IF p.usable THEN [c EXCEPT !.picture = p, !.intra = p.intra] ELSE Invalid(c)
CopyHEVCSliceParam(c) == CountSlices(c)
CopyHEVCSliceData(c, data, mem) == CopySlices(c, data, StartCode, mem)

CopyMPEG2PicParam(c, p) == [c EXCEPT !.picture = p, !.intra = p.intra]
CopyMPEG2SliceParam(c) == CountSlices(c)
CopyMPEG2SliceData(c, data, mem) == CopySlices(c, data, <<>>, mem)

CopyMPEG4PicParam(c, p) == [c EXCEPT !.picture = p, !.intra = p.intra]
CopyMPEG4SliceParam(c) == CountSlices(c)
CopyMPEG4SliceData(c, data, mem) == CopySlices(c, data, <<>>, mem)

\* Quantisation matrices, a pair for intra and other blocks (H.264 and HEVC:
\* the 4x4 and the larger lists); 0 is none.  MPEG-2 has defaults (-1) for
\* one that the buffer does not load.
CopyH264IQMatrix(c, q) == [c EXCEPT !.matrix = q]
CopyHEVCIQMatrix(c, q) == [c EXCEPT !.matrix = q]
CopyMPEG4IQMatrix(c, q) == [c EXCEPT !.matrix = q]
CopyMPEG2IQMatrix(c, q) == [c EXCEPT !.matrix = [i \in 1 .. 2 |-> IF q[i] = 0 THEN -1 ELSE q[i]]]

CopyVC1PicParam(c, p) == [c EXCEPT !.picture = p, !.intra = p.intra]
CopyVC1SliceParam(c) == CountSlices(c)
CopyVC1SliceData(c, data, mem) == CopySlices(c, data, <<>>, mem)

CopyVP9PicParam(c, p) == [c EXCEPT !.picture = p]
CopyVP9SliceParam(c) == CountSlices(c)
\* What VA-API does not carry is parsed from the frame header; the parser is
\* made when it is first needed.
ParseExtraInfo(c, parses, mem) ==
    IF ~c.codecData /\ mem = 0 THEN [Invalid(c) EXCEPT !.bitstream.failed = TRUE]
    ELSE [c EXCEPT !.codecData = TRUE, !.invalid = @ \/ ~parses]
CopyVP9SliceData(c, data, parses, mem) ==
    LET r == CopySlices(c, data, <<>>, mem) IN
    IF r.invalid \/ r.offsets.failed \/ r.bitstream.failed THEN r
    ELSE ParseExtraInfo(r, parses, mem)

-----------------------------------------------------------------------------
(* VP8: slice by slice, behind a frame header built from the parameters.   *)

FrameHeader(p) ==
    IF ~p.usable THEN <<>>
    ELSE [i \in 1 .. (IF p.key THEN 10 ELSE 3) |-> Written(<<"VP8 header", i>>)]
CopyVP8PicParam(c, p) == [c EXCEPT !.picture = p]
CopyVP8SliceParam(c) == CountSlices(c)
\* The loop stops at an invalid slice, not at a buffer that could not grow.
CopyVP8SliceData(c, data, mem) ==
    LET header == FrameHeader(c.picture)
        Put(a, s) ==
            IF a.invalid THEN a
            ELSE IF \/ ~InRange(s, Len(data))
                    \/ header = <<>>
                    \/ ~CanAppend(a, Len(header) + s.size) THEN Invalid(a)
            ELSE PutSlice(a, header, Part(data, s), mem)
        all == FoldLeft(Put, c, Slices(c))
        r == [c EXCEPT !.offsets = all.offsets, !.bitstream = all.bitstream, !.invalid = all.invalid]
    IN  IF r.invalid THEN r ELSE Commit(r)

-----------------------------------------------------------------------------
(* JPEG: VA-API carries a picture in pieces; reconstructJPEG writes a      *)
(* whole file.  A table is 0 until it is loaded and -1 when what was       *)
(* loaded is no table (all zero, or with impossible code counts).          *)

\* getJPEGContext
WithJPEGContext(c, mem) ==
    IF ~c.codecData /\ mem = 0 THEN [c EXCEPT !.bitstream.failed = TRUE]
    ELSE [c EXCEPT !.codecData = TRUE]

CopyJPEGPicParam(c, p, mem) ==
    LET r == WithJPEGContext(c, mem) IN
    [r EXCEPT !.picture = p, !.intra = TRUE,
              !.jpegPicture = IF r.codecData /\ p.usable THEN p ELSE NONE]

Loaded(old, new) == [t \in DOMAIN old |-> IF new[t] = 0 THEN old[t] ELSE new[t]]
CopyJPEGIQMatrix(c, quant, mem) ==
    LET r == WithJPEGContext(c, mem) IN
    IF ~r.codecData THEN r ELSE [r EXCEPT !.quant = Loaded(@, quant)]
CopyJPEGHuffmanTable(c, huffman, mem) ==
    LET r == WithJPEGContext(c, mem) IN
    IF ~r.codecData THEN r ELSE [r EXCEPT !.huffman = Loaded(@, huffman)]
CopyJPEGSliceParam(c) == RememberSlices(c)

\* jpegBeginPicture: tables outlive a picture.
ResetJPEGPictureState(c) == [c EXCEPT !.jpegPicture = NONE, !.sliceCount = 0]

HuffmanUsed(slices) == UNION {slices[i].tables : i \in 1 .. Len(slices)}
AllSame(slices, field) == \A i \in 1 .. Len(slices) : slices[i][field] = slices[1][field]

\* The checks of reconstructJPEG before it takes memory.
Reconstructible(c, slices, size) ==
    /\ IsSet(c.jpegPicture) /\ \E t \in 0 .. 3 : c.quant[t] # 0
    /\ \A t \in c.jpegPicture.tables : c.quant[t] # 0
    /\ slices # <<>>
    /\ \A i \in 1 .. Len(slices) : slices[i].usable /\ InRange(slices[i], size)

WriteDQT(c) ==
    FoldLeft(LAMBDA a, t : IF t \in c.jpegPicture.tables
                           THEN Append(a, Written(<<"DQT", t, c.quant[t]>>)) ELSE a,
             <<>>, <<0, 1, 2, 3>>)

\* The client's tables if it has loaded all that the scans use, and all of
\* them are tables; the standard ones otherwise.
WriteDHT(c, used) ==
    LET own == \A t \in used : c.huffman[t] > 0
        Table(t) == <<Written(<<"DHT DC", t, IF own THEN c.huffman[t] ELSE 0>>),
                      Written(<<"DHT AC", t, IF own THEN c.huffman[t] ELSE 0>>)>>
        Written_(t) == IF own /\ t \notin used THEN <<>> ELSE Table(t)
    IN  IF own THEN Written_(0) \o Written_(1)
        ELSE <<Table(0)[1], Table(1)[1], Table(0)[2], Table(1)[2]>>

WriteDRI(interval) == IF interval = 0 THEN <<>> ELSE <<Written(<<"DRI", interval>>)>>
WriteSOS(s) == <<Written(<<"SOS", s.scan>>)>>

WriteScans(slices, data) ==
    LET sameRestart == AllSame(slices, "restart")
        sameScan == AllSame(slices, "scan")
        Scan(s) == (IF sameRestart THEN <<>> ELSE WriteDRI(s.restart)) \o WriteSOS(s)
        Put(a, s) == a \o (IF sameScan THEN <<>> ELSE Scan(s)) \o Part(data, s)
    IN  FoldLeft(Put, (IF sameRestart THEN WriteDRI(slices[1].restart) ELSE <<>>)
                        \o (IF sameScan THEN WriteSOS(slices[1]) ELSE <<>>), slices)

ReconstructJPEG(c, slices, data) ==
    LET frame == <<Written(<<"JFIF">>)>> \o WriteDQT(c)
                   \o <<Written(<<"SOF0", c.jpegPicture>>)>>
                   \o WriteDHT(c, HuffmanUsed(slices)) \o WriteScans(slices, data)
    IN  IF Last(frame).is = <<"EOI">> THEN frame ELSE Append(frame, Written(<<"EOI">>))

\* The worst case reserved for a frame: segments, and the data of the slices.
JPEGFrameBound(slices) == 11 + 2 * Len(slices) + SumSizes(slices, 0)

\* The offset is appended first and taken back when there is no frame.
CopyJPEGSliceData(c, data, mem) ==
    LET slices == Slices(c)
        r == [c EXCEPT !.offsets = AppendBuffer(@, <<c.bitstream.size>>, mem)]
        back(x) == [x EXCEPT !.offsets.size = c.offsets.size, !.invalid = ~x.bitstream.failed]
        b == ReserveAdditional(c.bitstream, JPEGFrameBound(slices), mem)
        frame == ReconstructJPEG(c, slices, data)
    IN  IF \/ ~c.codecData \/ slices = <<>>
           \/ Len(data) > MaxLength \/ c.bitstream.size > MaxLength THEN Invalid(c)
        ELSE IF ~CanReserve(c.offsets, 1, mem) THEN r
        ELSE IF ~Reconstructible(c, slices, Len(data)) THEN back(r)
        ELSE IF ~CanReserve(c.bitstream, JPEGFrameBound(slices), mem)
             THEN back([r EXCEPT !.bitstream = b])
        ELSE IF \/ \E t \in c.jpegPicture.tables : c.quant[t] = -1
                \/ ~CanAppend(c, Len(frame)) THEN back([r EXCEPT !.bitstream = b])
        ELSE Commit([r EXCEPT !.bitstream = AppendBuffer(b, frame, mem), !.numSlices = 1])

-----------------------------------------------------------------------------
(* AV1: the client's data is kept as it is; what the hardware needs is     *)
(* where each tile lies in it.  Some clients send the data first.          *)

CopyAV1PicParam(c, p) ==
    IF ~p.usable THEN Invalid(c)
    ELSE [c EXCEPT !.picture = p, !.intra = p.intra, !.numSlices = p.cols * p.rows,
                   !.av1 = [NoTiles EXCEPT !.intervals = ResetIndex(c.av1.intervals)]]

Tiles(c) == Cardinality(c.av1.seen)             \* av1TileOffsetsSeen

\* ensureAV1SliceOffsetStorage: a start and an end for each tile, zero at first.
EnsureOffsets(c, n, mem) ==
    LET o == ReserveBuffer(c.offsets, 2 * n, mem) IN
    IF n = 0 THEN [c EXCEPT !.offsets.size = 0]
    ELSE IF 2 * n > o.allocated
         THEN [c EXCEPT !.offsets = [o EXCEPT !.failed = TRUE, !.size = 0]]
    ELSE [c EXCEPT !.offsets = [o EXCEPT !.size = 2 * n,
             !.cells = [i \in 1 .. Larger(2 * n, Len(o.cells)) |->
                           IF i <= c.offsets.size \/ i > 2 * n THEN o.cells[i] ELSE 0]]]

\* av1_find_obu_start_for_tile: the walk from OBU to OBU ends at the one
\* whose payload holds the tile.  A tile group OBU (4) goes with the frame
\* header OBU (3) before it.
FindObuStart(cells, offset) ==
    LET At[pos \in 0 .. Len(cells) + 1, previous \in 0 .. Len(cells), type \in 0 .. 15] ==
            IF pos >= Len(cells) \/ ~IsSet(cells[pos + 1].obu) THEN 0
            ELSE LET obu == cells[pos + 1].obu
                     payload == pos + obu.header
                     end == payload + obu.payload
                 IN  IF end > Len(cells) THEN 0
                     ELSE IF offset >= payload /\ offset < end
                          THEN IF obu.type = 4 /\ type = 3 THEN previous ELSE pos
                     ELSE At[end, pos, obu.type]
    IN  At[0, 0, 0]

\* compactAV1BitstreamToCurrentFrame: what precedes the frame is skipped,
\* not moved.
CompactAV1Bitstream(c) ==
    LET start == FindObuStart(Contents(c.bitstream), c.av1.min)
        end == c.av1.maxEnd
    IN  IF \/ c.av1.compacted \/ c.bitstream.allocated = 0 \/ c.av1.seen = {}
           \/ end > c.bitstream.size \/ c.av1.min >= end
           \/ start = 0 \/ start >= end THEN c
        ELSE [c EXCEPT !.offsets.cells =
                  [i \in DOMAIN @ |-> IF i <= 2 * c.numSlices /\ @[i] >= start
                                      THEN @[i] - start ELSE @[i]],
                       !.dataOffset = start, !.bitstream.size = end - start,
                       !.dataLen = end - start, !.av1.compacted = TRUE]

\* One tile of setAV1SliceOffsetsImpl; `stop' is its early return.
TileIndex(p, s) == s.row * p.cols + s.col
PlaceTile(a, s, adjust, size, mem) ==
    LET c == a.c
        tile == TileIndex(c.picture, s)
        from == adjust + s.offset
        to == from + s.size
        ix == IndexInsert(c.av1.intervals, from, to, mem)
        room == CanReserve(c.av1.intervals.storage, 1, mem)
    IN  IF a.stop THEN a
        ELSE IF \/ ~InRange(s, size)
                \/ ~IsSet(c.picture)
                \/ s.row >= c.picture.rows \/ s.col >= c.picture.cols
                \/ tile >= c.numSlices
                \/ tile \in c.av1.seen
                \/ to > MaxLength
                \/ ~Insertable(c.av1.intervals, from, to)
             THEN [c |-> Invalid(c), stop |-> TRUE]
        ELSE IF ~room
             THEN [c |-> [c EXCEPT !.av1.intervals = ix, !.offsets.failed = TRUE], stop |-> TRUE]
        ELSE [c |-> [c EXCEPT !.offsets.cells = [@ EXCEPT ![2 * tile + 1] = from, ![2 * tile + 2] = to],
                              !.av1 = [c.av1 EXCEPT !.seen = @ \union {tile}, !.intervals = ix,
                                                    !.min = IF from < @ THEN from ELSE @,
                                                    !.maxEnd = Larger(@, to)]],
              stop |-> FALSE]

\* The tiles are placed (a): once all are, and there was data, it is compacted.
AfterTiles(a, hadData) ==
    IF ~a.stop /\ hadData /\ Tiles(a.c) >= a.c.numSlices THEN CompactAV1Bitstream(a.c) ELSE a.c

SetAV1SliceOffsets(c, slices, adjust, size, mem) ==
    LET n == IF c.numSlices # 0 THEN c.numSlices ELSE Len(slices)
        ready == EnsureOffsets([c EXCEPT !.numSlices = n], n, mem)
        Placed[k \in 0 .. Len(slices)] ==
            IF k = 0 THEN [c |-> ready, stop |-> FALSE]
            ELSE PlaceTile(Placed[k - 1], slices[k], adjust, size, mem)
    IN  IF n > MaxTiles THEN Invalid([c EXCEPT !.numSlices = n])
        ELSE IF ready.offsets.failed THEN ready
        ELSE AfterTiles(Placed[Len(slices)], c.bitstream.size > 0)

\* Parameters behind the data are placed at once and forgotten.
CopyAV1SliceParam(c, mem) ==
    LET r == RememberSlices(c) IN
    IF c.bitstream.size = 0 THEN r
    ELSE [SetAV1SliceOffsets(r, Slices(r), 0, c.bitstream.size, mem) EXCEPT !.sliceCount = 0]

\* A refused tile does not stop the append.
CopyAV1SliceData(c, data, mem) ==
    LET r == IF c.sliceCount = 0 THEN c
             ELSE SetAV1SliceOffsets(c, Slices(c), c.bitstream.size, Len(data), mem)
    IN  IF ~CanAppend(c, Len(data)) THEN Invalid(c)
        ELSE AfterTiles([c |-> Commit([r EXCEPT !.bitstream = AppendBuffer(@, data, mem)]),
                         stop |-> FALSE], TRUE)

-----------------------------------------------------------------------------
(* The calls of the client.  The codec's table of handlers picks the one   *)
(* for the buffer's type.                                                  *)

PicParam(c, p, mem) ==
    CASE codec = "H264" -> CopyH264PicParam(c, p)
      [] codec = "HEVC" -> CopyHEVCPicParam(c, p)
      [] codec = "MPEG2" -> CopyMPEG2PicParam(c, p)
      [] codec = "MPEG4" -> CopyMPEG4PicParam(c, p)
      [] codec = "VC1" -> CopyVC1PicParam(c, p)
      [] codec = "VP8" -> CopyVP8PicParam(c, p)
      [] codec = "VP9" -> CopyVP9PicParam(c, p)
      [] codec = "JPEG" -> CopyJPEGPicParam(c, p, mem)
      [] codec = "AV1" -> CopyAV1PicParam(c, p)

IQMatrix(c, q) ==
    CASE codec = "H264" -> CopyH264IQMatrix(c, q)
      [] codec = "HEVC" -> CopyHEVCIQMatrix(c, q)
      [] codec = "MPEG2" -> CopyMPEG2IQMatrix(c, q)
      [] codec = "MPEG4" -> CopyMPEG4IQMatrix(c, q)

SliceParam(c, mem) ==
    CASE codec = "H264" -> CopyH264SliceParam(c)
      [] codec = "HEVC" -> CopyHEVCSliceParam(c)
      [] codec = "MPEG2" -> CopyMPEG2SliceParam(c)
      [] codec = "MPEG4" -> CopyMPEG4SliceParam(c)
      [] codec = "VC1" -> CopyVC1SliceParam(c)
      [] codec = "VP8" -> CopyVP8SliceParam(c)
      [] codec = "VP9" -> CopyVP9SliceParam(c)
      [] codec = "JPEG" -> CopyJPEGSliceParam(c)
      [] codec = "AV1" -> CopyAV1SliceParam(c, mem)

SliceData(c, g, data, mem) ==
    CASE codec = "H264" -> CopyH264SliceData(c, data, mem)
      [] codec = "HEVC" -> CopyHEVCSliceData(c, data, mem)
      [] codec = "MPEG2" -> CopyMPEG2SliceData(c, data, mem)
      [] codec = "MPEG4" -> CopyMPEG4SliceData(c, data, mem)
      [] codec = "VC1" -> CopyVC1SliceData(c, data, mem)
      [] codec = "VP8" -> CopyVP8SliceData(c, data, mem)
      [] codec = "VP9" -> CopyVP9SliceData(c, data, g.parses, mem)

OutOfMemory(c) == c.bitstream.failed \/ c.offsets.failed \/ c.params.failed

\* resetPictureBuild
\* A mutant: the slice offsets of a picture that was refused stay.
ResetPictureBuildPart(c) ==
    [c EXCEPT !.bitstream = [@ EXCEPT !.size = 0, !.cells = <<>>, !.failed = FALSE],
              !.offsets.failed = FALSE,
              !.params = [@ EXCEPT !.size = 0, !.cells = <<>>, !.failed = FALSE],
              !.sliceCount = 0, !.invalid = FALSE]
ResetPictureBuild(c) ==
    [c EXCEPT !.bitstream = [@ EXCEPT !.size = 0, !.cells = <<>>, !.failed = FALSE],
              !.offsets = [@ EXCEPT !.size = 0, !.cells = <<>>, !.failed = FALSE],
              !.params = [@ EXCEPT !.size = 0, !.cells = <<>>, !.failed = FALSE],
              !.sliceCount = 0, !.invalid = FALSE]

\* nvBeginPicture.  The AV1 handler's tile state is reset by the picture
\* parameters, the parameters of the tiles are not reset at all.
BeginPicture ==
    LET c == [ctx EXCEPT !.bitstream.failed = FALSE, !.offsets.failed = FALSE,
                         !.params.failed = FALSE, !.invalid = FALSE, !.dataOffset = 0,
                         !.picture = NONE, !.intra = FALSE, !.numSlices = 0, !.dataLen = 0,
                         !.matrix = <<0, 0>>]
        fresh == IF codec = "AV1" THEN c ELSE [c EXCEPT !.params.size = 0, !.sliceCount = 0]
    IN  /\ pictureState = "idle"
        /\ client.order < MaxPictures
        /\ pictureState' = "building"
        /\ ctx' = IF codec = "JPEG" THEN ResetJPEGPictureState(fresh) ELSE fresh
        /\ client' = [client EXCEPT !.order = @ + 1, !.picture = NONE, !.groups = <<>>, !.matrix = <<0, 0>>,
                                    !.pending = NONE, !.sent = 0, !.unusable = FALSE, !.lost = FALSE,
                                    !.layout = IF codec = "AV1" /\ IsSet(submitted) THEN TilesSent ELSE @]
        /\ submitted' = NONE
        /\ UNCHANGED codec

\* The end of the loop of nvRenderPicture, and nvRenderPicture itself.
Rendered(c, sent, mem) ==
    /\ ctx' = c
    /\ pictureState' = IF c.invalid \/ OutOfMemory(c) THEN "failed" ELSE "building"
    /\ client' = [sent EXCEPT !.lost = @ \/ mem # SizeMax]
    /\ UNCHANGED <<codec, submitted>>

RenderPicParam ==
    \E p \in Pictures[codec], mem \in Blocks :
        /\ pictureState = "building" /\ ~IsSet(client.picture)
        /\ mem = SizeMax \/ codec = "JPEG"      \* the other handlers take no memory
        /\ Rendered(PicParam(ctx, p, mem), [client EXCEPT !.picture = p], mem)

RenderIQMatrix ==
    \E q \in Matrices :
        /\ pictureState = "building" /\ codec \in {"H264", "HEVC", "MPEG2", "MPEG4"}
        /\ IsSet(client.picture) /\ client.groups = <<>> /\ client.pending = NONE
        /\ Rendered(IQMatrix(ctx, q), [client EXCEPT !.matrix = q], SizeMax)

\* The client remembers the tables that were taken from it.
RenderTables ==
    \E t \in Tables, mem \in Blocks :
        LET iq == CopyJPEGIQMatrix(ctx, t.quant, mem)
            c == IF t.iq THEN iq ELSE CopyJPEGHuffmanTable(ctx, t.huffman, mem)
        IN  /\ pictureState = "building" /\ codec = "JPEG" /\ IsSet(client.picture)
            /\ client.groups = <<>> /\ client.pending = NONE
            /\ Rendered(c, IF ~c.codecData THEN client
                           ELSE [client EXCEPT !.quant = IF t.iq THEN Loaded(@, t.quant) ELSE @,
                                               !.huffman = IF t.iq THEN @ ELSE Loaded(@, t.huffman)],
                        mem)

\* The driver's copy of a slice parameter buffer, then the handler.
RenderSlices(slices, sent, mem) ==
    LET copy == AppendBuffer([ctx.params EXCEPT !.size = 0, !.cells = <<>>], slices, mem)
        c == [ctx EXCEPT !.params = copy]
    IN  Rendered(IF copy.failed THEN c ELSE SliceParam(c, mem), sent, mem)

MayAddGroup ==
    /\ pictureState = "building" /\ IsSet(client.picture) /\ client.pending = NONE
    /\ Len(client.groups) < IF codec \in {"JPEG", "AV1"} THEN 1 ELSE MaxGroups

RenderSliceParams ==
    \E g \in Groups[codec], mem \in Blocks :
        /\ MayAddGroup
        /\ RenderSlices(g.slices, [client EXCEPT !.pending = g, !.sent = Len(g.slices)], mem)

\* The data of the slices that were announced last.
DataDue ==
    /\ pictureState = "building" /\ IsSet(client.pending)
    /\ client.sent = Len(client.pending.slices)
PendingData == Data(client.pending, client.order, Len(client.groups) + 1)
Delivered(c, mem) ==
    Rendered(c, [client EXCEPT !.groups = Append(@, client.pending), !.pending = NONE], mem)

RenderSliceData ==
    \E mem \in Blocks :
        /\ DataDue /\ codec \notin {"JPEG", "AV1"}
        /\ Delivered(SliceData(ctx, client.pending, PendingData, mem), mem)
RenderScanData ==
    \E mem \in Blocks :
        /\ DataDue /\ codec = "JPEG"
        /\ Delivered(CopyJPEGSliceData(ctx, PendingData, mem), mem)
RenderTileData ==
    \E mem \in Blocks :
        /\ DataDue /\ codec = "AV1"
        /\ Delivered(CopyAV1SliceData(ctx, PendingData, mem), mem)

\* Chromium's order: the data, then a parameter buffer for each tile.  A
\* client may end the picture before the last one, or without any.
RenderDataFirst ==
    \E g \in Groups[codec], mem \in Blocks :
        /\ MayAddGroup /\ codec = "AV1"
        /\ Rendered(CopyAV1SliceData(ctx, Data(g, client.order, 1), mem),
                    [client EXCEPT !.groups = <<g>>, !.sent = 0], mem)
RenderTileParams ==
    \E mem \in Blocks :
        LET g == client.groups[1]
            k == client.sent + 1
        IN  /\ pictureState = "building" /\ codec = "AV1"
            /\ client.groups # <<>> /\ client.pending = NONE
            /\ k <= Len(g.slices)
            /\ RenderSlices(<<g.slices[k]>>, [client EXCEPT !.sent = k], mem)

\* A buffer that does not exist, is another context's, has the wrong shape
\* or a type the codec does not take.
RenderUnusable ==
    /\ pictureState = "building"
    /\ ~client.unusable
    /\ ctx' = Invalid(ctx)
    /\ pictureState' = "failed"
    /\ client' = [client EXCEPT !.unusable = TRUE]
    /\ UNCHANGED <<codec, submitted>>

\* maybeTrimContextHostBuffers, with the sizes of the picture `was'.
MaybeTrim(c, was, mem) ==
    LET idle(b, w) == Underused(b, w.size, TrimThreshold)
        trimmed(b, w) == IF idle(b, w)
                         THEN TrimBuffer(b, TrimTarget(w.size, TrimThreshold), mem) ELSE b
        count == c.underuse + 1
    IN  IF ~(idle(c.bitstream, was.bitstream) \/ idle(c.offsets, was.offsets)
             \/ idle(c.params, was.params)) THEN [c EXCEPT !.underuse = 0]
        ELSE IF TrimFrames # 0 /\ count < TrimFrames THEN [c EXCEPT !.underuse = count]
        ELSE [c EXCEPT !.bitstream = trimmed(@, was.bitstream),
                       !.offsets = trimmed(@, was.offsets),
                       !.params = trimmed(@, was.params), !.underuse = 0]

\* What cuvidDecodePicture is given: pointers into the context's buffers.
PictureOf(c) ==
    [codec |-> codec, picture |-> c.picture, intra |-> c.intra, matrix |-> c.matrix,
     numSlices |-> c.numSlices,
     data |-> SubSeq(c.bitstream.cells, c.dataOffset + 1, c.dataOffset + c.dataLen),
     offsets |-> Contents(c.offsets)]

AllTilesPlaced(c) == c.numSlices # 0 /\ Tiles(c) = c.numSlices

\* nvEndPicture: a failed picture is only reset.  `works' is the decoder
\* and the CUDA context.
EndPicture ==
    \E works \in BOOLEAN, mem \in Blocks :
        LET incomplete == codec = "AV1" /\ ~OutOfMemory(ctx) /\ ~AllTilesPlaced(ctx)
            goes == pictureState = "building" /\ ~incomplete /\ ~ctx.invalid
                    /\ ~OutOfMemory(ctx) /\ works
            empty == [ctx EXCEPT !.bitstream = [@ EXCEPT !.size = 0, !.cells = <<>>],
                                 !.offsets = [@ EXCEPT !.size = 0, !.cells = <<>>]]
        IN  /\ pictureState \in {"building", "failed"}
            /\ client.pending = NONE \/ pictureState = "failed"
            /\ goes \/ mem = SizeMax
            /\ submitted' = IF goes THEN PictureOf(ctx) ELSE NONE
            /\ ctx' = ResetPictureBuild(IF goes THEN MaybeTrim(empty, ctx, mem) ELSE ctx)
            /\ pictureState' = "idle"
            /\ client' = [client EXCEPT !.lost = @ \/ ~works]
            /\ UNCHANGED codec

Init ==
    /\ codec \in CodecNames
    /\ pictureState = "idle"
    /\ ctx = FreshContext
    /\ client = NewClient
    /\ submitted = NONE

Next ==
    \/ BeginPicture
    \/ RenderPicParam
    \/ RenderIQMatrix
    \/ RenderTables
    \/ RenderSliceParams
    \/ RenderSliceData
    \/ RenderScanData
    \/ RenderTileData
    \/ RenderDataFirst
    \/ RenderTileParams
    \/ RenderUnusable
    \/ EndPicture

Spec == Init /\ [][Next]_vars

-----------------------------------------------------------------------------
(* What the client may rely on, stated from what it sent.                  *)

HeaderLength == CASE codec \in {"H264", "HEVC"} -> 3
                  [] codec = "VP8" -> IF client.picture.key THEN 10 ELSE 3
                  [] OTHER -> 0
SentGroups == 1 .. Len(client.groups)
SentLength == FoldLeft(LAMBDA a, g : a + SumSizes(g.slices, HeaderLength), 0, client.groups)
SentOutside == \E i \in SentGroups : \E k \in 1 .. Len(SentSlices(i)) :
                   SentSlices(i)[k].offset + SentSlices(i)[k].size > client.groups[i].size

BadTiles ==
    LET p == client.picture
        tiles == TilesSent
        all == {<<r, k>> : r \in 0 .. p.rows - 1, k \in 0 .. p.cols - 1}
    IN  \/ ~p.usable \/ p.rows * p.cols > MaxTiles
        \/ client.groups[1].size > MaxLength
        \/ Len(tiles) # Cardinality(all)
        \/ {<<tiles[i].row, tiles[i].col>> : i \in DOMAIN tiles} # all
        \/ \E i \in DOMAIN tiles : tiles[i].size = 0
                                   \/ tiles[i].offset + tiles[i].size > client.groups[1].size
        \/ \E i, j \in DOMAIN tiles :
              i < j /\ tiles[i].offset < tiles[j].offset + tiles[j].size
                    /\ tiles[j].offset < tiles[i].offset + tiles[i].size

BadPicture ==
    \/ client.unusable
    \/ codec = "AV1" /\ (client.groups = <<>> \/ BadTiles)
    \/ codec = "HEVC" /\ IsSet(client.picture) /\ ~client.picture.usable
    \/ /\ codec # "AV1" /\ client.groups # <<>>
       /\ \/ SentOutside
          \/ codec # "JPEG" /\ SentLength > MaxLength
          \/ codec = "VP8" /\ ~client.picture.usable
          \/ codec = "VP9" /\ \E i \in SentGroups : ~client.groups[i].parses
          \/ /\ codec = "JPEG"
             /\ \/ ~client.picture.usable
                \/ client.groups[1].size > MaxLength
                \/ \E t \in client.picture.tables : client.quant[t] <= 0
                \/ \E k \in 1 .. Len(SentSlices(1)) : ~SentSlices(1)[k].usable

\* Type correctness; what the code believes is in a buffer lies inside it.
TypeOK ==
    /\ codec \in CodecNames
    /\ pictureState \in {"idle", "building", "failed"}
    /\ WellFormed(ctx.bitstream) /\ WellFormed(ctx.offsets) /\ WellFormed(ctx.params)
    /\ ctx.sliceCount <= ctx.params.size
    /\ ctx.dataOffset + ctx.bitstream.size <= Len(ctx.bitstream.cells) \/ ctx.bitstream.size = 0
    /\ ctx.dataLen \in 0 .. MaxLength
    /\ client.order \in 0 .. MaxPictures
    /\ IsSet(submitted) => pictureState = "idle"

\* An AV1 picture without tile parameters, behind one that had them.
Omits == codec = "AV1" /\ client.groups # <<>> /\ client.sent = 0 /\ client.layout # <<>>
Refused == pictureState = "idle" /\ client.order > 0 /\ ~IsSet(submitted)

\* The verdict on a picture is exact: nothing with a slice outside its data,
\* missing, overlapping or duplicate tiles, missing tables or too many bytes
\* is given to the decoder (nvEndPicture), and a picture is refused only for
\* such a cause, or because memory or the decoder was not to be had.  One case
\* is left open.  nvBeginPicture (4618) says that AV1 may omit tile parameters
\* and reuse the preceding layout, of which the context keeps its copy; but
\* resetPictureBuild (4670) empties it, and the picture is refused.  Refusing
\* it is admitted here; submitting it would be, if the old layout fits it.
VerdictExact ==
    /\ IsSet(submitted) => ~BadPicture
    /\ Refused => BadPicture \/ client.lost \/ Omits

Sources(i) == Data(client.groups[i], client.order, i)
DataOnly(cells) == SelectSeq(cells, LAMBDA x : x.is[1] = "data")
AllParts == FoldLeft(LAMBDA a, i : a \o FoldLeft(LAMBDA b, s : b \o Part(Sources(i), s), <<>>, SentSlices(i)),
                     <<>>, [i \in SentGroups |-> i])

\* Slices follow each other, each behind its header and at its offset.
SlicesWhole ==
    LET d == submitted
        all == FoldLeft(LAMBDA a, i : a \o [k \in DOMAIN SentSlices(i) |-> Part(Sources(i), SentSlices(i)[k])],
                        <<>>, [i \in SentGroups |-> i])
    IN  /\ d.numSlices = Len(all) /\ Len(d.offsets) = Len(all)
        /\ \A k \in DOMAIN all :
              LET from == d.offsets[k]
                  to == IF k = Len(all) THEN Len(d.data) ELSE d.offsets[k + 1]
              IN  /\ SubSeq(d.data, from + HeaderLength + 1, to) = all[k]
                  /\ \A j \in from + 1 .. from + HeaderLength : d.data[j].is[1] # "data"
        /\ all # <<>> => d.offsets[1] = 0

\* Each tile is where its offsets say, and the OBU the first one lies in,
\* with the frame header OBU before it, is in front of it.
TilesWhole ==
    LET d == submitted
        g == client.groups[1]
        first == CHOOSE o \in {s.offset : s \in {TilesSent[k] : k \in DOMAIN TilesSent}} :
                     \A k \in DOMAIN TilesSent : o <= TilesSent[k].offset
        starts == {i \in 1 .. g.size : IsSet(ObuAt(g, i)) /\ i <= first + 1}
        last == CHOOSE i \in starts : \A j \in starts : j <= i
        before == CHOOSE i \in starts \ {last} : \A j \in starts \ {last} : j <= i
        needed == IF ObuAt(g, last).type = 4 /\ starts # {last} /\ ObuAt(g, before).type = 3
                  THEN before ELSE last
    IN  /\ d.numSlices = Len(TilesSent) /\ Len(d.offsets) = 2 * d.numSlices
        /\ \A k \in DOMAIN TilesSent :
              LET t == TileIndex(client.picture, TilesSent[k]) IN
              SubSeq(d.data, d.offsets[2 * t + 1] + 1, d.offsets[2 * t + 2]) = Part(Sources(1), TilesSent[k])
        /\ starts # {} => \E i \in DOMAIN d.data : d.data[i] = Sources(1)[needed]

\* The file has the client's latest tables, each scan's header and restart
\* interval in force before its data, and one end.
JPEGWhole ==
    LET d == submitted.data
        slices == SentSlices(1)
        Tagged(tag) == {i \in DOMAIN d : d[i].is[1] = tag}
        InForce(tag, k) == {i \in Tagged(tag) : /\ i < k
                                               /\ \A j \in Tagged(tag) : j < k => j <= i}
        own == \A t \in HuffmanUsed(slices) : client.huffman[t] > 0
        Table(tag, t, k) == {d[i].is[3] : i \in {j \in Tagged(tag) : j < k /\ d[j].is[2] = t}}
    IN  /\ submitted.numSlices = 1 /\ submitted.offsets = <<0>>
        /\ DataOnly(d) = DataOnly(AllParts)
        /\ Tagged("EOI") = {Len(d)}
        /\ \A k \in DOMAIN slices : \A i \in DOMAIN d :
              Part(Sources(1), slices[k]) # <<>> /\ d[i] = Part(Sources(1), slices[k])[1]
                /\ d[i].is[1] = "data" =>
                  /\ {d[j].is[2] : j \in InForce("SOS", i)} = {slices[k].scan}
                  /\ AllSame(slices, "restart") =>
                        {d[j].is[2] : j \in InForce("DRI", i)} = {slices[k].restart} \ {0}
                  /\ \A t \in slices[k].tables :
                        Table("DHT DC", t, i) = {IF own THEN client.huffman[t] ELSE 0}
                          /\ Table("DHT AC", t, i) = Table("DHT DC", t, i)
                  /\ \A t \in client.picture.tables : Table("DQT", t, i) = {client.quant[t]}

\* The decoder is given this picture whole: its parameters, every slice or
\* tile of it at the offset announced for it and nothing of another picture,
\* behind the header the codec's handler makes; for H.264 the picture is
\* called intra exactly if all its slices are.
SubmittedFaithful ==
    IsSet(submitted) =>
        /\ submitted.picture = client.picture
        /\ \A i \in 1 .. 2 : submitted.matrix[i] =
               IF codec = "MPEG2" /\ client.matrix # <<0, 0>> /\ client.matrix[i] = 0
               THEN -1 ELSE client.matrix[i]
        /\ CASE codec = "AV1" -> TilesWhole
             [] codec = "JPEG" /\ client.groups # <<>> -> JPEGWhole
             [] OTHER -> SlicesWhole
        /\ codec = "H264" /\ IsSet(client.picture) =>
              (submitted.intra <=> \A i \in SentGroups : \A k \in DOMAIN SentSlices(i) : SentSlices(i)[k].intra)

\* The AV1 handler's index of tiles is a balanced search tree of disjoint
\* ranges, one for each tile that has been placed (nvdIntervalIndexInsert).
TilesTracked ==
    /\ IsBalancedTree(ctx.av1.intervals)
    /\ Cardinality(Ranges(ctx.av1.intervals)) = Tiles(ctx)
    /\ ~ctx.av1.compacted /\ ctx.offsets.size # 0 /\ codec = "AV1" =>
          Ranges(ctx.av1.intervals) =
              {<<ctx.offsets.cells[2 * t + 1], ctx.offsets.cells[2 * t + 2]>> : t \in ctx.av1.seen}
=============================================================================
