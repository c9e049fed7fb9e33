---------------------------- MODULE CodecFields ----------------------------
(***************************************************************************)
(* The fields of a picture that the codec handlers compute rather than     *)
(* copy: the reference picture sets of HEVC and the order they are handed  *)
(* to NVDEC in, the order hints, skip-mode frames, tile sizes and lossless *)
(* flag of AV1, the scan orders of the quantiser tables of HEVC and        *)
(* MPEG-2, and the frame header that is rebuilt for VP8.                   *)
(*                                                                         *)
(* Everything here is a function of the client's parameters.  Beside each  *)
(* one stands what the standard it serves asks for, and FieldsExact(x)     *)
(* says that the two agree on the sample x.                                *)
(***************************************************************************)
EXTENDS Integers, FiniteSets, SequencesExt

Least(a, b) == IF a < b THEN a ELSE b

Greatest(a, b) == IF a > b THEN a ELSE b

-----------------------------------------------------------------------------
(* hevc.c: reference picture sets.  A frame of the DPB is a record [idx    *)
(* (the decoder's picture index, -1 when the surface has none), poc, long, *)
(* flags (a subset of the three RPS marks)]; entries count from 0 in the C *)
(* array, from 1 here.                                                     *)

(* Whether previous has to move behind key. *)
OutOfOrder(poc, previous, key, descending, descendingTie) ==
    \/ IF descending THEN poc[previous] < poc[key] ELSE poc[previous] > poc[key]
    \/ /\ poc[previous] = poc[key]
       /\ IF descendingTie THEN previous < key ELSE previous > key

(* Insertion sort: each key moves towards the front until an entry stays. *)
SortReferenceSet(refs, poc, descending, descendingTie) ==
    LET Place(sorted, key) ==
            LET stay == {j \in 1 .. Len(sorted) :
                            ~OutOfOrder(poc, sorted[j], key, descending, descendingTie)}
                last == IF stay = {} THEN 0 ELSE CHOOSE j \in stay : \A k \in stay : k <= j
            IN  InsertAt(sorted, last + 1, key)
    IN  FoldLeft(Place, <<>>, refs)

(* An entry without a picture index joins no set; an entry joins the first *)
(* set whose mark it carries.                                              *)
ReferenceSets(frames) ==
    LET poc == [i \in DOMAIN frames |-> frames[i].poc]
        indices == [i \in 1 .. Len(frames) |-> i]
        Mark(f) == IF "before" \in f.flags THEN "before"
                   ELSE IF "after" \in f.flags THEN "after"
                   ELSE IF "longterm" \in f.flags THEN "longterm" ELSE "none"
        Marked(m) == SelectSeq(indices, LAMBDA i : frames[i].idx # -1 /\ Mark(frames[i]) = m)
    IN  [before |-> SortReferenceSet(Marked("before"), poc, TRUE, FALSE),
         after |-> SortReferenceSet(Marked("after"), poc, FALSE, TRUE),
         longterm |-> Marked("longterm"),
         total |-> Len(Marked("before")) + Len(Marked("after")) + Len(Marked("longterm")),
         deltas |-> Cardinality({i \in DOMAIN frames : frames[i].idx # -1 /\ ~frames[i].long})]

(* StCurrBefore runs from the nearest POC to the farthest, StCurrAfter     *)
(* too; entries of equal POC come in index order before the picture and in *)
(* reverse after it.  Every usable marked entry is in exactly one set.     *)
ReferenceSetsOrdered(frames) ==
    LET sets == ReferenceSets(frames)
        usable == {i \in DOMAIN frames : frames[i].idx # -1 /\ frames[i].flags # {}}
        Falling(s) == \A i, j \in DOMAIN s : i < j =>
                          \/ frames[s[i]].poc > frames[s[j]].poc
                          \/ frames[s[i]].poc = frames[s[j]].poc /\ s[i] < s[j]
        all == sets.before \o sets.after \o sets.longterm
    IN  /\ Falling(sets.before)
        /\ Falling(Reverse(sets.after))
        /\ ToSet(all) = usable
        /\ Len(all) = Cardinality(usable)
        /\ sets.total = Len(all)
        /\ \A i \in ToSet(sets.before) : "before" \in frames[i].flags
        /\ \A i \in ToSet(sets.longterm) : frames[i].flags = {"longterm"}

-----------------------------------------------------------------------------
(* av1.c: order hints.  With seq.enable_order_hint, a hint is an output    *)
(* order modulo 2^(seq.order_hint_bits_minus1 + 1).                        *)

\* A mutant: hints that do not wrap around.
RelativeDistPlain(seq, refHint, orderHint) ==
    IF ~seq.enable_order_hint THEN 0 ELSE refHint - orderHint

(* diff & (m - 1), less diff & m *)
RelativeDist(seq, refHint, orderHint) ==
    LET m == 2 ^ seq.order_hint_bits_minus1
        diff == refHint - orderHint
    IN  IF ~seq.enable_order_hint THEN 0
        ELSE (diff % m) - (IF (diff \div m) % 2 = 1 THEN m ELSE 0)

(* The two references of skip mode, numbered from 1, or <<0, 0>>: hints is *)
(* RefOrderHint[ref_frame_idx[i]] for each reference i.                    *)
SkipModeFrames(seq, hints, orderHint) ==
    LET Dist(a, b) == RelativeDist(seq, a, b)
        Forward(best, i) == IF /\ Dist(hints[i], orderHint) < 0
                               /\ best = 0 \/ Dist(hints[i], hints[best]) > 0
                            THEN i ELSE best
        Backward(best, i) == IF /\ Dist(hints[i], orderHint) > 0
                                /\ best = 0 \/ Dist(hints[i], hints[best]) < 0
                             THEN i ELSE best
        all == [i \in 1 .. Len(hints) |-> i]
        forward == FoldLeft(Forward, 0, all)
        backward == FoldLeft(Backward, 0, all)
        Second(best, i) == IF /\ Dist(hints[i], hints[forward]) < 0
                              /\ best = 0 \/ Dist(hints[i], hints[best]) > 0
                           THEN i ELSE best
        second == FoldLeft(Second, 0, all)
        Pair(a, b) == <<Least(a, b), Greatest(a, b)>>
    IN  CASE forward = 0 -> <<0, 0>>
          [] forward # 0 /\ backward # 0 -> Pair(forward, backward)
          [] forward # 0 /\ backward = 0 /\ second # 0 -> Pair(forward, second)
          [] OTHER -> <<0, 0>>

(* On true output orders: the last picture shown before this one and the   *)
(* first shown after it or, when all come before, the last two.  The first *)
(* reference wins among equals.                                            *)
SkipModeNearest(orders, order) ==
    LET First(S, Better(_, _)) == CHOOSE i \in S : \A j \in S : j = i \/ Better(orders[i], orders[j])
                                                        \/ (orders[i] = orders[j] /\ i < j)
        past == {i \in DOMAIN orders : orders[i] < order}
        future == {i \in DOMAIN orders : orders[i] > order}
        last == First(past, LAMBDA a, b : a > b)
        earlier == {i \in past : orders[i] < orders[last]}
        pair == {last, IF future # {} THEN First(future, LAMBDA a, b : a < b)
                       ELSE First(earlier, LAMBDA a, b : a > b)}
    IN  IF past = {} \/ (future = {} /\ earlier = {}) THEN <<0, 0>>
        ELSE <<CHOOSE i \in pair : \A j \in pair : i <= j, CHOOSE i \in pair : \A j \in pair : j <= i>>

(* For orders no farther apart than half the hint range, the wrapped hints *)
(* select what the true orders would; without hints there is no skip mode. *)
SkipModeExact(seq, orders, order) ==
    LET Hint(o) == o % 2 ^ (seq.order_hint_bits_minus1 + 1)
        chosen == SkipModeFrames(seq, [i \in DOMAIN orders |-> Hint(orders[i])], Hint(order))
    IN  chosen = IF seq.enable_order_hint THEN SkipModeNearest(orders, order) ELSE <<0, 0>>

-----------------------------------------------------------------------------
(* av1.c: tiles of uniform spacing.  The VA interface hands over how many  *)
(* tiles there are, NVDEC wants the size of each.                          *)

CeilDiv(a, b) == (a + b - 1) \div b

CalcTileLog2(numTiles) == CHOOSE k \in 0 .. numTiles : /\ 2 ^ k >= numTiles
                                                      /\ \A j \in 0 .. k - 1 : 2 ^ j < numTiles

AlignPower2(value, alignment) == CeilDiv(value, alignment) * alignment

FrameWidth(width, superres, denominator) ==
    IF superres /\ denominator # 8 THEN (width * 8 + denominator \div 2) \div denominator ELSE width

SuperblockCount(pixels, use128) ==
    LET mib == IF use128 THEN 5 ELSE 4
    IN  AlignPower2(AlignPower2(pixels, 8) \div 4, 2 ^ mib) \div 2 ^ mib

(* The last tile takes what the others leave. *)
UniformTileSizes(numTiles, numSuperblocks) ==
    LET size == CeilDiv(numSuperblocks, 2 ^ CalcTileLog2(numTiles))
        Remaining(i) == Greatest(0, numSuperblocks - (i - 1) * size)
    IN  [i \in 1 .. numTiles |-> IF i = numTiles THEN Remaining(i) ELSE Least(size, Remaining(i))]

(* The stream carries the logarithm, the standard cuts tiles of one size   *)
(* until the frame is covered; the handler recovers those sizes from their *)
(* number.                                                                 *)
UniformTilesExact(pixels, use128, tileLog2) ==
    LET superblocks == SuperblockCount(pixels, use128)
        size == CeilDiv(superblocks, 2 ^ tileLog2)
        numTiles == CeilDiv(superblocks, size)
    IN  /\ superblocks = CeilDiv(pixels, IF use128 THEN 128 ELSE 64)
        /\ UniformTileSizes(numTiles, superblocks)
             = [i \in 1 .. numTiles |-> IF i = numTiles THEN superblocks - (i - 1) * size ELSE size]

(* A frame is taken for losslessly coded only if every segment is. *)
CodedLossless(deltas, baseQindex, segments) ==
    /\ \A d \in ToSet(deltas) : d = 0
    /\ baseQindex = 0
    /\ \A i \in DOMAIN segments : segments[i].enabled => baseQindex + segments[i].data = 0

CodedLosslessExact(deltas, baseQindex, segments) ==
    LET Clip(q) == Greatest(0, Least(255, q))
        Qindex(i) == Clip(baseQindex + (IF segments[i].enabled THEN segments[i].data ELSE 0))
    IN  CodedLossless(deltas, baseQindex, segments) =>
            \A i \in DOMAIN segments : Qindex(i) = 0 /\ \A d \in ToSet(deltas) : d = 0

-----------------------------------------------------------------------------
(* Scan orders: the index of the n-th coefficient, n from 0.               *)

Diag4x4X == <<0, 0, 1, 0, 1, 2, 0, 1, 2, 3, 1, 2, 3, 2, 3, 3>>
Diag4x4Y == <<0, 1, 0, 2, 1, 0, 3, 2, 1, 0, 3, 2, 1, 3, 2, 3>>

Diag8x8X == <<0, 0, 1, 0, 1, 2, 0, 1, 2, 3, 0, 1, 2, 3, 4, 0, 1, 2, 3, 4, 5, 0, 1, 2, 3, 4, 5, 6,
              0, 1, 2, 3, 4, 5, 6, 7, 1, 2, 3, 4, 5, 6, 7, 2, 3, 4, 5, 6, 7, 3, 4, 5, 6, 7,
              4, 5, 6, 7, 5, 6, 7, 6, 7, 7>>
Diag8x8Y == <<0, 1, 0, 2, 1, 0, 3, 2, 1, 0, 4, 3, 2, 1, 0, 5, 4, 3, 2, 1, 0, 6, 5, 4, 3, 2, 1, 0,
              7, 6, 5, 4, 3, 2, 1, 0, 7, 6, 5, 4, 3, 2, 1, 7, 6, 5, 4, 3, 2, 7, 6, 5, 4, 3,
              7, 6, 5, 4, 7, 6, 5, 7, 6, 7>>

ZigzagDirect ==
    <<0, 1, 8, 16, 9, 2, 3, 10, 17, 24, 32, 25, 18, 11, 4, 5, 12, 19, 26, 33, 40, 48, 41, 34,
      27, 20, 13, 6, 7, 14, 21, 28, 35, 42, 49, 56, 57, 50, 43, 36, 29, 22, 15, 23, 30, 37, 44, 51,
      58, 59, 52, 45, 38, 31, 39, 46, 53, 60, 61, 54, 47, 55, 62, 63>>

(* copyHEVCIQMatrix: a list in raster order becomes one in scan order.  A  *)
(* matrix is a function of 0 .. side * side - 1.                           *)
ScalingList(side, matrix) ==
    LET x == IF side = 4 THEN Diag4x4X ELSE Diag8x8X
        y == IF side = 4 THEN Diag4x4Y ELSE Diag8x8Y
    IN  [j \in 0 .. side * side - 1 |-> matrix[side * y[j + 1] + x[j + 1]]]

(* copyMPEG2IQMatrix: a loaded matrix comes in zigzag order and is stored  *)
(* in raster order, the default one already is in raster order.            *)
QuantMatrix(load, matrix, default) ==
    IF load THEN [r \in 0 .. 63 |-> matrix[(CHOOSE i \in 0 .. 63 : ZigzagDirect[i + 1] = r)]]
    ELSE default

(* Up-right diagonals, each from its lower end (HEVC); zigzag: diagonals   *)
(* walked up and down in turn (MPEG-2).                                    *)
DiagBefore(side, p, q) ==
    LET d(r) == (r % side) + (r \div side)
    IN  d(p) < d(q) \/ (d(p) = d(q) /\ p \div side > q \div side)

ZigzagBefore(p, q) ==
    LET d(r) == (r % 8) + (r \div 8)
    IN  \/ d(p) < d(q)
        \/ d(p) = d(q) /\ IF d(p) % 2 = 0 THEN p \div 8 > q \div 8 ELSE p \div 8 < q \div 8

(* The raster matrix of positions shows which coefficient went where. *)
ScanOrdersExact(side) ==
    LET raster == [r \in 0 .. side * side - 1 |-> r]
        scan == ScalingList(side, raster)
        stored == QuantMatrix(TRUE, raster, raster)
    IN  /\ \A i, j \in DOMAIN scan : i < j => DiagBefore(side, scan[i], scan[j])
        /\ side = 8 => \A p, q \in DOMAIN stored : ZigzagBefore(p, q) => stored[p] < stored[q]

-----------------------------------------------------------------------------
(* codec-utils.c: the frame header VA-API clients strip from VP8 frames.   *)

BuildVP8FrameHeader(h) ==
    LET tag == (IF h.key THEN 0 ELSE 1) + h.version * 2 + (IF h.show THEN 16 ELSE 0) + h.partition * 32
        Byte(v, n) == (v \div 256 ^ n) % 256
        start == <<Byte(tag, 0), Byte(tag, 1), Byte(tag, 2)>>
    IN  IF h.version > 7 \/ h.partition > 524287 \/ (h.key /\ (h.width > 16383 \/ h.height > 16383))
        THEN <<>>
        ELSE IF ~h.key THEN start
        ELSE start \o <<157, 1, 42, Byte(h.width, 0), Byte(h.width, 1), Byte(h.height, 0), Byte(h.height, 1)>>

(* A VP8 decoder reads the same values back from the bits of the header; a *)
(* value that does not fit in its bits has no header.                      *)
VP8HeaderExact(h) ==
    LET bytes == BuildVP8FrameHeader(h)
        tag == bytes[1] + 256 * bytes[2] + 65536 * bytes[3]
        fits == h.version < 8 /\ h.partition < 2 ^ 19 /\ (h.key => h.width < 2 ^ 14 /\ h.height < 2 ^ 14)
    IN  /\ fits <=> bytes # <<>>
        /\ fits => /\ h.key <=> (tag % 2 = 0)
                   /\ (tag \div 2) % 8 = h.version
                   /\ h.show <=> (tag \div 16) % 2 = 1
                   /\ tag \div 32 = h.partition
                   /\ h.key => bytes[7] + 256 * bytes[8] = h.width /\ bytes[9] + 256 * bytes[10] = h.height

-----------------------------------------------------------------------------
(* The handlers compute what the standards ask for, sample by sample. *)
FieldsExact(x) ==
    CASE x.about = "references" -> ReferenceSetsOrdered(x.frames)
      [] x.about = "skip" -> SkipModeExact(x.seq, x.orders, x.order)
      [] x.about = "tiles" -> UniformTilesExact(FrameWidth(x.width, x.superres, x.denominator), x.use128, x.log2)
      [] x.about = "lossless" -> CodedLosslessExact(x.deltas, x.base, x.segments)
      [] x.about = "scan" -> ScanOrdersExact(x.side)
      [] x.about = "vp8" -> VP8HeaderExact(x.header)
=============================================================================
