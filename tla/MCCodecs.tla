------------------------------ MODULE MCCodecs ------------------------------
(* Small inputs for Codecs: good and bad slices, tiles and tables.  The    *)
(* samples of CodecFields are further initial states, from which no step   *)
(* is taken: sample is "none" in the states of Codecs.                     *)
EXTENDS Codecs, CodecFields

Slice(offset, size) == [offset |-> offset, size |-> size]
Group(size, slices) == [size |-> size, slices |-> slices, obus |-> <<>>,
                        parses |-> TRUE, eoi |-> FALSE]
Plain == {Group(5, <<Slice(0, 2), Slice(3, 2)>>), Group(12, <<Slice(1, 11)>>),
          Group(3, <<Slice(2, 2)>>)}

H264Slice(offset, size, intra) == [offset |-> offset, size |-> size, intra |-> intra]
H264Groups == {Group(5, <<H264Slice(0, 2, TRUE), H264Slice(3, 2, TRUE)>>),
               Group(12, <<H264Slice(1, 11, FALSE)>>), Group(3, <<H264Slice(4, 0, TRUE)>>)}

Scan(offset, size, scan, tables, restart) ==
    [offset |-> offset, size |-> size, scan |-> scan, tables |-> tables,
     restart |-> restart, usable |-> scan # 0]
JPEGGroups == {[Group(4, <<Scan(0, 2, 1, {0}, 3), Scan(2, 2, 1, {0}, 3)>>) EXCEPT !.eoi = TRUE],
               Group(4, <<Scan(0, 1, 1, {0}, 0), Scan(1, 3, 2, {0, 1}, 0)>>),
               Group(2, <<Scan(0, 3, 1, {0}, 0)>>), Group(2, <<Scan(0, 2, 0, {}, 0)>>),
               Group(25, <<Scan(0, 1, 1, {0}, 0)>>)}

Tile(offset, size, row, col) == [offset |-> offset, size |-> size, row |-> row, col |-> col]
Obu(type, header, payload) == [type |-> type, header |-> header, payload |-> payload]
Tiled(size, obus, slices) == [Group(size, slices) EXCEPT !.obus = obus]
AV1Groups ==
    {Tiled(12, <<Obu(2, 1, 1), Obu(3, 1, 2), Obu(4, 1, 6)>>,
           <<Tile(6, 2, 0, 1), Tile(9, 3, 1, 0), Tile(8, 1, 1, 1), Tile(5, 1, 0, 0)>>),
     Tiled(8, <<Obu(2, 1, 0), Obu(6, 1, 6)>>, <<Tile(3, 3, 0, 0), Tile(6, 2, 0, 1)>>),
     Tiled(5, <<Obu(6, 1, 3)>>, <<Tile(2, 3, 0, 1), Tile(1, 2, 0, 0)>>),
     Tiled(5, <<Obu(6, 1, 9)>>, <<Tile(1, 2, 0, 0), Tile(3, 2, 0, 0)>>),
     Tiled(26, <<>>, <<Tile(1, 1, 0, 0)>>)}

MCGroups == [c \in CodecNames |->
    CASE c = "H264" -> H264Groups
      [] c = "VP9" -> Plain \union {[Group(2, <<Slice(0, 2)>>) EXCEPT !.parses = FALSE]}
      [] c = "JPEG" -> JPEGGroups
      [] c = "AV1" -> AV1Groups
      [] OTHER -> Plain]

Picture(usable, intra) == [usable |-> usable, intra |-> intra]
MCPictures == [c \in CodecNames |->
    CASE c = "VP8" -> {[usable |-> u, key |-> k] : u, k \in BOOLEAN} \ {[usable |-> FALSE, key |-> TRUE]}
      [] c = "JPEG" -> {[usable |-> TRUE, tables |-> {0}], [usable |-> TRUE, tables |-> {0, 1}],
                        [usable |-> FALSE, tables |-> {0}]}
      [] c = "AV1" -> {[usable |-> TRUE, intra |-> TRUE, cols |-> 2, rows |-> 2],
                       [usable |-> TRUE, intra |-> FALSE, cols |-> 2, rows |-> 1],
                       [usable |-> TRUE, intra |-> FALSE, cols |-> 1, rows |-> 5],
                       [usable |-> FALSE, intra |-> TRUE, cols |-> 0, rows |-> 1]}
      [] OTHER -> {Picture(TRUE, TRUE), Picture(FALSE, FALSE)}]

MCMatrices == {<<1, 1>>, <<0, 2>>}
Quant(a, b) == [t \in 0 .. 3 |-> CASE t = 0 -> a [] t = 1 -> b [] OTHER -> 0]
MCTables == {[iq |-> TRUE, quant |-> q] : q \in {Quant(1, 0), Quant(0, 2), Quant(3, -1)}}
            \union {[iq |-> FALSE, huffman |-> [t \in 0 .. 1 |-> h[t + 1]]] : h \in {<<4, 0>>, <<0, 5>>, <<-1, 0>>}}
-----------------------------------------------------------------------------
VARIABLE sample

(* HEVC: three entries of the DPB, with equal and distinct POCs. *)
Frames == [idx : {-1, 4}, poc : {-1, 2}, long : {FALSE},
           flags : {{}, {"before"}, {"after"}, {"longterm"}, {"before", "after"}}]
          \union [idx : {4}, poc : {3}, long : {TRUE}, flags : {{"longterm"}, {"before"}}]

(* AV1: three references and a picture within one half of 8 hints. *)
Orders == {<<refs, order>> \in [1 .. 3 -> 5 .. 9] \X (5 .. 9) :
               \A i, j \in 1 .. 3 : refs[i] - refs[j] < 4 /\ refs[i] - order \in -3 .. 3}

Segments == {[enabled |-> e, data |-> d] : e \in BOOLEAN, d \in {-4, 0, 4}}

SampleInit ==
    \/ \E f \in [1 .. 3 -> Frames] : sample = [about |-> "references", frames |-> f]
    \/ \E o \in Orders, hint \in BOOLEAN :
          sample = [about |-> "skip", orders |-> o[1], order |-> o[2],
                    seq |-> [enable_order_hint |-> hint, order_hint_bits_minus1 |-> 2]]
    \/ \E width \in {1, 8, 64, 65, 200, 1000, 1920, 4096}, u \in BOOLEAN, k \in 0 .. 6, d \in {8, 9, 16} :
          sample = [about |-> "tiles", width |-> width, superres |-> d # 8, denominator |-> d,
                    use128 |-> u, log2 |-> k]
    \/ \E base \in {0, 4}, d \in {0, 1}, s \in [1 .. 2 -> Segments] :
          sample = [about |-> "lossless", deltas |-> <<0, d>>, base |-> base, segments |-> s]
    \/ \E side \in {4, 8} : sample = [about |-> "scan", side |-> side]
    \/ \E key, show \in BOOLEAN, v \in {0, 7, 8}, n \in {0, 255, 524287, 524288}, w \in {1, 16383, 16384} :
          sample = [about |-> "vp8", header |-> [key |-> key, show |-> show, version |-> v,
                                                 partition |-> n, width |-> w, height |-> 300]]

MCInit == Init /\ (sample = [about |-> "none"] \/ SampleInit)

MCNext == sample.about = "none" /\ Next /\ UNCHANGED sample

MCSpec == MCInit /\ [][MCNext]_<<vars, sample>>

(* The computed fields of a picture are what the standards ask for: HEVC   *)
(* reference sets in NVDEC's order, AV1 skip-mode frames across the wrap   *)
(* of the order hints, tile sizes recovered from the number of tiles, scan *)
(* tables, a VP8 header that reads back.                                   *)
CodecFieldsExact == sample.about # "none" => FieldsExact(sample)
=============================================================================
