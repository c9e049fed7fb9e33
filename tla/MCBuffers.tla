----------------------------- MODULE MCBuffers ------------------------------
(* Model values for Buffers: the table grows from one slot to three (the    *)
(* doubling is cut short by the maximum) and generations wrap; two size     *)
(* classes, of which the second is larger than the whole pool may be, one   *)
(* block kept of each, and a size without a class.  The samples of         *)
(* ImageLayout are further initial states, from which no step is taken.     *)
EXTENDS Buffers, ImageLayout

MCTypes == {"context", "buffer", "image"}
MCClassSizes == <<1, 3>>
-----------------------------------------------------------------------------
VARIABLE sample

Formats == {"NV12", "P010", "YUV444", "Q416", "ARGB"}

(* Two files of 12 and 6 bytes, one whose size is not known. *)
Files == [fd \in {3, 4, 5, 200} |-> CASE fd = 3 -> 12 [] fd = 4 -> 6 [] OTHER -> 0]

PlaneOf(object, offset, pitch) == [object |-> object, offset |-> offset, pitch |-> pitch]

Planes == {PlaneOf(o, f, p) : o \in {1, 2}, f \in {0, 4, 8, 128}, p \in {0, 2, 4}}

ObjectsOf == {<<[fd |-> 3, size |-> s]>> : s \in {0, 12, 13}}
             \union {<<[fd |-> 3, size |-> 8], [fd |-> f, size |-> s]>> : f \in {-1, 4, 5}, s \in {0, 2, 6}}

Prime2(layers, objects) == [memory |-> "prime 2", width |-> 2, height |-> 2, layers |-> layers, objects |-> objects]

Prime(planes, buffers, size, tiled) ==
    [memory |-> "prime", width |-> 2, height |-> 2, planes |-> planes, buffers |-> buffers,
     size |-> size, tiled |-> tiled]

Descriptors ==
    {Prime2(<<<<p, q>>>>, o) : p, q \in Planes, o \in ObjectsOf}
    \union {Prime2(<<<<p>>, layer>>, o) : p \in Planes, layer \in {<<>>, <<PlaneOf(1, 4, 4)>>}, o \in ObjectsOf}

Legacy == {Prime(<<p, q>>, b, s, t) : p, q \in Planes, b \in {<<3>>, <<3, 4>>, <<4, 200>>, <<3, 4, 3>>, <<>>},
                                      s \in {0, 6, 12}, t \in BOOLEAN}

SampleInit ==
    \/ \E f \in Formats, w \in {1, 3, 8, 9, 16, 40}, h \in {1, 2, 3, 5, 8, 12, 16, 24, 33, 48}, u \in BOOLEAN :
          sample = [about |-> "layout", format |-> f, width |-> w, height |-> h, unify |-> u]
    \/ \E f \in {"NV12", "Q416", "ARGB"}, s \in {3, 4}, d \in {2, 3, 20}, x, y \in -1 .. 2, w, h \in 0 .. 3 :
          sample = [about |-> "image", format |-> f, surface |-> [width |-> s, height |-> 3],
                    image |-> [width |-> d, height |-> 3], x |-> x, y |-> y, width |-> w, height |-> h]
    \/ \E d \in Descriptors, n \in {1, 2} :
          sample = [about |-> "import", format |-> "NV12", desc |-> d, index |-> n, n |-> n,
                    width |-> 2, height |-> 2, fdSize |-> Files]
    \/ \E d \in Legacy, n \in 1 .. 3 : \E i \in 1 .. n :
          sample = [about |-> "import", format |-> "NV12", desc |-> d, index |-> i, n |-> n,
                    width |-> 2, height |-> 2, fdSize |-> Files]

MCInit == BuffersInit /\ (sample = [about |-> "none"] \/ SampleInit)

MCNext == sample.about = "none" /\ BuffersNext /\ UNCHANGED sample

MCSpec == MCInit /\ [][MCNext]_<<allVars, sample>>

(* Image memory is laid out, read back and imported within its bounds: the *)
(* planes of a block-linear image do not overlap and share a modifier when *)
(* they share a buffer, a VA image is exactly as large as its planes, and  *)
(* an imported descriptor is accepted only if every row lies in its file.  *)
ImageMemorySound == sample.about # "none" => MemorySound(sample)
=============================================================================
