-------------------------- MODULE ImageLayoutProofs --------------------------
(***************************************************************************)
(* Proofs about ImageLayout, for every extent, every descriptor and every  *)
(* size of words, GOBs and alignments: that a block-linear layout keeps    *)
(* its planes apart and inside the allocation, that a VA image is exactly  *)
(* as large as its planes and read back inside them, and that an import is *)
(* accepted only if every row lies inside its file.                        *)
(*                                                                         *)
(* A format has at most three planes, so the folds over the planes are     *)
(* unrolled first; from there on each plane added keeps an invariant of    *)
(* the record built so far.                                                *)
(***************************************************************************)
EXTENDS MCBuffers, TLAPS

-----------------------------------------------------------------------------
(* The folds inside CreateImage, GetImage and ImageSound, with a name each. *)

AllImagePlanes(format, width, height) ==
    Seqs!FoldLeft(LAMBDA a, i : PutImagePlane(format, width, height, a, i), NoPlanes,
             [i \in 1 .. Len(FormatsInfo[format].planes) |-> i])
NoCopies == [next |-> 0, list |-> <<>>]
AllCopies(format, image, x, y, width, height) ==
    Seqs!FoldLeft(LAMBDA copies, i : CopyPlane(format, image, x, y, width, height, copies, i),
             NoCopies, [i \in 1 .. Len(FormatsInfo[format].planes) |-> i])
VisibleBytes(format, width, height) ==
    Seqs!FoldLeft(LAMBDA sum, i : sum + RowBytes(format, i, width) * Rows(format, i, height),
             0, [i \in 1 .. Len(FormatsInfo[format].planes) |-> i])

\* The largest of a set of numbers up to three, as the folds choose it.
LEMMA MaxOf ==
    ASSUME NEW n \in 1 .. 3, NEW s \in SUBSET (1 .. n), s # {}
    PROVE  /\ Seqs!Max(s) = IF 3 \in s THEN 3 ELSE IF 2 \in s THEN 2 ELSE 1
           /\ Seqs!Max(s) \in s /\ Seqs!Max(s) \in 1 .. n
           /\ \A e \in s : e = 1 \/ e = 2 \/ e = 3
<1> DEFINE m == IF 3 \in s THEN 3 ELSE IF 2 \in s THEN 2 ELSE 1
<1>1. \A e \in s : e = 1 \/ e = 2 \/ e = 3
  OBVIOUS
<1>2. m \in s
  BY <1>1
<1>3. \A y \in s : m >= y
  BY <1>1
<1>4. \A x \in s : (\A y \in s : x >= y) => x = m
  BY <1>1, <1>2, <1>3
<1> HIDE DEF m
<1>5. Seqs!Max(s) \in s /\ \A y \in s : Seqs!Max(s) >= y
  BY <1>2, <1>3 DEF Seqs!Max
<1>6. Seqs!Max(s) = m
  BY <1>4, <1>5
<1> QED
  BY <1>1, <1>5, <1>6 DEF m

\* The subsets of 1 .. n that a fold of n planes visits.
LEMMA PlanePrefixes ==
    ASSUME NEW n \in 1 .. 3
    PROVE  /\ {1} \in SUBSET (1 .. n) /\ Seqs!Max({1}) = 1 /\ {1} \ {1} = {}
           /\ n > 1 => {1, 2} \in SUBSET (1 .. n) /\ Seqs!Max({1, 2}) = 2 /\ {1, 2} \ {2} = {1}
           /\ n > 2 => {1, 2, 3} \in SUBSET (1 .. n) /\ Seqs!Max({1, 2, 3}) = 3
                         /\ {1, 2, 3} \ {3} = {1, 2}
           /\ 1 .. n = IF n = 1 THEN {1} ELSE IF n = 2 THEN {1, 2} ELSE {1, 2, 3}
<1>1. {1} \in SUBSET (1 .. n) /\ Seqs!Max({1}) = 1 /\ {1} \ {1} = {}
  BY MaxOf
<1>2. n > 1 => {1, 2} \in SUBSET (1 .. n) /\ Seqs!Max({1, 2}) = 2 /\ {1, 2} \ {2} = {1}
  BY MaxOf
<1>3. n > 2 => {1, 2, 3} \in SUBSET (1 .. n) /\ Seqs!Max({1, 2, 3}) = 3 /\ {1, 2, 3} \ {3} = {1, 2}
  BY MaxOf
<1>4. \A y : y \in 1 .. n <=> y \in (IF n = 1 THEN {1} ELSE IF n = 2 THEN {1, 2} ELSE {1, 2, 3})
  OBVIOUS
<1> QED
  BY <1>1, <1>2, <1>3, <1>4

\* The fold over the planes of a layout, unrolled.
LEMMA LayoutFold ==
    ASSUME NEW format, NEW width, NEW height, NEW unify, width # 0, height # 0,
           NEW n \in 1 .. 3, n = Len(FormatsInfo[format].planes)
    PROVE  LET P(a, i) == PutPlane(format, width, height, unify, a, i)
               one == P(NoPlanes, 1)
               two == P(one, 2)
           IN  UnifiedImageLayout(format, width, height, unify) =
                 IF n = 1 THEN one ELSE IF n = 2 THEN two ELSE P(two, 3)
<1> DEFINE P(a, i) == PutPlane(format, width, height, unify, a, i)
           Base == NoPlanes
           seq == [i \in 1 .. n |-> i]
           W(w) == w = [s \in SUBSET DOMAIN seq |-> IF s = {} THEN Base
                          ELSE P(w[s \ {Seqs!Max(s)}], seq[Seqs!Max(s)])]
<1>1. UnifiedImageLayout(format, width, height, unify) = (CHOOSE w : W(w))[DOMAIN seq]
  BY DEF UnifiedImageLayout, Seqs!FoldLeft, Seqs!MapThenFoldSet
<1> HIDE DEF P, Base
<1> DEFINE A(s) == IF 1 \in s THEN P(Base, 1) ELSE Base
           B(s) == IF 2 \in s THEN P(A(s), 2) ELSE A(s)
           C(s) == IF 3 \in s THEN P(B(s), 3) ELSE B(s)
           g == [s \in SUBSET (1 .. n) |-> C(s)]
<1>2. DOMAIN seq = 1 .. n /\ \A i \in 1 .. n : seq[i] = i
  OBVIOUS
<1> HIDE DEF seq
<1>3. W(g)
  <2>1. ASSUME NEW s \in SUBSET (1 .. n), s # {}
        PROVE  g[s] = P(g[s \ {Seqs!Max(s)}], seq[Seqs!Max(s)])
    <3>1. /\ Seqs!Max(s) = IF 3 \in s THEN 3 ELSE IF 2 \in s THEN 2 ELSE 1
          /\ Seqs!Max(s) \in s
          /\ \A e \in s : e = 1 \/ e = 2 \/ e = 3
      BY <2>1, MaxOf
    <3>2. s \ {Seqs!Max(s)} \in SUBSET (1 .. n) /\ seq[Seqs!Max(s)] = Seqs!Max(s)
      BY <1>2, <3>1
    <3>3. g[s] = C(s) /\ g[s \ {Seqs!Max(s)}] = C(s \ {Seqs!Max(s)})
      BY <3>2
    <3> HIDE DEF g
    <3>4. C(s) = P(C(s \ {Seqs!Max(s)}), Seqs!Max(s))
      BY <3>1
    <3> QED
      BY <3>2, <3>3, <3>4
  <2>2. g[{}] = Base
    OBVIOUS
  <2> DEFINE u == [s \in SUBSET DOMAIN seq |-> IF s = {} THEN Base
                     ELSE P(g[s \ {Seqs!Max(s)}], seq[Seqs!Max(s)])]
  <2>3. \A s \in SUBSET (1 .. n) : g[s] = u[s]
    BY <1>2, <2>1, <2>2
  <2> QED
    BY <1>2, <2>3, Zenon
<1> HIDE DEF g
<1>4. PICK w : w = (CHOOSE v : W(v)) /\ W(w)
  <2> HIDE DEF W
  <2> QED
    BY <1>3
<1>5. /\ w[{}] = Base
      /\ \A s \in SUBSET (1 .. n) : s # {} => w[s] = P(w[s \ {Seqs!Max(s)}], Seqs!Max(s))
  <2>1. \A s \in SUBSET (1 .. n) : w[s] = IF s = {} THEN Base ELSE P(w[s \ {Seqs!Max(s)}], seq[Seqs!Max(s)])
    BY <1>2, <1>4
  <2>2. \A s \in SUBSET (1 .. n) : s # {} => seq[Seqs!Max(s)] = Seqs!Max(s)
    BY <1>2, MaxOf
  <2> QED
    BY <2>1, <2>2
<1>6. /\ w[{1}] = P(Base, 1)
      /\ n > 1 => w[{1, 2}] = P(w[{1}], 2)
      /\ n > 2 => w[{1, 2, 3}] = P(w[{1, 2}], 3)
  <2>1. w[{1}] = P(Base, 1)
    <3>1. {1} \in SUBSET (1 .. n) /\ Seqs!Max({1}) = 1 /\ {1} \ {1} = {}
      BY PlanePrefixes
    <3> QED
      BY <1>5, <3>1
  <2>2. n > 1 => w[{1, 2}] = P(w[{1}], 2)
    <3>1. n > 1 => {1, 2} \in SUBSET (1 .. n) /\ Seqs!Max({1, 2}) = 2 /\ {1, 2} \ {2} = {1}
      BY PlanePrefixes
    <3> QED
      BY <1>5, <3>1
  <2>3. n > 2 => w[{1, 2, 3}] = P(w[{1, 2}], 3)
    <3>1. n > 2 => {1, 2, 3} \in SUBSET (1 .. n) /\ Seqs!Max({1, 2, 3}) = 3
                     /\ {1, 2, 3} \ {3} = {1, 2}
      BY PlanePrefixes
    <3> QED
      BY <1>5, <3>1
  <2> QED
    BY <2>1, <2>2, <2>3
<1>7. UnifiedImageLayout(format, width, height, unify) = w[1 .. n]
  BY <1>1, <1>2, <1>4
<1>8. w[1 .. n] = IF n = 1 THEN w[{1}] ELSE IF n = 2 THEN w[{1, 2}] ELSE w[{1, 2, 3}]
  BY PlanePrefixes
<1>9. UnifiedImageLayout(format, width, height, unify) =
        IF n = 1 THEN P(Base, 1) ELSE IF n = 2 THEN P(P(Base, 1), 2) ELSE P(P(P(Base, 1), 2), 3)
  <2>1. CASE n = 1
    BY <1>6, <1>7, <1>8, <2>1
  <2>2. CASE n = 2
    BY <1>6, <1>7, <1>8, <2>2
  <2>3. CASE n = 3
    BY <1>6, <1>7, <1>8, <2>3
  <2> QED
    BY <2>1, <2>2, <2>3
<1> QED
  BY <1>9 DEF P, Base

\* The fold over the planes of a VA image, unrolled.
LEMMA ImageFold ==
    ASSUME NEW format, NEW width, NEW height,
           NEW n \in 1 .. 3, n = Len(FormatsInfo[format].planes)
    PROVE  LET P(a, i) == PutImagePlane(format, width, height, a, i)
               one == P(NoPlanes, 1)
               two == P(one, 2)
           IN  AllImagePlanes(format, width, height) =
                 IF n = 1 THEN one ELSE IF n = 2 THEN two ELSE P(two, 3)
<1> DEFINE P(a, i) == PutImagePlane(format, width, height, a, i)
           Base == NoPlanes
           seq == [i \in 1 .. n |-> i]
           W(w) == w = [s \in SUBSET DOMAIN seq |-> IF s = {} THEN Base
                          ELSE P(w[s \ {Seqs!Max(s)}], seq[Seqs!Max(s)])]
<1>1. AllImagePlanes(format, width, height) = (CHOOSE w : W(w))[DOMAIN seq]
  BY DEF AllImagePlanes, Seqs!FoldLeft, Seqs!MapThenFoldSet
<1> HIDE DEF P, Base
<1> DEFINE A(s) == IF 1 \in s THEN P(Base, 1) ELSE Base
           B(s) == IF 2 \in s THEN P(A(s), 2) ELSE A(s)
           C(s) == IF 3 \in s THEN P(B(s), 3) ELSE B(s)
           g == [s \in SUBSET (1 .. n) |-> C(s)]
<1>2. DOMAIN seq = 1 .. n /\ \A i \in 1 .. n : seq[i] = i
  OBVIOUS
<1> HIDE DEF seq
<1>3. W(g)
  <2>1. ASSUME NEW s \in SUBSET (1 .. n), s # {}
        PROVE  g[s] = P(g[s \ {Seqs!Max(s)}], seq[Seqs!Max(s)])
    <3>1. /\ Seqs!Max(s) = IF 3 \in s THEN 3 ELSE IF 2 \in s THEN 2 ELSE 1
          /\ Seqs!Max(s) \in s
          /\ \A e \in s : e = 1 \/ e = 2 \/ e = 3
      BY <2>1, MaxOf
    <3>2. s \ {Seqs!Max(s)} \in SUBSET (1 .. n) /\ seq[Seqs!Max(s)] = Seqs!Max(s)
      BY <1>2, <3>1
    <3>3. g[s] = C(s) /\ g[s \ {Seqs!Max(s)}] = C(s \ {Seqs!Max(s)})
      BY <3>2
    <3> HIDE DEF g
    <3>4. C(s) = P(C(s \ {Seqs!Max(s)}), Seqs!Max(s))
      BY <3>1
    <3> QED
      BY <3>2, <3>3, <3>4
  <2>2. g[{}] = Base
    OBVIOUS
  <2> DEFINE u == [s \in SUBSET DOMAIN seq |-> IF s = {} THEN Base
                     ELSE P(g[s \ {Seqs!Max(s)}], seq[Seqs!Max(s)])]
  <2>3. \A s \in SUBSET (1 .. n) : g[s] = u[s]
    BY <1>2, <2>1, <2>2
  <2> QED
    BY <1>2, <2>3, Zenon
<1> HIDE DEF g
<1>4. PICK w : w = (CHOOSE v : W(v)) /\ W(w)
  <2> HIDE DEF W
  <2> QED
    BY <1>3
<1>5. /\ w[{}] = Base
      /\ \A s \in SUBSET (1 .. n) : s # {} => w[s] = P(w[s \ {Seqs!Max(s)}], Seqs!Max(s))
  <2>1. \A s \in SUBSET (1 .. n) : w[s] = IF s = {} THEN Base ELSE P(w[s \ {Seqs!Max(s)}], seq[Seqs!Max(s)])
    BY <1>2, <1>4
  <2>2. \A s \in SUBSET (1 .. n) : s # {} => seq[Seqs!Max(s)] = Seqs!Max(s)
    BY <1>2, MaxOf
  <2> QED
    BY <2>1, <2>2
<1>6. /\ w[{1}] = P(Base, 1)
      /\ n > 1 => w[{1, 2}] = P(w[{1}], 2)
      /\ n > 2 => w[{1, 2, 3}] = P(w[{1, 2}], 3)
  <2>1. w[{1}] = P(Base, 1)
    <3>1. {1} \in SUBSET (1 .. n) /\ Seqs!Max({1}) = 1 /\ {1} \ {1} = {}
      BY PlanePrefixes
    <3> QED
      BY <1>5, <3>1
  <2>2. n > 1 => w[{1, 2}] = P(w[{1}], 2)
    <3>1. n > 1 => {1, 2} \in SUBSET (1 .. n) /\ Seqs!Max({1, 2}) = 2 /\ {1, 2} \ {2} = {1}
      BY PlanePrefixes
    <3> QED
      BY <1>5, <3>1
  <2>3. n > 2 => w[{1, 2, 3}] = P(w[{1, 2}], 3)
    <3>1. n > 2 => {1, 2, 3} \in SUBSET (1 .. n) /\ Seqs!Max({1, 2, 3}) = 3
                     /\ {1, 2, 3} \ {3} = {1, 2}
      BY PlanePrefixes
    <3> QED
      BY <1>5, <3>1
  <2> QED
    BY <2>1, <2>2, <2>3
<1>7. AllImagePlanes(format, width, height) = w[1 .. n]
  BY <1>1, <1>2, <1>4
<1>8. w[1 .. n] = IF n = 1 THEN w[{1}] ELSE IF n = 2 THEN w[{1, 2}] ELSE w[{1, 2, 3}]
  BY PlanePrefixes
<1>9. AllImagePlanes(format, width, height) =
        IF n = 1 THEN P(Base, 1) ELSE IF n = 2 THEN P(P(Base, 1), 2) ELSE P(P(P(Base, 1), 2), 3)
  <2>1. CASE n = 1
    BY <1>6, <1>7, <1>8, <2>1
  <2>2. CASE n = 2
    BY <1>6, <1>7, <1>8, <2>2
  <2>3. CASE n = 3
    BY <1>6, <1>7, <1>8, <2>3
  <2> QED
    BY <2>1, <2>2, <2>3
<1> QED
  BY <1>9 DEF P, Base

\* The fold over the planes that nvGetImage copies, unrolled.
LEMMA CopyFold ==
    ASSUME NEW format, NEW image, NEW x, NEW y, NEW width, NEW height,
           NEW n \in 1 .. 3, n = Len(FormatsInfo[format].planes)
    PROVE  LET P(a, i) == CopyPlane(format, image, x, y, width, height, a, i)
               one == P(NoCopies, 1)
               two == P(one, 2)
           IN  AllCopies(format, image, x, y, width, height) =
                 IF n = 1 THEN one ELSE IF n = 2 THEN two ELSE P(two, 3)
<1> DEFINE P(a, i) == CopyPlane(format, image, x, y, width, height, a, i)
           Base == NoCopies
           seq == [i \in 1 .. n |-> i]
           W(w) == w = [s \in SUBSET DOMAIN seq |-> IF s = {} THEN Base
                          ELSE P(w[s \ {Seqs!Max(s)}], seq[Seqs!Max(s)])]
<1>1. AllCopies(format, image, x, y, width, height) = (CHOOSE w : W(w))[DOMAIN seq]
  BY DEF AllCopies, Seqs!FoldLeft, Seqs!MapThenFoldSet
<1> HIDE DEF P, Base
<1> DEFINE A(s) == IF 1 \in s THEN P(Base, 1) ELSE Base
           B(s) == IF 2 \in s THEN P(A(s), 2) ELSE A(s)
           C(s) == IF 3 \in s THEN P(B(s), 3) ELSE B(s)
           g == [s \in SUBSET (1 .. n) |-> C(s)]
<1>2. DOMAIN seq = 1 .. n /\ \A i \in 1 .. n : seq[i] = i
  OBVIOUS
<1> HIDE DEF seq
<1>3. W(g)
  <2>1. ASSUME NEW s \in SUBSET (1 .. n), s # {}
        PROVE  g[s] = P(g[s \ {Seqs!Max(s)}], seq[Seqs!Max(s)])
    <3>1. /\ Seqs!Max(s) = IF 3 \in s THEN 3 ELSE IF 2 \in s THEN 2 ELSE 1
          /\ Seqs!Max(s) \in s
          /\ \A e \in s : e = 1 \/ e = 2 \/ e = 3
      BY <2>1, MaxOf
    <3>2. s \ {Seqs!Max(s)} \in SUBSET (1 .. n) /\ seq[Seqs!Max(s)] = Seqs!Max(s)
      BY <1>2, <3>1
    <3>3. g[s] = C(s) /\ g[s \ {Seqs!Max(s)}] = C(s \ {Seqs!Max(s)})
      BY <3>2
    <3> HIDE DEF g
    <3>4. C(s) = P(C(s \ {Seqs!Max(s)}), Seqs!Max(s))
      BY <3>1
    <3> QED
      BY <3>2, <3>3, <3>4
  <2>2. g[{}] = Base
    OBVIOUS
  <2> DEFINE u == [s \in SUBSET DOMAIN seq |-> IF s = {} THEN Base
                     ELSE P(g[s \ {Seqs!Max(s)}], seq[Seqs!Max(s)])]
  <2>3. \A s \in SUBSET (1 .. n) : g[s] = u[s]
    BY <1>2, <2>1, <2>2
  <2> QED
    BY <1>2, <2>3, Zenon
<1> HIDE DEF g
<1>4. PICK w : w = (CHOOSE v : W(v)) /\ W(w)
  <2> HIDE DEF W
  <2> QED
    BY <1>3
<1>5. /\ w[{}] = Base
      /\ \A s \in SUBSET (1 .. n) : s # {} => w[s] = P(w[s \ {Seqs!Max(s)}], Seqs!Max(s))
  <2>1. \A s \in SUBSET (1 .. n) : w[s] = IF s = {} THEN Base ELSE P(w[s \ {Seqs!Max(s)}], seq[Seqs!Max(s)])
    BY <1>2, <1>4
  <2>2. \A s \in SUBSET (1 .. n) : s # {} => seq[Seqs!Max(s)] = Seqs!Max(s)
    BY <1>2, MaxOf
  <2> QED
    BY <2>1, <2>2
<1>6. /\ w[{1}] = P(Base, 1)
      /\ n > 1 => w[{1, 2}] = P(w[{1}], 2)
      /\ n > 2 => w[{1, 2, 3}] = P(w[{1, 2}], 3)
  <2>1. w[{1}] = P(Base, 1)
    <3>1. {1} \in SUBSET (1 .. n) /\ Seqs!Max({1}) = 1 /\ {1} \ {1} = {}
      BY PlanePrefixes
    <3> QED
      BY <1>5, <3>1
  <2>2. n > 1 => w[{1, 2}] = P(w[{1}], 2)
    <3>1. n > 1 => {1, 2} \in SUBSET (1 .. n) /\ Seqs!Max({1, 2}) = 2 /\ {1, 2} \ {2} = {1}
      BY PlanePrefixes
    <3> QED
      BY <1>5, <3>1
  <2>3. n > 2 => w[{1, 2, 3}] = P(w[{1, 2}], 3)
    <3>1. n > 2 => {1, 2, 3} \in SUBSET (1 .. n) /\ Seqs!Max({1, 2, 3}) = 3
                     /\ {1, 2, 3} \ {3} = {1, 2}
      BY PlanePrefixes
    <3> QED
      BY <1>5, <3>1
  <2> QED
    BY <2>1, <2>2, <2>3
<1>7. AllCopies(format, image, x, y, width, height) = w[1 .. n]
  BY <1>1, <1>2, <1>4
<1>8. w[1 .. n] = IF n = 1 THEN w[{1}] ELSE IF n = 2 THEN w[{1, 2}] ELSE w[{1, 2, 3}]
  BY PlanePrefixes
<1>9. AllCopies(format, image, x, y, width, height) =
        IF n = 1 THEN P(Base, 1) ELSE IF n = 2 THEN P(P(Base, 1), 2) ELSE P(P(P(Base, 1), 2), 3)
  <2>1. CASE n = 1
    BY <1>6, <1>7, <1>8, <2>1
  <2>2. CASE n = 2
    BY <1>6, <1>7, <1>8, <2>2
  <2>3. CASE n = 3
    BY <1>6, <1>7, <1>8, <2>3
  <2> QED
    BY <2>1, <2>2, <2>3
<1> QED
  BY <1>9 DEF P, Base

\* The sum of the bytes of the planes of an image, unrolled.
LEMMA BytesFold ==
    ASSUME NEW format, NEW width, NEW height,
           NEW n \in 1 .. 3, n = Len(FormatsInfo[format].planes)
    PROVE  LET P(a, i) == a + RowBytes(format, i, width) * Rows(format, i, height)
               one == P(0, 1)
               two == P(one, 2)
           IN  VisibleBytes(format, width, height) =
                 IF n = 1 THEN one ELSE IF n = 2 THEN two ELSE P(two, 3)
<1> DEFINE P(a, i) == a + RowBytes(format, i, width) * Rows(format, i, height)
           Base == 0
           seq == [i \in 1 .. n |-> i]
           W(w) == w = [s \in SUBSET DOMAIN seq |-> IF s = {} THEN Base
                          ELSE P(w[s \ {Seqs!Max(s)}], seq[Seqs!Max(s)])]
<1>1. VisibleBytes(format, width, height) = (CHOOSE w : W(w))[DOMAIN seq]
  BY DEF VisibleBytes, Seqs!FoldLeft, Seqs!MapThenFoldSet
<1> HIDE DEF P, Base
<1> DEFINE A(s) == IF 1 \in s THEN P(Base, 1) ELSE Base
           B(s) == IF 2 \in s THEN P(A(s), 2) ELSE A(s)
           C(s) == IF 3 \in s THEN P(B(s), 3) ELSE B(s)
           g == [s \in SUBSET (1 .. n) |-> C(s)]
<1>2. DOMAIN seq = 1 .. n /\ \A i \in 1 .. n : seq[i] = i
  OBVIOUS
<1> HIDE DEF seq
<1>3. W(g)
  <2>1. ASSUME NEW s \in SUBSET (1 .. n), s # {}
        PROVE  g[s] = P(g[s \ {Seqs!Max(s)}], seq[Seqs!Max(s)])
    <3>1. /\ Seqs!Max(s) = IF 3 \in s THEN 3 ELSE IF 2 \in s THEN 2 ELSE 1
          /\ Seqs!Max(s) \in s
          /\ \A e \in s : e = 1 \/ e = 2 \/ e = 3
      BY <2>1, MaxOf
    <3>2. s \ {Seqs!Max(s)} \in SUBSET (1 .. n) /\ seq[Seqs!Max(s)] = Seqs!Max(s)
      BY <1>2, <3>1
    <3>3. g[s] = C(s) /\ g[s \ {Seqs!Max(s)}] = C(s \ {Seqs!Max(s)})
      BY <3>2
    <3> HIDE DEF g
    <3>4. C(s) = P(C(s \ {Seqs!Max(s)}), Seqs!Max(s))
      BY <3>1
    <3> QED
      BY <3>2, <3>3, <3>4
  <2>2. g[{}] = Base
    OBVIOUS
  <2> DEFINE u == [s \in SUBSET DOMAIN seq |-> IF s = {} THEN Base
                     ELSE P(g[s \ {Seqs!Max(s)}], seq[Seqs!Max(s)])]
  <2>3. \A s \in SUBSET (1 .. n) : g[s] = u[s]
    BY <1>2, <2>1, <2>2
  <2> QED
    BY <1>2, <2>3, Zenon
<1> HIDE DEF g
<1>4. PICK w : w = (CHOOSE v : W(v)) /\ W(w)
  <2> HIDE DEF W
  <2> QED
    BY <1>3
<1>5. /\ w[{}] = Base
      /\ \A s \in SUBSET (1 .. n) : s # {} => w[s] = P(w[s \ {Seqs!Max(s)}], Seqs!Max(s))
  <2>1. \A s \in SUBSET (1 .. n) : w[s] = IF s = {} THEN Base ELSE P(w[s \ {Seqs!Max(s)}], seq[Seqs!Max(s)])
    BY <1>2, <1>4
  <2>2. \A s \in SUBSET (1 .. n) : s # {} => seq[Seqs!Max(s)] = Seqs!Max(s)
    BY <1>2, MaxOf
  <2> QED
    BY <2>1, <2>2
<1>6. /\ w[{1}] = P(Base, 1)
      /\ n > 1 => w[{1, 2}] = P(w[{1}], 2)
      /\ n > 2 => w[{1, 2, 3}] = P(w[{1, 2}], 3)
  <2>1. w[{1}] = P(Base, 1)
    <3>1. {1} \in SUBSET (1 .. n) /\ Seqs!Max({1}) = 1 /\ {1} \ {1} = {}
      BY PlanePrefixes
    <3> QED
      BY <1>5, <3>1
  <2>2. n > 1 => w[{1, 2}] = P(w[{1}], 2)
    <3>1. n > 1 => {1, 2} \in SUBSET (1 .. n) /\ Seqs!Max({1, 2}) = 2 /\ {1, 2} \ {2} = {1}
      BY PlanePrefixes
    <3> QED
      BY <1>5, <3>1
  <2>3. n > 2 => w[{1, 2, 3}] = P(w[{1, 2}], 3)
    <3>1. n > 2 => {1, 2, 3} \in SUBSET (1 .. n) /\ Seqs!Max({1, 2, 3}) = 3
                     /\ {1, 2, 3} \ {3} = {1, 2}
      BY PlanePrefixes
    <3> QED
      BY <1>5, <3>1
  <2> QED
    BY <2>1, <2>2, <2>3
<1>7. VisibleBytes(format, width, height) = w[1 .. n]
  BY <1>1, <1>2, <1>4
<1>8. w[1 .. n] = IF n = 1 THEN w[{1}] ELSE IF n = 2 THEN w[{1, 2}] ELSE w[{1, 2, 3}]
  BY PlanePrefixes
<1>9. VisibleBytes(format, width, height) =
        IF n = 1 THEN P(Base, 1) ELSE IF n = 2 THEN P(P(Base, 1), 2) ELSE P(P(P(Base, 1), 2), 3)
  <2>1. CASE n = 1
    BY <1>6, <1>7, <1>8, <2>1
  <2>2. CASE n = 2
    BY <1>6, <1>7, <1>8, <2>2
  <2>3. CASE n = 3
    BY <1>6, <1>7, <1>8, <2>3
  <2> QED
    BY <2>1, <2>2, <2>3
<1> QED
  BY <1>9 DEF P, Base

-----------------------------------------------------------------------------
(* Numbers *)

\* Division, as far as the limits of the code need it.
LEMMA Division ==
    ASSUME NEW a \in Int, NEW m \in Nat \ {0}
    PROVE  a \div m \in Int /\ m * (a \div m) <= a /\ a < m * (a \div m) + m
OBVIOUS

\* A multiple leaves no remainder.
LEMMA MultipleMod ==
    ASSUME NEW q \in Int, NEW m \in Nat \ {0}
    PROVE  (q * m) % m = 0 /\ (m * q) % m = 0
OBVIOUS

\* Products grow with their factors.
LEMMA TimesMonotone ==
    ASSUME NEW a \in Int, NEW b \in Int, a <= b, NEW m \in Nat
    PROVE  a * m \in Int /\ b * m \in Int /\ a * m <= b * m
OBVIOUS

\* A product is no smaller than its factors, unless one of them is zero.
LEMMA TimesNat ==
    ASSUME NEW a \in Nat, NEW b \in Nat
    PROVE  a * b \in Nat /\ (a # 0 /\ b # 0 => a * b # 0 /\ a <= a * b /\ b <= a * b)
OBVIOUS

\* Rounding up to a multiple.
LEMMA RoundUpFacts ==
    ASSUME NEW n \in Nat, NEW m \in Nat \ {0}
    PROVE  /\ RoundUp(n, m) \in Nat /\ n <= RoundUp(n, m) /\ RoundUp(n, m) < n + m
           /\ RoundUp(n, m) % m = 0
           /\ \E q \in Nat : RoundUp(n, m) = q * m
<1> DEFINE q == (n + m - 1) \div m
<1>1. q \in Int /\ m * q <= n + m - 1 /\ n + m - 1 < m * q + m
  BY Division
<1>2. q >= 0
  <2>1. q \in Nat \/ -q \in Nat \ {0}
    BY <1>1
  <2>2. ASSUME -q \in Nat \ {0} PROVE FALSE
    <3>1. m * q <= -m
      BY <1>1, <2>2
    <3> QED
      BY <1>1, <3>1
  <2> QED
    BY <1>1, <2>1, <2>2
<1>3. RoundUp(n, m) = q * m
  BY DEF RoundUp
<1> HIDE DEF q
<1>4. q * m = m * q /\ q * m \in Nat /\ (q * m) % m = 0
  BY <1>1, <1>2, MultipleMod, TimesNat
<1> QED
  BY <1>1, <1>2, <1>3, <1>4

\* The block heights, one by one.
LEMMA Powers ==
    /\ 2 ^ 0 = 1 /\ 2 ^ 1 = 2 /\ 2 ^ 2 = 4 /\ 2 ^ 3 = 8 /\ 2 ^ 4 = 16
    /\ \A k \in 0 .. 4 : 2 ^ k \in 1 .. 16
    /\ \A k \in 1 .. 4 : 2 ^ k = 2 * 2 ^ (k - 1)
    /\ \A k \in 0 .. 4 : \A j \in 0 .. 4 : k <= j => 2 ^ k <= 2 ^ j
<1>1. 2 ^ 0 = 1 /\ 2 ^ 1 = 2 /\ 2 ^ 2 = 4 /\ 2 ^ 3 = 8 /\ 2 ^ 4 = 16
  OBVIOUS
<1> DEFINE p == [k \in 0 .. 4 |-> 2 ^ k]
<1>2. \A k \in 0 .. 4 : p[k] = 2 ^ k
  BY Zenon
<1>3. p[0] = 1 /\ p[1] = 2 /\ p[2] = 4 /\ p[3] = 8 /\ p[4] = 16
  BY <1>1
<1> HIDE DEF p
<1>4. \A k \in 0 .. 4 : k = 0 \/ k = 1 \/ k = 2 \/ k = 3 \/ k = 4
  OBVIOUS
<1>5. \A k \in 0 .. 4 : p[k] \in 1 .. 16
  BY <1>3, <1>4
<1>6. \A k \in 1 .. 4 : p[k] = 2 * p[k - 1]
  BY <1>3, <1>4
<1>7. \A k \in 0 .. 4 : \A j \in 0 .. 4 : k <= j => p[k] <= p[j]
  BY <1>3, <1>4
<1>8. \A k \in 1 .. 4 : k \in 0 .. 4 /\ k - 1 \in 0 .. 4
  OBVIOUS
<1>9. \A k \in 1 .. 4 : 2 ^ k = 2 * 2 ^ (k - 1)
  <2> SUFFICES ASSUME NEW k \in 1 .. 4 PROVE 2 ^ k = 2 * 2 ^ (k - 1)
    OBVIOUS
  <2>1. p[k] = 2 ^ k /\ p[k - 1] = 2 ^ (k - 1)
    BY <1>2, <1>8
  <2>2. p[k] = 2 * p[k - 1]
    BY <1>6
  <2> QED
    BY <2>1, <2>2
<1> QED
  BY <1>1, <1>2, <1>5, <1>7, <1>9

\* The block heights, for a caller.
LEMMA PowerFacts ==
    ASSUME NEW k \in 0 .. 4
    PROVE  /\ 2 ^ k \in Nat \ {0}
           /\ \A j \in 0 .. 4 : k <= j => 2 ^ j \in Nat /\ 2 ^ k <= 2 ^ j
           /\ k # 0 => k - 1 \in 0 .. 4 /\ 2 ^ k = 2 * 2 ^ (k - 1)
<1>1. 2 ^ k \in 1 .. 16 /\ \A j \in 0 .. 4 : k <= j => 2 ^ k <= 2 ^ j
  BY Powers, Zenon
<1>2. \A j \in 0 .. 4 : 2 ^ j \in 1 .. 16
  BY Powers, Zenon
<1>3. k # 0 => k \in 1 .. 4 /\ k - 1 \in 0 .. 4
  OBVIOUS
<1>4. k # 0 => 2 ^ k = 2 * 2 ^ (k - 1)
  BY <1>3, Powers, Zenon
<1>5. \A j : j \in 1 .. 16 => j \in Nat \ {0}
  OBVIOUS
<1> QED
  BY <1>1, <1>2, <1>3, <1>4, <1>5, Zenon

-----------------------------------------------------------------------------
(* Block heights *)

\* The largest number up to c at which f is false, or zero.
LEMMA LastFalse ==
    ASSUME NEW c \in 0 .. 4, NEW f \in [1 .. 4 -> BOOLEAN]
    PROVE  \E k \in 0 .. c : (k = 0 \/ ~f[k]) /\ \A j \in k + 1 .. c : f[j]
<1> DEFINE Is(k) == k \in 0 .. c /\ (k = 0 \/ ~f[k]) /\ \A j \in k + 1 .. c : f[j]
<1>1. c = 0 \/ c = 1 \/ c = 2 \/ c = 3 \/ c = 4
  OBVIOUS
<1>2. CASE c = 0
  BY <1>2
<1>3. CASE c = 1
  BY <1>3
<1>4. CASE c = 2
  <2>1. Is(2) \/ Is(1) \/ Is(0)
    BY <1>4
  <2> QED
    BY <2>1
<1>5. CASE c = 3
  <2>1. Is(3) \/ Is(2) \/ Is(1) \/ Is(0)
    BY <1>5
  <2> QED
    BY <2>1
<1>6. CASE c = 4
  <2>1. Is(4) \/ Is(3) \/ Is(2) \/ Is(1) \/ Is(0)
    BY <1>6
  <2> QED
    BY <2>1
<1> QED
  BY <1>1, <1>2, <1>3, <1>4, <1>5, <1>6

\* What the two loops of calculate_log2_gobs_per_block_y leave.
LEMMA HeightFacts ==
    ASSUME NEW h \in Nat
    PROVE  LET k == Log2GobsPerBlockY(h)
           IN  /\ k \in 0 .. 4
               /\ k # 0 => /\ GobHeight * 2 ^ (k - 1) < h
                           /\ GobHeight * 2 ^ k <= h + h \div 2
               /\ \A j \in k + 1 .. 4 : \/ GobHeight * 2 ^ j > h + h \div 2
                                        \/ GobHeight * 2 ^ (j - 1) >= h
<1> DEFINE Capped(k) == GobHeight * 2 ^ k > h + h \div 2
           Halved(k) == GobHeight * 2 ^ (k - 1) >= h
           IsCap(k) == (k = 0 \/ ~Capped(k)) /\ \A j \in k + 1 .. 4 : Capped(j)
           capped == CHOOSE k \in 0 .. 4 : IsCap(k)
           IsHalf(k) == (k = 0 \/ ~Halved(k)) /\ \A j \in k + 1 .. capped : Halved(j)
           K == CHOOSE k \in 0 .. capped : IsHalf(k)
<1>0. GobHeight \in Nat \ {0} /\ h + h \div 2 \in Nat
  BY WordsAssumption, Division
<1>1. Log2GobsPerBlockY(h) = K
  BY DEF Log2GobsPerBlockY
<1>2. \A k \in 1 .. 4 : Capped(k) \in BOOLEAN /\ Halved(k) \in BOOLEAN
  OBVIOUS
<1> HIDE DEF Capped, Halved
<1>3. \E k \in 0 .. 4 : IsCap(k)
  <2> DEFINE f == [j \in 1 .. 4 |-> Capped(j)]
  <2>1. f \in [1 .. 4 -> BOOLEAN]
    BY <1>2
  <2>2. \A j \in 1 .. 4 : f[j] = Capped(j)
    OBVIOUS
  <2> HIDE DEF f
  <2>3. PICK k \in 0 .. 4 : (k = 0 \/ ~f[k]) /\ \A j \in k + 1 .. 4 : f[j]
    BY <2>1, LastFalse
  <2> QED
    BY <2>2, <2>3
<1>4. capped \in 0 .. 4 /\ IsCap(capped)
  <2> HIDE DEF IsCap
  <2> QED
    BY <1>3
<1> HIDE DEF capped
<1>5. \E k \in 0 .. capped : IsHalf(k)
  <2> DEFINE f == [j \in 1 .. 4 |-> Halved(j)]
  <2>1. f \in [1 .. 4 -> BOOLEAN]
    BY <1>2
  <2>2. \A j \in 1 .. 4 : f[j] = Halved(j)
    OBVIOUS
  <2> HIDE DEF f
  <2>3. PICK k \in 0 .. capped : (k = 0 \/ ~f[k]) /\ \A j \in k + 1 .. capped : f[j]
    BY <1>4, <2>1, LastFalse
  <2> QED
    BY <1>4, <2>2, <2>3
<1>6. K \in 0 .. capped /\ IsHalf(K)
  <2> HIDE DEF IsHalf
  <2> QED
    BY <1>5
<1> HIDE DEF K
<1>7. K \in 0 .. 4
  BY <1>4, <1>6
<1>8. K # 0 => ~Halved(K)
  BY <1>6
<1>9. K # 0 => capped # 0 /\ ~Capped(capped) /\ K <= capped
  BY <1>4, <1>6
<1>10. \A j \in K + 1 .. 4 : Capped(j) \/ Halved(j)
  BY <1>4, <1>6, <1>7
<1>11. K # 0 => GobHeight * 2 ^ (K - 1) < h
  <2> SUFFICES ASSUME K # 0 PROVE GobHeight * 2 ^ (K - 1) < h
    OBVIOUS
  <2>1. 2 ^ (K - 1) \in Nat
    <3>1. K - 1 \in 0 .. 4
      BY <1>7
    <3> QED
      BY <3>1, PowerFacts
  <2>2. GobHeight * 2 ^ (K - 1) \in Nat
    BY <1>0, <2>1, TimesNat
  <2> QED
    BY <1>8, <2>2 DEF Halved
<1>12. K # 0 => GobHeight * 2 ^ K <= h + h \div 2
  <2> SUFFICES ASSUME K # 0 PROVE GobHeight * 2 ^ K <= h + h \div 2
    OBVIOUS
  <2>1. 2 ^ K \in Nat /\ 2 ^ capped \in Nat /\ 2 ^ K <= 2 ^ capped
    BY <1>4, <1>7, <1>9, PowerFacts
  <2>2. /\ GobHeight * 2 ^ K \in Nat /\ GobHeight * 2 ^ capped \in Nat
        /\ GobHeight * 2 ^ K <= GobHeight * 2 ^ capped
    BY <1>0, <2>1
  <2>3. ~Capped(capped)
    BY <1>9
  <2> QED
    BY <1>0, <2>2, <2>3 DEF Capped
<1> QED
  BY <1>1, <1>7, <1>10, <1>11, <1>12 DEF Capped, Halved

\* A higher image has blocks at least as high.
LEMMA HeightMonotone ==
    ASSUME NEW h1 \in Nat, NEW h2 \in Nat, h1 <= h2
    PROVE  Log2GobsPerBlockY(h1) <= Log2GobsPerBlockY(h2)
<1> DEFINE a == Log2GobsPerBlockY(h1)
           b == Log2GobsPerBlockY(h2)
<1>1. /\ a \in 0 .. 4
      /\ a # 0 => GobHeight * 2 ^ (a - 1) < h1 /\ GobHeight * 2 ^ a <= h1 + h1 \div 2
  BY HeightFacts
<1>2. /\ b \in 0 .. 4
      /\ \A j \in b + 1 .. 4 : GobHeight * 2 ^ j > h2 + h2 \div 2 \/ GobHeight * 2 ^ (j - 1) >= h2
  BY HeightFacts
<1> HIDE DEF a, b
<1> SUFFICES ASSUME a > b PROVE FALSE
  BY <1>1, <1>2 DEF a, b
<1>3. a # 0 /\ a \in b + 1 .. 4 /\ a - 1 \in 0 .. 4
  BY <1>1, <1>2
<1>4. GobHeight \in Nat /\ 2 ^ a \in Nat /\ 2 ^ (a - 1) \in Nat
  BY <1>1, <1>3, PowerFacts, WordsAssumption
<1>5. GobHeight * 2 ^ a \in Nat /\ GobHeight * 2 ^ (a - 1) \in Nat
  BY <1>4, TimesNat
<1>6. h1 \div 2 \in Int /\ h2 \div 2 \in Int /\ h1 \div 2 <= h2 \div 2
  OBVIOUS
<1> QED
  BY <1>1, <1>2, <1>3, <1>5, <1>6

\* A natural block height pads an image to less than twice its rows, unless
\* it is smaller than a GOB.
LEMMA PaddingFacts ==
    ASSUME NEW h \in Nat \ {0}
    PROVE  LET aligned == RoundUp(h, GobHeight * 2 ^ Log2GobsPerBlockY(h))
           IN  aligned <= 2 * h \/ aligned = GobHeight
<1> DEFINE k == Log2GobsPerBlockY(h)
           block == GobHeight * 2 ^ k
           aligned == RoundUp(h, block)
<1>1. k \in 0 .. 4 /\ (k # 0 => GobHeight * 2 ^ (k - 1) < h)
  BY HeightFacts
<1> SUFFICES aligned <= 2 * h \/ aligned = GobHeight
  OBVIOUS
<1> HIDE DEF k
<1>2. GobHeight \in Nat \ {0} /\ 2 ^ k \in Nat \ {0} /\ block \in Nat \ {0}
  BY <1>1, PowerFacts, WordsAssumption, TimesNat
<1>3. PICK q \in Nat : aligned = q * block
  BY <1>2, RoundUpFacts
<1>4. aligned \in Nat /\ h <= aligned /\ aligned < h + block
  BY <1>2, RoundUpFacts
<1>5. CASE k = 0
  <2>1. block = GobHeight
    <3>1. 2 ^ k = 1
      BY <1>5, Powers
    <3> QED
      BY <1>2, <3>1
  <2>2. CASE h >= GobHeight
    BY <1>2, <1>4, <2>1, <2>2
  <2>3. CASE h < GobHeight
    <3>1. q * block < 2 * block /\ 0 < q * block
      BY <1>2, <1>3, <1>4, <2>1, <2>3
    <3>2. q = 1
      <4>1. q < 2
        BY <3>1, <1>2
      <4>2. q # 0
        BY <3>1, <1>2
      <4> QED
        BY <4>1, <4>2
    <3> QED
      BY <1>2, <1>3, <2>1, <3>2
  <2> QED
    BY <1>2, <2>2, <2>3
<1>6. CASE k # 0
  <2>1. 2 ^ k = 2 * 2 ^ (k - 1) /\ k - 1 \in 0 .. 4
    BY <1>1, <1>6, PowerFacts
  <2>2. 2 ^ (k - 1) \in Nat
    BY <2>1, PowerFacts
  <2> DEFINE half == GobHeight * 2 ^ (k - 1)
  <2>3. block = 2 * half /\ half \in Nat
    BY <1>2, <2>1, <2>2
  <2>4. block < 2 * h
    BY <1>1, <1>2, <1>6, <2>3
  <2> HIDE DEF half
  <2>5. CASE h >= block
    BY <1>2, <1>4, <2>4, <2>5
  <2>6. CASE h < block
    <3>1. q * block < 2 * block
      BY <1>2, <1>3, <1>4, <2>6
    <3>2. q < 2
      BY <3>1, <1>2
    <3>3. q * block <= block
      BY <3>2, <1>2
    <3> QED
      BY <1>2, <1>3, <1>4, <2>4, <3>3
  <2> QED
    BY <1>2, <2>5, <2>6
<1> QED
  BY <1>5, <1>6

-----------------------------------------------------------------------------
(* Formats *)

FormatNames == {"NV12", "P010", "YUV444", "Q416", "ARGB"}

\* What formatsInfo has in common for every format.
LEMMA FormatFacts ==
    ASSUME NEW format \in FormatNames
    PROVE  LET info == FormatsInfo[format]
           IN  /\ Len(info.planes) \in 1 .. 3 /\ DOMAIN info.planes = 1 .. Len(info.planes)
               /\ info.bppc \in {1, 2}
               /\ \A i \in 1 .. Len(info.planes) :
                     /\ info.planes[i].channels \in {1, 2, 4}
                     /\ info.planes[i].x \in {0, 1} /\ info.planes[i].y \in {0, 1}
               /\ info.planes[1].x = 0 /\ info.planes[1].y = 0
<1>1. CASE format = "NV12"
  BY <1>1 DEF FormatsInfo, Plane
<1>2. CASE format = "P010"
  BY <1>2 DEF FormatsInfo, Plane
<1>3. CASE format = "YUV444"
  BY <1>3 DEF FormatsInfo, Plane
<1>4. CASE format = "Q416"
  BY <1>4, SMTT(30) DEF FormatsInfo, Plane
<1>5. CASE format = "ARGB"
  BY <1>5 DEF FormatsInfo, Plane
<1> QED
  BY <1>1, <1>2, <1>3, <1>4, <1>5 DEF FormatNames

\* nvPlaneExtent halves a subsampled extent, rounding up.
LEMMA ExtentFacts ==
    ASSUME NEW v \in Nat, NEW shift \in {0, 1}
    PROVE  /\ PlaneExtent(v, shift) = (IF shift = 0 THEN v ELSE (v + 1) \div 2)
           /\ PlaneExtent(v, shift) \in Nat /\ PlaneExtent(v, shift) <= v
           /\ v # 0 => PlaneExtent(v, shift) # 0
<1>1. CASE shift = 0
  <2>1. 2 ^ shift = 1
    BY <1>1, Powers
  <2>2. PlaneExtent(v, shift) = (v + 1 - 1) \div 1
    BY <2>1 DEF PlaneExtent
  <2> QED
    BY <1>1, <2>2
<1>2. CASE shift = 1
  <2>1. 2 ^ shift = 2
    BY <1>2, Powers
  <2>2. PlaneExtent(v, shift) = (v + 2 - 1) \div 2
    BY <2>1 DEF PlaneExtent
  <2> QED
    BY <1>2, <2>2
<1> QED
  BY <1>1, <1>2

\* A larger surface has no smaller planes.
LEMMA ExtentMonotone ==
    ASSUME NEW v \in Nat, NEW w \in Nat, v <= w, NEW shift \in {0, 1}
    PROVE  PlaneExtent(v, shift) <= PlaneExtent(w, shift)
BY ExtentFacts

\* The rows of a plane: never none, never more than the first plane's.
LEMMA RowsFacts ==
    ASSUME NEW format \in FormatNames, NEW i \in 1 .. Len(FormatsInfo[format].planes), NEW h \in Nat
    PROVE  /\ Rows(format, i, h) \in Nat /\ Rows(format, i, h) <= h
           /\ h # 0 => Rows(format, i, h) # 0
           /\ \A l \in Nat : l <= h => Rows(format, i, l) <= Rows(format, i, h)
           /\ Rows(format, 1, h) = h
<1>1. FormatsInfo[format].planes[i].y \in {0, 1} /\ FormatsInfo[format].planes[1].y = 0
  BY FormatFacts
<1> QED
  BY <1>1, ExtentFacts, ExtentMonotone DEF Rows

\* The bytes of a row of a plane: so many for each of its pixels.
LEMMA RowBytesFacts ==
    ASSUME NEW format \in FormatNames, NEW i \in 1 .. Len(FormatsInfo[format].planes), NEW w \in Nat
    PROVE  /\ RowBytes(format, i, w) \in Nat
           /\ w # 0 => RowBytes(format, i, w) # 0
           /\ \A v \in Nat : v <= w => RowBytes(format, i, v) <= RowBytes(format, i, w)
           /\ \E c \in Nat \ {0} :
                /\ c = FormatsInfo[format].bppc * FormatsInfo[format].planes[i].channels
                /\ \A v \in Nat : RowBytes(format, i, v) = PlaneExtent(v, FormatsInfo[format].planes[i].x) * c
<1> DEFINE s == FormatsInfo[format].planes[i].x
           b == FormatsInfo[format].bppc
           d == FormatsInfo[format].planes[i].channels
           c == b * d
<1>1. s \in {0, 1} /\ b \in {1, 2} /\ d \in {1, 2, 4}
  BY FormatFacts
<1>2. \A v \in Nat : RowBytes(format, i, v) = PlaneExtent(v, s) * b * d
  BY DEF RowBytes
<1> HIDE DEF s, b, d
<1>3. c \in Nat \ {0}
  BY <1>1
<1>4. \A v \in Nat : PlaneExtent(v, s) \in Nat /\ (v # 0 => PlaneExtent(v, s) # 0)
  BY <1>1, ExtentFacts
<1>5. \A v \in Nat : RowBytes(format, i, v) = PlaneExtent(v, s) * c
  BY <1>1, <1>2, <1>4
<1>6. RowBytes(format, i, w) \in Nat /\ (w # 0 => RowBytes(format, i, w) # 0)
  BY <1>3, <1>4, <1>5, TimesNat
<1>7. ASSUME NEW v \in Nat, v <= w PROVE RowBytes(format, i, v) <= RowBytes(format, i, w)
  <2>1. PlaneExtent(v, s) <= PlaneExtent(w, s)
    BY <1>1, <1>7, ExtentMonotone
  <2>2. PlaneExtent(v, s) * c <= PlaneExtent(w, s) * c
    <3> HIDE DEF c
    <3>1. PlaneExtent(v, s) \in Int /\ PlaneExtent(w, s) \in Int /\ c \in Nat
      BY <1>3, <1>4
    <3> QED
      BY <2>1, <3>1, TimesMonotone
  <2> QED
    BY <1>5, <2>2
<1>8. \E e \in Nat \ {0} : e = b * d /\ \A v \in Nat : RowBytes(format, i, v) = PlaneExtent(v, s) * e
  <2> WITNESS c \in Nat \ {0}
  <2> QED
    BY <1>5
<1> QED
  BY <1>6, <1>7, <1>8 DEF s, b, d

-----------------------------------------------------------------------------
(* Layouts *)

\* Under one modifier every plane has the block height of the first.
LEMMA BlockHeightFacts ==
    ASSUME NEW n \in 1 .. 3, NEW natural \in [1 .. n -> 0 .. 4], NEW i \in 1 .. n,
           NEW unify \in BOOLEAN, \A j \in 1 .. n : natural[j] <= natural[1]
    PROVE  LET k == BlockHeight(natural, i, unify)
           IN  /\ k \in 0 .. 4 /\ natural[i] <= k
               /\ unify => k = natural[1]
               /\ ~unify => k = natural[i]
<1>1. natural[1] \in 0 .. 4 /\ natural[i] \in 0 .. 4
  OBVIOUS
<1>2. CASE ~unify
  BY <1>1, <1>2 DEF BlockHeight
<1>3. CASE unify
  <2> DEFINE S == Seqs!ToSet(natural)
             Is(k) == \A j \in S : j <= k
  <2>1. natural[1] \in S /\ \A j \in S : \E l \in 1 .. n : j = natural[l]
    BY DEF Seqs!ToSet
  <2>2. \A j \in S : j \in 0 .. 4 /\ j <= natural[1]
    BY <2>1
  <2>3. BlockHeight(natural, i, unify) = CHOOSE k \in S : Is(k)
    BY <1>3 DEF BlockHeight
  <2> HIDE DEF S
  <2>4. \A k \in S : Is(k) <=> k = natural[1]
    BY <1>1, <2>1, <2>2
  <2> HIDE DEF Is
  <2>5. BlockHeight(natural, i, unify) = natural[1]
    BY <2>1, <2>3, <2>4
  <2> QED
    BY <1>1, <1>3, <2>5
<1> QED
  BY <1>2, <1>3

\* No plane asks for higher blocks than the first.
LEMMA NaturalFacts ==
    ASSUME NEW format \in FormatNames, NEW height \in Nat
    PROVE  LET n == Len(FormatsInfo[format].planes)
               natural == NaturalHeights(format, height)
           IN  /\ natural \in [1 .. n -> 0 .. 4]
               /\ \A i \in 1 .. n : /\ natural[i] = Log2GobsPerBlockY(Rows(format, i, height))
                                    /\ natural[i] <= natural[1]
<1> DEFINE n == Len(FormatsInfo[format].planes)
           natural == NaturalHeights(format, height)
<1>1. n \in 1 .. 3
  BY FormatFacts
<1>2. natural = [i \in 1 .. n |-> Log2GobsPerBlockY(Rows(format, i, height))]
  BY DEF NaturalHeights
<1> HIDE DEF n, natural
<1>3. \A i \in 1 .. n : Rows(format, i, height) \in Nat /\ Rows(format, i, height) <= Rows(format, 1, height)
  BY RowsFacts DEF n
<1>4. \A i \in 1 .. n : Log2GobsPerBlockY(Rows(format, i, height)) \in 0 .. 4
  BY <1>3, HeightFacts
<1>5. 1 \in 1 .. n
  BY <1>1
<1>6. \A i \in 1 .. n : Log2GobsPerBlockY(Rows(format, i, height)) <= Log2GobsPerBlockY(Rows(format, 1, height))
  BY <1>3, <1>5, HeightMonotone
<1>7. natural \in [1 .. n -> 0 .. 4] /\ \A i \in 1 .. n : natural[i] = Log2GobsPerBlockY(Rows(format, i, height))
  BY <1>2, <1>4
<1>8. \A i \in 1 .. n : natural[i] <= natural[1]
  BY <1>5, <1>6, <1>7
<1> QED
  BY <1>7, <1>8 DEF n, natural

\* What LayoutSound asks of the plane p at place i, apart from the others.
GoodPlane(p, i, format, width, height, unify) ==
    /\ p.offset \in Nat /\ p.pitch \in Nat /\ p.memory \in Nat /\ p.log2 \in 0 .. 4
    /\ p.offset <= Int32Max /\ p.pitch <= Int32Max
    /\ p.offset % PlaneAlignment = 0
    /\ p.pitch % GobWidth = 0 /\ p.pitch >= RowBytes(format, i, width)
    /\ p.memory >= Rows(format, i, height) * p.pitch
    /\ p.memory % (p.pitch * GobHeight * 2 ^ p.log2) = 0
    /\ \/ p.memory <= 2 * Rows(format, i, height) * p.pitch
       \/ p.memory = GobHeight * p.pitch
       \/ unify /\ i > 1
    /\ p.log2 >= Log2GobsPerBlockY(Rows(format, i, height))
    /\ unify => p.log2 = Log2GobsPerBlockY(Rows(format, 1, height))
    /\ ~unify => p.log2 = Log2GobsPerBlockY(Rows(format, i, height))

\* The memory of a plane: whole blocks, enough rows and not too many.
LEMMA MemoryFacts ==
    ASSUME NEW rows \in Nat \ {0}, NEW pitch \in Nat \ {0}, NEW k \in 0 .. 4
    PROVE  LET aligned == RoundUp(rows, GobHeight * 2 ^ k)
               memory == pitch * aligned
           IN  /\ aligned \in Nat /\ memory \in Nat
               /\ memory >= rows * pitch
               /\ memory % (pitch * GobHeight * 2 ^ k) = 0
               /\ k = Log2GobsPerBlockY(rows) => \/ memory <= 2 * rows * pitch
                                                 \/ memory = GobHeight * pitch
<1> DEFINE block == GobHeight * 2 ^ k
           aligned == RoundUp(rows, block)
           memory == pitch * aligned
           power == 2 ^ k
<1>1. GobHeight \in Nat \ {0} /\ power \in Nat \ {0}
  BY PowerFacts, WordsAssumption
<1>2. block = GobHeight * power
  OBVIOUS
<1> HIDE DEF power, block
<1>3. block \in Nat \ {0}
  BY <1>1, <1>2, TimesNat
<1>4. aligned \in Nat /\ rows <= aligned /\ \E q \in Nat : aligned = q * block
  BY <1>3, RoundUpFacts
<1>5. PICK q \in Nat : aligned = q * block
  BY <1>4
<1>6. k = Log2GobsPerBlockY(rows) => aligned <= 2 * rows \/ aligned = GobHeight
  BY PaddingFacts DEF block
<1> HIDE DEF aligned
<1>7. memory \in Nat /\ memory >= rows * pitch
  BY <1>4, TimesNat
<1>8. memory % (pitch * GobHeight * power) = 0
  <2>1. pitch * GobHeight * power = pitch * block
    BY <1>1, <1>2
  <2>2. pitch * block \in Nat \ {0}
    BY <1>3, TimesNat
  <2>3. memory = q * (pitch * block)
    BY <1>3, <1>5
  <2> QED
    BY <2>1, <2>2, <2>3, MultipleMod
<1>9. k = Log2GobsPerBlockY(rows) => memory <= 2 * rows * pitch \/ memory = GobHeight * pitch
  <2>1. aligned <= 2 * rows => memory <= 2 * rows * pitch
    BY <1>4
  <2>2. aligned = GobHeight => memory = GobHeight * pitch
    BY <1>1
  <2> QED
    BY <1>6, <2>1, <2>2
<1> QED
  BY <1>4, <1>7, <1>8, <1>9 DEF aligned, block, power

\* The first k planes of a layout have been placed.
LayoutInv(l, k, format, width, height, unify) ==
    l.ok =>
      /\ l.size \in Nat /\ l.size <= UInt32Max /\ l.size % PlaneAlignment = 0
      /\ l.planes \in Seq([offset : Nat, pitch : Nat, memory : Nat, log2 : 0 .. 4]) /\ Len(l.planes) = k
      /\ \A i \in 1 .. k : /\ GoodPlane(l.planes[i], i, format, width, height, unify)
                           /\ l.planes[i].offset + l.planes[i].memory <= l.size
      /\ \A i, j \in 1 .. k : i < j =>
            l.planes[i].offset + l.planes[i].memory <= l.planes[j].offset

\* A record of a layout whose first k planes have been placed.
Placed(l, k, format, width, height, unify) ==
    /\ l.ok \in BOOLEAN
    /\ l.ok => l = [ok |-> TRUE, size |-> l.size, planes |-> l.planes]
    /\ LayoutInv(l, k, format, width, height, unify)

\* calculate_unified_image_layout puts one plane more behind the others, or
\* refuses.
LEMMA PutPlaneKeeps ==
    ASSUME NEW format \in FormatNames, NEW width \in Nat \ {0}, NEW height \in Nat \ {0},
           NEW unify \in BOOLEAN, NEW l, NEW k \in 0 .. 2, k + 1 <= Len(FormatsInfo[format].planes),
           Placed(l, k, format, width, height, unify)
    PROVE  Placed(PutPlane(format, width, height, unify, l, k + 1), k + 1, format, width, height, unify)
<1> DEFINE i == k + 1
           log2 == BlockHeight(NaturalHeights(format, height), i, unify)
           pitch == RoundUp(RowBytes(format, i, width), GobWidth)
           rows == Rows(format, i, height)
           aligned == RoundUp(rows, GobHeight * 2 ^ log2)
           memory == pitch * aligned
           end == RoundUp(l.size + memory, PlaneAlignment)
           plane == [offset |-> l.size, pitch |-> pitch, memory |-> memory, log2 |-> log2]
           refused == \/ ~l.ok \/ pitch > Int32Max \/ aligned > UInt32Max
                      \/ l.size > Int32Max \/ memory > UInt32Max \/ end > UInt32Max
           r == PutPlane(format, width, height, unify, l, i)
           PlaneSet == [offset : Nat, pitch : Nat, memory : Nat, log2 : 0 .. 4]
<1> HIDE DEF i, log2, pitch, rows, aligned, memory, end, plane, refused, r, PlaneSet
<1>h. /\ l.ok \in BOOLEAN
      /\ l.ok => l = [ok |-> TRUE, size |-> l.size, planes |-> l.planes]
      /\ LayoutInv(l, k, format, width, height, unify)
  BY DEF Placed
<1> USE DEF i, log2, pitch, rows, aligned, memory, end, plane, refused, r, PlaneSet
<1>1. r = IF refused THEN Refused ELSE [l EXCEPT !.size = end, !.planes = Append(@, plane)]
  BY DEF PutPlane
<1>0. {GobWidth, GobHeight, PlaneAlignment, Int32Max, UInt32Max} \subseteq Nat \ {0}
  BY WordsAssumption
<1>2. CASE refused
  <2>1. r = [ok |-> FALSE]
    BY <1>1, <1>2 DEF Refused
  <2> HIDE DEF r, refused
  <2>2. r.ok = FALSE
    BY <2>1
  <2>3. LayoutInv(r, k + 1, format, width, height, unify)
    BY <2>2 DEF LayoutInv
  <2> QED
    BY <2>2, <2>3 DEF r, i, Placed
<1>3. CASE ~refused
  <2>1. l.ok /\ l = [ok |-> TRUE, size |-> l.size, planes |-> l.planes]
    BY <1>h, <1>3
  <2> DEFINE size == l.size
             planes == l.planes
  <2>2. /\ size \in Nat /\ size % PlaneAlignment = 0
        /\ planes \in Seq(PlaneSet) /\ Len(planes) = k
        /\ \A j \in 1 .. k : /\ GoodPlane(planes[j], j, format, width, height, unify)
                             /\ planes[j].offset + planes[j].memory <= size
        /\ \A j, m \in 1 .. k : j < m => planes[j].offset + planes[j].memory <= planes[m].offset
    BY <1>h, <2>1 DEF LayoutInv
  <2>3. r = [ok |-> TRUE, size |-> end, planes |-> Append(planes, plane)]
    <3>1. r = [l EXCEPT !.size = end, !.planes = Append(@, plane)]
      BY <1>1, <1>3
    <3> HIDE DEF end, plane, r
    <3> QED
      BY <2>1, <3>1
  <2>4. i \in 1 .. Len(FormatsInfo[format].planes) /\ i \in Nat /\ Len(FormatsInfo[format].planes) \in 1 .. 3
    BY FormatFacts
  <2>5. /\ log2 \in 0 .. 4 /\ Log2GobsPerBlockY(rows) <= log2
        /\ unify => log2 = Log2GobsPerBlockY(Rows(format, 1, height))
        /\ ~unify => log2 = Log2GobsPerBlockY(rows)
    <3> DEFINE n == Len(FormatsInfo[format].planes)
               natural == NaturalHeights(format, height)
    <3>1. /\ natural \in [1 .. n -> 0 .. 4]
          /\ \A j \in 1 .. n : /\ natural[j] = Log2GobsPerBlockY(Rows(format, j, height))
                               /\ natural[j] <= natural[1]
      BY NaturalFacts
    <3>2. n \in 1 .. 3 /\ i \in 1 .. n /\ 1 \in 1 .. n
      BY <2>4
    <3> HIDE DEF n, natural, i
    <3>3. /\ BlockHeight(natural, i, unify) \in 0 .. 4
          /\ natural[i] <= BlockHeight(natural, i, unify)
          /\ unify => BlockHeight(natural, i, unify) = natural[1]
          /\ ~unify => BlockHeight(natural, i, unify) = natural[i]
      BY <3>1, <3>2, BlockHeightFacts
    <3> QED
      BY <3>1, <3>2, <3>3 DEF natural
  <2>6. rows \in Nat \ {0} /\ RowBytes(format, i, width) \in Nat \ {0}
    BY <2>4, RowsFacts, RowBytesFacts
  <2>7. /\ pitch \in Nat /\ RowBytes(format, i, width) <= pitch /\ pitch % GobWidth = 0
        /\ pitch # 0
    <3> DEFINE bytes == RowBytes(format, i, width)
    <3> HIDE DEF i
    <3>1. bytes \in Nat \ {0} /\ GobWidth \in Nat \ {0}
      BY <1>0, <2>6
    <3> HIDE DEF bytes
    <3>2. /\ RoundUp(bytes, GobWidth) \in Nat /\ bytes <= RoundUp(bytes, GobWidth)
          /\ RoundUp(bytes, GobWidth) % GobWidth = 0
      BY <3>1, RoundUpFacts
    <3>3. pitch = RoundUp(bytes, GobWidth)
      BY DEF bytes
    <3> HIDE DEF pitch
    <3> QED
      BY <3>1, <3>2, <3>3 DEF bytes
  <2> HIDE DEF log2, pitch, rows, i
  <2>8. /\ aligned \in Nat /\ memory \in Nat
        /\ memory >= rows * pitch
        /\ memory % (pitch * GobHeight * 2 ^ log2) = 0
        /\ log2 = Log2GobsPerBlockY(rows) => memory <= 2 * rows * pitch \/ memory = GobHeight * pitch
    <3>1. rows \in Nat \ {0} /\ pitch \in Nat \ {0} /\ log2 \in 0 .. 4
      BY <2>5, <2>6, <2>7
    <3> QED
      BY <3>1, MemoryFacts
  <2> HIDE DEF memory, aligned
  <2>9. end \in Nat /\ size + memory <= end /\ end % PlaneAlignment = 0 /\ end <= UInt32Max
    <3>1. end \in Nat /\ size + memory <= end /\ end % PlaneAlignment = 0
      <4>1. size + memory \in Nat /\ PlaneAlignment \in Nat \ {0}
        BY <1>0, <2>2, <2>8
      <4> HIDE DEF memory
      <4> QED
        BY <4>1, RoundUpFacts
    <3> HIDE DEF end
    <3> QED
      BY <1>0, <1>3, <3>1
  <2>10. size <= Int32Max /\ pitch <= Int32Max
    <3>1. ~(pitch > Int32Max) /\ ~(l.size > Int32Max)
      BY <1>3
    <3> QED
      BY <1>0, <2>2, <2>7, <3>1
  <2> HIDE DEF end, refused
  <2>11. plane \in PlaneSet
    BY <2>2, <2>5, <2>7, <2>8
  <2>12. \/ memory <= 2 * rows * pitch
         \/ memory = GobHeight * pitch
         \/ unify /\ i > 1
    <3>1. CASE ~unify
      BY <2>5, <2>8, <3>1
    <3>2. CASE unify /\ ~(i > 1)
      <4>1. i = 1
        BY <2>4, <3>2
      <4>2. log2 = Log2GobsPerBlockY(rows)
        BY <2>5, <3>2, <4>1 DEF rows
      <4> QED
        BY <2>8, <4>2
    <3> QED
      BY <3>1, <3>2
  <2>13. GoodPlane(plane, i, format, width, height, unify)
    BY <2>2, <2>5, <2>7, <2>8, <2>10, <2>12 DEF GoodPlane, rows
  <2>14. plane.offset = size /\ plane.memory = memory
    OBVIOUS
  <2> HIDE DEF plane, size, planes, PlaneSet
  <2> DEFINE q == Append(planes, plane)
  <2>15. /\ q \in Seq(PlaneSet) /\ Len(q) = k + 1 /\ q[k + 1] = plane
         /\ \A j \in 1 .. k : q[j] = planes[j]
    BY <2>2, <2>11
  <2> HIDE DEF q
  <2>16. i = k + 1
    BY DEF i
  <2>17. \A j \in 1 .. k : planes[j].offset \in Nat /\ planes[j].memory \in Nat
    BY <2>2 DEF GoodPlane
  <2>18. \A j \in 1 .. k + 1 : /\ GoodPlane(q[j], j, format, width, height, unify)
                               /\ q[j].offset + q[j].memory <= end
    <3> SUFFICES ASSUME NEW j \in 1 .. k + 1
                 PROVE  /\ GoodPlane(q[j], j, format, width, height, unify)
                        /\ q[j].offset + q[j].memory <= end
      OBVIOUS
    <3>1. CASE j = k + 1
      BY <2>9, <2>13, <2>14, <2>15, <2>16, <3>1
    <3>2. CASE j \in 1 .. k
      <4>1. q[j] = planes[j] /\ planes[j].offset + planes[j].memory <= size
        BY <2>2, <2>15, <3>2
      <4>2. planes[j].offset \in Nat /\ planes[j].memory \in Nat
        BY <2>17, <3>2
      <4> QED
        BY <2>2, <2>8, <2>9, <3>2, <4>1, <4>2
    <3> QED
      BY <3>1, <3>2
  <2>19. \A j, m \in 1 .. k + 1 : j < m => q[j].offset + q[j].memory <= q[m].offset
    <3> SUFFICES ASSUME NEW j \in 1 .. k + 1, NEW m \in 1 .. k + 1, j < m
                 PROVE  q[j].offset + q[j].memory <= q[m].offset
      OBVIOUS
    <3>1. j \in 1 .. k
      OBVIOUS
    <3>2. CASE m = k + 1
      BY <2>2, <2>14, <2>15, <3>1, <3>2
    <3>3. CASE m \in 1 .. k
      BY <2>2, <2>15, <3>1, <3>3
    <3> QED
      BY <3>2, <3>3
  <2>20. /\ r.ok = TRUE /\ r.size = end /\ r.planes = q
         /\ r = [ok |-> TRUE, size |-> r.size, planes |-> r.planes]
    <3> HIDE DEF r
    <3> QED
      BY <2>3 DEF q
  <2>21. LayoutInv(r, k + 1, format, width, height, unify)
    <3> HIDE DEF r
    <3> QED
      BY <2>9, <2>15, <2>18, <2>19, <2>20 DEF LayoutInv, PlaneSet
  <2> HIDE DEF r
  <2>22. r = PutPlane(format, width, height, unify, l, k + 1)
    BY DEF r, i
  <2> QED
    BY <2>20, <2>21, <2>22 DEF Placed
<1> QED
  BY <1>2, <1>3

\* What is already a multiple stays as it is.
LEMMA RoundUpMultiple ==
    ASSUME NEW n \in Nat, NEW m \in Nat \ {0}, n % m = 0
    PROVE  RoundUp(n, m) = n
<1>1. PICK q \in Nat : RoundUp(n, m) = q * m
  BY RoundUpFacts
<1>2. n <= q * m /\ q * m < n + m
  BY <1>1, RoundUpFacts
<1> DEFINE p == n \div m
<1>3. p \in Int /\ n = m * p
  OBVIOUS
<1> HIDE DEF p
<1>4. m * p <= m * q /\ m * q < m * (p + 1)
  BY <1>2, <1>3
<1>5. p <= q /\ q < p + 1
  BY <1>3, <1>4
<1> QED
  BY <1>1, <1>3, <1>5

\* The planes of calculate_unified_image_layout, all of them.
LEMMA LayoutComplete ==
    ASSUME NEW format \in FormatNames, NEW width \in Nat \ {0}, NEW height \in Nat \ {0},
           NEW unify \in BOOLEAN
    PROVE  LayoutInv(UnifiedImageLayout(format, width, height, unify), Len(FormatsInfo[format].planes),
                     format, width, height, unify)
<1> DEFINE n == Len(FormatsInfo[format].planes)
           P(l, i) == PutPlane(format, width, height, unify, l, i)
           Good(l, k) == Placed(l, k, format, width, height, unify)
           one == P(NoPlanes, 1)
           two == P(one, 2)
           three == P(two, 3)
<1>1. n \in 1 .. 3
  BY FormatFacts
<1>2. UnifiedImageLayout(format, width, height, unify) = IF n = 1 THEN one ELSE IF n = 2 THEN two ELSE three
  BY <1>1, LayoutFold
<1>3. Good(NoPlanes, 0)
  <2>1. 0 % PlaneAlignment = 0 /\ 0 <= UInt32Max
    BY WordsAssumption
  <2> QED
    BY <2>1 DEF NoPlanes, Placed, LayoutInv
<1>4. ASSUME NEW l, NEW k \in 0 .. 2, k + 1 <= n, Good(l, k) PROVE Good(P(l, k + 1), k + 1)
  BY <1>4, PutPlaneKeeps
<1> HIDE DEF Good, P, n
<1>5. Good(one, 1)
  BY <1>1, <1>3, <1>4
<1> HIDE DEF one
<1>6. n > 1 => Good(two, 2)
  BY <1>1, <1>4, <1>5
<1> HIDE DEF two
<1>7. n > 2 => Good(three, 3)
  BY <1>1, <1>4, <1>6
<1> HIDE DEF three
<1>8. Good(UnifiedImageLayout(format, width, height, unify), n)
  <2>1. CASE n = 1
    BY <1>2, <1>5, <2>1
  <2>2. CASE n = 2
    BY <1>2, <1>6, <2>2
  <2>3. CASE n = 3
    BY <1>2, <1>7, <2>3
  <2> QED
    BY <1>1, <2>1, <2>2, <2>3
<1> QED
  BY <1>8 DEF Good, n, Placed

\* Whatever the extent of an image and the word sizes, a block-linear layout
\* that calculate_unified_image_layout returns is sound.
THEOREM LayoutsCorrect ==
    \A format \in FormatNames, width \in Nat, height \in Nat, unify \in BOOLEAN :
        LayoutSound(format, width, height, unify)
<1> SUFFICES ASSUME NEW format \in FormatNames, NEW width \in Nat, NEW height \in Nat, NEW unify \in BOOLEAN,
                    UnifiedImageLayout(format, width, height, unify).ok
             PROVE  LayoutSound(format, width, height, unify)
  BY DEF LayoutSound
<1>1. width # 0 /\ height # 0
  BY DEF UnifiedImageLayout, Refused
<1> DEFINE layout == UnifiedImageLayout(format, width, height, unify)
           P == layout.planes
           n == Len(FormatsInfo[format].planes)
<1>2. LayoutInv(layout, n, format, width, height, unify)
  BY <1>1, LayoutComplete
<1> HIDE DEF layout
<1>3. /\ layout.size \in Nat /\ layout.size <= UInt32Max /\ layout.size % PlaneAlignment = 0
      /\ P \in Seq([offset : Nat, pitch : Nat, memory : Nat, log2 : 0 .. 4]) /\ Len(P) = n
      /\ \A i \in 1 .. n : /\ GoodPlane(P[i], i, format, width, height, unify)
                           /\ P[i].offset + P[i].memory <= layout.size
      /\ \A i, j \in 1 .. n : i < j => P[i].offset + P[i].memory <= P[j].offset
  BY <1>2 DEF LayoutInv, layout
<1>4. AllocationSize(layout.size).ok /\ AllocationSize(layout.size).size >= layout.size
  <2>1. RoundUp(layout.size, PlaneAlignment) = layout.size
    BY <1>3, RoundUpMultiple, WordsAssumption
  <2>2. UInt32Max \in Nat
    BY WordsAssumption
  <2> QED
    BY <1>3, <2>1, <2>2 DEF AllocationSize
<1>5. DOMAIN P = 1 .. n /\ n \in 1 .. 3
  BY <1>3, FormatFacts
<1> HIDE DEF n, P
<1>6. \A i \in DOMAIN P : /\ GoodPlane(P[i], i, format, width, height, unify)
                          /\ GoodPlane(P[1], 1, format, width, height, unify)
                          /\ P[i].offset + P[i].memory <= layout.size
                          /\ \A j \in DOMAIN P : i < j => P[i].offset + P[i].memory <= P[j].offset
  BY <1>3, <1>5
<1>7. ASSUME NEW i \in DOMAIN P
      PROVE  /\ P[i].offset <= Int32Max /\ P[i].pitch <= Int32Max
             /\ P[i].offset % PlaneAlignment = 0
             /\ P[i].pitch % GobWidth = 0 /\ P[i].pitch >= RowBytes(format, i, width)
             /\ P[i].offset + P[i].memory <= layout.size
             /\ P[i].memory >= Rows(format, i, height) * P[i].pitch
             /\ P[i].memory % (P[i].pitch * GobHeight * 2 ^ P[i].log2) = 0
             /\ \/ P[i].memory <= 2 * Rows(format, i, height) * P[i].pitch
                \/ P[i].memory = GobHeight * P[i].pitch
                \/ unify /\ i > 1
             /\ \A j \in DOMAIN P : i < j => P[i].offset + P[i].memory <= P[j].offset
             /\ P[i].log2 >= Log2GobsPerBlockY(Rows(format, i, height))
             /\ unify => P[i].log2 = P[1].log2
             /\ ~unify => P[i].log2 = Log2GobsPerBlockY(Rows(format, i, height))
  BY <1>6, <1>7 DEF GoodPlane
<1> QED
  BY <1>4, <1>7 DEF LayoutSound, layout, P

-----------------------------------------------------------------------------
(* Images *)

\* The bytes of one plane, and of the first k planes, of an image.
PlaneBytes(format, width, height, i) == RowBytes(format, i, width) * Rows(format, i, height)

ImageBytes(format, width, height, k) ==
    IF k = 0 THEN 0
    ELSE IF k = 1 THEN PlaneBytes(format, width, height, 1)
    ELSE IF k = 2 THEN PlaneBytes(format, width, height, 1) + PlaneBytes(format, width, height, 2)
    ELSE PlaneBytes(format, width, height, 1) + PlaneBytes(format, width, height, 2)
           + PlaneBytes(format, width, height, 3)

\* The bytes of the planes add up one plane at a time, and the fold of
\* ImageSound is that sum.
LEMMA BytesFacts ==
    ASSUME NEW format \in FormatNames, NEW width \in Nat \ {0}, NEW height \in Nat \ {0}
    PROVE  LET n == Len(FormatsInfo[format].planes)
           IN  /\ ImageBytes(format, width, height, 0) = 0
               /\ \A k \in 0 .. n : ImageBytes(format, width, height, k) \in Nat
               /\ \A k \in 0 .. n - 1 :
                     /\ PlaneBytes(format, width, height, k + 1) \in Nat
                     /\ ImageBytes(format, width, height, k + 1) =
                          ImageBytes(format, width, height, k) + PlaneBytes(format, width, height, k + 1)
               /\ VisibleBytes(format, width, height) = ImageBytes(format, width, height, n)
<1> DEFINE n == Len(FormatsInfo[format].planes)
           B(i) == PlaneBytes(format, width, height, i)
           S(k) == ImageBytes(format, width, height, k)
<1>1. n \in 1 .. 3
  BY FormatFacts
<1>2. \A i \in 1 .. n : B(i) \in Nat
  <2> SUFFICES ASSUME NEW i \in 1 .. n PROVE B(i) \in Nat
    OBVIOUS
  <2>1. RowBytes(format, i, width) \in Nat /\ Rows(format, i, height) \in Nat
    BY RowBytesFacts, RowsFacts
  <2> QED
    BY <2>1, TimesNat DEF PlaneBytes
<1>3. VisibleBytes(format, width, height) =
        IF n = 1 THEN 0 + B(1) ELSE IF n = 2 THEN 0 + B(1) + B(2) ELSE 0 + B(1) + B(2) + B(3)
  BY <1>1, BytesFold DEF PlaneBytes
<1>4. /\ S(0) = 0 /\ S(1) = B(1) /\ S(2) = B(1) + B(2) /\ S(3) = B(1) + B(2) + B(3)
  BY DEF ImageBytes
<1> HIDE DEF n, B, S
<1>5. B(1) \in Nat /\ (n > 1 => B(2) \in Nat) /\ (n > 2 => B(3) \in Nat)
  BY <1>1, <1>2
<1>6. \A k \in 0 .. n : S(k) \in Nat
  BY <1>1, <1>4, <1>5
<1>7. \A k \in 0 .. n - 1 : B(k + 1) \in Nat /\ S(k + 1) = S(k) + B(k + 1)
  BY <1>1, <1>4, <1>5
<1>8. VisibleBytes(format, width, height) = S(n)
  BY <1>1, <1>3, <1>4, <1>5
<1> QED
  BY <1>4, <1>6, <1>7, <1>8 DEF n, B, S

\* A checked product is refused exactly when it does not fit 64 bits.
LEMMA CheckedMultiplyFacts ==
    ASSUME NEW a \in Nat, NEW b \in Nat
    PROVE  CheckedMultiply(a, b) = IF a * b > UInt64Max THEN Refused ELSE [ok |-> TRUE, size |-> a * b]
<1>1. UInt64Max \in Nat
  BY WordsAssumption
<1>2. CASE a = 0
  BY <1>1, <1>2 DEF CheckedMultiply
<1>3. CASE a # 0
  <2>1. b > UInt64Max \div a <=> a * b > UInt64Max
    <3> DEFINE d == UInt64Max \div a
    <3>1. d \in Int /\ a * d <= UInt64Max /\ UInt64Max < a * d + a
      BY <1>1, <1>3, Division
    <3> HIDE DEF d
    <3>2. b > d => a * b >= a * (d + 1)
      BY <1>3, <3>1
    <3>3. b <= d => a * b <= a * d
      BY <1>3, <3>1
    <3>4. a * (d + 1) = a * d + a /\ a * d \in Int /\ a * b \in Int
      BY <3>1
    <3>5. b > d <=> a * b > UInt64Max
      BY <1>1, <3>1, <3>2, <3>3, <3>4
    <3> QED
      BY <3>5 DEF d
  <2> QED
    BY <1>3, <2>1 DEF CheckedMultiply
<1> QED
  BY <1>2, <1>3

\* The record of the first k planes of an image: exactly their bytes, or a
\* refusal, for which these are too many for 32 bits.
ImageInv(image, k, format, width, height) ==
    /\ image.ok \in BOOLEAN
    /\ image.ok =>
         /\ image = [ok |-> TRUE, size |-> ImageBytes(format, width, height, k), planes |-> image.planes]
         /\ image.planes \in Seq([offset : Nat, pitch : Nat]) /\ Len(image.planes) = k
         /\ \A i \in 1 .. k : /\ image.planes[i].offset = ImageBytes(format, width, height, i - 1)
                              /\ image.planes[i].pitch = RowBytes(format, i, width)
    /\ ~image.ok => ImageBytes(format, width, height, k) > UInt32Max

\* nvCreateImage puts the next plane behind the others, or refuses what 32
\* bits cannot hold.
LEMMA PutImagePlaneKeeps ==
    ASSUME NEW format \in FormatNames, NEW width \in Nat \ {0}, NEW height \in Nat \ {0},
           NEW image, NEW k \in 0 .. 2, k + 1 <= Len(FormatsInfo[format].planes),
           ImageInv(image, k, format, width, height)
    PROVE  ImageInv(PutImagePlane(format, width, height, image, k + 1), k + 1, format, width, height)
<1> DEFINE i == k + 1
           info == FormatsInfo[format]
           extent == PlaneExtent(width, info.planes[i].x)
           rows == Rows(format, i, height)
           c == info.bppc * info.planes[i].channels
           pixels == CheckedMultiply(extent, rows)
           bytes == CheckedMultiply(pixels.size, c)
           end == CheckedAdd(image.size, bytes.size)
           pitch == RowBytes(format, i, width)
           plane == [offset |-> image.size, pitch |-> pitch]
           S(j) == ImageBytes(format, width, height, j)
           B == PlaneBytes(format, width, height, i)
           r == PutImagePlane(format, width, height, image, i)
<1> HIDE DEF i, info, extent, rows, c, pixels, bytes, end, pitch, plane, S, B, r
<1> SUFFICES ImageInv(r, i, format, width, height)
  BY DEF r, i
<1>1. /\ image.ok \in BOOLEAN
      /\ image.ok =>
           /\ image = [ok |-> TRUE, size |-> S(k), planes |-> image.planes]
           /\ image.planes \in Seq([offset : Nat, pitch : Nat]) /\ Len(image.planes) = k
           /\ \A j \in 1 .. k : /\ image.planes[j].offset = S(j - 1)
                                /\ image.planes[j].pitch = RowBytes(format, j, width)
      /\ ~image.ok => S(k) > UInt32Max
  BY DEF ImageInv, S
<1>2. i \in 1 .. Len(FormatsInfo[format].planes) /\ i \in Nat /\ i = k + 1
  BY FormatFacts DEF i
<1>3. /\ S(k) \in Nat /\ S(i) = S(k) + B /\ B \in Nat
  <2>1. k \in 0 .. Len(FormatsInfo[format].planes) - 1 /\ k \in 0 .. Len(FormatsInfo[format].planes)
    BY FormatFacts
  <2> QED
    BY <2>1, BytesFacts DEF S, B, i
<1>4. /\ rows \in Nat /\ rows # 0
      /\ pitch \in Nat /\ pitch = extent * c /\ c \in Nat \ {0} /\ B = pitch * rows
  <2>1. rows \in Nat /\ rows # 0
    BY <1>2, RowsFacts DEF rows
  <2>2. pitch \in Nat
    BY <1>2, RowBytesFacts DEF pitch
  <2>3. c \in Nat \ {0} /\ pitch = extent * c
    BY <1>2, RowBytesFacts DEF pitch, c, extent, info
  <2> QED
    BY <2>1, <2>2, <2>3 DEF B, PlaneBytes, pitch, rows
<1>5. extent \in Nat
  BY <1>2, ExtentFacts, FormatFacts DEF extent, info
<1>6. UInt32Max \in Nat /\ UInt64Max \in Nat /\ UInt32Max <= UInt64Max
  BY WordsAssumption
<1>7. r = IF ~image.ok THEN Refused
          ELSE IF ~pixels.ok THEN Refused
          ELSE IF ~bytes.ok THEN Refused
          ELSE IF ~end.ok \/ pitch > UInt32Max THEN Refused
          ELSE [image EXCEPT !.size = end.size, !.planes = Append(@, plane)]
  BY DEF r, PutImagePlane, pixels, bytes, end, pitch, plane, extent, rows, c, info
<1>8. pixels = IF extent * rows > UInt64Max THEN Refused ELSE [ok |-> TRUE, size |-> extent * rows]
  BY <1>4, <1>5, CheckedMultiplyFacts DEF pixels
<1>9. extent * rows \in Nat /\ (extent * rows) * c = B /\ extent * rows <= B /\ pitch <= B
  <2>1. extent * rows \in Nat
    BY <1>4, <1>5, TimesNat
  <2>2. (extent * rows) * c = B
    BY <1>4, <1>5
  <2> DEFINE p == extent * rows
  <2> HIDE DEF p
  <2>3. p * c = B /\ p \in Nat
    BY <2>1, <2>2 DEF p
  <2>4. p <= B
    <3>1. p # 0 => p <= p * c
      BY <1>4, <2>3, TimesNat
    <3>2. p * c = B /\ p \in Nat /\ B \in Nat
      BY <1>3, <2>3
    <3> HIDE DEF p
    <3> QED
      BY <3>1, <3>2
  <2>5. pitch <= B
    BY <1>3, <1>4
  <2> QED
    BY <2>1, <2>2, <2>4, <2>5 DEF p
<1>10. ASSUME r = Refused, S(i) > UInt32Max
       PROVE  ImageInv(r, i, format, width, height)
  <2>1. r.ok = FALSE
    BY <1>10 DEF Refused
  <2> QED
    BY <1>10, <2>1 DEF ImageInv, S
<1>11. CASE ~image.ok
  <2>1. r = Refused
    BY <1>7, <1>11
  <2>2. S(i) > UInt32Max
    BY <1>1, <1>3, <1>6, <1>11
  <2> QED
    BY <1>10, <2>1, <2>2
<1>12. CASE image.ok /\ extent * rows > UInt64Max
  <2>1. ~pixels.ok
    BY <1>8, <1>12 DEF Refused
  <2>2. r = Refused
    BY <1>7, <1>12, <2>1
  <2>3. S(i) > UInt32Max
    BY <1>3, <1>6, <1>9, <1>12
  <2> QED
    BY <1>10, <2>2, <2>3
<1>13. CASE image.ok /\ ~(extent * rows > UInt64Max)
  <2>1. pixels.ok /\ pixels.size = extent * rows
    BY <1>8, <1>13
  <2>2. bytes = IF B > UInt64Max THEN Refused ELSE [ok |-> TRUE, size |-> B]
    <3> DEFINE p == extent * rows
    <3>1. p \in Nat /\ c \in Nat /\ p * c = B
      BY <1>4, <1>9
    <3>2. bytes = CheckedMultiply(p, c)
      BY <2>1 DEF bytes
    <3> HIDE DEF p
    <3> QED
      BY <3>1, <3>2, CheckedMultiplyFacts
  <2>3. CASE B > UInt64Max
    <3>1. ~bytes.ok
      BY <2>2, <2>3 DEF Refused
    <3>2. r = Refused
      BY <1>7, <1>13, <2>1, <3>1
    <3>3. S(i) > UInt32Max
      BY <1>3, <1>6, <2>3
    <3> QED
      BY <1>10, <3>2, <3>3
  <2>4. CASE ~(B > UInt64Max)
    <3>1. bytes.ok /\ bytes.size = B
      BY <2>2, <2>4
    <3>2. image.size = S(k)
      BY <1>1, <1>13
    <3>3. end = IF S(i) > UInt64Max THEN Refused ELSE [ok |-> TRUE, size |-> S(i)]
      BY <1>3, <1>6, <3>1, <3>2 DEF end, CheckedAdd
    <3>4. CASE S(i) > UInt64Max
      <4>1. ~end.ok
        BY <3>3, <3>4 DEF Refused
      <4>2. r = Refused
        BY <1>7, <1>13, <2>1, <3>1, <4>1
      <4>3. S(i) > UInt32Max
        BY <1>3, <1>6, <3>4
      <4> QED
        BY <1>10, <4>2, <4>3
    <3>5. CASE ~(S(i) > UInt64Max) /\ pitch > UInt32Max
      <4>1. r = Refused
        BY <1>7, <1>13, <2>1, <3>1, <3>5
      <4>2. S(i) > UInt32Max
        <5>1. pitch \in Nat /\ pitch <= B
          BY <1>4, <1>9
        <5> QED
          BY <1>3, <1>6, <3>5, <5>1
      <4> QED
        BY <1>10, <4>1, <4>2
    <3>6. CASE ~(S(i) > UInt64Max) /\ ~(pitch > UInt32Max)
      <4>1. end.ok /\ end.size = S(i)
        BY <3>3, <3>6
      <4> DEFINE planes == image.planes
      <4>2. image = [ok |-> TRUE, size |-> S(k), planes |-> planes]
        BY <1>1, <1>13
      <4>3. r = [image EXCEPT !.size = S(i), !.planes = Append(@, plane)]
        BY <1>7, <1>13, <2>1, <3>1, <3>6, <4>1
      <4>4. planes \in Seq([offset : Nat, pitch : Nat]) /\ Len(planes) = k
        BY <1>1, <1>13
      <4> HIDE DEF planes
      <4>5. r = [ok |-> TRUE, size |-> S(i), planes |-> Append(planes, plane)]
        BY <4>2, <4>3
      <4>6. plane \in [offset : Nat, pitch : Nat] /\ plane.offset = S(k) /\ plane.pitch = pitch
        BY <1>3, <1>4, <3>2 DEF plane
      <4>7. /\ Append(planes, plane) \in Seq([offset : Nat, pitch : Nat]) /\ Len(Append(planes, plane)) = i
            /\ Append(planes, plane)[i] = plane
            /\ \A j \in 1 .. k : Append(planes, plane)[j] = planes[j]
        BY <1>2, <4>4, <4>6
      <4>8. \A j \in 1 .. i : /\ Append(planes, plane)[j].offset = S(j - 1)
                              /\ Append(planes, plane)[j].pitch = RowBytes(format, j, width)
        <5> SUFFICES ASSUME NEW j \in 1 .. i
                     PROVE  /\ Append(planes, plane)[j].offset = S(j - 1)
                            /\ Append(planes, plane)[j].pitch = RowBytes(format, j, width)
          OBVIOUS
        <5>1. CASE j = i
          <6>1. j - 1 = k
            BY <1>2, <5>1
          <6> QED
            BY <4>6, <4>7, <5>1, <6>1 DEF pitch
        <5>2. CASE j \in 1 .. k
          BY <1>1, <1>13, <4>7, <5>2 DEF planes
        <5>3. j = i \/ j \in 1 .. k
          BY <1>2
        <5> QED
          BY <5>1, <5>2, <5>3
      <4>9. r.ok = TRUE /\ r.size = S(i) /\ r.planes = Append(planes, plane)
        BY <4>5
      <4>10. r = [ok |-> TRUE, size |-> S(i), planes |-> r.planes]
        BY <4>5, <4>9
      <4> DEFINE q == Append(planes, plane)
      <4> HIDE DEF q
      <4>11. /\ r.planes = q /\ q \in Seq([offset : Nat, pitch : Nat]) /\ Len(q) = i
             /\ \A j \in 1 .. i : /\ q[j].offset = S(j - 1)
                                  /\ q[j].pitch = RowBytes(format, j, width)
        BY <4>7, <4>8, <4>9 DEF q
      <4> QED
        BY <4>9, <4>10, <4>11 DEF ImageInv, S
    <3> QED
      BY <3>4, <3>5, <3>6
  <2> QED
    BY <2>3, <2>4
<1> QED
  BY <1>1, <1>11, <1>12, <1>13

\* The planes of nvCreateImage, all of them.
LEMMA ImageComplete ==
    ASSUME NEW format \in FormatNames, NEW width \in Nat \ {0}, NEW height \in Nat \ {0}
    PROVE  ImageInv(AllImagePlanes(format, width, height), Len(FormatsInfo[format].planes),
                    format, width, height)
<1> DEFINE n == Len(FormatsInfo[format].planes)
           P(l, i) == PutImagePlane(format, width, height, l, i)
           Good(l, k) == ImageInv(l, k, format, width, height)
           one == P(NoPlanes, 1)
           two == P(one, 2)
           three == P(two, 3)
<1>1. n \in 1 .. 3
  BY FormatFacts
<1>2. AllImagePlanes(format, width, height) = IF n = 1 THEN one ELSE IF n = 2 THEN two ELSE three
  BY <1>1, ImageFold
<1>3. Good(NoPlanes, 0)
  BY DEF NoPlanes, ImageInv, ImageBytes
<1>4. ASSUME NEW l, NEW k \in 0 .. 2, k + 1 <= n, Good(l, k) PROVE Good(P(l, k + 1), k + 1)
  BY <1>4, PutImagePlaneKeeps
<1> HIDE DEF Good, P, n
<1>5. Good(one, 1)
  BY <1>1, <1>3, <1>4
<1> HIDE DEF one
<1>6. n > 1 => Good(two, 2)
  BY <1>1, <1>4, <1>5
<1> HIDE DEF two
<1>7. n > 2 => Good(three, 3)
  BY <1>1, <1>4, <1>6
<1> HIDE DEF three
<1>8. Good(AllImagePlanes(format, width, height), n)
  <2>1. CASE n = 1
    BY <1>2, <1>5, <2>1
  <2>2. CASE n = 2
    BY <1>2, <1>6, <2>2
  <2>3. CASE n = 3
    BY <1>2, <1>7, <2>3
  <2> QED
    BY <1>1, <2>1, <2>2, <2>3
<1> QED
  BY <1>8 DEF Good, n

\* The copies of a region into the first k planes of an image.
CopyInv(c, k, format, image, x, y, width, height) ==
    /\ c = [next |-> ImageBytes(format, image.width, image.height, k), list |-> c.list]
    /\ c.list \in Seq([srcX : Int, srcY : Int, dst : Nat, pitch : Nat, bytes : Nat, rows : Nat])
    /\ Len(c.list) = k
    /\ \A i \in 1 .. k :
         LET copy == c.list[i]
             plane == FormatsInfo[format].planes[i]
         IN  /\ copy.srcX = (x \div 2 ^ plane.x) * FormatsInfo[format].bppc * plane.channels
             /\ copy.srcY = y \div 2 ^ plane.y
             /\ copy.dst = ImageBytes(format, image.width, image.height, i - 1)
             /\ copy.pitch = RowBytes(format, i, image.width)
             /\ copy.bytes = RowBytes(format, i, width)
             /\ copy.rows = Rows(format, i, height)

\* Half of a coordinate, where a plane is subsampled.
LEMMA CoordinateFacts ==
    ASSUME NEW v \in Nat, NEW shift \in {0, 1}
    PROVE  v \div 2 ^ shift \in Nat /\ v \div 2 ^ shift = IF shift = 0 THEN v ELSE v \div 2
<1>1. CASE shift = 0
  <2>1. 2 ^ shift = 1
    BY <1>1, Powers
  <2> QED
    BY <1>1, <2>1
<1>2. CASE shift = 1
  <2>1. 2 ^ shift = 2
    BY <1>2, Powers
  <2> QED
    BY <1>2, <2>1
<1> QED
  BY <1>1, <1>2

\* nvGetImage copies the next plane to where nvCreateImage put it.
LEMMA CopyPlaneKeeps ==
    ASSUME NEW format \in FormatNames, NEW image, image.width \in Nat \ {0}, image.height \in Nat \ {0},
           NEW x \in Nat, NEW y \in Nat, NEW width \in Nat, NEW height \in Nat,
           NEW c, NEW k \in 0 .. 2, k + 1 <= Len(FormatsInfo[format].planes),
           CopyInv(c, k, format, image, x, y, width, height)
    PROVE  CopyInv(CopyPlane(format, image, x, y, width, height, c, k + 1), k + 1,
                   format, image, x, y, width, height)
<1> DEFINE i == k + 1
           info == FormatsInfo[format]
           plane == info.planes[i]
           pitch == RowBytes(format, i, image.width)
           srcX == (x \div 2 ^ plane.x) * info.bppc * plane.channels
           srcY == y \div 2 ^ plane.y
           S(j) == ImageBytes(format, image.width, image.height, j)
           B == PlaneBytes(format, image.width, image.height, i)
           bytes == RowBytes(format, i, width)
           rows == Rows(format, i, height)
           copy == [srcX |-> srcX, srcY |-> srcY, dst |-> c.next, pitch |-> pitch, bytes |-> bytes, rows |-> rows]
           CopySet == [srcX : Int, srcY : Int, dst : Nat, pitch : Nat, bytes : Nat, rows : Nat]
           Is(d, j) == LET p == FormatsInfo[format].planes[j]
                       IN  /\ d.srcX = (x \div 2 ^ p.x) * FormatsInfo[format].bppc * p.channels
                           /\ d.srcY = y \div 2 ^ p.y
                           /\ d.dst = S(j - 1)
                           /\ d.pitch = RowBytes(format, j, image.width)
                           /\ d.bytes = RowBytes(format, j, width)
                           /\ d.rows = Rows(format, j, height)
           list == c.list
           r == CopyPlane(format, image, x, y, width, height, c, i)
<1>1. /\ c = [next |-> S(k), list |-> list]
      /\ list \in Seq(CopySet) /\ Len(list) = k
      /\ \A j \in 1 .. k : Is(list[j], j)
  BY DEF CopyInv
<1>2. i \in 1 .. Len(FormatsInfo[format].planes) /\ i \in Nat /\ i = k + 1 /\ i - 1 = k
  BY FormatFacts
<1>3. /\ S(k) \in Nat /\ S(i) = S(k) + B
  <2>1. k \in 0 .. Len(FormatsInfo[format].planes) - 1 /\ k \in 0 .. Len(FormatsInfo[format].planes)
    BY FormatFacts
  <2> QED
    BY <2>1, BytesFacts
<1>4. srcX \in Int /\ srcY \in Int
  <2>0. /\ info.bppc \in {1, 2}
        /\ \A j \in 1 .. Len(info.planes) : /\ info.planes[j].channels \in {1, 2, 4}
                                             /\ info.planes[j].x \in {0, 1} /\ info.planes[j].y \in {0, 1}
    BY FormatFacts
  <2>1. plane.x \in {0, 1} /\ plane.y \in {0, 1} /\ info.bppc \in Nat /\ plane.channels \in Nat
    <3> HIDE DEF i, info
    <3>1. i \in 1 .. Len(info.planes)
      BY <1>2 DEF info
    <3>2. plane.x \in {0, 1} /\ plane.y \in {0, 1} /\ plane.channels \in {1, 2, 4} /\ info.bppc \in {1, 2}
      BY <2>0, <3>1
    <3> HIDE DEF plane
    <3> QED
      BY <3>2
  <2> HIDE DEF plane, info
  <2>2. x \div 2 ^ plane.x \in Nat /\ y \div 2 ^ plane.y \in Nat
    BY <2>1, CoordinateFacts
  <2> QED
    BY <2>1, <2>2
<1>5. pitch \in Nat /\ bytes \in Nat /\ rows \in Nat
  BY <1>2, RowBytesFacts, RowsFacts
<1>6. r = [next |-> c.next + pitch * Rows(format, i, image.height), list |-> Append(list, copy)]
  BY DEF CopyPlane
<1>7. c.next = S(k)
  <2> HIDE DEF S, list
  <2> QED
    BY <1>1
<1>8. pitch * Rows(format, i, image.height) = B
  BY DEF PlaneBytes
<1> HIDE DEF S, B, list, r, pitch
<1>9. r = [next |-> S(i), list |-> Append(list, copy)]
  BY <1>3, <1>6, <1>7, <1>8
<1>10. copy \in CopySet
  <2> HIDE DEF srcX, srcY, bytes, rows
  <2> QED
    BY <1>3, <1>4, <1>5, <1>7
<1>11. Is(copy, i)
  BY <1>2, <1>7 DEF pitch
<1> HIDE DEF copy, CopySet, Is, i
<1> DEFINE q == Append(list, copy)
<1>12. /\ q \in Seq(CopySet) /\ Len(q) = i /\ q[i] = copy
       /\ \A j \in 1 .. k : q[j] = list[j]
  BY <1>1, <1>2, <1>10
<1>13. r.next = S(i) /\ r.list = q /\ r = [next |-> S(i), list |-> r.list]
  BY <1>9
<1> HIDE DEF q
<1>14. \A j \in 1 .. i : Is(q[j], j)
  <2> SUFFICES ASSUME NEW j \in 1 .. i PROVE Is(q[j], j)
    OBVIOUS
  <2>1. CASE j = i
    BY <1>11, <1>12, <2>1
  <2>2. CASE j \in 1 .. k
    BY <1>1, <1>12, <2>2
  <2>3. j = i \/ j \in 1 .. k
    BY <1>2
  <2> QED
    BY <2>1, <2>2, <2>3
<1>15. CopyInv(r, i, format, image, x, y, width, height)
  BY <1>12, <1>13, <1>14 DEF CopyInv, Is, S, CopySet
<1> QED
  BY <1>15 DEF r, i

\* The copies of nvGetImage, all of them.
LEMMA CopiesComplete ==
    ASSUME NEW format \in FormatNames, NEW image, image.width \in Nat \ {0}, image.height \in Nat \ {0},
           NEW x \in Nat, NEW y \in Nat, NEW width \in Nat, NEW height \in Nat
    PROVE  CopyInv(AllCopies(format, image, x, y, width, height), Len(FormatsInfo[format].planes),
                   format, image, x, y, width, height)
<1> DEFINE n == Len(FormatsInfo[format].planes)
           P(l, i) == CopyPlane(format, image, x, y, width, height, l, i)
           Good(l, k) == CopyInv(l, k, format, image, x, y, width, height)
           one == P(NoCopies, 1)
           two == P(one, 2)
           three == P(two, 3)
           all == AllCopies(format, image, x, y, width, height)
<1>1. n \in 1 .. 3
  BY FormatFacts
<1>2. all = IF n = 1 THEN one ELSE IF n = 2 THEN two ELSE three
  BY <1>1, CopyFold
<1>3. Good(NoCopies, 0)
  BY DEF NoCopies, CopyInv, ImageBytes
<1>4. ASSUME NEW l, NEW k \in 0 .. 2, k + 1 <= n, Good(l, k) PROVE Good(P(l, k + 1), k + 1)
  BY <1>4, CopyPlaneKeeps
<1> HIDE DEF Good, P, n, all
<1>5. Good(one, 1)
  BY <1>1, <1>3, <1>4
<1> HIDE DEF one
<1>6. n > 1 => Good(two, 2)
  BY <1>1, <1>4, <1>5
<1> HIDE DEF two
<1>7. n > 2 => Good(three, 3)
  BY <1>1, <1>4, <1>6
<1> HIDE DEF three
<1>8. Good(all, n)
  <2>1. CASE n = 1
    BY <1>2, <1>5, <2>1
  <2>2. CASE n = 2
    BY <1>2, <1>6, <2>2
  <2>3. CASE n = 3
    BY <1>2, <1>7, <2>3
  <2> QED
    BY <1>1, <2>1, <2>2, <2>3
<1> QED
  BY <1>8 DEF Good, n, all

\* The memory of a VA image and what nvGetImage copies into it: a region of
\* the surface ends inside the surface, its copy inside its plane.
LEMMA RegionFacts ==
    ASSUME NEW format \in FormatNames, NEW i \in 1 .. Len(FormatsInfo[format].planes),
           NEW x \in Nat, NEW width \in Nat, NEW limit \in Nat, x + width <= limit
    PROVE  LET plane == FormatsInfo[format].planes[i]
           IN  /\ (x \div 2 ^ plane.x) * FormatsInfo[format].bppc * plane.channels + RowBytes(format, i, width)
                     <= RowBytes(format, i, limit)
               /\ x \div 2 ^ plane.y + Rows(format, i, width) <= Rows(format, i, limit)
<1> DEFINE info == FormatsInfo[format]
           plane == info.planes[i]
<1>1. plane.x \in {0, 1} /\ plane.y \in {0, 1} /\ info.bppc \in Nat /\ plane.channels \in Nat
  BY FormatFacts
<1>2. PICK c \in Nat \ {0} : /\ c = info.bppc * plane.channels
                            /\ \A v \in Nat : RowBytes(format, i, v) = PlaneExtent(v, plane.x) * c
  BY RowBytesFacts
<1>3. ASSUME NEW s \in {0, 1}
      PROVE  /\ x \div 2 ^ s \in Nat /\ PlaneExtent(width, s) \in Nat /\ PlaneExtent(limit, s) \in Nat
             /\ x \div 2 ^ s + PlaneExtent(width, s) <= PlaneExtent(limit, s)
  <2>1. CASE s = 0
    <3>1. x \div 2 ^ s = x /\ PlaneExtent(width, s) = width /\ PlaneExtent(limit, s) = limit
      BY <2>1, CoordinateFacts, ExtentFacts
    <3> QED
      BY <3>1
  <2>2. CASE s = 1
    <3>1. /\ x \div 2 ^ s = x \div 2 /\ PlaneExtent(width, s) = (width + 1) \div 2
          /\ PlaneExtent(limit, s) = (limit + 1) \div 2
      <4>1. x \div 2 ^ s = x \div 2
        BY <2>2, CoordinateFacts
      <4>2. /\ PlaneExtent(width, s) = (width + 1) \div 2
            /\ PlaneExtent(limit, s) = (limit + 1) \div 2
        <5>1. PlaneExtent(width, s) = (IF s = 0 THEN width ELSE (width + 1) \div 2)
          BY ONLY ExtentFacts, width \in Nat, s \in {0, 1}
        <5>2. PlaneExtent(limit, s) = (IF s = 0 THEN limit ELSE (limit + 1) \div 2)
          BY ONLY ExtentFacts, limit \in Nat, s \in {0, 1}
        <5> QED
          BY <2>2, <5>1, <5>2
      <4> QED
        BY <4>1, <4>2
    <3> QED
      BY <3>1
  <2> QED
    BY <2>1, <2>2
<1>4. Rows(format, i, width) = PlaneExtent(width, plane.y) /\ Rows(format, i, limit) = PlaneExtent(limit, plane.y)
  BY DEF Rows
<1> HIDE DEF info, plane
<1> DEFINE a == x \div 2 ^ plane.x
           b == PlaneExtent(width, plane.x)
           d == PlaneExtent(limit, plane.x)
<1>5. a \in Nat /\ b \in Nat /\ d \in Nat /\ a + b <= d
  BY <1>1, <1>3
<1>6. RowBytes(format, i, width) = b * c /\ RowBytes(format, i, limit) = d * c
  BY <1>2
<1> HIDE DEF a, b, d
<1>7. (a + b) * c <= d * c /\ (a + b) * c = a * c + b * c /\ a * info.bppc * plane.channels = a * c
  <2>1. (a + b) * c <= d * c
    BY <1>5, TimesMonotone
  <2>2. (a + b) * c = a * c + b * c
    BY <1>5
  <2>3. a * info.bppc * plane.channels = a * (info.bppc * plane.channels)
    BY <1>1, <1>5
  <2>4. c = info.bppc * plane.channels
    BY <1>2
  <2> QED
    BY <2>1, <2>2, <2>3, <2>4
<1>8. a * info.bppc * plane.channels + RowBytes(format, i, width) <= RowBytes(format, i, limit)
  BY <1>2, <1>5, <1>6, <1>7
<1>9. x \div 2 ^ plane.y + Rows(format, i, width) <= Rows(format, i, limit)
  BY <1>1, <1>3, <1>4
<1> QED
  BY <1>8, <1>9 DEF a, info, plane

\* Whatever the sizes of surface and image and the region that is asked for,
\* nvCreateImage allocates exactly the bytes of the planes or refuses what 32
\* bits cannot hold, and nvGetImage reads inside the surface and writes each
\* plane where the client expects it and nowhere else.
THEOREM VAImagesCorrect ==
    \A format \in FormatNames, surface \in [width : Nat, height : Nat],
       size \in [width : Nat \ {0}, height : Nat \ {0}],
       x \in Int, y \in Int, width \in Nat, height \in Nat :
         ImageSound(format, surface, size, x, y, width, height)
<1> SUFFICES ASSUME NEW format \in FormatNames, NEW surface \in [width : Nat, height : Nat],
                    NEW size \in [width : Nat \ {0}, height : Nat \ {0}],
                    NEW x \in Int, NEW y \in Int, NEW width \in Nat, NEW height \in Nat
             PROVE  ImageSound(format, surface, size, x, y, width, height)
  OBVIOUS
<1> DEFINE w == size.width
           h == size.height
           n == Len(FormatsInfo[format].planes)
           S(k) == ImageBytes(format, w, h, k)
           bytes == VisibleBytes(format, w, h)
           all == AllImagePlanes(format, w, h)
           image == CreateImage(format, w, h)
           copies == GetImage(format, surface, size, x, y, width, height)
<1>1. w \in Nat \ {0} /\ h \in Nat \ {0} /\ surface.width \in Nat /\ surface.height \in Nat
  OBVIOUS
<1>2. n \in 1 .. 3
  BY FormatFacts
<1>3. ImageInv(all, n, format, w, h)
  BY <1>1, ImageComplete
<1>4. image = IF ~all.ok THEN Refused ELSE IF all.size > UInt32Max THEN Refused ELSE all
  <2>1. ~(w <= 0) /\ ~(h <= 0)
    BY <1>1
  <2> HIDE DEF w, h
  <2>2. image = IF w <= 0 \/ h <= 0 \/ ~all.ok THEN Refused
                ELSE IF all.size > UInt32Max THEN Refused ELSE all
    BY Zenon DEF CreateImage, AllImagePlanes
  <2> HIDE DEF image, all
  <2> QED
    BY <2>1, <2>2
<1>5. /\ bytes = S(n)
      /\ \A k \in 0 .. n : S(k) \in Nat
      /\ \A k \in 0 .. n - 1 : /\ PlaneBytes(format, w, h, k + 1) \in Nat
                               /\ S(k + 1) = S(k) + PlaneBytes(format, w, h, k + 1)
  BY <1>1, BytesFacts
<1> HIDE DEF all, w, h, n, image, bytes, S
<1>6. /\ all.ok \in BOOLEAN
      /\ all.ok =>
           /\ all.size = S(n) /\ all = [ok |-> TRUE, size |-> S(n), planes |-> all.planes]
           /\ \A i \in 1 .. n : /\ all.planes[i].offset = S(i - 1)
                                /\ all.planes[i].pitch = RowBytes(format, i, w)
      /\ ~all.ok => S(n) > UInt32Max
  <2>1. /\ all.ok \in BOOLEAN
        /\ all.ok =>
             /\ all = [ok |-> TRUE, size |-> S(n), planes |-> all.planes]
             /\ \A i \in 1 .. n : /\ all.planes[i].offset = S(i - 1)
                                  /\ all.planes[i].pitch = RowBytes(format, i, w)
        /\ ~all.ok => S(n) > UInt32Max
    BY <1>3 DEF ImageInv, S
  <2> QED
    BY <2>1
<1>7. S(n) \in Nat /\ UInt32Max \in Nat
  BY <1>2, <1>5, WordsAssumption
<1>8. image.ok <=> bytes <= UInt32Max
  <2>1. CASE ~all.ok
    <3>1. image.ok = FALSE
      BY <1>4, <2>1 DEF Refused
    <3> QED
      BY <1>5, <1>6, <1>7, <2>1, <3>1
  <2>2. CASE all.ok /\ all.size > UInt32Max
    <3>1. image.ok = FALSE
      BY <1>4, <2>2 DEF Refused
    <3> QED
      BY <1>5, <1>6, <1>7, <2>2, <3>1
  <2>3. CASE all.ok /\ ~(all.size > UInt32Max)
    <3>1. image = all
      BY <1>4, <2>3
    <3> QED
      BY <1>5, <1>6, <1>7, <2>3, <3>1
  <2> QED
    BY <1>6, <2>1, <2>2, <2>3
<1>9. image.ok => image = all /\ all.ok /\ image.size = S(n)
  <2>1. image = Refused \/ (image = all /\ all.ok)
    BY <1>4, <1>6
  <2>2. Refused.ok = FALSE
    BY DEF Refused
  <2> QED
    BY <1>6, <2>1, <2>2
<1>10. ASSUME image.ok, NEW i \in DOMAIN copies
       PROVE  /\ copies[i].dst = image.planes[i].offset /\ copies[i].pitch = image.planes[i].pitch
              /\ copies[i].bytes <= copies[i].pitch
              /\ copies[i].dst + copies[i].rows * copies[i].pitch
                   <= (IF i = n THEN image.size ELSE image.planes[i + 1].offset)
              /\ copies[i].srcX + copies[i].bytes <= RowBytes(format, i, surface.width)
              /\ copies[i].srcY + copies[i].rows <= Rows(format, i, surface.height)
  <2> DEFINE c == AllCopies(format, size, x, y, width, height)
             refused == \/ x < 0 \/ y < 0 \/ width = 0 \/ height = 0
                        \/ x + width > surface.width \/ y + height > surface.height
                        \/ width > w \/ height > h
  <2>1. copies = IF refused THEN <<>> ELSE c.list
    BY DEF GetImage, AllCopies, NoCopies, w, h
  <2> HIDE DEF copies, c
  <2>2. ~refused
    <3> SUFFICES ASSUME refused PROVE FALSE
      OBVIOUS
    <3> HIDE DEF refused
    <3>1. copies = <<>>
      BY <2>1
    <3> QED
      BY <1>10, <3>1
  <2>3. /\ x \in Nat /\ y \in Nat /\ x + width <= surface.width /\ y + height <= surface.height
        /\ width <= w /\ height <= h
    BY <1>1, <2>2
  <2>4. CopyInv(c, n, format, size, x, y, width, height)
    BY <1>1, <2>3, CopiesComplete DEF c, n, w, h
  <2> DEFINE plane == FormatsInfo[format].planes[i]
  <2>5. /\ i \in 1 .. n
        /\ copies[i].srcX = (x \div 2 ^ plane.x) * FormatsInfo[format].bppc * plane.channels
        /\ copies[i].srcY = y \div 2 ^ plane.y
        /\ copies[i].dst = S(i - 1)
        /\ copies[i].pitch = RowBytes(format, i, w)
        /\ copies[i].bytes = RowBytes(format, i, width)
        /\ copies[i].rows = Rows(format, i, height)
    <3> DEFINE list == c.list
    <3> HIDE DEF refused
    <3>1. copies = list
      BY <2>1, <2>2
    <3>2. /\ list \in Seq([srcX : Int, srcY : Int, dst : Nat, pitch : Nat, bytes : Nat, rows : Nat])
          /\ Len(list) = n
          /\ \A j \in 1 .. n :
                LET copy == list[j]
                    p == FormatsInfo[format].planes[j]
                IN  /\ copy.srcX = (x \div 2 ^ p.x) * FormatsInfo[format].bppc * p.channels
                    /\ copy.srcY = y \div 2 ^ p.y
                    /\ copy.dst = S(j - 1)
                    /\ copy.pitch = RowBytes(format, j, w)
                    /\ copy.bytes = RowBytes(format, j, width)
                    /\ copy.rows = Rows(format, j, height)
      BY <2>4 DEF CopyInv, S, w, h
    <3> HIDE DEF list
    <3>3. i \in 1 .. n
      BY <1>10, <3>1, <3>2
    <3> QED
      BY <3>1, <3>2, <3>3
  <2>6. /\ image.planes[i].offset = S(i - 1) /\ image.planes[i].pitch = RowBytes(format, i, w)
        /\ i # n => image.planes[i + 1].offset = S(i)
    <3>1. i # n => i + 1 \in 1 .. n /\ (i + 1) - 1 = i
      BY <1>2, <2>5
    <3> QED
      BY <1>6, <1>9, <1>10, <2>5, <3>1
  <2>7. image.size = S(n)
    BY <1>9, <1>10
  <2>8. /\ RowBytes(format, i, w) \in Nat /\ RowBytes(format, i, width) \in Nat
        /\ RowBytes(format, i, width) <= RowBytes(format, i, w)
    BY <1>1, <2>3, <2>5, RowBytesFacts DEF n
  <2>9. /\ Rows(format, i, h) \in Nat /\ Rows(format, i, height) \in Nat
        /\ Rows(format, i, height) <= Rows(format, i, h)
    BY <1>1, <2>3, <2>5, RowsFacts DEF n
  <2>10. S(i - 1) \in Nat /\ S(i) = S(i - 1) + RowBytes(format, i, w) * Rows(format, i, h)
    <3>1. i - 1 \in 0 .. n - 1 /\ i - 1 \in 0 .. n /\ (i - 1) + 1 = i
      BY <1>2, <2>5
    <3> QED
      BY <1>5, <3>1 DEF PlaneBytes
  <2>11. S(i - 1) + Rows(format, i, height) * RowBytes(format, i, w) <= S(i)
    <3> DEFINE p == RowBytes(format, i, w)
               a == Rows(format, i, height)
               b == Rows(format, i, h)
    <3> HIDE DEF p, a, b
    <3>1. a * p <= b * p /\ a * p \in Int /\ b * p \in Int /\ b * p = p * b
      BY <2>8, <2>9, TimesMonotone DEF p, a, b
    <3>2. S(i - 1) + a * p <= S(i)
      BY <2>10, <3>1 DEF p, a, b
    <3> QED
      BY <3>2 DEF p, a
  <2>12. /\ copies[i].srcX + copies[i].bytes <= RowBytes(format, i, surface.width)
    BY <1>1, <2>3, <2>5, RegionFacts DEF n
  <2>13. /\ copies[i].srcY + copies[i].rows <= Rows(format, i, surface.height)
    BY <1>1, <2>3, <2>5, RegionFacts DEF n
  <2>14. copies[i].dst + copies[i].rows * copies[i].pitch
           <= (IF i = n THEN image.size ELSE image.planes[i + 1].offset)
    BY <2>5, <2>6, <2>7, <2>11
  <2> QED
    BY <2>5, <2>6, <2>8, <2>12, <2>13, <2>14
<1>11. image.size = bytes \/ ~image.ok
  BY <1>5, <1>9
<1> QED
  BY <1>8, <1>10, <1>11 DEF ImageSound, image, bytes, copies, n, w, h, VisibleBytes

-----------------------------------------------------------------------------
(* Imports *)

\* At most four layers, one behind the other, are a sequence of planes.
LEMMA FlattenFacts ==
    ASSUME NEW X, NEW seqs \in Seq(Seq(X)), Len(seqs) \in 1 .. 4
    PROVE  Seqs!FlattenSeq(seqs) \in Seq(X)
<1> DEFINE m == Len(seqs)
           W(f) == f = [i \in 1 .. m |-> IF i = 1 THEN seqs[i] ELSE f[i - 1] \o seqs[i]]
           two == seqs[1] \o seqs[2]
           three == two \o seqs[3]
           g == [i \in 1 .. m |-> IF i = 1 THEN seqs[1] ELSE IF i = 2 THEN two
                                  ELSE IF i = 3 THEN three ELSE three \o seqs[4]]
<1>1. Seqs!FlattenSeq(seqs) = (CHOOSE f : W(f))[m]
  BY DEF Seqs!FlattenSeq
<1>2. m \in 1 .. 4 /\ \A i \in 1 .. m : seqs[i] \in Seq(X)
  OBVIOUS
<1> HIDE DEF m
<1>3. W(g)
  <2>1. \A i \in 1 .. m : i = 1 \/ i = 2 \/ i = 3 \/ i = 4
    BY <1>2
  <2>2. \A i \in 1 .. m : g[i] = IF i = 1 THEN seqs[i] ELSE g[i - 1] \o seqs[i]
    <3> SUFFICES ASSUME NEW i \in 1 .. m PROVE g[i] = IF i = 1 THEN seqs[i] ELSE g[i - 1] \o seqs[i]
      OBVIOUS
    <3> HIDE DEF two, three
    <3>1. CASE i = 1
      BY <3>1
    <3>2. CASE i = 2
      <4>1. g[2] = two /\ g[1] = seqs[1] /\ i - 1 = 1
        BY <1>2, <3>2
      <4> QED
        BY <3>2, <4>1 DEF two
    <3>3. CASE i = 3
      <4>1. g[3] = three /\ g[2] = two /\ i - 1 = 2
        BY <1>2, <3>3
      <4> QED
        BY <3>3, <4>1 DEF three
    <3>4. CASE i = 4
      <4>1. g[4] = three \o seqs[4] /\ g[3] = three /\ i - 1 = 3
        BY <1>2, <3>4
      <4> QED
        BY <3>4, <4>1
    <3> QED
      BY <2>1, <3>1, <3>2, <3>3, <3>4
  <2> DEFINE u == [i \in 1 .. m |-> IF i = 1 THEN seqs[i] ELSE g[i - 1] \o seqs[i]]
  <2>3. \A i \in 1 .. m : g[i] = u[i]
    BY <2>2
  <2> QED
    BY <2>3, Zenon
<1> HIDE DEF g
<1>4. PICK f : f = (CHOOSE v : W(v)) /\ W(f)
  <2> HIDE DEF W
  <2> QED
    BY <1>3
<1> DEFINE C(a, b) == a \o b
<1>5. \A i \in 1 .. m : f[i] = IF i = 1 THEN seqs[i] ELSE C(f[i - 1], seqs[i])
  BY <1>4, Zenon
<1>6. \A a, b \in Seq(X) : C(a, b) \in Seq(X)
  OBVIOUS
<1> HIDE DEF C
<1>7. /\ f[1] = seqs[1]
      /\ m > 1 => f[2] = C(f[1], seqs[2])
      /\ m > 2 => f[3] = C(f[2], seqs[3])
      /\ m > 3 => f[4] = C(f[3], seqs[4])
  BY <1>2, <1>5
<1>8. /\ seqs[1] \in Seq(X) /\ (m > 1 => seqs[2] \in Seq(X))
      /\ m > 2 => seqs[3] \in Seq(X)
      /\ m > 3 => seqs[4] \in Seq(X)
  BY <1>2
<1>9. /\ f[1] \in Seq(X) /\ (m > 1 => f[2] \in Seq(X))
      /\ m > 2 => f[3] \in Seq(X)
      /\ m > 3 => f[4] \in Seq(X)
  <2>1. f[1] \in Seq(X)
    BY <1>7, <1>8
  <2>2. m > 1 => f[2] \in Seq(X)
    BY <1>6, <1>7, <1>8, <2>1
  <2>3. m > 2 => f[3] \in Seq(X)
    BY <1>2, <1>6, <1>7, <1>8, <2>2
  <2>4. m > 3 => f[4] \in Seq(X)
    <3>1. m > 3 => m > 2
      BY <1>2
    <3>2. m > 3 => f[3] \in Seq(X) /\ seqs[4] \in Seq(X) /\ f[4] = C(f[3], seqs[4])
      BY <1>7, <1>8, <2>3, <3>1
    <3> QED
      BY <1>6, <3>2
  <2> QED
    BY <2>1, <2>2, <2>3, <2>4
<1> QED
  BY <1>1, <1>2, <1>4, <1>9

\* The 64-bit sum of EndsInside never wraps: what it compares is the end of
\* the last row.
LEMMA EndsInsideFacts ==
    ASSUME NEW plane, plane.offset \in Nat, plane.pitch \in Nat \ {0},
           NEW rows \in Nat \ {0}, NEW rowBytes \in Nat, NEW size \in Nat
    PROVE  LET end == plane.offset + (rows - 1) * plane.pitch + rowBytes
           IN  /\ end \in Nat
               /\ EndsInside(plane, rows, rowBytes, size) <=> end <= UInt64Max /\ end <= size
<1> DEFINE offset == plane.offset
           pitch == plane.pitch
           U == UInt64Max
           a == U - offset - rowBytes
           d == a \div pitch
           last == (rows - 1) * pitch
           end == offset + last + rowBytes
<1>1. U \in Nat
  BY WordsAssumption
<1>2. offset \in Nat /\ pitch \in Nat \ {0} /\ rows - 1 \in Nat
  OBVIOUS
<1>3. EndsInside(plane, rows, rowBytes, size) <=> rows - 1 <= d /\ end % (U + 1) <= size
  BY DEF EndsInside
<1> HIDE DEF offset, pitch, U
<1>4. last \in Nat
  BY <1>2, TimesNat
<1>5. a \in Int
  BY <1>1, <1>2
<1>6. d \in Int /\ pitch * d <= a /\ a < pitch * d + pitch
  <2> HIDE DEF a
  <2> QED
    BY <1>2, <1>5, Division
<1> HIDE DEF d
<1>7. rows - 1 <= d <=> last <= a
  <2> HIDE DEF a
  <2> DEFINE r == rows - 1
  <2>1. r \in Int /\ last = r * pitch
    BY <1>2
  <2> HIDE DEF r, last
  <2>2. r <= d => r * pitch <= pitch * d
    BY <1>2, <1>6, <2>1
  <2>3. r > d => r * pitch >= pitch * d + pitch
    BY <1>2, <1>6, <2>1
  <2>4. r * pitch \in Int /\ pitch * d \in Int /\ (r <= d \/ r > d)
    BY <1>2, <1>6, <2>1
  <2>5. r <= d <=> last <= a
    BY <1>2, <1>5, <1>6, <2>1, <2>2, <2>3, <2>4
  <2> QED
    BY <2>5 DEF r
<1> HIDE DEF last
<1>8. end \in Nat /\ (last <= a <=> end <= U)
  BY <1>1, <1>2, <1>4
<1> HIDE DEF end
<1>9. end <= U => end % (U + 1) = end
  BY <1>1, <1>8
<1>10. EndsInside(plane, rows, rowBytes, size) <=> end <= U /\ end <= size
  BY <1>3, <1>7, <1>8, <1>9
<1> QED
  BY <1>8, <1>10 DEF end, offset, last, pitch, U

\* What ends inside an object, does so with fewer and with shorter rows.
LEMMA EndsInsideMonotone ==
    ASSUME NEW plane, plane.offset \in Nat, plane.pitch \in Nat \ {0},
           NEW rows \in Nat \ {0}, NEW rowBytes \in Nat, NEW size \in Nat,
           NEW less \in Nat \ {0}, less <= rows, NEW shorter \in Nat, shorter <= rowBytes,
           EndsInside(plane, rows, rowBytes, size)
    PROVE  EndsInside(plane, less, shorter, size)
<1> DEFINE offset == plane.offset
           pitch == plane.pitch
           full == (rows - 1) * pitch
           part == (less - 1) * pitch
<1>1. UInt64Max \in Nat /\ offset \in Nat /\ pitch \in Nat
  BY WordsAssumption
<1>2. offset + full + rowBytes <= UInt64Max /\ offset + full + rowBytes <= size
  BY EndsInsideFacts
<1>3. part <= full /\ part \in Int /\ full \in Int
  <2>1. less - 1 <= rows - 1 /\ less - 1 \in Int /\ rows - 1 \in Int
    OBVIOUS
  <2> HIDE DEF pitch
  <2> QED
    BY <1>1, <2>1, TimesMonotone
<1>4. offset + part + shorter <= UInt64Max /\ offset + part + shorter <= size
  <2> HIDE DEF full, part, offset
  <2> QED
    BY <1>1, <1>2, <1>3
<1> QED
  BY <1>4, EndsInsideFacts

\* An element of a sequence.
LEMMA ElementIn ==
    ASSUME NEW X, NEW s \in Seq(X), NEW i \in 1 .. Len(s)
    PROVE  s[i] \in X
OBVIOUS

\* An image with planes in objects of known sizes.
ImportedImage(img) ==
    /\ img.planes \in Seq([object : Nat \ {0}, offset : Nat, pitch : Nat])
    /\ img.sizes \in Seq(Nat)
    /\ \A i \in 1 .. Len(img.planes) : img.planes[i].object \in 1 .. Len(img.sizes)

\* validate_imported_layout: every row of every plane ends inside its object.
LEMMA ValidatedRows ==
    ASSUME NEW format \in FormatNames, NEW img, NEW width \in Nat, NEW height \in Nat,
           ImportedImage(img), ValidateImportedLayout(format, img, width, height),
           NEW i \in DOMAIN img.planes
    PROVE  LET p == img.planes[i]
           IN  /\ i \in 1 .. Len(FormatsInfo[format].planes)
               /\ p.offset \in Nat /\ p.pitch \in Nat \ {0} /\ p.object \in 1 .. Len(img.sizes)
               /\ img.sizes[p.object] \in Nat
               /\ p.pitch >= RowBytes(format, i, width)
               /\ Rows(format, i, height) \in Nat \ {0}
               /\ EndsInside(p, Rows(format, i, height), RowBytes(format, i, width), img.sizes[p.object])
               /\ \A row \in 0 .. Rows(format, i, height) - 1 :
                     p.offset + row * p.pitch + RowBytes(format, i, width) <= img.sizes[p.object]
<1> DEFINE p == img.planes[i]
           rows == Rows(format, i, height)
           rowBytes == RowBytes(format, i, width)
           size == img.sizes[p.object]
<1>1. i \in 1 .. Len(img.planes) /\ Len(img.planes) = Len(FormatsInfo[format].planes)
  <2>1. Len(img.planes) = Len(FormatsInfo[format].planes)
    BY DEF ValidateImportedLayout
  <2> DEFINE planes == img.planes
  <2>2. planes \in Seq([object : Nat \ {0}, offset : Nat, pitch : Nat]) /\ i \in DOMAIN planes
    BY DEF ImportedImage
  <2> HIDE DEF planes
  <2>3. i \in 1 .. Len(planes)
    BY <2>2
  <2> QED
    BY <2>1, <2>3 DEF planes
<1>2. p \in [object : Nat \ {0}, offset : Nat, pitch : Nat] /\ p.object \in 1 .. Len(img.sizes)
      /\ img.sizes \in Seq(Nat)
  <2> DEFINE planes == img.planes
  <2>1. /\ planes \in Seq([object : Nat \ {0}, offset : Nat, pitch : Nat]) /\ i \in 1 .. Len(planes)
        /\ p = planes[i]
        /\ \A j \in 1 .. Len(planes) : planes[j].object \in 1 .. Len(img.sizes)
        /\ img.sizes \in Seq(Nat)
    BY <1>1 DEF ImportedImage
  <2> HIDE DEF planes, p
  <2>2. planes[i] \in [object : Nat \ {0}, offset : Nat, pitch : Nat]
    BY <2>1, ElementIn, Zenon
  <2>3. planes[i].object \in 1 .. Len(img.sizes)
    BY <2>1, Zenon
  <2> QED
    BY <2>1, <2>2, <2>3
<1>3. p.pitch > 0 /\ p.pitch >= rowBytes /\ rows > 0 /\ EndsInside(p, rows, rowBytes, size)
  BY DEF ValidateImportedLayout
<1>4. rows \in Nat /\ rowBytes \in Nat
  BY <1>1, RowsFacts, RowBytesFacts
<1> HIDE DEF p, rows, rowBytes
<1>5. p.offset \in Nat /\ p.pitch \in Nat /\ size \in Nat
  BY <1>2
<1>6. p.pitch \in Nat \ {0} /\ rows \in Nat \ {0}
  BY <1>3, <1>4, <1>5
<1> HIDE DEF size
<1>7. ASSUME NEW row \in 0 .. rows - 1
      PROVE  p.offset + row * p.pitch + rowBytes <= size
  <2> DEFINE less == row + 1
  <2>1. less \in Nat \ {0} /\ less <= rows /\ less - 1 = row
    BY <1>6, <1>7
  <2> HIDE DEF less
  <2>2. rowBytes <= rowBytes
    BY <1>4
  <2>3. EndsInside(p, less, rowBytes, size)
    BY <1>3, <1>4, <1>5, <1>6, <2>1, <2>2, EndsInsideMonotone
  <2>4. p.offset + (less - 1) * p.pitch + rowBytes <= size
    BY <1>4, <1>5, <1>6, <2>1, <2>3, EndsInsideFacts
  <2> QED
    BY <2>1, <2>4
<1> QED
  BY <1>1, <1>2, <1>3, <1>5, <1>6, <1>7 DEF p, rows, rowBytes, size

\* VideoProc and nvGetImage find every part of a validated image in range.
LEMMA ValidatedParts ==
    ASSUME NEW format \in FormatNames, NEW img, NEW width \in Nat, NEW height \in Nat,
           ImportedImage(img), ValidateImportedLayout(format, img, width, height),
           NEW w \in 1 .. width, NEW h \in 1 .. height
    PROVE  VideoProcImageRangeValid(format, img, width, height, w, h)
<1> DEFINE n == Len(FormatsInfo[format].planes)
<1>1. /\ Len(img.planes) = n /\ DOMAIN img.planes = 1 .. n
      /\ DOMAIN FormatsInfo[format].planes = 1 .. n /\ n \in 1 .. 3
  BY FormatFacts DEF ImportedImage, ValidateImportedLayout
<1>2. ASSUME NEW i \in 1 .. n
      PROVE  LET plane == img.planes[i]
                 rowBytes == RowBytes(format, i, w)
             IN  /\ plane.object <= Len(img.sizes) /\ plane.offset >= 0
                 /\ plane.pitch > 0 /\ rowBytes <= plane.pitch
                 /\ EndsInside(plane, Rows(format, i, h), rowBytes, img.sizes[plane.object])
  <2> DEFINE p == img.planes[i]
             size == img.sizes[p.object]
             rows == Rows(format, i, height)
             bytes == RowBytes(format, i, width)
             less == Rows(format, i, h)
             shorter == RowBytes(format, i, w)
  <2>1. /\ p.offset \in Nat /\ p.pitch \in Nat \ {0} /\ p.object \in 1 .. Len(img.sizes)
        /\ size \in Nat /\ p.pitch >= bytes /\ rows \in Nat \ {0}
        /\ EndsInside(p, rows, bytes, size)
    BY <1>1, <1>2, ValidatedRows
  <2>2. less \in Nat \ {0} /\ less <= rows
    <3>1. h \in Nat \ {0} /\ h <= height /\ i \in 1 .. Len(FormatsInfo[format].planes)
      BY <1>2
    <3> QED
      BY <3>1, RowsFacts
  <2>3. shorter \in Nat /\ shorter <= bytes /\ bytes \in Nat
    <3>1. w \in Nat /\ w <= width /\ i \in 1 .. Len(FormatsInfo[format].planes)
      BY <1>2
    <3> QED
      BY <3>1, RowBytesFacts
  <2>4. Len(img.sizes) \in Nat
    BY DEF ImportedImage
  <2> HIDE DEF p, size, rows, bytes, less, shorter
  <2>5. EndsInside(p, less, shorter, size)
    BY <2>1, <2>2, <2>3, EndsInsideMonotone
  <2>6. p.object <= Len(img.sizes) /\ p.offset >= 0 /\ p.pitch > 0 /\ shorter <= p.pitch
    BY <2>1, <2>3, <2>4
  <2> QED
    BY <2>5, <2>6 DEF p, size, less, shorter
<1>3. w \in 1 .. width /\ h \in 1 .. height /\ Len(img.planes) >= n
  BY <1>1
<1> QED
  BY <1>1, <1>2, <1>3 DEF VideoProcImageRangeValid

\* A plane of a client's descriptor.
PlaneRecord == [object : Nat \ {0}, offset : Nat, pitch : Nat]

ObjectRecord == [fd : Int, size : Nat]

\* What the parser makes of a descriptor: planes in objects whose files are
\* known.
Importable(imported, fdSize) ==
    /\ imported.planes \in Seq(PlaneRecord)
    /\ imported.objects \in Seq(ObjectRecord)
    /\ \A i \in 1 .. Len(imported.objects) : fdSize[imported.objects[i].fd] \in Nat
    /\ \A i \in 1 .. Len(imported.planes) : imported.planes[i].object \in 1 .. Len(imported.objects)

\* The bytes of an object: what the client declares, else the file's size.
RoomOf(object, fdSize) == IF object.size # 0 THEN object.size ELSE fdSize[object.fd]

\* createImportedBackingImageImpl: every object has a size that its file has
\* room for.
LEMMA ImportedObjectsFacts ==
    ASSUME NEW imported, NEW fdSize, Importable(imported, fdSize),
           NEW img, img = ImportedObjects(imported, fdSize), img.ok
    PROVE  /\ ImportedImage(img) /\ img.planes = imported.planes
           /\ \A i \in 1 .. Len(imported.objects) :
                /\ img.fds[i] = imported.objects[i].fd
                /\ img.sizes[i] = RoomOf(imported.objects[i], fdSize)
                /\ fdSize[imported.objects[i].fd] # 0 =>
                     RoomOf(imported.objects[i], fdSize) <= fdSize[imported.objects[i].fd]
<1> DEFINE objects == imported.objects
           planes == imported.planes
           n == Len(objects)
           sizes == [i \in DOMAIN objects |-> RoomOf(objects[i], fdSize)]
           fds == [i \in DOMAIN sizes |-> objects[i].fd]
           bad == \E i \in DOMAIN sizes : \/ sizes[i] = 0
                                          \/ fdSize[objects[i].fd] # 0 /\ sizes[i] > fdSize[objects[i].fd]
           ranges == \E p \in Seqs!ToSet(planes) : p.pitch > Int32Max \/ p.offset > Int32Max
           sum == Seqs!FoldLeft(LAMBDA a, s : a + s, 0, sizes)
<1>1. /\ planes \in Seq(PlaneRecord) /\ objects \in Seq(ObjectRecord)
      /\ \A i \in 1 .. n : fdSize[objects[i].fd] \in Nat
      /\ \A i \in 1 .. Len(planes) : planes[i].object \in 1 .. n
  BY DEF Importable
<1>2. ImportedObjects(imported, fdSize) =
        IF bad \/ sum > UInt64Max \/ ranges THEN Refused
        ELSE [ok |-> TRUE, sizes |-> sizes, fds |-> fds, planes |-> planes]
  BY Zenon DEF ImportedObjects, RoomOf
<1> HIDE DEF objects, planes, sizes, fds, bad, ranges, sum
<1>3. ~bad /\ img = [ok |-> TRUE, sizes |-> sizes, fds |-> fds, planes |-> planes]
  <2>1. Refused.ok = FALSE
    BY DEF Refused
  <2>2. img # Refused
    BY <2>1
  <2> QED
    BY <1>2, <2>2
<1>4. img.sizes = sizes /\ img.fds = fds /\ img.planes = planes
  BY <1>3
<1>5. DOMAIN objects = 1 .. n /\ n \in Nat
  BY <1>1
<1>6. \A i \in 1 .. n : objects[i] \in ObjectRecord
  BY <1>1, ElementIn
<1> HIDE DEF n
<1>7. \A i \in 1 .. n : RoomOf(objects[i], fdSize) \in Nat
  BY <1>1, <1>6 DEF RoomOf, ObjectRecord
<1>8. DOMAIN sizes = 1 .. n /\ \A i \in 1 .. n : sizes[i] = RoomOf(objects[i], fdSize) /\ fds[i] = objects[i].fd
  BY <1>5 DEF sizes, fds
<1>9. sizes \in Seq(Nat) /\ Len(sizes) = n
  <2>1. sizes = [i \in 1 .. n |-> RoomOf(objects[i], fdSize)]
    BY <1>5 DEF sizes
  <2> QED
    BY <1>5, <1>7, <2>1
<1>10. \A i \in 1 .. n : fdSize[objects[i].fd] # 0 => RoomOf(objects[i], fdSize) <= fdSize[objects[i].fd]
  <2> SUFFICES ASSUME NEW i \in 1 .. n, fdSize[objects[i].fd] # 0
               PROVE  RoomOf(objects[i], fdSize) <= fdSize[objects[i].fd]
    OBVIOUS
  <2>1. ~(sizes[i] > fdSize[objects[i].fd])
    BY <1>3, <1>8 DEF bad
  <2> QED
    BY <1>1, <1>7, <1>8, <2>1 DEF n
<1>11. ImportedImage(img)
  BY <1>1, <1>4, <1>9 DEF ImportedImage, PlaneRecord, n
<1> QED
  BY <1>4, <1>8, <1>10, <1>11 DEF objects, planes, n

\* What an accepted import of planes, in the objects of the selected surface,
\* means for each plane and for VideoProc.
LEMMA AcceptedImport ==
    ASSUME NEW format \in FormatNames, NEW selected, NEW fdSize, NEW width \in Nat, NEW height \in Nat,
           Importable(selected, fdSize), NEW img, img = ImportedObjects(selected, fdSize), img.ok,
           ValidateImportedLayout(format, img, width, height)
    PROVE  /\ \A i \in 1 .. Len(selected.planes) :
                LET p == selected.planes[i]
                    o == selected.objects[p.object]
                IN  /\ p.pitch >= RowBytes(format, i, width)
                    /\ \A row \in 0 .. Rows(format, i, height) - 1 :
                          p.offset + row * p.pitch + RowBytes(format, i, width) <= RoomOf(o, fdSize)
                    /\ img.planes[i] = p /\ img.fds[p.object] = o.fd
                    /\ fdSize[o.fd] # 0 => RoomOf(o, fdSize) <= fdSize[o.fd]
           /\ \A w \in 1 .. width, h \in 1 .. height :
                VideoProcImageRangeValid(format, img, width, height, w, h)
<1>1. /\ ImportedImage(img) /\ img.planes = selected.planes
      /\ \A i \in 1 .. Len(selected.objects) :
           /\ img.fds[i] = selected.objects[i].fd
           /\ img.sizes[i] = RoomOf(selected.objects[i], fdSize)
           /\ fdSize[selected.objects[i].fd] # 0 =>
                RoomOf(selected.objects[i], fdSize) <= fdSize[selected.objects[i].fd]
  BY ImportedObjectsFacts
<1>2. ASSUME NEW i \in 1 .. Len(selected.planes)
      PROVE  LET p == selected.planes[i]
                 o == selected.objects[p.object]
             IN  /\ p.pitch >= RowBytes(format, i, width)
                 /\ \A row \in 0 .. Rows(format, i, height) - 1 :
                       p.offset + row * p.pitch + RowBytes(format, i, width) <= RoomOf(o, fdSize)
                 /\ img.planes[i] = p /\ img.fds[p.object] = o.fd
                 /\ fdSize[o.fd] # 0 => RoomOf(o, fdSize) <= fdSize[o.fd]
  <2> DEFINE p == selected.planes[i]
             o == selected.objects[p.object]
             planes == selected.planes
  <2>1. p.object \in 1 .. Len(selected.objects)
    BY <1>2 DEF Importable
  <2>2. i \in DOMAIN img.planes
    <3>1. planes \in Seq(PlaneRecord) /\ i \in 1 .. Len(planes) /\ img.planes = planes
      BY <1>1, <1>2 DEF Importable
    <3> HIDE DEF planes
    <3> QED
      BY <3>1
  <2>3. img.planes[i] = p
    BY <1>1
  <2>4. /\ p.pitch >= RowBytes(format, i, width)
        /\ \A row \in 0 .. Rows(format, i, height) - 1 :
              p.offset + row * p.pitch + RowBytes(format, i, width) <= img.sizes[p.object]
    BY <1>1, <2>2, <2>3, ValidatedRows
  <2>5. /\ img.sizes[p.object] = RoomOf(o, fdSize) /\ img.fds[p.object] = o.fd
        /\ fdSize[o.fd] # 0 => RoomOf(o, fdSize) <= fdSize[o.fd]
    BY <1>1, <2>1
  <2> HIDE DEF p, o
  <2>6. \A row \in 0 .. Rows(format, i, height) - 1 :
           p.offset + row * p.pitch + RowBytes(format, i, width) <= RoomOf(o, fdSize)
    BY <2>4, <2>5, Zenon
  <2>7. /\ p.pitch >= RowBytes(format, i, width)
        /\ img.planes[i] = p /\ img.fds[p.object] = o.fd
        /\ fdSize[o.fd] # 0 => RoomOf(o, fdSize) <= fdSize[o.fd]
    BY <2>3, <2>4, <2>5, Zenon
  <2> QED
    BY <2>6, <2>7, Zenon DEF p, o
<1>3. ASSUME NEW w \in 1 .. width, NEW h \in 1 .. height
      PROVE  VideoProcImageRangeValid(format, img, width, height, w, h)
  BY <1>1, <1>3, ValidatedParts
<1> QED
  BY <1>2, <1>3, Zenon

\* The descriptors a client can pass: PRIME_2 layers of planes in objects, or
\* a legacy PRIME one with a buffer for each surface.
Prime2Descriptor(desc, fdSize) ==
    /\ desc.memory = "prime 2"
    /\ desc.layers \in Seq(Seq(PlaneRecord))
    /\ desc.objects \in Seq(ObjectRecord)
    /\ \A i \in 1 .. Len(desc.objects) :
          desc.objects[i].fd >= 0 => fdSize[desc.objects[i].fd] \in Nat

PrimeDescriptor(desc, fdSize) ==
    /\ desc.memory = "prime"
    /\ desc.planes \in Seq(PlaneRecord)
    /\ desc.buffers \in Seq(Nat) /\ desc.size \in Nat
    /\ \A i \in 1 .. Len(desc.buffers) : fdSize[desc.buffers[i]] \in Nat

\* nvCreateSurfaces2 hands out an import only after every check has passed.
LEMMA ImportSteps ==
    ASSUME NEW format, NEW desc, NEW index, NEW n, NEW width, NEW height, NEW fdSize,
           ImportSurface(format, desc, index, n, width, height, fdSize).ok
    PROVE  LET imported == ParseSurfaceImportAttributes(desc)
               selected == SelectIndex(imported, index, n)
               img == ImportedObjects(selected, fdSize)
           IN  /\ imported # Refused /\ selected # Refused
               /\ img.ok /\ ValidateImportedLayout(format, img, width, height)
               /\ ImportSurface(format, desc, index, n, width, height, fdSize) = img
<1> DEFINE imported == ParseSurfaceImportAttributes(desc)
           selected == SelectIndex(imported, index, n)
           img == ImportedObjects(selected, fdSize)
           r == ImportSurface(format, desc, index, n, width, height, fdSize)
<1>1. r = IF ~imported.ok THEN Refused
          ELSE IF imported.width # width \/ imported.height # height \/ ~selected.ok THEN Refused
          ELSE IF ~img.ok THEN Refused
          ELSE IF ValidateImportedLayout(format, img, width, height) THEN img ELSE Refused
  BY DEF ImportSurface
<1> HIDE DEF imported, selected, img, r
<1>2. Refused.ok = FALSE
  BY DEF Refused
<1>3. r.ok
  BY DEF r
<1>4. imported.ok /\ selected.ok /\ img.ok /\ ValidateImportedLayout(format, img, width, height) /\ r = img
  BY <1>1, <1>2, <1>3
<1>5. imported # Refused /\ selected # Refused
  BY <1>2, <1>4
<1> QED
  BY <1>4, <1>5 DEF imported, selected, img, r

\* An accepted PRIME_2 import.
LEMMA Prime2Sound ==
    ASSUME NEW format \in FormatNames, NEW desc, NEW index, NEW n, NEW width \in Nat, NEW height \in Nat,
           NEW fdSize, Prime2Descriptor(desc, fdSize)
    PROVE  ImportSound(format, desc, index, n, width, height, fdSize)
<1> DEFINE r == ImportSurface(format, desc, index, n, width, height, fdSize)
           imported == ParseSurfaceImportAttributes(desc)
           selected == SelectIndex(imported, index, n)
           planes == Seqs!FlattenSeq(desc.layers)
           objects == desc.objects
<1>0. SUFFICES ASSUME r.ok PROVE ImportSound(format, desc, index, n, width, height, fdSize)
  BY DEF ImportSound
<1> DEFINE img == ImportedObjects(selected, fdSize)
<1>1. /\ imported # Refused /\ selected # Refused /\ img.ok
      /\ ValidateImportedLayout(format, img, width, height) /\ r = img
  BY <1>0, ImportSteps
<1>m. desc.memory = "prime 2" /\ desc.memory # "prime"
  BY DEF Prime2Descriptor
<1>2. imported = ParsePrime2(desc)
  BY <1>m DEF ParseSurfaceImportAttributes
<1> HIDE DEF r, img, selected, imported
<1>3. /\ imported = [ok |-> TRUE, legacy |-> FALSE, width |-> desc.width, height |-> desc.height,
                     objects |-> objects, planes |-> planes, buffers |-> <<>>]
      /\ Len(desc.layers) \in 1 .. 4
      /\ ~\E o \in Seqs!ToSet(objects) : o.fd < 0
      /\ ~\E p \in Seqs!ToSet(planes) : p.object > Len(objects)
  BY <1>1, <1>2, Zenon DEF ParsePrime2
<1>4. selected = imported
  <2>1. imported.legacy = FALSE
    BY <1>3
  <2> QED
    BY <1>1, <2>1 DEF selected, SelectIndex
<1>5. selected.planes = planes /\ selected.objects = objects
  BY <1>3, <1>4
<1>6. planes \in Seq(PlaneRecord)
  BY <1>3, FlattenFacts DEF Prime2Descriptor
<1>7. /\ objects \in Seq(ObjectRecord)
      /\ \A i \in 1 .. Len(objects) : objects[i].fd >= 0 => fdSize[objects[i].fd] \in Nat
  BY DEF Prime2Descriptor
<1> HIDE DEF planes, objects
<1>8. Importable(selected, fdSize)
  <2>1. ASSUME NEW i \in 1 .. Len(objects) PROVE fdSize[objects[i].fd] \in Nat
    <3>1. objects[i] \in ObjectRecord
      BY <1>7, <2>1, ElementIn
    <3>2. objects[i] \in Seqs!ToSet(objects)
      BY <1>7, <2>1 DEF Seqs!ToSet
    <3>3. ~(objects[i].fd < 0)
      BY <1>3, <3>2
    <3>4. objects[i].fd \in Int
      BY <3>1 DEF ObjectRecord
    <3>5. objects[i].fd >= 0
      BY <3>3, <3>4
    <3> QED
      BY <1>7, <2>1, <3>5
  <2>2. ASSUME NEW i \in 1 .. Len(planes) PROVE planes[i].object \in 1 .. Len(objects)
    <3>1. planes[i] \in PlaneRecord
      BY <1>6, <2>2, ElementIn
    <3>2. planes[i] \in Seqs!ToSet(planes)
      BY <1>6, <2>2 DEF Seqs!ToSet
    <3>3. ~(planes[i].object > Len(objects))
      BY <1>3, <3>2
    <3>4. planes[i].object \in Nat \ {0} /\ Len(objects) \in Nat
      BY <1>7, <3>1 DEF PlaneRecord
    <3> QED
      BY <3>3, <3>4
  <2> QED
    BY <1>5, <1>6, <1>7, <2>1, <2>2 DEF Importable
<1>9. /\ \A i \in 1 .. Len(planes) :
           LET p == planes[i]
               o == objects[p.object]
           IN  /\ p.pitch >= RowBytes(format, i, width)
               /\ \A row \in 0 .. Rows(format, i, height) - 1 :
                     p.offset + row * p.pitch + RowBytes(format, i, width) <= RoomOf(o, fdSize)
               /\ img.planes[i] = p /\ img.fds[p.object] = o.fd
               /\ fdSize[o.fd] # 0 => RoomOf(o, fdSize) <= fdSize[o.fd]
      /\ \A w \in 1 .. width, h \in 1 .. height :
           VideoProcImageRangeValid(format, img, width, height, w, h)
  <2>1. img = ImportedObjects(selected, fdSize)
    BY DEF img
  <2> HIDE DEF img
  <2>2. /\ \A i \in 1 .. Len(selected.planes) :
           LET p == selected.planes[i]
               o == selected.objects[p.object]
           IN  /\ p.pitch >= RowBytes(format, i, width)
               /\ \A row \in 0 .. Rows(format, i, height) - 1 :
                     p.offset + row * p.pitch + RowBytes(format, i, width) <= RoomOf(o, fdSize)
               /\ img.planes[i] = p /\ img.fds[p.object] = o.fd
               /\ fdSize[o.fd] # 0 => RoomOf(o, fdSize) <= fdSize[o.fd]
        /\ \A w \in 1 .. width, h \in 1 .. height :
             VideoProcImageRangeValid(format, img, width, height, w, h)
    BY <1>1, <1>8, <2>1, AcceptedImport
  <2> QED
    BY <1>5, <2>2, Zenon
<1>10. DOMAIN planes = 1 .. Len(planes)
  BY <1>6
<1> DEFINE Fd(p) == objects[p.object].fd
           Declared(p) == objects[p.object].size
           Room(p) == IF Declared(p) = 0 THEN fdSize[Fd(p)] ELSE Declared(p)
           Inside(i) == /\ planes[i].pitch >= RowBytes(format, i, width)
                        /\ \A row \in 0 .. Rows(format, i, height) - 1 :
                              planes[i].offset + row * planes[i].pitch + RowBytes(format, i, width) <= Room(planes[i])
<1>11. \A p : Room(p) = RoomOf(objects[p.object], fdSize)
  BY DEF RoomOf
<1>12. /\ \A i \in DOMAIN planes :
            /\ Inside(i)
            /\ img.fds[img.planes[i].object] = Fd(planes[i])
            /\ fdSize[Fd(planes[i])] # 0 => Room(planes[i]) <= fdSize[Fd(planes[i])]
       /\ \A w \in 1 .. width, h \in 1 .. height :
            VideoProcImageRangeValid(format, img, width, height, w, h)
  <2> HIDE DEF Room
  <2> SUFFICES ASSUME NEW i \in DOMAIN planes
               PROVE  /\ Inside(i)
                      /\ img.fds[img.planes[i].object] = Fd(planes[i])
                      /\ fdSize[Fd(planes[i])] # 0 => Room(planes[i]) <= fdSize[Fd(planes[i])]
    BY <1>9, Zenon
  <2> DEFINE p == planes[i]
  <2>1. i \in 1 .. Len(planes)
    BY <1>10
  <2>2. Room(p) = RoomOf(objects[p.object], fdSize)
    BY <1>11, Zenon
  <2>3. /\ p.pitch >= RowBytes(format, i, width)
        /\ \A row \in 0 .. Rows(format, i, height) - 1 :
              p.offset + row * p.pitch + RowBytes(format, i, width) <= Room(p)
        /\ img.planes[i] = p /\ img.fds[p.object] = objects[p.object].fd
        /\ fdSize[objects[p.object].fd] # 0 => Room(p) <= fdSize[objects[p.object].fd]
    BY <1>9, <2>1, <2>2, Zenon
  <2> QED
    BY <2>3, Zenon
<1> QED
  BY <1>m, <1>12, <1>1, Zenon DEF ImportSound, r, planes, objects

\* An accepted legacy PRIME import: the planes lie in the one buffer of the
\* surface at index.
LEMMA PrimeSound ==
    ASSUME NEW format \in FormatNames, NEW desc, NEW n \in Nat, NEW index \in 1 .. n,
           NEW width \in Nat, NEW height \in Nat, NEW fdSize, PrimeDescriptor(desc, fdSize)
    PROVE  ImportSound(format, desc, index, n, width, height, fdSize)
<1> DEFINE r == ImportSurface(format, desc, index, n, width, height, fdSize)
           imported == ParseSurfaceImportAttributes(desc)
           selected == SelectIndex(imported, index, n)
           planes == desc.planes
           buffers == desc.buffers
           moved == [i \in DOMAIN planes |-> [planes[i] EXCEPT !.object = 1]]
<1>0. SUFFICES ASSUME r.ok PROVE ImportSound(format, desc, index, n, width, height, fdSize)
  BY DEF ImportSound
<1> DEFINE img == ImportedObjects(selected, fdSize)
<1>1. /\ imported # Refused /\ selected # Refused /\ img.ok
      /\ ValidateImportedLayout(format, img, width, height) /\ r = img
  BY <1>0, ImportSteps
<1>m. desc.memory = "prime" /\ desc.memory # "prime 2"
  BY DEF PrimeDescriptor
<1>2. imported = ParsePrime(desc)
  BY <1>m DEF ParseSurfaceImportAttributes
<1> HIDE DEF r, img, selected, imported
<1>3. imported = [ok |-> TRUE, legacy |-> TRUE, width |-> desc.width, height |-> desc.height,
                  objects |-> <<[fd |-> buffers[1], size |-> desc.size]>>, planes |-> moved, buffers |-> buffers]
  BY <1>1, <1>2, Zenon DEF ParsePrime
<1>t. planes \in Seq(PlaneRecord) /\ buffers \in Seq(Nat) /\ desc.size \in Nat
      /\ \A i \in 1 .. Len(buffers) : fdSize[buffers[i]] \in Nat
  BY DEF PrimeDescriptor
<1> HIDE DEF moved, planes, buffers
<1>4. /\ imported.legacy = TRUE /\ imported.buffers = buffers
      /\ imported.objects = <<[fd |-> buffers[1], size |-> desc.size]>>
  BY <1>3
<1>5. Len(buffers) = n /\ selected = [imported EXCEPT !.objects[1].fd = buffers[index]]
  BY <1>1, <1>4 DEF selected, SelectIndex
<1>6. /\ selected.planes = moved
      /\ selected.objects = <<[fd |-> buffers[index], size |-> desc.size]>>
  <2>1. selected.planes = imported.planes
    BY <1>3, <1>5
  <2>2. selected.objects = [imported.objects EXCEPT ![1] = [@ EXCEPT !.fd = buffers[index]]]
    BY <1>3, <1>5
  <2>3. selected.objects = <<[fd |-> buffers[index], size |-> desc.size]>>
    <3> DEFINE o == [fd |-> buffers[1], size |-> desc.size]
    <3>1. [o EXCEPT !.fd = buffers[index]] = [fd |-> buffers[index], size |-> desc.size]
      OBVIOUS
    <3>2. selected.objects = [<<o>> EXCEPT ![1] = [@ EXCEPT !.fd = buffers[index]]]
      BY <1>4, <2>2
    <3> HIDE DEF o
    <3>3. [<<o>> EXCEPT ![1] = [@ EXCEPT !.fd = buffers[index]]] = <<[o EXCEPT !.fd = buffers[index]]>>
      OBVIOUS
    <3> QED
      BY <3>1, <3>2, <3>3
  <2> QED
    BY <1>3, <2>1, <2>3
<1>7. /\ index \in 1 .. Len(buffers) /\ buffers[index] \in Nat /\ fdSize[buffers[index]] \in Nat
  BY <1>5, <1>t
<1> DEFINE o == [fd |-> buffers[index], size |-> desc.size]
<1>8. o \in ObjectRecord /\ o.fd = buffers[index] /\ o.size = desc.size
  BY <1>7, <1>t DEF ObjectRecord
<1> HIDE DEF o
<1>9. DOMAIN planes = 1 .. Len(planes) /\ Len(planes) \in Nat
  BY <1>t
<1>10. \A i \in 1 .. Len(planes) :
          /\ planes[i] \in PlaneRecord
          /\ moved[i] \in PlaneRecord /\ moved[i].object = 1
          /\ moved[i].offset = planes[i].offset /\ moved[i].pitch = planes[i].pitch
  <2> SUFFICES ASSUME NEW i \in 1 .. Len(planes)
               PROVE  /\ planes[i] \in PlaneRecord
                      /\ moved[i] \in PlaneRecord /\ moved[i].object = 1
                      /\ moved[i].offset = planes[i].offset /\ moved[i].pitch = planes[i].pitch
    OBVIOUS
  <2>1. planes[i] \in PlaneRecord
    BY <1>t, ElementIn
  <2>2. moved[i] = [planes[i] EXCEPT !.object = 1]
    BY <1>9 DEF moved
  <2> QED
    BY <2>1, <2>2 DEF PlaneRecord
<1>11. moved \in Seq(PlaneRecord) /\ Len(moved) = Len(planes)
  <2>1. moved = [i \in 1 .. Len(planes) |-> [planes[i] EXCEPT !.object = 1]]
    BY <1>9 DEF moved
  <2>2. \A i \in 1 .. Len(planes) : [planes[i] EXCEPT !.object = 1] \in PlaneRecord
    BY <1>10 DEF PlaneRecord
  <2> QED
    BY <1>9, <2>1, <2>2
<1>12. selected.objects = <<o>>
  BY <1>6 DEF o
<1>13. <<o>> \in Seq(ObjectRecord) /\ Len(<<o>>) = 1 /\ <<o>>[1] = o
  BY <1>8
<1>14. Importable(selected, fdSize)
  <2>1. \A i \in 1 .. Len(<<o>>) : fdSize[<<o>>[i].fd] \in Nat
    <3>1. \A i \in 1 .. Len(<<o>>) : i = 1
      BY <1>13
    <3>2. fdSize[<<o>>[1].fd] \in Nat
      BY <1>7, <1>8, <1>13
    <3> QED
      BY <3>1, <3>2
  <2>2. \A i \in 1 .. Len(moved) : moved[i].object \in 1 .. Len(<<o>>)
    BY <1>10, <1>11, <1>13
  <2> QED
    BY <1>6, <1>11, <1>12, <1>13, <2>1, <2>2 DEF Importable
<1>15. /\ \A i \in 1 .. Len(moved) :
            LET p == moved[i]
                q == <<o>>[p.object]
            IN  /\ p.pitch >= RowBytes(format, i, width)
                /\ \A row \in 0 .. Rows(format, i, height) - 1 :
                      p.offset + row * p.pitch + RowBytes(format, i, width) <= RoomOf(q, fdSize)
                /\ img.planes[i] = p /\ img.fds[p.object] = q.fd
                /\ fdSize[q.fd] # 0 => RoomOf(q, fdSize) <= fdSize[q.fd]
       /\ \A w \in 1 .. width, h \in 1 .. height :
            VideoProcImageRangeValid(format, img, width, height, w, h)
  <2>1. img = ImportedObjects(selected, fdSize)
    BY DEF img
  <2> HIDE DEF img
  <2>2. /\ \A i \in 1 .. Len(selected.planes) :
           LET p == selected.planes[i]
               q == selected.objects[p.object]
           IN  /\ p.pitch >= RowBytes(format, i, width)
               /\ \A row \in 0 .. Rows(format, i, height) - 1 :
                     p.offset + row * p.pitch + RowBytes(format, i, width) <= RoomOf(q, fdSize)
               /\ img.planes[i] = p /\ img.fds[p.object] = q.fd
               /\ fdSize[q.fd] # 0 => RoomOf(q, fdSize) <= fdSize[q.fd]
        /\ \A w \in 1 .. width, h \in 1 .. height :
             VideoProcImageRangeValid(format, img, width, height, w, h)
    BY <1>1, <1>14, <2>1, AcceptedImport
  <2> QED
    BY <1>6, <1>12, <2>2, Zenon
<1> DEFINE Fd == buffers[index]
           Room == IF desc.size = 0 THEN fdSize[Fd] ELSE desc.size
<1>16. Room = RoomOf(o, fdSize)
  BY <1>8 DEF RoomOf
<1>17. \A i \in DOMAIN planes :
          /\ planes[i].pitch >= RowBytes(format, i, width)
          /\ \A row \in 0 .. Rows(format, i, height) - 1 :
                planes[i].offset + row * planes[i].pitch + RowBytes(format, i, width) <= Room
          /\ img.fds[img.planes[i].object] = Fd
          /\ fdSize[Fd] # 0 => Room <= fdSize[Fd]
  <2> HIDE DEF Room
  <2> SUFFICES ASSUME NEW i \in DOMAIN planes
               PROVE  /\ planes[i].pitch >= RowBytes(format, i, width)
                      /\ \A row \in 0 .. Rows(format, i, height) - 1 :
                            planes[i].offset + row * planes[i].pitch + RowBytes(format, i, width) <= Room
                      /\ img.fds[img.planes[i].object] = Fd
                      /\ fdSize[Fd] # 0 => Room <= fdSize[Fd]
    BY Zenon
  <2>1. i \in 1 .. Len(planes) /\ i \in 1 .. Len(moved)
    BY <1>9, <1>11
  <2>2. moved[i].object = 1 /\ moved[i].offset = planes[i].offset /\ moved[i].pitch = planes[i].pitch
    BY <1>10, <2>1
  <2>3. <<o>>[moved[i].object] = o
    BY <1>13, <2>2
  <2>4. /\ moved[i].pitch >= RowBytes(format, i, width)
        /\ \A row \in 0 .. Rows(format, i, height) - 1 :
              moved[i].offset + row * moved[i].pitch + RowBytes(format, i, width)
                <= RoomOf(<<o>>[moved[i].object], fdSize)
        /\ img.planes[i] = moved[i] /\ img.fds[moved[i].object] = <<o>>[moved[i].object].fd
        /\ fdSize[<<o>>[moved[i].object].fd] # 0 =>
              RoomOf(<<o>>[moved[i].object], fdSize) <= fdSize[<<o>>[moved[i].object].fd]
    BY <1>15, <2>1, Zenon
  <2>5. /\ planes[i].pitch >= RowBytes(format, i, width)
        /\ \A row \in 0 .. Rows(format, i, height) - 1 :
              planes[i].offset + row * planes[i].pitch + RowBytes(format, i, width) <= RoomOf(o, fdSize)
        /\ img.planes[i] = moved[i] /\ img.fds[moved[i].object] = o.fd
        /\ fdSize[o.fd] # 0 => RoomOf(o, fdSize) <= fdSize[o.fd]
    BY <2>2, <2>3, <2>4, Zenon
  <2> QED
    BY <1>8, <1>16, <2>5, Zenon
<1>18. \A w \in 1 .. width, h \in 1 .. height :
          VideoProcImageRangeValid(format, img, width, height, w, h)
  BY <1>15, Zenon
<1> QED
  BY <1>m, <1>17, <1>18, <1>1, Zenon DEF ImportSound, r, planes, buffers

\* Whatever a client describes, an import of one of n surfaces is accepted only
\* if every row of every plane lies in the file of that surface, and then every
\* part of it is in range for VideoProc.
THEOREM ImportsCorrect ==
    ASSUME NEW format \in FormatNames, NEW desc, NEW n \in Nat, NEW index \in 1 .. n,
           NEW width \in Nat, NEW height \in Nat, NEW fdSize,
           Prime2Descriptor(desc, fdSize) \/ PrimeDescriptor(desc, fdSize)
    PROVE  ImportSound(format, desc, index, n, width, height, fdSize)
<1>1. CASE Prime2Descriptor(desc, fdSize)
  BY <1>1, Prime2Sound
<1>2. CASE PrimeDescriptor(desc, fdSize)
  BY <1>2, PrimeSound
<1> QED
  BY <1>1, <1>2

-----------------------------------------------------------------------------
(* The samples of MCBuffers *)

\* A sample whose numbers and descriptors are of the kinds the theorems above
\* are about.
Proper(x) ==
    \/ /\ x.about = "layout" /\ x.format \in FormatNames
       /\ x.width \in Nat /\ x.height \in Nat /\ x.unify \in BOOLEAN
    \/ /\ x.about = "image" /\ x.format \in FormatNames
       /\ x.surface \in [width : Nat, height : Nat]
       /\ x.image \in [width : Nat \ {0}, height : Nat \ {0}]
       /\ x.x \in Int /\ x.y \in Int /\ x.width \in Nat /\ x.height \in Nat
    \/ /\ x.about = "import" /\ x.format \in FormatNames
       /\ x.n \in Nat /\ x.index \in 1 .. x.n /\ x.width \in Nat /\ x.height \in Nat
       /\ Prime2Descriptor(x.desc, x.fdSize) \/ PrimeDescriptor(x.desc, x.fdSize)

\* Layouts, images and imports: one theorem for the three.
THEOREM ProperSound ==
    \A x : Proper(x) => MemorySound(x)
<1> SUFFICES ASSUME NEW x, Proper(x) PROVE MemorySound(x)
  OBVIOUS
<1>1. CASE /\ x.about = "layout" /\ x.format \in FormatNames
           /\ x.width \in Nat /\ x.height \in Nat /\ x.unify \in BOOLEAN
  <2>1. LayoutSound(x.format, x.width, x.height, x.unify)
    BY <1>1, LayoutsCorrect
  <2> QED
    BY <1>1, <2>1 DEF MemorySound
<1>2. CASE /\ x.about = "image" /\ x.format \in FormatNames
           /\ x.surface \in [width : Nat, height : Nat]
           /\ x.image \in [width : Nat \ {0}, height : Nat \ {0}]
           /\ x.x \in Int /\ x.y \in Int /\ x.width \in Nat /\ x.height \in Nat
  <2>1. ImageSound(x.format, x.surface, x.image, x.x, x.y, x.width, x.height)
    BY <1>2, VAImagesCorrect
  <2> QED
    BY <1>2, <2>1 DEF MemorySound
<1>3. CASE /\ x.about = "import" /\ x.format \in FormatNames
           /\ x.n \in Nat /\ x.index \in 1 .. x.n /\ x.width \in Nat /\ x.height \in Nat
           /\ Prime2Descriptor(x.desc, x.fdSize) \/ PrimeDescriptor(x.desc, x.fdSize)
  <2>1. ImportSound(x.format, x.desc, x.index, x.n, x.width, x.height, x.fdSize)
    BY <1>3, ImportsCorrect
  <2> QED
    BY <1>3, <2>1 DEF MemorySound
<1> QED
  BY <1>1, <1>2, <1>3 DEF Proper

\* The planes of the samples, and the sizes of their files.
LEMMA SamplePlanes ==
    /\ Planes \subseteq PlaneRecord
    /\ \A object \in {1, 2}, offset \in Nat, pitch \in Nat : PlaneOf(object, offset, pitch) \in PlaneRecord
    /\ Files[3] \in Nat /\ Files[4] \in Nat /\ Files[5] \in Nat /\ Files[200] \in Nat
<1>1. \A object \in {1, 2}, offset \in Nat, pitch \in Nat : PlaneOf(object, offset, pitch) \in PlaneRecord
  BY DEF PlaneOf, PlaneRecord
<1>2. Planes \subseteq PlaneRecord
  BY DEF Planes, PlaneOf, PlaneRecord
<1>3. Files[3] = 12 /\ Files[4] = 6 /\ Files[5] = 0 /\ Files[200] = 0
  BY DEF Files
<1> QED
  BY <1>1, <1>2, <1>3

\* The objects of the samples.
LEMMA SampleObjects ==
    ASSUME NEW objects \in ObjectsOf
    PROVE  /\ objects \in Seq(ObjectRecord)
           /\ \A i \in 1 .. Len(objects) : objects[i].fd >= 0 => Files[objects[i].fd] \in Nat
<1>1. CASE \E s \in {0, 12, 13} : objects = <<[fd |-> 3, size |-> s]>>
  <2>1. PICK s \in {0, 12, 13} : objects = <<[fd |-> 3, size |-> s]>>
    BY <1>1
  <2> DEFINE o == [fd |-> 3, size |-> s]
  <2>2. o \in ObjectRecord /\ o.fd = 3
    BY DEF ObjectRecord
  <2>3. objects = <<o>>
    BY <2>1
  <2> HIDE DEF o
  <2>4. objects \in Seq(ObjectRecord) /\ \A i \in 1 .. Len(objects) : objects[i] = o
    BY <2>2, <2>3
  <2> QED
    BY <2>2, <2>4, SamplePlanes
<1>2. CASE \E f \in {-1, 4, 5}, s \in {0, 2, 6} : objects = <<[fd |-> 3, size |-> 8], [fd |-> f, size |-> s]>>
  <2>1. PICK f \in {-1, 4, 5}, s \in {0, 2, 6} : objects = <<[fd |-> 3, size |-> 8], [fd |-> f, size |-> s]>>
    BY <1>2
  <2> DEFINE o == [fd |-> 3, size |-> 8]
             q == [fd |-> f, size |-> s]
  <2>2. o \in ObjectRecord /\ o.fd = 3 /\ q \in ObjectRecord /\ q.fd \in {-1, 4, 5}
    BY DEF ObjectRecord
  <2>3. objects = <<o, q>>
    BY <2>1
  <2> HIDE DEF o, q
  <2>4. objects \in Seq(ObjectRecord) /\ \A i \in 1 .. Len(objects) : objects[i] = o \/ objects[i] = q
    BY <2>2, <2>3
  <2>5. o.fd >= 0 => Files[o.fd] \in Nat
    BY <2>2, SamplePlanes
  <2>6. q.fd >= 0 => Files[q.fd] \in Nat
    BY <2>2, SamplePlanes
  <2> QED
    BY <2>4, <2>5, <2>6
<1> QED
  BY <1>1, <1>2 DEF ObjectsOf

\* The PRIME_2 samples.
LEMMA SampleDescriptors ==
    ASSUME NEW desc \in Descriptors
    PROVE  Prime2Descriptor(desc, Files)
<1>1. ASSUME NEW layers \in Seq(Seq(PlaneRecord)), NEW objects \in ObjectsOf, desc = Prime2(layers, objects)
      PROVE  Prime2Descriptor(desc, Files)
  <2>1. desc.memory = "prime 2" /\ desc.layers = layers /\ desc.objects = objects
    BY <1>1 DEF Prime2
  <2>2. /\ objects \in Seq(ObjectRecord)
        /\ \A i \in 1 .. Len(objects) : objects[i].fd >= 0 => Files[objects[i].fd] \in Nat
    BY SampleObjects
  <2> QED
    BY <2>1, <2>2 DEF Prime2Descriptor
<1>2. CASE \E p, q \in Planes, o \in ObjectsOf : desc = Prime2(<<<<p, q>>>>, o)
  <2>1. PICK p \in Planes, q \in Planes, o \in ObjectsOf : desc = Prime2(<<<<p, q>>>>, o)
    BY <1>2
  <2>2. p \in PlaneRecord /\ q \in PlaneRecord
    BY SamplePlanes
  <2>3. <<p, q>> \in Seq(PlaneRecord)
    BY <2>2
  <2> DEFINE layer == <<p, q>>
  <2> HIDE DEF layer
  <2>4. <<layer>> \in Seq(Seq(PlaneRecord)) /\ desc = Prime2(<<layer>>, o)
    BY <2>1, <2>3 DEF layer
  <2> QED
    BY <1>1, <2>4
<1>3. CASE \E p \in Planes, layer \in {<<>>, <<PlaneOf(1, 4, 4)>>}, o \in ObjectsOf :
              desc = Prime2(<<<<p>>, layer>>, o)
  <2>1. PICK p \in Planes, layer \in {<<>>, <<PlaneOf(1, 4, 4)>>}, o \in ObjectsOf :
                desc = Prime2(<<<<p>>, layer>>, o)
    BY <1>3
  <2>2. p \in PlaneRecord /\ PlaneOf(1, 4, 4) \in PlaneRecord
    BY SamplePlanes
  <2> DEFINE a == <<p>>
  <2>3. a \in Seq(PlaneRecord) /\ layer \in Seq(PlaneRecord)
    <3> DEFINE plane == PlaneOf(1, 4, 4)
    <3> HIDE DEF plane
    <3>1. layer = << >> \/ layer = <<plane>>
      BY DEF plane
    <3>2. << >> \in Seq(PlaneRecord) /\ <<plane>> \in Seq(PlaneRecord) /\ <<p>> \in Seq(PlaneRecord)
      BY <2>2 DEF plane
    <3> QED
      BY <3>1, <3>2, Zenon
  <2>4. desc = Prime2(<<a, layer>>, o)
    BY <2>1
  <2> HIDE DEF a
  <2>5. <<a, layer>> \in Seq(Seq(PlaneRecord))
    BY <2>3
  <2> QED
    BY <1>1, <2>4, <2>5
<1> DEFINE L == {<<>>, <<PlaneOf(1, 4, 4)>>}
<1>4. Descriptors = {Prime2(<<<<p, q>>>>, o) : p, q \in Planes, o \in ObjectsOf}
                    \union {Prime2(<<<<p>>, layer>>, o) : p \in Planes, layer \in L, o \in ObjectsOf}
  BY DEF Descriptors
<1> HIDE DEF L
<1>5. \/ \E p, q \in Planes, o \in ObjectsOf : desc = Prime2(<<<<p, q>>>>, o)
      \/ \E p \in Planes, layer \in L, o \in ObjectsOf : desc = Prime2(<<<<p>>, layer>>, o)
  <2> DEFINE D(p, q, o) == Prime2(<<<<p, q>>>>, o)
             E(p, layer, o) == Prime2(<<<<p>>, layer>>, o)
             One == {D(p, q, o) : p, q \in Planes, o \in ObjectsOf}
             Two == {E(p, layer, o) : p \in Planes, layer \in L, o \in ObjectsOf}
  <2>1. Descriptors = One \union Two
    BY <1>4
  <2> HIDE DEF D, E
  <2>2. desc \in One => \E p, q \in Planes, o \in ObjectsOf : desc = D(p, q, o)
    OBVIOUS
  <2>3. desc \in Two => \E p \in Planes, layer \in L, o \in ObjectsOf : desc = E(p, layer, o)
    OBVIOUS
  <2> HIDE DEF One, Two
  <2>4. desc \in One \/ desc \in Two
    BY <2>1
  <2> QED
    BY <2>2, <2>3, <2>4 DEF D, E
<1> QED
  BY <1>2, <1>3, <1>5 DEF L

\* The legacy samples.
LEMMA SampleLegacy ==
    ASSUME NEW desc \in Legacy
    PROVE  PrimeDescriptor(desc, Files)
<1> DEFINE B == {<<3>>, <<3, 4>>, <<4, 200>>, <<3, 4, 3>>, <<>>}
<1>0. Legacy = {Prime(<<p, q>>, b, s, t) : p, q \in Planes, b \in B, s \in {0, 6, 12}, t \in BOOLEAN}
  BY DEF Legacy
<1> HIDE DEF B
<1>1. PICK p \in Planes, q \in Planes, b \in B, s \in {0, 6, 12}, t \in BOOLEAN :
             desc = Prime(<<p, q>>, b, s, t)
  BY <1>0
<1> DEFINE planes == <<p, q>>
<1>2. planes \in Seq(PlaneRecord)
  BY SamplePlanes
<1> HIDE DEF planes
<1>3. desc.memory = "prime" /\ desc.planes = planes /\ desc.buffers = b /\ desc.size = s
  BY <1>1 DEF Prime, planes
<1>4. b \in Seq(Nat) /\ \A i \in 1 .. Len(b) : b[i] \in {3, 4, 200}
  <2>1. CASE b = <<3>>
    BY <2>1
  <2>2. CASE b = <<3, 4>>
    BY <2>2
  <2>3. CASE b = <<4, 200>>
    BY <2>3
  <2>4. CASE b = << >>
    BY <2>4
  <2>5. CASE b = <<3, 4, 3>>
    BY <2>5
  <2> QED
    BY <2>1, <2>2, <2>3, <2>4, <2>5 DEF B
<1>5. ASSUME NEW i \in 1 .. Len(b) PROVE Files[b[i]] \in Nat
  <2>1. b[i] = 3 \/ b[i] = 4 \/ b[i] = 200
    BY <1>4, <1>5
  <2> QED
    BY <2>1, SamplePlanes, Zenon
<1> QED
  BY <1>2, <1>3, <1>4, <1>5 DEF PrimeDescriptor

\* The samples start proper.
LEMMA SamplesProper ==
    ASSUME SampleInit
    PROVE  Proper(sample)
<1>1. CASE \E f \in Formats, w \in {1, 3, 8, 9, 16, 40}, h \in {1, 2, 3, 5, 8, 12, 16, 24, 33, 48}, u \in BOOLEAN :
             sample = [about |-> "layout", format |-> f, width |-> w, height |-> h, unify |-> u]
  BY <1>1 DEF Proper, Formats, FormatNames
<1>2. CASE \E f \in {"NV12", "Q416", "ARGB"}, s \in {3, 4}, d \in {2, 3, 20}, x, y \in -1 .. 2, w, h \in 0 .. 3 :
             sample = [about |-> "image", format |-> f, surface |-> [width |-> s, height |-> 3],
                       image |-> [width |-> d, height |-> 3], x |-> x, y |-> y, width |-> w, height |-> h]
  BY <1>2 DEF Proper, FormatNames
<1>3. CASE \E d \in Descriptors, n \in {1, 2} :
             sample = [about |-> "import", format |-> "NV12", desc |-> d, index |-> n, n |-> n,
                       width |-> 2, height |-> 2, fdSize |-> Files]
  <2>1. PICK d \in Descriptors, n \in {1, 2} :
             sample = [about |-> "import", format |-> "NV12", desc |-> d, index |-> n, n |-> n,
                       width |-> 2, height |-> 2, fdSize |-> Files]
    BY <1>3
  <2>2. Prime2Descriptor(d, Files)
    BY SampleDescriptors
  <2>3. /\ sample.about = "import" /\ sample.format = "NV12" /\ sample.desc = d /\ sample.index = n
        /\ sample.n = n /\ sample.width = 2 /\ sample.height = 2 /\ sample.fdSize = Files
    BY <2>1
  <2> QED
    BY <2>2, <2>3 DEF Proper, FormatNames
<1>4. CASE \E d \in Legacy, n \in 1 .. 3 : \E i \in 1 .. n :
             sample = [about |-> "import", format |-> "NV12", desc |-> d, index |-> i, n |-> n,
                       width |-> 2, height |-> 2, fdSize |-> Files]
  <2>1. PICK d \in Legacy, n \in 1 .. 3 : \E i \in 1 .. n :
             sample = [about |-> "import", format |-> "NV12", desc |-> d, index |-> i, n |-> n,
                       width |-> 2, height |-> 2, fdSize |-> Files]
    BY <1>4
  <2>2. PICK i \in 1 .. n :
             sample = [about |-> "import", format |-> "NV12", desc |-> d, index |-> i, n |-> n,
                       width |-> 2, height |-> 2, fdSize |-> Files]
    BY <2>1
  <2>3. PrimeDescriptor(d, Files)
    BY SampleLegacy
  <2>4. /\ sample.about = "import" /\ sample.format = "NV12" /\ sample.desc = d /\ sample.index = i
        /\ sample.n = n /\ sample.width = 2 /\ sample.height = 2 /\ sample.fdSize = Files
    BY <2>2
  <2> QED
    BY <2>3, <2>4 DEF Proper, FormatNames
<1> QED
  BY <1>1, <1>2, <1>3, <1>4 DEF SampleInit

\* The run's invariant: the driver's image memory is sound in every state.
THEOREM ImageMemoryCorrect == MCSpec => []ImageMemorySound
<1>1. MCInit => ImageMemorySound
  <2>1. CASE SampleInit
    BY <2>1, SamplesProper, ProperSound DEF ImageMemorySound
  <2>2. CASE sample = [about |-> "none"]
    BY <2>2 DEF ImageMemorySound
  <2> QED
    BY <2>1, <2>2 DEF MCInit
<1>2. ImageMemorySound /\ [MCNext]_<<allVars, sample>> => ImageMemorySound'
  <2> SUFFICES ASSUME ImageMemorySound, [MCNext]_<<allVars, sample>> PROVE ImageMemorySound'
    OBVIOUS
  <2>1. sample' = sample
    BY DEF MCNext
  <2> QED
    BY <2>1 DEF ImageMemorySound, MemorySound
<1> QED
  BY <1>1, <1>2, PTL DEF MCSpec
=============================================================================
