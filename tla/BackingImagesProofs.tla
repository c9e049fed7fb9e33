------------------------ MODULE BackingImagesProofs -------------------------
(***************************************************************************)
(* Proofs about BackingImages, for every set of threads, surfaces and      *)
(* images, and for every limit of the cache and budget.                    *)
(***************************************************************************)
EXTENDS BackingImages, NumberFacts

-----------------------------------------------------------------------------
(* The inductive invariant.                                                *)

ImageRecord == [state : ImageStates, imported : BOOLEAN, size : Nat,
                surface : Surfaces \cup {None}, borrowCount : Nat,
                borrowed : Images \cup {None}, prev : Images \cup {None},
                next : Images \cup {None}, serial : Nat]

SurfaceRecord == [live : BOOLEAN, image : Images \cup {None}]

CacheRecord == [head : Images \cup {None}, tail : Images \cup {None},
                count : Nat, bytes : Nat, serial : Nat]

CallRecord == [at : {"idle", "alloc", "reclaim", "add", "layout", "external",
                     "prune", "pruning", "budgeting", "grow"},
               surface : Surfaces \cup {None}, image : Images \cup {None},
               extra : 0 .. VideoProcScratchMaxBytes]

\* Every variable has its type.
Typed ==
    /\ img \in [Images -> ImageRecord]
    /\ surf \in [Surfaces -> SurfaceRecord]
    /\ images \subseteq Images
    /\ cache \in CacheRecord
    /\ scratch \in Nat
    /\ unsafe \in BOOLEAN
    /\ mutex \in Threads \cup {None}
    /\ pc \in [Threads -> CallRecord]
    /\ lapsed \subseteq Images

\* What a call p has, and what the surface and the image it works on look like.
CallOK(p) ==
    /\ p.at \in {"alloc", "reclaim", "add"} =>
         p.surface # None /\ surf[p.surface].live
    /\ p.at \in {"alloc", "reclaim"} => surf[p.surface].image = None
    /\ p.at \in {"layout", "external"} =>
         p.surface # None /\ ~surf[p.surface].live
    /\ p.at \in {"idle", "prune", "pruning", "budgeting", "grow"} => p.surface = None
    /\ p.at \notin {"add", "layout"} => p.image = None
    /\ p.at = "layout" => p.image \in images
    /\ p.at = "add" =>
         /\ p.image # None /\ surf[p.surface].image = p.image /\ p.image \notin images
         /\ ~img[p.image].imported /\ img[p.image].borrowCount = 0
         /\ img[p.image].borrowed = None

CallsOK == \A t \in Threads : CallOK(pc[t])

\* No two calls work on one surface.
OneCall == \A t, u \in Threads : pc[t].surface = pc[u].surface /\ t # u => pc[t].surface = None

\* The image of a surface is live, knows the surface, and is imported, owned or
\* about to be owned.
SurfacesOK ==
    \A s \in Surfaces : surf[s].image # None =>
        /\ surf[s].live
        /\ img[surf[s].image].state = "live" /\ img[surf[s].image].surface = s
        /\ IF img[surf[s].image].imported THEN surf[s].image \notin images
           ELSE surf[s].image \in images \/ \E t \in Threads : At(t, "add") /\ pc[t].surface = s

\* The images the driver owns are live and not imported; the ones with a surface
\* are the images of that surface.
OwnedOK ==
    \A i \in images :
        /\ img[i].state = "live" /\ ~img[i].imported /\ img[i].borrowed = None
        /\ img[i].surface # None => surf[img[i].surface].image = i

\* An image that is free holds nothing.
FreshOK == \A i \in Images : img[i].state = "none" => img[i] = FreshImage

\* Only owned images are borrowed, and each counts its borrowers.
Borrowers(i) == {j \in Images : img[j].borrowed = i}
Comparing(i) == {t \in Threads : At(t, "layout") /\ pc[t].image = i}
BorrowsOK ==
    /\ \A j \in Images : img[j].borrowed # None => img[j].borrowed \in images
    /\ \A i \in images : img[i].borrowCount = Cardinality(Borrowers(i)) + Cardinality(Comparing(i))

\* The links of the images f lead from the head of the cache c to its tail
\* through L, which names the images D in the order of their serial numbers.
Ordered(f, D, c, L) ==
    /\ \A k, l \in 1 .. c.count : k < l => f[L[k]].serial < f[L[l]].serial
    /\ \A k \in 1 .. c.count : f[L[k]].serial <= c.serial
    /\ \A k \in 1 .. c.count : L[k] \in D
    /\ \A i \in D : \E k \in 1 .. c.count : L[k] = i
    /\ \A k \in 1 .. c.count :
         /\ f[L[k]].prev = IF k = 1 THEN None ELSE L[k - 1]
         /\ f[L[k]].next = IF k = c.count THEN None ELSE L[k + 1]
    /\ IF c.count = 0 THEN c.head = None /\ c.tail = None
       ELSE c.head = L[1] /\ c.tail = L[c.count]

\* The bytes of the images D, each told from the others.
Bytes(f, D) == UNION {{i} \X (1 .. f[i].size) : i \in D}

ListOK(f, D, c) ==
    /\ \E L \in [1 .. c.count -> Images] : Ordered(f, D, c, L)
    /\ IsFiniteSet(Bytes(f, D)) /\ c.bytes = Cardinality(Bytes(f, D))

\* The images the driver owns that have no surface.
Detached == {i \in images : img[i].surface = None}

CacheOK == ListOK(img, Detached, cache)

\* imagesMutex is held by the pruning loops only.
MutexOK ==
    \A t \in Threads : (mutex = t) = (pc[t].at \in {"pruning", "budgeting"})

WithinLimits ==
    /\ cache.count <= MaxDetachedBackingImages
    /\ cache.bytes <= MaxDetachedBackingImageBytes
    /\ MemoryBudgetBytes # 0 => cache.bytes + scratch <= MemoryBudgetBytes

Excused == \A i \in Detached : img[i].borrowCount > 0 \/ i \in lapsed

\* The cache is within its limits, holds only what nobody may or will prune, or
\* a detach has still to prune it.
LimitsOK ==
    \/ WithinLimits
    \/ Excused
    \/ \E t \in Threads : pc[t].at \in {"prune", "pruning"}

\* What calls, surfaces and images say of each other.
Struct ==
    CallsOK /\ OneCall /\ SurfacesOK /\ OwnedOK /\ FreshOK /\ BorrowsOK

Inv == Typed /\ Struct /\ CacheOK /\ MutexOK /\ LimitsOK

-----------------------------------------------------------------------------
(* Walking the list.                                                       *)

\* The list is no longer than there are images, and counts its members.
LEMMA ListLength ==
    ASSUME NEW f, NEW D \in SUBSET Images, NEW c, c.count \in Nat,
           NEW L \in [1 .. c.count -> Images], Ordered(f, D, c, L),
           f \in [Images -> ImageRecord]
    PROVE  /\ \A k, l \in 1 .. c.count : L[k] = L[l] => k = l
           /\ IsFiniteSet(D) /\ Cardinality(D) = c.count
           /\ c.count <= Cardinality(Images)
<1>1. \A k, l \in 1 .. c.count : k < l => L[k] # L[l]
  <2> SUFFICES ASSUME NEW k \in 1 .. c.count, NEW l \in 1 .. c.count, k < l, L[k] = L[l]
               PROVE  FALSE
    OBVIOUS
  <2>1. f[L[k]].serial < f[L[l]].serial
    BY DEF Ordered
  <2>2. f[L[k]].serial \in Nat
    BY DEF ImageRecord
  <2> QED
    BY <2>1, <2>2
<1>2. \A k, l \in 1 .. c.count : L[k] = L[l] => k = l
  BY <1>1
<1>3. L \in Bijection(1 .. c.count, D)
  <2>1. L \in [1 .. c.count -> D]
    BY DEF Ordered
  <2>2. L \in Injection(1 .. c.count, D)
    BY <1>2, <2>1 DEF Injection, IsInjective
  <2>3. \A i \in D : \E k \in 1 .. c.count : L[k] = i
    BY DEF Ordered
  <2> QED
    BY <2>1, <2>2, <2>3 DEF Bijection, Surjection
<1>4. IsFiniteSet(D) /\ Cardinality(D) = c.count
  BY <1>3, FS_NatBijection, FS_CountingElements DEF ExistsBijection
<1> QED
  BY <1>2, <1>4, FS_Subset, BackingAssumption

\* The walk from the head follows the list and then stays behind its end.
LEMMA WalkList ==
    ASSUME NEW L \in [1 .. cache.count -> Images], Typed, Ordered(img, Detached, cache, L)
    PROVE  /\ DOMAIN Walk = 0 .. Cardinality(Images)
           /\ \A n \in 0 .. Cardinality(Images) :
                Walk[n] = IF n < cache.count THEN L[n + 1] ELSE None
<1> DEFINE C == Cardinality(Images)
           Follows(w) == w = [n \in 0 .. C |->
                                IF n = 0 THEN cache.head
                                ELSE IF w[n - 1] = None THEN None ELSE img[w[n - 1]].next]
           v == [n \in 0 .. C |-> IF n < cache.count THEN L[n + 1] ELSE None]
<1>1. C \in Nat /\ cache.count \in Nat
  BY BackingAssumption, FS_CardinalityType DEF Typed, CacheRecord
<1>2. Follows(v)
  <2>1. ASSUME NEW n \in 0 .. C, n # 0
        PROVE  v[n] = IF v[n - 1] = None THEN None ELSE img[v[n - 1]].next
    <3>1. n - 1 \in 0 .. C /\ v[n - 1] = (IF n - 1 < cache.count THEN L[n] ELSE None)
      BY <1>1, <2>1
    <3>2. CASE n < cache.count
      <4>1. n \in 1 .. cache.count /\ L[n] \in Images /\ L[n] # None
        BY <1>1, <2>1, <3>2, BackingAssumption
      <4>2. img[L[n]].next = L[n + 1]
        BY <1>1, <3>2, <4>1 DEF Ordered
      <4> QED
        BY <1>1, <3>1, <3>2, <4>1, <4>2
    <3>3. CASE n = cache.count
      <4>1. n \in 1 .. cache.count /\ L[n] \in Images /\ L[n] # None
        BY <1>1, <2>1, <3>3, BackingAssumption
      <4>2. img[L[n]].next = None
        BY <1>1, <3>3, <4>1 DEF Ordered
      <4> QED
        BY <1>1, <3>1, <3>3, <4>1, <4>2
    <3>4. CASE n > cache.count
      BY <1>1, <3>1, <3>4
    <3>5. n < cache.count \/ n = cache.count \/ n > cache.count
      BY <1>1
    <3> HIDE DEF v
    <3> QED
      BY <3>2, <3>3, <3>4, <3>5
  <2>2. v[0] = cache.head
    BY <1>1 DEF Ordered
  <2> DEFINE u == [n \in 0 .. C |->
                     IF n = 0 THEN cache.head
                     ELSE IF v[n - 1] = None THEN None ELSE img[v[n - 1]].next]
  <2>3. \A n \in 0 .. C : v[n] = u[n]
    BY <2>1, <2>2
  <2> QED
    BY <2>3, Zenon
<1>3. Walk = CHOOSE w : Follows(w)
  BY DEF Walk
<1>4. Follows(Walk)
  BY <1>2, <1>3
<1>5. /\ DOMAIN Walk = 0 .. C
      /\ Walk[0] = cache.head
      /\ \A n \in 0 .. C : n # 0 =>
           Walk[n] = IF Walk[n - 1] = None THEN None ELSE img[Walk[n - 1]].next
  <2> DEFINE w == Walk
  <2>1. Follows(w)
    BY <1>4
  <2> HIDE DEF w
  <2>2. /\ DOMAIN w = 0 .. C
        /\ w[0] = cache.head
        /\ \A n \in 0 .. C : n # 0 =>
             w[n] = IF w[n - 1] = None THEN None ELSE img[w[n - 1]].next
    BY <1>1, <2>1
  <2> QED
    BY <2>2 DEF w
<1>6. /\ v[0] = cache.head
      /\ \A n \in 0 .. C : n # 0 =>
           v[n] = IF v[n - 1] = None THEN None ELSE img[v[n - 1]].next
  <2> HIDE DEF v
  <2> QED
    BY <1>1, <1>2
<1>7. \A n \in 0 .. C : Walk[n] = v[n]
  <2> DEFINE T == {n \in 0 .. C : Walk[n] # v[n]}
  <2> SUFFICES ASSUME T # {} PROVE FALSE
    OBVIOUS
  <2> HIDE DEF v
  <2>1. T \in SUBSET Nat
    BY <1>1
  <2>2. PICK x \in T : \A y \in T : x <= y
    <3> HIDE DEF T
    <3> QED
      BY <2>1, LeastNat
  <2>3. CASE x = 0
    BY <1>5, <1>6, <2>3
  <2>4. CASE x # 0
    <3>1. x \in 0 .. C /\ x - 1 \in 0 .. C /\ x - 1 \notin T
      BY <1>1, <2>2, <2>4
    <3>2. Walk[x - 1] = v[x - 1]
      BY <3>1
    <3> QED
      BY <1>5, <1>6, <2>4, <3>1, <3>2
  <2> QED
    BY <2>3, <2>4
<1> QED
  BY <1>5, <1>7

\* The list holds the detached images.
LEMMA ListedDetached ==
    ASSUME Typed, CacheOK
    PROVE  Listed = Detached
<1>1. PICK L \in [1 .. cache.count -> Images] : Ordered(img, Detached, cache, L)
  BY DEF CacheOK, ListOK
<1> DEFINE C == Cardinality(Images)
<1>2. /\ DOMAIN Walk = 0 .. C
      /\ \A n \in 0 .. C : Walk[n] = IF n < cache.count THEN L[n + 1] ELSE None
  BY <1>1, WalkList
<1>3. cache.count \in Nat /\ C \in Nat /\ cache.count <= C
  <2>1. cache.count \in Nat /\ Detached \in SUBSET Images /\ img \in [Images -> ImageRecord]
    BY DEF Typed, CacheRecord, Detached
  <2> QED
    BY <1>1, <2>1, ListLength, BackingAssumption, FS_CardinalityType
<1> HIDE DEF C
<1>4. ASSUME NEW i \in Listed PROVE i \in Detached
  <2>1. PICK n \in 0 .. C : i = Walk[n] /\ i # None
    BY <1>2 DEF Listed
  <2>2. n < cache.count /\ i = L[n + 1]
    BY <1>2, <2>1
  <2>3. n + 1 \in 1 .. cache.count
    BY <1>3, <2>2
  <2> QED
    BY <1>1, <2>2, <2>3 DEF Ordered
<1>5. ASSUME NEW i \in Detached PROVE i \in Listed
  <2>1. PICK k \in 1 .. cache.count : L[k] = i
    BY <1>1 DEF Ordered
  <2>2. k - 1 \in 0 .. C /\ k - 1 < cache.count /\ (k - 1) + 1 = k
    BY <1>3, <2>1
  <2>3. Walk[k - 1] = i
    BY <1>2, <2>1, <2>2
  <2>4. i # None
    BY BackingAssumption DEF Detached, Typed
  <2> QED
    BY <1>2, <2>2, <2>3, <2>4 DEF Listed
<1> QED
  BY <1>4, <1>5

\* The image pruned first is the first one of the list that may be pruned.
LEMMA OldestFirst ==
    ASSUME NEW L \in [1 .. cache.count -> Images], Typed, Ordered(img, Detached, cache, L)
    PROVE  IF Oldest = None
           THEN \A k \in 1 .. cache.count : ~BackingImageCanPrune(L[k])
           ELSE \E k \in 1 .. cache.count :
                  /\ Oldest = L[k] /\ BackingImageCanPrune(L[k])
                  /\ \A l \in 1 .. cache.count : l < k => ~BackingImageCanPrune(L[l])
<1> DEFINE C == Cardinality(Images)
           T == {n \in DOMAIN Walk : Walk[n] = None \/ BackingImageCanPrune(Walk[n])}
<1>1. /\ DOMAIN Walk = 0 .. C
      /\ \A n \in 0 .. C : Walk[n] = IF n < cache.count THEN L[n + 1] ELSE None
  BY WalkList
<1>2. cache.count \in Nat /\ C \in Nat /\ cache.count <= C
  <2>1. cache.count \in Nat /\ Detached \in SUBSET Images /\ img \in [Images -> ImageRecord]
    BY DEF Typed, CacheRecord, Detached
  <2> QED
    BY <2>1, ListLength, BackingAssumption, FS_CardinalityType
<1> HIDE DEF C
<1>3. T \in SUBSET Nat /\ cache.count \in T
  BY <1>1, <1>2
<1>4. PICK x \in T : \A y \in T : x <= y
  <2> HIDE DEF T
  <2> QED
    BY <1>3, LeastNat
<1>5. Min(T) \in T /\ \A y \in T : Min(T) <= y
  <2> HIDE DEF T
  <2> QED
    BY <1>4 DEF Min
<1> DEFINE m == Min(T)
<1>6. m \in T /\ (\A y \in T : m <= y) /\ Oldest = Walk[m]
  BY <1>5 DEF Oldest
<1> HIDE DEF m
<1>7. m \in 0 .. C /\ m <= cache.count
  BY <1>1, <1>3, <1>6
<1>8. ASSUME NEW l \in 1 .. cache.count, l - 1 < m PROVE ~BackingImageCanPrune(L[l])
  <2>1. l - 1 \in 0 .. C /\ l - 1 \notin T /\ (l - 1) + 1 = l /\ l - 1 < cache.count
    BY <1>2, <1>3, <1>6, <1>7, <1>8
  <2>2. Walk[l - 1] = L[l]
    BY <1>1, <2>1
  <2> QED
    BY <1>1, <2>1, <2>2
<1>9. CASE m = cache.count
  <2>1. Oldest = None
    BY <1>1, <1>6, <1>7, <1>9, <1>2
  <2> QED
    BY <1>2, <1>8, <1>9, <2>1
<1>10. CASE m < cache.count
  <2>1. m + 1 \in 1 .. cache.count /\ Oldest = L[m + 1] /\ L[m + 1] # None
    <3>1. m + 1 \in 1 .. cache.count
      BY <1>2, <1>7, <1>10
    <3>2. L[m + 1] \in Images
      BY <3>1
    <3>3. Walk[m] = L[m + 1]
      BY <1>1, <1>7, <1>10
    <3> QED
      BY <1>6, <3>1, <3>2, <3>3, BackingAssumption
  <2>2. BackingImageCanPrune(L[m + 1])
    BY <1>6, <2>1
  <2>3. \A l \in 1 .. cache.count : l < m + 1 => ~BackingImageCanPrune(L[l])
    BY <1>2, <1>7, <1>8
  <2> QED
    BY <2>1, <2>2, <2>3
<1> QED
  BY <1>2, <1>7, <1>9, <1>10

-----------------------------------------------------------------------------
(* Linking and unlinking.                                                  *)

\* The bytes of a set of images are finite, and grow by the size of a new one.
LEMMA BytesAdd ==
    ASSUME NEW f \in [Images -> ImageRecord], NEW D \in SUBSET Images, NEW i \in Images \ D,
           IsFiniteSet(Bytes(f, D))
    PROVE  /\ IsFiniteSet(Bytes(f, D \cup {i}))
           /\ Cardinality(Bytes(f, D \cup {i})) = Cardinality(Bytes(f, D)) + f[i].size
<1> DEFINE B == {i} \X (1 .. f[i].size)
<1>0. f[i].size \in Nat
  BY DEF ImageRecord
<1>1. IsFiniteSet(B) /\ Cardinality(B) = f[i].size
  <2>1. IsFiniteSet(1 .. f[i].size) /\ Cardinality(1 .. f[i].size) = f[i].size
    BY <1>0, FS_Interval
  <2>2. IsFiniteSet({i}) /\ Cardinality({i}) = 1
    BY FS_Singleton
  <2>3. IsFiniteSet(B) /\ Cardinality(B) = Cardinality({i}) * Cardinality(1 .. f[i].size)
    BY <2>1, <2>2, FS_Product
  <2> HIDE DEF B
  <2>4. 1 * f[i].size = f[i].size
    BY <1>0
  <2> QED
    BY <2>1, <2>2, <2>3, <2>4
<1>2. Bytes(f, D \cup {i}) = Bytes(f, D) \cup B
  BY DEF Bytes
<1>3. Bytes(f, D) \cap B = {}
  BY DEF Bytes
<1> HIDE DEF B
<1>4. Cardinality(Bytes(f, D) \cap B) = 0
  BY <1>3, FS_EmptySet
<1>5. Cardinality(Bytes(f, D)) \in Nat
  BY FS_CardinalityType
<1> DEFINE A == Bytes(f, D)
           n == f[i].size
<1>6. /\ IsFiniteSet(A) /\ IsFiniteSet(B) /\ Cardinality(B) = n
      /\ Cardinality(A) \in Nat /\ n \in Nat /\ Cardinality(A \cap B) = 0
      /\ Bytes(f, D \cup {i}) = A \cup B
  BY <1>0, <1>1, <1>2, <1>4, <1>5
<1> HIDE DEF A, n
<1>7. IsFiniteSet(A \cup B)
      /\ Cardinality(A \cup B) = Cardinality(A) + Cardinality(B) - Cardinality(A \cap B)
  BY <1>6, FS_Union
<1>8. Cardinality(A \cup B) = Cardinality(A) + n
  BY <1>6, <1>7
<1> QED
  BY <1>6, <1>7, <1>8 DEF A, n

\* The bytes depend on the sizes of the images in the set only.
LEMMA BytesSame ==
    ASSUME NEW f, NEW g, NEW D, \A i \in D : f[i].size = g[i].size
    PROVE  Bytes(f, D) = Bytes(g, D)
BY DEF Bytes

\* Detaching appends an image with a new serial number to the list.
LEMMA LinkList ==
    ASSUME NEW f \in [Images -> ImageRecord], NEW D \in SUBSET Images, NEW i \in Images \ D,
           NEW c \in CacheRecord, ListOK(f, D, c),
           f[i].serial = c.serial + 1
    PROVE  LET e == [c EXCEPT !.serial = @ + 1] IN
           ListOK(LinkedImg(f, e, i), D \cup {i}, LinkedCache(f, e, i))
<1> DEFINE e == [c EXCEPT !.serial = @ + 1]
           g == LinkedImg(f, e, i)
           d == LinkedCache(f, e, i)
<1>1. PICK L \in [1 .. c.count -> Images] : Ordered(f, D, c, L)
  BY DEF ListOK
<1>2. /\ c.count \in Nat /\ c.serial \in Nat /\ c.bytes \in Nat
      /\ c.head \in Images \cup {None} /\ c.tail \in Images \cup {None}
  BY DEF CacheRecord
<1>3. /\ e.count = c.count /\ e.head = c.head /\ e.tail = c.tail /\ e.bytes = c.bytes
      /\ e.serial = c.serial + 1 /\ e \in CacheRecord
  BY <1>2 DEF CacheRecord
<1>4. /\ d.count = c.count + 1 /\ d.serial = c.serial + 1 /\ d.bytes = c.bytes + f[i].size
      /\ d.head = (IF c.tail = None THEN i ELSE c.head) /\ d.tail = i
  <2> HIDE DEF e
  <2> QED
    BY <1>2, <1>3 DEF CacheRecord, LinkedCache
<1>5. \A j \in Images : f[j] \in ImageRecord
  OBVIOUS
<1>t. c.tail # i
  BY <1>1, <1>2, BackingAssumption DEF Ordered
<1>6. /\ g[i].prev = c.tail /\ g[i].next = None /\ g[i].serial = f[i].serial
      /\ g[i].size = f[i].size
  <2> HIDE DEF e
  <2>1. g[i] = [f[i] EXCEPT !.prev = c.tail, !.next = None]
    BY <1>3, <1>t DEF LinkedImg
  <2> HIDE DEF g
  <2> QED
    BY <1>5, <2>1 DEF ImageRecord
<1>7. ASSUME NEW j \in Images, j # i
      PROVE  /\ g[j].prev = f[j].prev /\ g[j].serial = f[j].serial /\ g[j].size = f[j].size
             /\ g[j].next = IF j = c.tail THEN i ELSE f[j].next
  <2> HIDE DEF e
  <2> QED
    BY <1>3, <1>5, <1>7 DEF LinkedImg, ImageRecord
<1> HIDE DEF e, g, d
<1> DEFINE M == [k \in 1 .. d.count |-> IF k = d.count THEN i ELSE L[k]]
<1>8. M \in [1 .. d.count -> Images] /\ M[d.count] = i
      /\ \A k \in 1 .. c.count : M[k] = L[k] /\ M[k] \in D /\ M[k] # i /\ M[k] \in Images
  BY <1>1, <1>2, <1>4 DEF Ordered
<1>9. \A k \in 1 .. d.count : k \in 1 .. c.count \/ k = d.count
  BY <1>2, <1>4
<1> HIDE DEF M
<1>10. Ordered(g, D \cup {i}, d, M)
  <2>1. ASSUME NEW k \in 1 .. d.count, NEW l \in 1 .. d.count, k < l
        PROVE  g[M[k]].serial < g[M[l]].serial
    <3>1. k \in 1 .. c.count
      BY <1>2, <1>4, <2>1
    <3>2. CASE l \in 1 .. c.count
      BY <1>1, <1>7, <1>8, <2>1, <3>1, <3>2 DEF Ordered
    <3>3. CASE l = d.count
      <4>1. f[L[k]].serial <= c.serial /\ f[L[k]].serial \in Nat
        BY <1>1, <1>5, <3>1 DEF Ordered, ImageRecord
      <4>2. g[M[k]].serial = f[L[k]].serial /\ g[M[l]].serial = c.serial + 1
        BY <1>6, <1>7, <1>8, <3>1, <3>3
      <4> QED
        BY <1>2, <4>1, <4>2
    <3> QED
      BY <1>9, <3>2, <3>3
  <2>2. ASSUME NEW k \in 1 .. d.count PROVE g[M[k]].serial <= d.serial
    <3>1. CASE k \in 1 .. c.count
      <4>1. f[L[k]].serial <= c.serial /\ f[L[k]].serial \in Nat
        BY <1>1, <1>5, <3>1 DEF Ordered, ImageRecord
      <4> QED
        BY <1>2, <1>4, <1>7, <1>8, <3>1, <4>1
    <3>2. CASE k = d.count
      BY <1>2, <1>4, <1>6, <1>8, <3>2
    <3> QED
      BY <1>9, <3>1, <3>2
  <2>3. \A k \in 1 .. d.count : M[k] \in D \cup {i}
    BY <1>8, <1>9
  <2>4. \A j \in D \cup {i} : \E k \in 1 .. d.count : M[k] = j
    <3>1. d.count \in 1 .. d.count /\ 1 .. c.count \subseteq 1 .. d.count
      BY <1>2, <1>4
    <3> QED
      BY <1>1, <1>8, <3>1 DEF Ordered
  <2>5. ASSUME NEW k \in 1 .. d.count
        PROVE  /\ g[M[k]].prev = IF k = 1 THEN None ELSE M[k - 1]
               /\ g[M[k]].next = IF k = d.count THEN None ELSE M[k + 1]
    <3>1. CASE k = d.count
      <4>1. CASE c.count = 0
        BY <1>1, <1>2, <1>4, <1>6, <1>8, <3>1, <4>1 DEF Ordered
      <4>2. CASE c.count # 0
        <5>1. c.tail = L[c.count] /\ c.count \in 1 .. c.count /\ k - 1 = c.count
          <6>1. c.count \in 1 .. c.count /\ k - 1 = c.count
            BY <1>2, <1>4, <3>1, <4>2
          <6> QED
            BY <1>1, <4>2, <6>1 DEF Ordered
        <5>2. M[k - 1] = c.tail
          BY <1>8, <5>1
        <5> QED
          BY <1>2, <1>4, <1>6, <1>8, <3>1, <4>2, <5>1, <5>2
      <4> QED
        BY <4>1, <4>2
    <3>2. CASE k \in 1 .. c.count
      <4>1. f[L[k]].prev = IF k = 1 THEN None ELSE L[k - 1]
        BY <1>1, <3>2 DEF Ordered
      <4>2. g[M[k]].prev = f[L[k]].prev
        BY <1>7, <1>8, <3>2
      <4>3. k # 1 => M[k - 1] = L[k - 1]
        BY <1>2, <1>8, <3>2
      <4>4. g[M[k]].next = M[k + 1]
        <5>1. c.tail = L[c.count] /\ c.count \in 1 .. c.count
          BY <1>1, <1>2, <3>2 DEF Ordered
        <5>2. CASE k = c.count
          BY <1>4, <1>7, <1>8, <3>2, <5>1, <5>2
        <5>3. CASE k # c.count
          <6>1. k < c.count /\ k + 1 \in 1 .. c.count
            BY <1>2, <3>2, <5>3
          <6>2. L[k] # c.tail
            <7>1. f[L[k]].serial < f[L[c.count]].serial /\ f[L[k]].serial \in Nat
              BY <1>1, <1>5, <3>2, <5>1, <6>1 DEF Ordered, ImageRecord
            <7> QED
              BY <5>1, <7>1
          <6>3. f[L[k]].next = L[k + 1]
            BY <1>1, <3>2, <5>3 DEF Ordered
          <6> QED
            BY <1>7, <1>8, <3>2, <6>1, <6>2, <6>3
        <5> QED
          BY <5>2, <5>3
      <4>5. k # d.count
        BY <1>2, <1>4, <3>2
      <4> QED
        BY <4>1, <4>2, <4>3, <4>4, <4>5
    <3> QED
      BY <1>9, <3>1, <3>2
  <2>6. d.count # 0 /\ d.head = M[1] /\ d.tail = M[d.count]
    <3>1. CASE c.count = 0
      BY <1>1, <1>4, <1>8, <3>1 DEF Ordered
    <3>2. CASE c.count # 0
      <4>1. 1 \in 1 .. c.count /\ c.count \in 1 .. c.count
        BY <1>2, <3>2
      <4>2. c.head = L[1] /\ c.tail = L[c.count] /\ L[c.count] \in Images
        BY <1>1, <3>2, <4>1 DEF Ordered
      <4> QED
        BY <1>2, <1>4, <1>8, <3>2, <4>1, <4>2, BackingAssumption
    <3> QED
      BY <3>1, <3>2
  <2> QED
    BY <2>1, <2>2, <2>3, <2>4, <2>5, <2>6 DEF Ordered
<1>11. IsFiniteSet(Bytes(g, D \cup {i})) /\ d.bytes = Cardinality(Bytes(g, D \cup {i}))
  <2>1. Bytes(g, D \cup {i}) = Bytes(f, D \cup {i})
    BY <1>6, <1>7, BytesSame
  <2>2. IsFiniteSet(Bytes(f, D)) /\ c.bytes = Cardinality(Bytes(f, D))
    BY DEF ListOK
  <2> QED
    BY <1>4, <2>1, <2>2, BytesAdd
<1>12. ListOK(g, D \cup {i}, d)
  BY <1>8, <1>10, <1>11 DEF ListOK
<1> QED
  BY <1>12 DEF e, g, d

\* Removing one image of the list joins its neighbours.
LEMMA UnlinkList ==
    ASSUME NEW f \in [Images -> ImageRecord], NEW D \in SUBSET Images, NEW i \in D,
           NEW c \in CacheRecord, ListOK(f, D, c)
    PROVE  /\ ListOK(UnlinkedImg(f, c, i), D \ {i}, UnlinkedCache(f, c, i))
           /\ UnlinkedCache(f, c, i).count <= c.count
           /\ UnlinkedCache(f, c, i).bytes <= c.bytes
<1> DEFINE g == UnlinkedImg(f, c, i)
           d == UnlinkedCache(f, c, i)
<1>1. PICK L \in [1 .. c.count -> Images] : Ordered(f, D, c, L)
  BY DEF ListOK
<1>2. /\ c.count \in Nat /\ c.serial \in Nat /\ c.bytes \in Nat
      /\ c.head \in Images \cup {None} /\ c.tail \in Images \cup {None}
  BY DEF CacheRecord
<1>3. PICK p \in 1 .. c.count : L[p] = i
  BY <1>1 DEF Ordered
<1>4. \A k, l \in 1 .. c.count : L[k] = L[l] => k = l
  BY <1>1, <1>2, ListLength
<1>5. /\ \A k \in 1 .. c.count : L[k] \in Images /\ L[k] \in D /\ L[k] # None
      /\ \A j \in Images : f[j] \in ImageRecord
  BY <1>1, BackingAssumption DEF Ordered
<1>6. /\ f[i].prev = IF p = 1 THEN None ELSE L[p - 1]
      /\ f[i].next = IF p = c.count THEN None ELSE L[p + 1]
  BY <1>1, <1>3 DEF Ordered
<1>7. /\ IsFiniteSet(Bytes(f, D \ {i}))
      /\ c.bytes = Cardinality(Bytes(f, D \ {i})) + f[i].size
      /\ Cardinality(Bytes(f, D \ {i})) \in Nat /\ f[i].size \in Nat
  <2>1. IsFiniteSet(Bytes(f, D)) /\ c.bytes = Cardinality(Bytes(f, D))
    BY DEF ListOK
  <2>2. Bytes(f, D \ {i}) \subseteq Bytes(f, D)
    BY DEF Bytes
  <2>3. IsFiniteSet(Bytes(f, D \ {i}))
    BY <2>1, <2>2, FS_Subset
  <2> DEFINE E == D \ {i}
  <2>4. E \in SUBSET Images /\ i \in Images \ E /\ E \cup {i} = D
    OBVIOUS
  <2>5. Cardinality(Bytes(f, E \cup {i})) = Cardinality(Bytes(f, E)) + f[i].size
    <3> HIDE DEF E
    <3>1. IsFiniteSet(Bytes(f, E))
      BY <2>3 DEF E
    <3> QED
      BY <2>4, <3>1, BytesAdd
  <2> QED
    BY <2>1, <2>3, <2>4, <2>5, <1>5, FS_CardinalityType DEF ImageRecord
<1>8. /\ d.count = c.count - 1 /\ d.serial = c.serial /\ d.bytes = c.bytes - f[i].size
      /\ d.head = (IF f[i].prev = None THEN f[i].next ELSE c.head)
      /\ d.tail = (IF f[i].next = None THEN f[i].prev ELSE c.tail)
  <2>1. c.count > 0 /\ c.bytes >= f[i].size
    BY <1>2, <1>3, <1>7
  <2> QED
    BY <1>2, <2>1 DEF CacheRecord, UnlinkedCache
<1>9. ASSUME NEW j \in Images, j # i
      PROVE  /\ g[j].serial = f[j].serial /\ g[j].size = f[j].size
             /\ g[j].prev = (IF j = f[i].next THEN f[i].prev ELSE f[j].prev)
             /\ g[j].next = (IF j = f[i].prev THEN f[i].next ELSE f[j].next)
  BY <1>5, <1>9 DEF UnlinkedImg, ImageRecord
<1> HIDE DEF g, d
<1> DEFINE q(k) == IF k < p THEN k ELSE k + 1
           M == [k \in 1 .. d.count |-> L[q(k)]]
<1>10. ASSUME NEW k \in 1 .. d.count
       PROVE  /\ q(k) \in 1 .. c.count /\ q(k) # p
              /\ M[k] = L[q(k)] /\ M[k] \in D \ {i} /\ M[k] \in Images
  <2>1. q(k) \in 1 .. c.count /\ q(k) # p
    BY <1>2, <1>8
  <2>2. M[k] = L[q(k)]
    OBVIOUS
  <2> HIDE DEF q, M
  <2> QED
    BY <1>3, <1>4, <1>5, <2>1, <2>2
<1>11. M \in [1 .. d.count -> Images]
  BY <1>10
<1>12. \A k, l \in 1 .. d.count : k < l => q(k) < q(l)
  BY <1>2, <1>8
<1>13. \A m \in 1 .. c.count : m # p => \E k \in 1 .. d.count : q(k) = m
  <2> SUFFICES ASSUME NEW m \in 1 .. c.count, m # p
               PROVE  \E k \in 1 .. d.count : q(k) = m
    OBVIOUS
  <2>1. CASE m < p
    <3>1. m \in 1 .. d.count /\ q(m) = m
      BY <1>2, <1>8, <2>1
    <3> QED
      BY <3>1
  <2>2. CASE m > p
    <3>1. m - 1 \in 1 .. d.count /\ q(m - 1) = m
      BY <1>2, <1>8, <2>2
    <3> QED
      BY <3>1
  <2> QED
    BY <1>2, <2>1, <2>2
<1>14. Ordered(g, D \ {i}, d, M)
  <2>1. ASSUME NEW k \in 1 .. d.count, NEW l \in 1 .. d.count, k < l
        PROVE  g[M[k]].serial < g[M[l]].serial
    <3>1. q(k) < q(l)
      BY <1>12, <2>1
    <3> HIDE DEF q, M
    <3>2. f[L[q(k)]].serial < f[L[q(l)]].serial
      BY <1>1, <1>10, <3>1 DEF Ordered
    <3> QED
      BY <1>9, <1>10, <3>2
  <2>2. \A k \in 1 .. d.count : g[M[k]].serial <= d.serial
    <3> HIDE DEF q, M
    <3> QED
      BY <1>1, <1>8, <1>9, <1>10 DEF Ordered
  <2>3. \A k \in 1 .. d.count : M[k] \in D \ {i}
    BY <1>10
  <2>4. ASSUME NEW j \in D \ {i} PROVE \E k \in 1 .. d.count : M[k] = j
    <3>1. PICK m \in 1 .. c.count : L[m] = j
      BY <1>1 DEF Ordered
    <3>2. PICK k \in 1 .. d.count : q(k) = m
      BY <1>3, <1>13, <3>1
    <3> QED
      BY <1>10, <3>1, <3>2
  <2>5. ASSUME NEW k \in 1 .. d.count
        PROVE  /\ g[M[k]].prev = IF k = 1 THEN None ELSE M[k - 1]
               /\ g[M[k]].next = IF k = d.count THEN None ELSE M[k + 1]
    <3> DEFINE m == q(k)
    <3>1. m \in 1 .. c.count /\ m # p /\ M[k] = L[m] /\ M[k] # i /\ M[k] \in Images
      BY <1>10
    <3>2. /\ f[L[m]].prev = IF m = 1 THEN None ELSE L[m - 1]
          /\ f[L[m]].next = IF m = c.count THEN None ELSE L[m + 1]
      BY <1>1, <3>1 DEF Ordered
    <3>3. k \in 1 .. d.count - 1 => k + 1 \in 1 .. d.count /\ M[k + 1] = L[q(k + 1)]
      BY <1>2, <1>8
    <3>4. k # 1 => k - 1 \in 1 .. d.count /\ M[k - 1] = L[q(k - 1)]
      BY <1>2, <1>8
    <3>5. g[M[k]].prev = IF k = 1 THEN None ELSE M[k - 1]
      <4>1. CASE m = p + 1
        <5>1. f[i].next = M[k]
          BY <1>2, <1>6, <3>1, <4>1
        <5>2. k = p /\ (k # 1 => q(k - 1) = p - 1)
          BY <1>2, <3>1, <4>1
        <5>3. g[M[k]].prev = f[i].prev
          BY <1>9, <3>1, <5>1
        <5> QED
          BY <1>6, <3>4, <5>2, <5>3
      <4>2. CASE m # p + 1
        <5>1. f[i].next # M[k]
          <6>1. p # c.count => p + 1 \in 1 .. c.count
            BY <1>2
          <6> HIDE DEF m
          <6> QED
            BY <1>4, <1>5, <1>6, <3>1, <4>2, <6>1
        <5>2. g[M[k]].prev = f[L[m]].prev
          BY <1>9, <3>1, <5>1
        <5>3. (m = 1) = (k = 1) /\ (k # 1 => q(k - 1) = m - 1)
          BY <1>2, <1>8, <3>1, <4>2
        <5> QED
          BY <3>2, <3>4, <5>2, <5>3
      <4> QED
        BY <4>1, <4>2
    <3>6. g[M[k]].next = IF k = d.count THEN None ELSE M[k + 1]
      <4>0. k # d.count => k \in 1 .. d.count - 1
        BY <1>2, <1>8
      <4>1. CASE m = p - 1
        <5>1. f[i].prev = M[k]
          BY <1>2, <1>6, <3>1, <4>1
        <5>2. (k = d.count) = (p = c.count) /\ q(k + 1) = p + 1
          BY <1>2, <1>8, <3>1, <4>1
        <5>3. g[M[k]].next = f[i].next
          BY <1>9, <3>1, <5>1
        <5> QED
          BY <1>6, <3>3, <4>0, <5>2, <5>3
      <4>2. CASE m # p - 1
        <5>1. f[i].prev # M[k]
          <6>1. p # 1 => p - 1 \in 1 .. c.count
            BY <1>2
          <6> HIDE DEF m
          <6> QED
            BY <1>4, <1>5, <1>6, <3>1, <4>2, <6>1
        <5>2. g[M[k]].next = f[L[m]].next
          BY <1>9, <3>1, <5>1
        <5>3. (m = c.count) = (k = d.count) /\ q(k + 1) = m + 1
          BY <1>2, <1>8, <3>1, <4>2
        <5> QED
          BY <3>2, <3>3, <4>0, <5>2, <5>3
      <4> QED
        BY <4>1, <4>2
    <3> QED
      BY <3>5, <3>6
  <2>6. IF d.count = 0 THEN d.head = None /\ d.tail = None
        ELSE d.head = M[1] /\ d.tail = M[d.count]
    <3>0. c.count # 0 /\ c.head = L[1] /\ c.tail = L[c.count]
      BY <1>1, <1>2, <1>3 DEF Ordered
    <3>1. CASE d.count = 0
      <4>1. p = 1 /\ p = c.count
        BY <1>2, <1>8, <3>1
      <4> QED
        BY <1>6, <1>8, <3>1, <4>1
    <3>2. CASE d.count # 0
      <4>1. 1 \in 1 .. d.count /\ d.count \in 1 .. d.count
        BY <1>2, <1>8, <3>2
      <4>2. q(1) = (IF p = 1 THEN 2 ELSE 1) /\ q(d.count) = (IF p = c.count THEN c.count - 1 ELSE c.count)
        BY <1>2, <1>8, <3>2
      <4>3. M[1] = L[q(1)] /\ M[d.count] = L[q(d.count)]
        BY <1>10, <4>1
      <4>4. /\ p # 1 => f[i].prev # None
            /\ p # c.count => f[i].next # None
        <5>1. (p # 1 => p - 1 \in 1 .. c.count) /\ (p # c.count => p + 1 \in 1 .. c.count)
          BY <1>2
        <5> QED
          BY <1>5, <1>6, <5>1
      <4>5. d.head = M[1]
        BY <1>2, <1>6, <1>8, <3>0, <3>2, <4>2, <4>3, <4>4
      <4>6. d.tail = M[d.count]
        BY <1>2, <1>6, <1>8, <3>0, <3>2, <4>2, <4>3, <4>4
      <4> QED
        BY <3>2, <4>5, <4>6
    <3> QED
      BY <3>1, <3>2
  <2> HIDE DEF q, M
  <2> QED
    BY <2>1, <2>2, <2>3, <2>4, <2>5, <2>6 DEF Ordered
<1>15. IsFiniteSet(Bytes(g, D \ {i})) /\ d.bytes = Cardinality(Bytes(g, D \ {i}))
  <2>1. Bytes(g, D \ {i}) = Bytes(f, D \ {i})
    BY <1>9, BytesSame
  <2> QED
    BY <1>2, <1>7, <1>8, <2>1
<1>16. ListOK(g, D \ {i}, d)
  <2> HIDE DEF M
  <2> QED
    BY <1>11, <1>14, <1>15 DEF ListOK
<1>17. d.count <= c.count /\ d.bytes <= c.bytes
  BY <1>2, <1>7, <1>8
<1> QED
  BY <1>16, <1>17 DEF g, d

\* The list depends on the links, the serial numbers and the sizes of its
\* members only.
LEMMA SameList ==
    ASSUME NEW f, NEW g, NEW D, NEW c, ListOK(f, D, c),
           \A i \in D : /\ g[i].prev = f[i].prev /\ g[i].next = f[i].next
                        /\ g[i].serial = f[i].serial /\ g[i].size = f[i].size
    PROVE  ListOK(g, D, c)
<1>1. PICK L \in [1 .. c.count -> Images] : Ordered(f, D, c, L)
  BY DEF ListOK
<1>2. Ordered(g, D, c, L)
  <2>1. \A k \in 1 .. c.count : L[k] \in D
    BY <1>1 DEF Ordered
  <2> QED
    BY <1>1, <2>1 DEF Ordered
<1>3. Bytes(g, D) = Bytes(f, D)
  BY BytesSame
<1> QED
  BY <1>2, <1>3 DEF ListOK

\* Nothing is listed in an empty cache.
LEMMA EmptyList ==
    ASSUME NEW f PROVE ListOK(f, {}, EmptyCache)
<1>1. EmptyCache.count = 0 /\ EmptyCache.bytes = 0 /\ EmptyCache.head = None /\ EmptyCache.tail = None
  BY DEF EmptyCache
<1>2. Bytes(f, {}) = {}
  BY DEF Bytes
<1>3. [k \in 1 .. 0 |-> None] \in [1 .. 0 -> Images]
  OBVIOUS
<1>4. Ordered(f, {}, EmptyCache, [k \in 1 .. 0 |-> None])
  BY <1>1 DEF Ordered
<1> QED
  BY <1>1, <1>2, <1>3, <1>4, FS_EmptySet DEF ListOK

-----------------------------------------------------------------------------
(* Steps that leave surfaces and images alone.                             *)

LEMMA ConstantTypes ==
    /\ FreshImage \in ImageRecord /\ Idle \in CallRecord /\ NoSurface \in SurfaceRecord
    /\ EmptyCache \in CacheRecord
BY BackingAssumption
   DEF FreshImage, ImageRecord, ImageStates, Idle, CallRecord, NoSurface, SurfaceRecord,
       EmptyCache, CacheRecord

\* The record a call continues with when only its place changes.
LEMMA GotoRecord ==
    ASSUME Typed, NEW t \in Threads,
           NEW label \in {"idle", "alloc", "reclaim", "add", "layout", "external",
                          "prune", "pruning", "budgeting", "grow"},
           Goto(t, label)
    PROVE  \E p \in CallRecord :
              /\ pc' = [pc EXCEPT ![t] = p]
              /\ p.at = label /\ p.surface = pc[t].surface
              /\ p.image = pc[t].image /\ p.extra = pc[t].extra
<1> DEFINE p == [pc[t] EXCEPT !.at = label]
<1>1. pc \in [Threads -> CallRecord] /\ pc[t] \in CallRecord
  BY DEF Typed
<1>2. /\ p \in CallRecord /\ p.at = label /\ p.surface = pc[t].surface
      /\ p.image = pc[t].image /\ p.extra = pc[t].extra
  BY <1>1 DEF CallRecord
<1>3. pc' = [pc EXCEPT ![t] = p]
  BY <1>1 DEF Goto
<1> HIDE DEF p
<1> QED
  BY <1>2, <1>3

LEMMA FinishRecord ==
    ASSUME NEW t \in Threads, Finish(t)
    PROVE  \E p \in CallRecord :
              /\ pc' = [pc EXCEPT ![t] = p]
              /\ p.at = "idle" /\ p.surface = None /\ p.image = None /\ p.extra = 0
BY ConstantTypes DEF Finish, Idle

\* The records new calls start with.
LEMMA AllocRecord ==
    ASSUME NEW s \in Surfaces
    PROVE  LET p == [Idle EXCEPT !.at = "alloc", !.surface = s] IN
           p \in CallRecord /\ p.at = "alloc" /\ p.surface = s /\ p.image = None
BY ConstantTypes DEF Idle, CallRecord

LEMMA ImportRecord ==
    ASSUME NEW s \in Surfaces
    PROVE  /\ Importing(s) \in CallRecord /\ Importing(s).at = "external"
           /\ Importing(s).surface = s /\ Importing(s).image = None
BY ConstantTypes DEF Idle, CallRecord, Importing

LEMMA LayoutRecord ==
    ASSUME NEW s \in Surfaces, NEW i \in Images
    PROVE  LET p == [Importing(s) EXCEPT !.at = "layout", !.image = i] IN
           p \in CallRecord /\ p.at = "layout" /\ p.surface = s /\ p.image = i
BY ImportRecord DEF CallRecord

LEMMA ScratchRecord ==
    ASSUME NEW extra \in 1 .. VideoProcScratchMaxBytes, NEW label \in {"grow", "budgeting"}
    PROVE  LET p == [Idle EXCEPT !.at = label, !.extra = extra] IN
           p \in CallRecord /\ p.at = label /\ p.surface = None /\ p.image = None
<1>1. extra \in 0 .. VideoProcScratchMaxBytes
  BY BackingAssumption
<1> QED
  BY <1>1, ConstantTypes DEF Idle, CallRecord

\* A step of one call that neither begins nor ends an import or an addition.
LEMMA QuietStruct ==
    ASSUME Typed, Struct, NEW t \in Threads, NEW p \in CallRecord, pc' = [pc EXCEPT ![t] = p],
           UNCHANGED <<img, surf, images>>,
           pc[t].at \notin {"add", "layout"}, p.at \notin {"add", "layout"}, CallOK(p),
           p.surface = None \/ p.surface = pc[t].surface \/ Unused(p.surface)
    PROVE  Struct'
<1>1. /\ pc'[t] = p /\ \A u \in Threads : u # t => pc'[u] = pc[u]
      /\ img' = img /\ surf' = surf /\ images' = images
  BY DEF Typed
<1>2. CallsOK'
  <2>1. ASSUME NEW u \in Threads PROVE CallOK(pc[u])'
    BY <1>1 DEF Struct, CallsOK, CallOK
  <2> QED
    BY <2>1 DEF CallsOK
<1>3. OneCall'
  BY <1>1 DEF Struct, OneCall, Unused
<1>4. SurfacesOK'
  BY <1>1 DEF Struct, SurfacesOK, At
<1>5. OwnedOK' /\ FreshOK'
  BY <1>1 DEF Struct, OwnedOK, FreshOK
<1>6. BorrowsOK'
  <2>1. \A i \in Images : Comparing(i)' = Comparing(i) /\ Borrowers(i)' = Borrowers(i)
    BY <1>1 DEF Comparing, At, Borrowers
  <2> QED
    BY <1>1, <2>1 DEF Struct, BorrowsOK, Typed
<1> QED
  BY <1>2, <1>3, <1>4, <1>5, <1>6 DEF Struct

\* A step of no call that changes neither images nor surfaces.
LEMMA StillStruct ==
    ASSUME Struct, UNCHANGED <<img, surf, images, pc>>
    PROVE  Struct'
<1>1. CallsOK' /\ OneCall' /\ SurfacesOK' /\ OwnedOK' /\ FreshOK'
  BY DEF Struct, CallsOK, CallOK, OneCall, SurfacesOK, OwnedOK, FreshOK, At
<1>2. BorrowsOK'
  <2>1. \A i : Comparing(i)' = Comparing(i) /\ Borrowers(i)' = Borrowers(i)
    BY DEF Comparing, At, Borrowers
  <2> QED
    BY <2>1 DEF Struct, BorrowsOK
<1> QED
  BY <1>1, <1>2 DEF Struct

LEMMA SameCache ==
    ASSUME CacheOK, UNCHANGED <<img, images, cache>>
    PROVE  CacheOK'
<1>1. Detached' = Detached
  BY DEF Detached
<1> QED
  BY <1>1 DEF CacheOK

\* A thread keeps, takes or releases imagesMutex.
LEMMA MutexKept ==
    ASSUME Typed, MutexOK, NEW t \in Threads, NEW p \in CallRecord, pc' = [pc EXCEPT ![t] = p],
           mutex' = mutex,
           (p.at \in {"pruning", "budgeting"}) <=> (pc[t].at \in {"pruning", "budgeting"})
    PROVE  MutexOK'
BY DEF Typed, MutexOK

LEMMA MutexTaken ==
    ASSUME Typed, MutexOK, NEW t \in Threads, NEW p \in CallRecord, pc' = [pc EXCEPT ![t] = p],
           mutex = None, mutex' = t, p.at \in {"pruning", "budgeting"}
    PROVE  MutexOK'
BY BackingAssumption DEF Typed, MutexOK

LEMMA MutexGiven ==
    ASSUME Typed, MutexOK, NEW t \in Threads, NEW p \in CallRecord, pc' = [pc EXCEPT ![t] = p],
           pc[t].at \in {"pruning", "budgeting"}, mutex' = None,
           p.at \notin {"pruning", "budgeting"}
    PROVE  MutexOK'
BY BackingAssumption DEF Typed, MutexOK

\* The limits survive a step that adds nothing to the cache, lets no image of it
\* become reclaimable unnoticed and ends no pruning.
LEMMA LimitsKept ==
    ASSUME Typed, Typed', LimitsOK,
           cache'.count <= cache.count, cache'.bytes <= cache.bytes, scratch' <= scratch,
           Detached' \subseteq Detached,
           \A i \in Detached' : (img[i].borrowCount > 0 \/ i \in lapsed)
                                => (img'[i].borrowCount > 0 \/ i \in lapsed'),
           \A u \in Threads : pc[u].at \in {"prune", "pruning"} => pc'[u].at \in {"prune", "pruning"}
    PROVE  LimitsOK'
<1>1. /\ cache.count \in Nat /\ cache.bytes \in Nat /\ scratch \in Nat
      /\ cache'.count \in Nat /\ cache'.bytes \in Nat /\ scratch' \in Nat
  BY DEF Typed, CacheRecord
<1>2. /\ MaxDetachedBackingImages \in Nat /\ MaxDetachedBackingImageBytes \in Nat
      /\ MemoryBudgetBytes \in Nat
  BY BackingAssumption
<1>3. CASE WithinLimits
  <2>1. WithinLimits'
    BY <1>1, <1>2, <1>3 DEF WithinLimits
  <2> QED
    BY <2>1 DEF LimitsOK
<1>4. CASE Excused
  <2>1. Excused'
    BY <1>4 DEF Excused
  <2> QED
    BY <2>1 DEF LimitsOK
<1>5. CASE \E u \in Threads : pc[u].at \in {"prune", "pruning"}
  BY <1>5 DEF LimitsOK
<1> QED
  BY <1>3, <1>4, <1>5 DEF LimitsOK

\* A pruning or idle step of a call that leaves the cache as it is.
LEMMA LimitsStill ==
    ASSUME Typed, Typed', LimitsOK, NEW t \in Threads, NEW p \in CallRecord,
           pc' = [pc EXCEPT ![t] = p], UNCHANGED <<img, images, cache, scratch, lapsed>>,
           pc[t].at \in {"prune", "pruning"} => p.at \in {"prune", "pruning"}
    PROVE  LimitsOK'
<1>1. Detached' = Detached
  BY DEF Detached
<1>2. \A u \in Threads : pc[u].at \in {"prune", "pruning"} => pc'[u].at \in {"prune", "pruning"}
  BY DEF Typed
<1>3. cache.count <= cache.count /\ cache.bytes <= cache.bytes /\ scratch <= scratch
  BY DEF Typed, CacheRecord
<1> QED
  BY <1>1, <1>2, <1>3, LimitsKept

\* A step that only moves one call.
LEMMA QuietInv ==
    ASSUME Inv, NEW t \in Threads, NEW p \in CallRecord, pc' = [pc EXCEPT ![t] = p],
           UNCHANGED <<img, surf, images, cache, scratch, unsafe, lapsed>>,
           mutex' \in Threads \cup {None}, MutexOK',
           pc[t].at \notin {"add", "layout"}, p.at \notin {"add", "layout"}, CallOK(p),
           p.surface = None \/ p.surface = pc[t].surface \/ Unused(p.surface),
           pc[t].at \in {"prune", "pruning"} => p.at \in {"prune", "pruning"}
    PROVE  Inv'
<1>1. Typed /\ Struct /\ CacheOK /\ LimitsOK
  BY DEF Inv
<1>2. Typed'
  BY <1>1 DEF Typed
<1>3. Struct'
  BY <1>1, QuietStruct
<1>4. CacheOK'
  BY <1>1, SameCache
<1>5. LimitsOK'
  BY <1>1, <1>2, LimitsStill
<1> QED
  BY <1>2, <1>3, <1>4, <1>5 DEF Inv

LEMMA RealiseSurfaceInv ==
    ASSUME Inv, NEW t \in Threads, NEW s \in Surfaces, RealiseSurface(t, s)
    PROVE  Inv'
<1>1. Typed /\ MutexOK
  BY DEF Inv
<1>2. PICK p \in CallRecord :
         /\ pc' = [pc EXCEPT ![t] = p]
         /\ p.at = "alloc" /\ p.surface = s /\ p.image = None
  <2>1. pc' = [pc EXCEPT ![t] = [Idle EXCEPT !.at = "alloc", !.surface = s]]
    BY DEF RealiseSurface
  <2> QED
    BY <2>1, AllocRecord
<1>3. /\ pc[t].at = "idle" /\ surf[s].live /\ surf[s].image = None /\ Unused(s)
      /\ UNCHANGED <<img, surf, images, cache, scratch, unsafe, mutex, lapsed>>
  BY DEF RealiseSurface, At
<1>4. CallOK(p)
  BY <1>2, <1>3, BackingAssumption DEF CallOK
<1>5. MutexOK'
  BY <1>1, <1>2, <1>3, MutexKept
<1>6. mutex' \in Threads \cup {None}
  BY <1>1, <1>3 DEF Typed
<1> QED
  BY <1>2, <1>3, <1>4, <1>5, <1>6, QuietInv

LEMMA AllocateFailInv ==
    ASSUME Inv, NEW t \in Threads, AllocateFail(t)
    PROVE  Inv'
<1>1. Typed /\ MutexOK /\ CallOK(pc[t])
  BY DEF Inv, Struct, CallsOK
<1>2. PICK p \in CallRecord :
         /\ pc' = [pc EXCEPT ![t] = p]
         /\ p.at = "reclaim" /\ p.surface = pc[t].surface /\ p.image = pc[t].image
  BY <1>1, GotoRecord DEF AllocateFail
<1>3. /\ pc[t].at = "alloc"
      /\ UNCHANGED <<img, surf, images, cache, scratch, unsafe, mutex, lapsed>>
  BY DEF AllocateFail, At
<1>4. CallOK(p)
  BY <1>1, <1>2, <1>3 DEF CallOK
<1>5. MutexOK'
  BY <1>1, <1>2, <1>3, MutexKept
<1>6. mutex' \in Threads \cup {None}
  BY <1>1, <1>3 DEF Typed
<1> QED
  BY <1>2, <1>3, <1>4, <1>5, <1>6, QuietInv

\* The calls that end without having changed anything.
LEMMA EndsInv ==
    ASSUME Inv, NEW t \in Threads, RealiseFail(t) \/ ImportFail(t) \/ GrowFail(t)
    PROVE  Inv'
<1>1. Typed /\ MutexOK
  BY DEF Inv
<1>2. PICK p \in CallRecord :
         /\ pc' = [pc EXCEPT ![t] = p]
         /\ p.at = "idle" /\ p.surface = None /\ p.image = None
  BY FinishRecord DEF RealiseFail, ImportFail, GrowFail
<1>3. /\ pc[t].at \in {"reclaim", "external", "grow"}
      /\ UNCHANGED <<img, surf, images, cache, scratch, unsafe, mutex, lapsed>>
  BY DEF RealiseFail, ImportFail, GrowFail, At
<1>4. CallOK(p)
  BY <1>2 DEF CallOK
<1>5. MutexOK'
  BY <1>1, <1>2, <1>3, MutexKept
<1>6. mutex' \in Threads \cup {None}
  BY <1>1, <1>3 DEF Typed
<1> QED
  BY <1>2, <1>3, <1>4, <1>5, <1>6, QuietInv

LEMMA ImportUnknownInv ==
    ASSUME Inv, NEW t \in Threads, NEW s \in Surfaces, ImportUnknown(t, s)
    PROVE  Inv'
<1>1. Typed /\ MutexOK
  BY DEF Inv
<1>2. PICK p \in CallRecord :
         /\ pc' = [pc EXCEPT ![t] = p]
         /\ p.at = "external" /\ p.surface = s /\ p.image = None
  <2>1. pc' = [pc EXCEPT ![t] = Importing(s)]
    BY DEF ImportUnknown
  <2> QED
    BY <2>1, ImportRecord
<1>3. /\ pc[t].at = "idle" /\ ~surf[s].live /\ Unused(s)
      /\ UNCHANGED <<img, surf, images, cache, scratch, unsafe, mutex, lapsed>>
  BY DEF ImportUnknown, At
<1>4. CallOK(p)
  BY <1>2, <1>3, BackingAssumption DEF CallOK
<1>5. MutexOK'
  BY <1>1, <1>2, <1>3, MutexKept
<1>6. mutex' \in Threads \cup {None}
  BY <1>1, <1>3 DEF Typed
<1> QED
  BY <1>2, <1>3, <1>4, <1>5, <1>6, QuietInv

LEMMA PruneLockInv ==
    ASSUME Inv, NEW t \in Threads, PruneLock(t)
    PROVE  Inv'
<1>1. Typed /\ MutexOK /\ CallOK(pc[t])
  BY DEF Inv, Struct, CallsOK
<1>2. PICK p \in CallRecord :
         /\ pc' = [pc EXCEPT ![t] = p]
         /\ p.at = "pruning" /\ p.surface = pc[t].surface /\ p.image = pc[t].image
  BY <1>1, GotoRecord DEF PruneLock
<1>3. /\ pc[t].at = "prune" /\ mutex = None /\ mutex' = t
      /\ UNCHANGED <<img, surf, images, cache, scratch, unsafe, lapsed>>
  BY DEF PruneLock, At
<1>4. CallOK(p)
  BY <1>1, <1>2, <1>3 DEF CallOK
<1>5. MutexOK'
  BY <1>1, <1>2, <1>3, MutexTaken
<1> QED
  BY <1>2, <1>3, <1>4, <1>5, QuietInv

LEMMA EnsureVideoProcBufferInv ==
    ASSUME Inv, NEW t \in Threads, NEW extra \in 1 .. VideoProcScratchMaxBytes,
           EnsureVideoProcBuffer(t, extra)
    PROVE  Inv'
<1>1. Typed /\ MutexOK
  BY DEF Inv
<1>2. /\ pc[t].at = "idle"
      /\ UNCHANGED <<img, surf, images, cache, scratch, unsafe, lapsed>>
  BY DEF EnsureVideoProcBuffer, At
<1>3. CASE MemoryBudgetBytes = 0
  <2>1. mutex' = mutex
    BY <1>3 DEF EnsureVideoProcBuffer
  <2>2. PICK p \in CallRecord :
           pc' = [pc EXCEPT ![t] = p] /\ p.at = "grow" /\ p.surface = None /\ p.image = None
    <3>1. pc' = [pc EXCEPT ![t] = [Idle EXCEPT !.at = "grow", !.extra = extra]]
      BY <1>3 DEF EnsureVideoProcBuffer
    <3> QED
      BY <3>1, ScratchRecord
  <2>3. CallOK(p)
    BY <2>2 DEF CallOK
  <2>4. MutexOK'
    BY <1>1, <1>2, <2>1, <2>2, MutexKept
  <2>5. mutex' \in Threads \cup {None}
    BY <1>1, <2>1 DEF Typed
  <2> QED
    BY <1>2, <2>2, <2>3, <2>4, <2>5, QuietInv
<1>4. CASE MemoryBudgetBytes # 0
  <2>1. mutex = None /\ mutex' = t
    BY <1>4 DEF EnsureVideoProcBuffer
  <2>2. PICK p \in CallRecord :
           pc' = [pc EXCEPT ![t] = p] /\ p.at = "budgeting" /\ p.surface = None /\ p.image = None
    <3>1. pc' = [pc EXCEPT ![t] = [Idle EXCEPT !.at = "budgeting", !.extra = extra]]
      BY <1>4 DEF EnsureVideoProcBuffer
    <3> QED
      BY <3>1, ScratchRecord
  <2>3. CallOK(p)
    BY <2>2 DEF CallOK
  <2>4. MutexOK'
    BY <1>1, <1>2, <2>1, <2>2, MutexTaken
  <2> QED
    BY <1>2, <2>1, <2>2, <2>3, <2>4, QuietInv
<1> QED
  BY <1>3, <1>4

LEMMA BudgetDoneInv ==
    ASSUME Inv, NEW t \in Threads, BudgetDone(t)
    PROVE  Inv'
<1>1. Typed /\ MutexOK /\ CallOK(pc[t])
  BY DEF Inv, Struct, CallsOK
<1>2. /\ pc[t].at = "budgeting" /\ mutex' = None
      /\ UNCHANGED <<img, surf, images, cache, scratch, unsafe, lapsed>>
  BY DEF BudgetDone, At
<1>3. pc[t].surface = None /\ pc[t].image = None
  BY <1>1, <1>2 DEF CallOK
<1>4. Goto(t, "grow") \/ Finish(t)
  BY DEF BudgetDone
<1>5. PICK p \in CallRecord :
         pc' = [pc EXCEPT ![t] = p] /\ p.at \in {"grow", "idle"} /\ p.surface = None /\ p.image = None
  BY <1>1, <1>3, <1>4, GotoRecord, FinishRecord
<1>6. CallOK(p)
  BY <1>5 DEF CallOK
<1>7. MutexOK'
  BY <1>1, <1>2, <1>5, MutexGiven
<1> QED
  BY <1>2, <1>5, <1>6, <1>7, QuietInv

\* When a pruning loop ends, the cache is within its limits or everything in it
\* is borrowed.
LEMMA PruneDoneInv ==
    ASSUME Inv, NEW t \in Threads, PruneDone(t)
    PROVE  Inv'
<1>1. Typed /\ Struct /\ MutexOK /\ CacheOK /\ CallOK(pc[t])
  BY DEF Inv, Struct, CallsOK
<1>2. /\ pc[t].at = "pruning" /\ mutex' = None
      /\ UNCHANGED <<img, surf, images, cache, scratch, unsafe, lapsed>>
  BY DEF PruneDone, At
<1>3. PICK p \in CallRecord :
         pc' = [pc EXCEPT ![t] = p] /\ p.at = "idle" /\ p.surface = None /\ p.image = None
  BY FinishRecord DEF PruneDone
<1>4. CallOK(p)
  BY <1>3 DEF CallOK
<1>5. MutexOK'
  BY <1>1, <1>2, <1>3, MutexGiven
<1>6. Typed'
  BY <1>1, <1>2, <1>3 DEF Typed
<1>7. Struct'
  BY <1>1, <1>2, <1>3, <1>4, QuietStruct
<1>8. CacheOK'
  BY <1>1, <1>2, SameCache
<1>9. LimitsOK'
  <2>1. Detached' = Detached
    BY <1>2 DEF Detached
  <2>2. PICK L \in [1 .. cache.count -> Images] : Ordered(img, Detached, cache, L)
    BY <1>1 DEF CacheOK, ListOK
  <2>3. CASE ~Prunable
    <3>1. Oldest = None
      <4> SUFFICES ASSUME Oldest # None PROVE Oldest \in images
        BY <2>3 DEF Prunable
      <4>1. \E k \in 1 .. cache.count : Oldest = L[k]
        BY <1>1, <2>2, OldestFirst
      <4> QED
        BY <2>2, <4>1 DEF Ordered, Detached
    <3>2. \A k \in 1 .. cache.count : ~BackingImageCanPrune(L[k])
      BY <1>1, <2>2, <3>1, OldestFirst
    <3>3. ASSUME NEW i \in Detached PROVE img[i].borrowCount > 0
      <4>1. ~BackingImageCanPrune(i)
        BY <2>2, <3>2 DEF Ordered
      <4>2. img[i].borrowCount \in Nat /\ img[i].surface = None
        BY <1>1 DEF Detached, Typed, ImageRecord
      <4> QED
        BY <4>1, <4>2 DEF BackingImageCanPrune
    <3>4. Excused'
      BY <1>2, <2>1, <3>3 DEF Excused
    <3> QED
      BY <3>4 DEF LimitsOK
  <2>4. CASE ~OverLimit
    <3>1. /\ cache.count \in Nat /\ cache.bytes \in Nat /\ scratch \in Nat
      BY <1>1 DEF Typed, CacheRecord
    <3>2. CASE cache.count = 0
      <4>1. Detached = {}
        BY <2>2, <3>2 DEF Ordered
      <4>2. Excused'
        BY <2>1, <4>1 DEF Excused
      <4> QED
        BY <4>2 DEF LimitsOK
    <3>3. CASE cache.count # 0
      <4>1. WithinLimits
        BY <2>4, <3>1, <3>3, BackingAssumption DEF OverLimit, WithinLimits
      <4>2. WithinLimits'
        BY <1>2, <4>1 DEF WithinLimits
      <4> QED
        BY <4>2 DEF LimitsOK
    <3> QED
      BY <3>2, <3>3
  <2> QED
    BY <2>3, <2>4 DEF PruneDone
<1> QED
  BY <1>5, <1>6, <1>7, <1>8, <1>9 DEF Inv

\* Scratch memory that grows excuses what the cache holds.
LEMMA GrowScratchInv ==
    ASSUME Inv, NEW t \in Threads, GrowScratch(t)
    PROVE  Inv'
<1>1. Typed /\ Struct /\ MutexOK /\ CacheOK
  BY DEF Inv
<1>2. /\ pc[t].at = "grow" /\ scratch' = scratch + pc[t].extra /\ lapsed' = lapsed \cup Listed
      /\ UNCHANGED <<img, surf, images, cache, unsafe, mutex>>
  BY DEF GrowScratch, At
<1>3. PICK p \in CallRecord :
         pc' = [pc EXCEPT ![t] = p] /\ p.at = "idle" /\ p.surface = None /\ p.image = None
  BY FinishRecord DEF GrowScratch
<1>4. Listed = Detached
  BY <1>1, ListedDetached
<1>5. CallOK(p)
  BY <1>3 DEF CallOK
<1>6. MutexOK'
  BY <1>1, <1>2, <1>3, MutexKept
<1>7. Typed'
  <2>1. scratch' \in Nat
    BY <1>1, <1>2, BackingAssumption DEF Typed, CallRecord
  <2>2. lapsed' \subseteq Images
    BY <1>1, <1>2, <1>4 DEF Typed, Detached
  <2> QED
    BY <1>1, <1>2, <1>3, <2>1, <2>2 DEF Typed
<1>8. Struct'
  BY <1>1, <1>2, <1>3, <1>5, QuietStruct
<1>9. CacheOK'
  BY <1>1, <1>2, SameCache
<1>10. Excused'
  <2>1. Detached' = Detached
    BY <1>2 DEF Detached
  <2> QED
    BY <1>2, <1>4, <2>1 DEF Excused
<1> QED
  BY <1>6, <1>7, <1>8, <1>9, <1>10 DEF Inv, LimitsOK

LEMMA AloneInv ==
    ASSUME Inv, (\E t \in Threads : TrimVideoProcScratch(t)) \/ GpuFails \/ UNCHANGED vars
    PROVE  Inv'
<1>1. Typed /\ Struct /\ MutexOK /\ CacheOK /\ LimitsOK
  BY DEF Inv
<1>2. UNCHANGED <<img, surf, images, cache, mutex, pc, lapsed>>
  BY DEF TrimVideoProcScratch, GpuFails, vars
<1>3. scratch \in Nat /\ scratch' \in Nat /\ scratch' <= scratch /\ unsafe' \in BOOLEAN
  <2>1. scratch \in Nat /\ unsafe \in BOOLEAN
    BY <1>1 DEF Typed
  <2>2. CASE \E t \in Threads : TrimVideoProcScratch(t)
    <3>1. scratch' \in 0 .. scratch - 1 /\ unsafe' = unsafe
      BY <2>2 DEF TrimVideoProcScratch
    <3> QED
      BY <2>1, <3>1
  <2>3. CASE GpuFails
    BY <2>1, <2>3 DEF GpuFails
  <2>4. CASE UNCHANGED vars
    BY <2>1, <2>4 DEF vars
  <2> QED
    BY <2>2, <2>3, <2>4
<1>4. Typed'
  BY <1>1, <1>2, <1>3 DEF Typed
<1>5. MutexOK'
  BY <1>1, <1>2 DEF MutexOK
<1>6. LimitsOK'
  <2>1. Detached' = Detached
    BY <1>2 DEF Detached
  <2>2. cache.count <= cache.count /\ cache.bytes <= cache.bytes
    BY <1>1 DEF Typed, CacheRecord
  <2> QED
    BY <1>1, <1>2, <1>3, <1>4, <2>1, <2>2, LimitsKept
<1> QED
  BY <1>1, <1>2, <1>4, <1>5, <1>6, StillStruct, SameCache DEF Inv

-----------------------------------------------------------------------------
(* Surfaces without an image, and fresh images.                            *)

\* A surface without an image that no call works on begins or ends.
LEMMA SurfStruct ==
    ASSUME Typed, Struct, NEW s \in Surfaces, NEW r \in SurfaceRecord,
           surf' = [surf EXCEPT ![s] = r], r.image = None, surf[s].image = None, Unused(s),
           UNCHANGED <<img, images, pc>>
    PROVE  Struct'
<1>1. /\ surf'[s] = r /\ \A v \in Surfaces : v # s => surf'[v] = surf[v]
      /\ img' = img /\ pc' = pc /\ images' = images
  BY DEF Typed
<1>2. CallsOK'
  <2>1. ASSUME NEW u \in Threads PROVE CallOK(pc[u])'
    <3>1. pc[u].surface # s /\ pc[u].surface \in Surfaces \cup {None} /\ CallOK(pc[u])
      BY DEF Unused, Typed, CallRecord, Struct, CallsOK
    <3> QED
      BY <1>1, <3>1 DEF CallOK
  <2> QED
    BY <2>1 DEF CallsOK
<1>3. OneCall'
  BY <1>1 DEF Struct, OneCall
<1>4. SurfacesOK'
  BY <1>1 DEF Struct, SurfacesOK, At
<1>5. OwnedOK'
  <2>1. ASSUME NEW i \in images, img[i].surface # None PROVE surf'[img[i].surface].image = i
    <3>1. /\ surf[img[i].surface].image = i /\ img[i].surface \in Surfaces /\ i # None
      BY <2>1, BackingAssumption DEF Struct, OwnedOK, Typed, ImageRecord
    <3> QED
      BY <1>1, <3>1
  <2> QED
    BY <1>1, <2>1 DEF Struct, OwnedOK
<1>6. FreshOK'
  BY <1>1 DEF Struct, FreshOK
<1>7. BorrowsOK'
  <2>1. \A i : Comparing(i)' = Comparing(i) /\ Borrowers(i)' = Borrowers(i)
    BY <1>1 DEF Comparing, At, Borrowers
  <2> QED
    BY <1>1, <2>1 DEF Struct, BorrowsOK
<1> QED
  BY <1>2, <1>3, <1>4, <1>5, <1>6, <1>7 DEF Struct

LEMMA SurfaceOnlyInv ==
    ASSUME Inv, NEW t \in Threads, NEW s \in Surfaces, NvCreateSurface(t, s) \/ DetachNothing(t, s)
    PROVE  Inv'
<1>1. Typed /\ Struct /\ MutexOK /\ CacheOK /\ LimitsOK
  BY DEF Inv
<1>2. UNCHANGED <<img, images, cache, scratch, unsafe, mutex, pc, lapsed>> /\ Unused(s)
  BY DEF NvCreateSurface, DetachNothing, Detaching
<1>3. PICK r \in SurfaceRecord :
         surf' = [surf EXCEPT ![s] = r] /\ r.image = None /\ surf[s].image = None
  <2>1. CASE NvCreateSurface(t, s)
    <3>1. surf[s] \in SurfaceRecord /\ surf[s].image = None
      BY <1>1, <2>1 DEF NvCreateSurface, Typed, Struct, SurfacesOK
    <3> DEFINE r == [surf[s] EXCEPT !.live = TRUE]
    <3>2. r \in SurfaceRecord /\ r.image = None
      BY <3>1 DEF SurfaceRecord
    <3>3. surf' = [surf EXCEPT ![s] = r]
      BY <1>1, <2>1 DEF NvCreateSurface, Typed
    <3> QED
      BY <3>1, <3>2, <3>3
  <2>2. CASE DetachNothing(t, s)
    <3>1. surf' = [surf EXCEPT ![s] = NoSurface] /\ surf[s].image = None
      BY <2>2 DEF DetachNothing, Detaching
    <3>2. NoSurface \in SurfaceRecord /\ NoSurface.image = None
      BY ConstantTypes DEF NoSurface
    <3> QED
      BY <3>1, <3>2
  <2> QED
    BY <2>1, <2>2
<1>4. Typed'
  BY <1>1, <1>2, <1>3 DEF Typed
<1>5. Struct'
  BY <1>1, <1>2, <1>3, SurfStruct
<1>6. CacheOK'
  BY <1>1, <1>2, SameCache
<1>7. MutexOK'
  BY <1>1, <1>2 DEF MutexOK
<1>8. LimitsOK'
  <2>1. Detached' = Detached
    BY <1>2 DEF Detached
  <2>2. cache.count <= cache.count /\ cache.bytes <= cache.bytes /\ scratch <= scratch
    BY <1>1 DEF Typed, CacheRecord
  <2> QED
    BY <1>1, <1>2, <1>4, <2>1, <2>2, LimitsKept
<1> QED
  BY <1>4, <1>5, <1>6, <1>7, <1>8 DEF Inv

\* Nothing refers to a free image.
LEMMA FreeUnused ==
    ASSUME Typed, Struct, NEW i \in Images, Free(i)
    PROVE  /\ img[i] = FreshImage /\ i \notin images
           /\ \A s \in Surfaces : surf[s].image # i
           /\ \A u \in Threads : pc[u].image # i
           /\ \A j \in Images : img[j].borrowed # i
<1>0. img[i].state = "none" /\ i # None
  BY BackingAssumption DEF Free
<1>1. img[i] = FreshImage /\ i \notin images
  BY <1>0 DEF Struct, FreshOK, OwnedOK
<1>2. \A s \in Surfaces : surf[s].image # i
  BY <1>0 DEF Struct, SurfacesOK
<1>3. \A u \in Threads : pc[u].image # i
  <2> SUFFICES ASSUME NEW u \in Threads, pc[u].image = i PROVE FALSE
    OBVIOUS
  <2>1. pc[u].at \in {"add", "layout"}
    BY <1>0 DEF Struct, CallsOK, CallOK
  <2>2. CASE pc[u].at = "layout"
    BY <1>1, <2>2 DEF Struct, CallsOK, CallOK
  <2>3. CASE pc[u].at = "add"
    <3>1. pc[u].surface \in Surfaces /\ surf[pc[u].surface].image = i
      BY <2>3 DEF Struct, CallsOK, CallOK, Typed, CallRecord
    <3> QED
      BY <1>2, <3>1
  <2> QED
    BY <2>1, <2>2, <2>3
<1>4. \A j \in Images : img[j].borrowed # i
  BY <1>0, <1>1 DEF Struct, BorrowsOK
<1> QED
  BY <1>1, <1>2, <1>3, <1>4

\* The list and the limits do not change with images that are not in the list.
LEMMA CacheKept ==
    ASSUME CacheOK, cache' = cache, Detached' = Detached,
           \A i \in Detached : /\ img'[i].prev = img[i].prev /\ img'[i].next = img[i].next
                               /\ img'[i].serial = img[i].serial /\ img'[i].size = img[i].size
    PROVE  CacheOK'
<1>1. ListOK(img, Detached, cache)
  BY DEF CacheOK
<1>2. ListOK(img', Detached, cache)
  BY <1>1, SameList
<1> QED
  BY <1>2 DEF CacheOK

LEMMA LimitsBorrow ==
    ASSUME Typed, Typed', LimitsOK, NEW t \in Threads, NEW p \in CallRecord,
           pc' = [pc EXCEPT ![t] = p], UNCHANGED <<cache, scratch>>,
           Detached' = Detached,
           \A i \in Detached : (img[i].borrowCount > 0 \/ i \in lapsed)
                               => (img'[i].borrowCount > 0 \/ i \in lapsed'),
           pc[t].at \notin {"prune", "pruning"}
    PROVE  LimitsOK'
<1>1. \A u \in Threads : pc[u].at \in {"prune", "pruning"} => pc'[u].at \in {"prune", "pruning"}
  BY DEF Typed
<1>2. cache.count <= cache.count /\ cache.bytes <= cache.bytes /\ scratch <= scratch
  BY DEF Typed, CacheRecord
<1> QED
  BY <1>1, <1>2, LimitsKept

\* A step of the call t that gives the free image i the contents r: all but
\* surfaces and calls.
NewImage(t, p, i, r) ==
    /\ p \in CallRecord /\ pc' = [pc EXCEPT ![t] = p]
    /\ Free(i) /\ r \in ImageRecord /\ img' = [img EXCEPT ![i] = r] /\ r.state # "none"
    /\ pc[t].at \in {"alloc", "layout", "external"} /\ p.at \in {"add", "reclaim", "idle"}
    /\ UNCHANGED <<images, cache, scratch, mutex, lapsed>>
    /\ unsafe' \in BOOLEAN
    /\ surf' \in [Surfaces -> SurfaceRecord]

LEMMA NewImageInv ==
    ASSUME Inv, NEW t \in Threads, NEW p, NEW i \in Images, NEW r, NewImage(t, p, i, r), Struct'
    PROVE  Inv'
<1>1. Typed /\ Struct /\ MutexOK /\ CacheOK /\ LimitsOK
  BY DEF Inv
<1>2. Typed'
  BY <1>1 DEF NewImage, Typed
<1>3. i \notin images
  BY <1>1, FreeUnused DEF NewImage
<1>4. \A j \in images : img'[j] = img[j]
  BY <1>1, <1>3 DEF NewImage, Typed
<1>5. Detached' = Detached
  BY <1>4 DEF NewImage, Detached
<1>6. CacheOK'
  BY <1>1, <1>4, <1>5, CacheKept DEF Detached, NewImage
<1>7. MutexOK'
  BY <1>1, MutexKept DEF NewImage
<1>8. LimitsOK'
  <2>1. p \in CallRecord /\ pc' = [pc EXCEPT ![t] = p] /\ UNCHANGED <<cache, scratch, lapsed>>
        /\ pc[t].at \notin {"prune", "pruning"}
    BY DEF NewImage
  <2>2. \A j \in Detached : img'[j] = img[j]
    BY <1>4 DEF Detached
  <2> QED
    BY <1>1, <1>2, <1>5, <2>1, <2>2, LimitsBorrow
<1> QED
  BY <1>2, <1>6, <1>7, <1>8 DEF Inv

\* A step of t on a surface and an image that no other call works on.
Apart(t, s) ==
    /\ \A u \in Threads : u # t => pc'[u] = pc[u] /\ pc[u].surface # s
    /\ \A v \in Surfaces : v # s => surf'[v] = surf[v]
    /\ \A u \in Threads : u # t /\ pc[u].at = "add" => img'[pc[u].image] = img[pc[u].image]
    /\ images' = images

LEMMA OthersKept ==
    ASSUME Typed, Struct, NEW t \in Threads, NEW s \in Surfaces, Apart(t, s)
    PROVE  \A u \in Threads : u # t => CallOK(pc[u])'
<1> SUFFICES ASSUME NEW u \in Threads, u # t PROVE CallOK(pc[u])'
  OBVIOUS
<1>1. pc'[u] = pc[u] /\ CallOK(pc[u])
  BY DEF Apart, Struct, CallsOK
<1>2. pc[u].surface # s
  BY DEF Apart
<1>3. pc[u].surface \in Surfaces => surf'[pc[u].surface] = surf[pc[u].surface]
  BY <1>2 DEF Apart
<1>4. pc[u].surface \in Surfaces \cup {None}
  BY DEF Typed, CallRecord
<1> QED
  BY <1>1, <1>3, <1>4 DEF CallOK, Apart

LEMMA OtherCalls ==
    ASSUME Typed, Struct, NEW t \in Threads, NEW p \in CallRecord, pc' = [pc EXCEPT ![t] = p],
           pc[t].surface \in Surfaces,
           \A v \in Surfaces : v # pc[t].surface => surf'[v] = surf[v],
           \A u \in Threads : u # t /\ pc[u].at = "add" => img'[pc[u].image] = img[pc[u].image],
           images' = images
    PROVE  \A u \in Threads : u # t => CallOK(pc[u])'
<1>1. \A u \in Threads : u # t => pc[u].surface # pc[t].surface
  BY BackingAssumption DEF Struct, OneCall
<1>2. PICK s \in Surfaces : s = pc[t].surface
  OBVIOUS
<1>3. Apart(t, s)
  BY <1>1, <1>2 DEF Apart, Typed
<1> QED
  BY <1>3, OthersKept

LEMMA AllocateBackingImageInv ==
    ASSUME Inv, NEW t \in Threads, AllocateBackingImage(t)
    PROVE  Inv'
<1>1. Typed /\ Struct /\ CallOK(pc[t])
  BY DEF Inv, Struct, CallsOK
<1> DEFINE s == pc[t].surface
<1>2. pc[t].at = "alloc" /\ s \in Surfaces /\ s # None /\ surf[s].live /\ surf[s].image = None
  BY <1>1 DEF AllocateBackingImage, At, CallOK, Typed, CallRecord
<1>3. PICK i \in Images :
         /\ Free(i)
         /\ img' = [img EXCEPT ![i].state = "live", ![i].surface = pc[t].surface,
                               ![i].size = SurfaceBytes[pc[t].surface]]
         /\ surf' = [surf EXCEPT ![pc[t].surface].image = i]
         /\ pc' = [pc EXCEPT ![t].at = "add", ![t].image = i]
  BY DEF AllocateBackingImage
<1>4. /\ img[i] = FreshImage /\ i \notin images /\ i # None
      /\ \A v \in Surfaces : surf[v].image # i
      /\ \A u \in Threads : pc[u].image # i
      /\ \A j \in Images : img[j].borrowed # i
  BY <1>1, <1>3, FreeUnused, BackingAssumption
<1>5. PICK r \in ImageRecord :
         /\ img' = [img EXCEPT ![i] = r]
         /\ r.state = "live" /\ r.surface = s /\ ~r.imported /\ r.borrowCount = 0 /\ r.borrowed = None
  <2> DEFINE r == [img[i] EXCEPT !.state = "live", !.surface = s, !.size = SurfaceBytes[s]]
  <2>1. img[i] \in ImageRecord /\ SurfaceBytes[s] \in Nat /\ img \in [Images -> ImageRecord]
    BY <1>1, <1>2, BackingAssumption DEF Typed
  <2>2. ~img[i].imported /\ img[i].borrowCount = 0 /\ img[i].borrowed = None
    BY <1>4 DEF FreshImage
  <2>3. r \in ImageRecord /\ r.state = "live" /\ r.surface = s /\ ~r.imported
        /\ r.borrowCount = 0 /\ r.borrowed = None
    BY <1>2, <2>1, <2>2 DEF ImageRecord, ImageStates
  <2>4. img' = [img EXCEPT ![i] = r]
    BY <1>3, <2>1
  <2> HIDE DEF r
  <2> QED
    BY <2>3, <2>4
<1>6. PICK p \in CallRecord :
         pc' = [pc EXCEPT ![t] = p] /\ p.at = "add" /\ p.surface = s /\ p.image = i
  <2> DEFINE p == [pc[t] EXCEPT !.at = "add", !.image = i]
  <2>1. pc[t] \in CallRecord /\ pc \in [Threads -> CallRecord]
    BY <1>1 DEF Typed
  <2>2. p \in CallRecord /\ p.at = "add" /\ p.surface = s /\ p.image = i
    BY <2>1 DEF CallRecord
  <2>3. pc' = [pc EXCEPT ![t] = p]
    BY <1>3, <2>1
  <2> HIDE DEF p
  <2> QED
    BY <2>2, <2>3
<1>7. /\ surf' \in [Surfaces -> SurfaceRecord]
      /\ surf'[s].image = i /\ surf'[s].live
      /\ \A v \in Surfaces : v # s => surf'[v] = surf[v]
  <2>1. surf[s] \in SurfaceRecord /\ surf \in [Surfaces -> SurfaceRecord]
    BY <1>1, <1>2 DEF Typed
  <2>2. [surf[s] EXCEPT !.image = i] \in SurfaceRecord
    BY <2>1 DEF SurfaceRecord
  <2>3. surf' = [surf EXCEPT ![s] = [surf[s] EXCEPT !.image = i]]
    BY <1>3, <2>1
  <2> QED
    BY <1>2, <2>1, <2>2, <2>3 DEF SurfaceRecord
<1>8. /\ img'[i] = r /\ \A j \in Images : j # i => img'[j] = img[j]
      /\ pc'[t] = p /\ \A u \in Threads : u # t => pc'[u] = pc[u]
      /\ images' = images /\ unsafe' = unsafe
  BY <1>1, <1>5, <1>6 DEF Typed, AllocateBackingImage
<1> HIDE DEF s
<1>9. CallsOK'
  <2>1. CallOK(pc[t])'
    BY <1>2, <1>4, <1>5, <1>6, <1>7, <1>8 DEF CallOK
  <2>2. \A u \in Threads : pc[u].at = "add" => img'[pc[u].image] = img[pc[u].image]
    <3>1. \A u \in Threads : pc[u].at = "add" => pc[u].image \in Images
      BY <1>1 DEF Struct, CallsOK, CallOK, Typed, CallRecord
    <3> QED
      BY <1>4, <1>8, <3>1
  <2>3. \A u \in Threads : u # t => CallOK(pc[u])'
    BY <1>1, <1>2, <1>6, <1>7, <1>8, <2>2, OtherCalls DEF s
  <2> QED
    BY <2>1, <2>3 DEF CallsOK
<1>10. OneCall'
  BY <1>1, <1>6, <1>8 DEF Struct, OneCall, s
<1>11. SurfacesOK'
  <2> SUFFICES ASSUME NEW v \in Surfaces, surf'[v].image # None
               PROVE  /\ surf'[v].live
                      /\ img'[surf'[v].image].state = "live" /\ img'[surf'[v].image].surface = v
                      /\ IF img'[surf'[v].image].imported THEN surf'[v].image \notin images'
                         ELSE \/ surf'[v].image \in images'
                              \/ \E u \in Threads : pc'[u].at = "add" /\ pc'[u].surface = v
    BY DEF SurfacesOK, At
  <2>1. CASE v = s
    BY <1>5, <1>6, <1>7, <1>8, <2>1
  <2>2. CASE v # s
    <3>1. surf'[v] = surf[v] /\ surf[v].image \in Images /\ surf[v].image # i
      BY <1>1, <1>4, <1>7, <2>2 DEF Typed, SurfaceRecord
    <3>2. \A u \in Threads : pc[u].at = "add" => pc'[u] = pc[u]
      BY <1>2, <1>8
    <3> QED
      BY <1>1, <1>8, <3>1, <3>2 DEF Struct, SurfacesOK, At
  <2> QED
    BY <2>1, <2>2
<1>12. OwnedOK'
  <2> SUFFICES ASSUME NEW j \in images
               PROVE  /\ img'[j].state = "live" /\ ~img'[j].imported /\ img'[j].borrowed = None
                      /\ img'[j].surface # None => surf'[img'[j].surface].image = j
    BY <1>8 DEF OwnedOK
  <2>1. j \in Images /\ img'[j] = img[j] /\ j # None
    BY <1>1, <1>4, <1>8, BackingAssumption DEF Typed
  <2>2. img[j].surface \in Surfaces \cup {None}
    BY <1>1, <2>1 DEF Typed, ImageRecord
  <2>3. img[j].surface # s
    BY <1>1, <1>2, <2>1 DEF Struct, OwnedOK
  <2> QED
    BY <1>1, <1>7, <2>1, <2>2, <2>3 DEF Struct, OwnedOK
<1>13. FreshOK'
  BY <1>1, <1>5, <1>8 DEF Struct, FreshOK
<1>14. BorrowsOK'
  <2>1. \A j \in Images : img'[j].borrowed = img[j].borrowed
    BY <1>4, <1>5, <1>8 DEF FreshImage
  <2>2. \A j \in images : img'[j].borrowCount = img[j].borrowCount
    BY <1>1, <1>4, <1>8 DEF Typed
  <2>3. \A k \in Images : Comparing(k)' = Comparing(k) /\ Borrowers(k)' = Borrowers(k)
    BY <1>2, <1>6, <1>8, <2>1 DEF Comparing, At, Borrowers
  <2> QED
    BY <1>1, <1>8, <2>1, <2>2, <2>3 DEF Struct, BorrowsOK, Typed
<1>15. Struct'
  BY <1>9, <1>10, <1>11, <1>12, <1>13, <1>14 DEF Struct
<1>16. NewImage(t, p, i, r)
  BY <1>1, <1>2, <1>3, <1>5, <1>6, <1>7, <1>8 DEF NewImage, AllocateBackingImage, Typed
<1> QED
  BY <1>15, <1>16, NewImageInv

LEMMA AllocateUnsafeInv ==
    ASSUME Inv, NEW t \in Threads, AllocateUnsafe(t)
    PROVE  Inv'
<1>1. Typed /\ Struct /\ CallOK(pc[t])
  BY DEF Inv, Struct, CallsOK
<1>2. /\ pc[t].at = "alloc" /\ pc[t].surface \in Surfaces
      /\ UNCHANGED <<surf, images, cache, scratch, mutex, lapsed>> /\ unsafe' = TRUE
  BY <1>1 DEF AllocateUnsafe, At, CallOK, Typed, CallRecord
<1>3. PICK i \in Images : Free(i) /\ img' = [img EXCEPT ![i].state = "retained"]
  BY DEF AllocateUnsafe
<1>4. /\ img[i] = FreshImage /\ i \notin images /\ i # None
      /\ \A v \in Surfaces : surf[v].image # i
      /\ \A u \in Threads : pc[u].image # i
      /\ \A j \in Images : img[j].borrowed # i
  BY <1>1, <1>3, FreeUnused, BackingAssumption
<1>5. PICK r \in ImageRecord :
         img' = [img EXCEPT ![i] = r] /\ r.state = "retained" /\ r.borrowed = None
  <2> DEFINE r == [img[i] EXCEPT !.state = "retained"]
  <2>1. img[i] \in ImageRecord /\ img \in [Images -> ImageRecord] /\ img[i].borrowed = None
    <3>1. img[i].borrowed = None
      BY <1>4 DEF FreshImage
    <3> QED
      BY <1>1, <3>1 DEF Typed
  <2>2. r \in ImageRecord /\ r.state = "retained" /\ r.borrowed = None
    BY <2>1 DEF ImageRecord, ImageStates
  <2>3. img' = [img EXCEPT ![i] = r]
    BY <1>3, <2>1
  <2> HIDE DEF r
  <2> QED
    BY <2>2, <2>3
<1>6. PICK p \in CallRecord :
         /\ pc' = [pc EXCEPT ![t] = p]
         /\ p.at = "reclaim" /\ p.surface = pc[t].surface /\ p.image = pc[t].image
  BY <1>1, GotoRecord DEF AllocateUnsafe
<1>7. /\ img'[i] = r /\ \A j \in Images : j # i => img'[j] = img[j]
      /\ pc'[t] = p /\ \A u \in Threads : u # t => pc'[u] = pc[u]
  BY <1>1, <1>5, <1>6 DEF Typed
<1>8. CallsOK'
  <2>1. CallOK(pc[t])'
    BY <1>1, <1>2, <1>6, <1>7 DEF CallOK
  <2>2. \A u \in Threads : pc[u].at = "add" => img'[pc[u].image] = img[pc[u].image]
    <3>1. \A u \in Threads : pc[u].at = "add" => pc[u].image \in Images
      BY <1>1 DEF Struct, CallsOK, CallOK, Typed, CallRecord
    <3> QED
      BY <1>4, <1>7, <3>1
  <2>3. \A u \in Threads : u # t => CallOK(pc[u])'
    BY <1>1, <1>2, <1>6, <2>2, OtherCalls
  <2> QED
    BY <2>1, <2>3 DEF CallsOK
<1>9. OneCall'
  BY <1>1, <1>6, <1>7 DEF Struct, OneCall
<1>10. SurfacesOK'
  <2> SUFFICES ASSUME NEW v \in Surfaces, surf[v].image # None
               PROVE  /\ surf[v].live
                      /\ img'[surf[v].image].state = "live" /\ img'[surf[v].image].surface = v
                      /\ IF img'[surf[v].image].imported THEN surf[v].image \notin images
                         ELSE \/ surf[v].image \in images
                              \/ \E u \in Threads : pc'[u].at = "add" /\ pc'[u].surface = v
    BY <1>2 DEF SurfacesOK, At
  <2>1. surf[v].image \in Images /\ surf[v].image # i
    BY <1>1, <1>4 DEF Typed, SurfaceRecord
  <2>2. \A u \in Threads : pc[u].at = "add" => pc'[u] = pc[u]
    BY <1>2, <1>7
  <2> QED
    BY <1>1, <1>7, <2>1, <2>2 DEF Struct, SurfacesOK, At
<1>11. OwnedOK' /\ FreshOK'
  <2>1. \A j \in images : j \in Images /\ img'[j] = img[j]
    BY <1>1, <1>4, <1>7 DEF Typed
  <2> QED
    BY <1>1, <1>2, <1>5, <1>7, <2>1 DEF Struct, OwnedOK, FreshOK
<1>12. BorrowsOK'
  <2>1. \A j \in Images : img'[j].borrowed = img[j].borrowed
    BY <1>4, <1>5, <1>7 DEF FreshImage
  <2>2. \A j \in images : img'[j].borrowCount = img[j].borrowCount
    BY <1>1, <1>4, <1>7 DEF Typed
  <2>3. \A k \in Images : Comparing(k)' = Comparing(k) /\ Borrowers(k)' = Borrowers(k)
    BY <1>2, <1>6, <1>7, <2>1 DEF Comparing, At, Borrowers
  <2> QED
    BY <1>1, <1>2, <2>1, <2>2, <2>3 DEF Struct, BorrowsOK, Typed
<1>13. Struct'
  BY <1>8, <1>9, <1>10, <1>11, <1>12 DEF Struct
<1>14. NewImage(t, p, i, r)
  BY <1>1, <1>2, <1>3, <1>5, <1>6 DEF NewImage, Typed
<1> QED
  BY <1>13, <1>14, NewImageInv

\* The sets a borrow count is the sum of are finite.
LEMMA BorrowSetsFinite ==
    ASSUME NEW i PROVE IsFiniteSet(Borrowers(i)) /\ IsFiniteSet(Comparing(i))
                       /\ Cardinality(Borrowers(i)) \in Nat /\ Cardinality(Comparing(i)) \in Nat
<1>1. Borrowers(i) \subseteq Images /\ Comparing(i) \subseteq Threads
  BY DEF Borrowers, Comparing
<1> QED
  BY <1>1, BackingAssumption, FS_Subset, FS_CardinalityType

LEMMA ImportedInv ==
    ASSUME Inv, NEW t \in Threads, ImportMatch(t) \/ ImportExternal(t)
    PROVE  Inv'
<1>1. Typed /\ Struct /\ CallOK(pc[t])
  BY DEF Inv, Struct, CallsOK
<1> DEFINE s == pc[t].surface
<1>2. PICK b : /\ Imported(t, b)
               /\ b = IF pc[t].at = "layout" THEN pc[t].image ELSE None
               /\ pc[t].at \in {"layout", "external"}
  BY DEF ImportMatch, ImportExternal, At
<1>3. /\ s \in Surfaces /\ s # None /\ ~surf[s].live /\ surf[s].image = None
      /\ b \in images \cup {None} /\ b \in Images \cup {None}
      /\ UNCHANGED <<images, cache, scratch, unsafe, mutex, lapsed>>
  <2>1. s \in Surfaces /\ s # None /\ ~surf[s].live /\ b \in images \cup {None}
        /\ b \in Images \cup {None}
    BY <1>1, <1>2 DEF CallOK, Typed, CallRecord
  <2> QED
    BY <1>1, <1>2, <2>1 DEF Struct, SurfacesOK, Imported
<1>4. PICK i \in Images :
         /\ Free(i)
         /\ img' = [img EXCEPT ![i].state = "live", ![i].imported = TRUE, ![i].surface = s,
                               ![i].size = SurfaceBytes[s], ![i].borrowed = b]
         /\ surf' = [surf EXCEPT ![s] = [live |-> TRUE, image |-> i]]
  BY <1>2 DEF Imported
<1>5. /\ img[i] = FreshImage /\ i \notin images /\ i # None
      /\ \A v \in Surfaces : surf[v].image # i
      /\ \A u \in Threads : pc[u].image # i
      /\ \A j \in Images : img[j].borrowed # i
  BY <1>1, <1>4, FreeUnused, BackingAssumption
<1>6. PICK r \in ImageRecord :
         /\ img' = [img EXCEPT ![i] = r]
         /\ r.state = "live" /\ r.surface = s /\ r.imported /\ r.borrowed = b
  <2> DEFINE r == [img[i] EXCEPT !.state = "live", !.imported = TRUE, !.surface = s,
                                 !.size = SurfaceBytes[s], !.borrowed = b]
  <2>1. img[i] \in ImageRecord /\ SurfaceBytes[s] \in Nat /\ img \in [Images -> ImageRecord]
    BY <1>1, <1>3, BackingAssumption DEF Typed
  <2>2. r \in ImageRecord /\ r.state = "live" /\ r.surface = s /\ r.imported /\ r.borrowed = b
    BY <1>3, <2>1 DEF ImageRecord, ImageStates
  <2>3. img' = [img EXCEPT ![i] = r]
    BY <1>4, <2>1
  <2> HIDE DEF r
  <2> QED
    BY <2>2, <2>3
<1>7. PICK p \in CallRecord :
         pc' = [pc EXCEPT ![t] = p] /\ p.at = "idle" /\ p.surface = None /\ p.image = None
  BY <1>2, FinishRecord DEF Imported
<1>8. /\ surf' \in [Surfaces -> SurfaceRecord]
      /\ surf'[s].image = i /\ surf'[s].live
      /\ \A v \in Surfaces : v # s => surf'[v] = surf[v]
  <2>1. [live |-> TRUE, image |-> i] \in SurfaceRecord
    BY DEF SurfaceRecord
  <2> QED
    BY <1>1, <1>3, <1>4, <2>1 DEF Typed
<1>9. /\ img'[i] = r /\ \A j \in Images : j # i => img'[j] = img[j]
      /\ pc'[t] = p /\ \A u \in Threads : u # t => pc'[u] = pc[u]
  BY <1>1, <1>6, <1>7 DEF Typed
<1> HIDE DEF s
<1>10. CallsOK'
  <2>1. CallOK(pc[t])'
    BY <1>7, <1>9 DEF CallOK
  <2>2. \A u \in Threads : pc[u].at = "add" => img'[pc[u].image] = img[pc[u].image]
    <3>1. \A u \in Threads : pc[u].at = "add" => pc[u].image \in Images
      BY <1>1 DEF Struct, CallsOK, CallOK, Typed, CallRecord
    <3> QED
      BY <1>5, <1>9, <3>1
  <2>3. \A u \in Threads : u # t => CallOK(pc[u])'
    BY <1>1, <1>3, <1>7, <1>8, <1>9, <2>2, OtherCalls DEF s
  <2> QED
    BY <2>1, <2>3 DEF CallsOK
<1>11. OneCall'
  BY <1>1, <1>7, <1>9 DEF Struct, OneCall
<1>12. SurfacesOK'
  <2> SUFFICES ASSUME NEW v \in Surfaces, surf'[v].image # None
               PROVE  /\ surf'[v].live
                      /\ img'[surf'[v].image].state = "live" /\ img'[surf'[v].image].surface = v
                      /\ IF img'[surf'[v].image].imported THEN surf'[v].image \notin images'
                         ELSE \/ surf'[v].image \in images'
                              \/ \E u \in Threads : pc'[u].at = "add" /\ pc'[u].surface = v
    BY DEF SurfacesOK, At
  <2>1. CASE v = s
    BY <1>3, <1>5, <1>6, <1>8, <1>9, <2>1
  <2>2. CASE v # s
    <3>1. surf'[v] = surf[v] /\ surf[v].image \in Images /\ surf[v].image # i
      BY <1>1, <1>5, <1>8, <2>2 DEF Typed, SurfaceRecord
    <3>2. \A u \in Threads : pc[u].at = "add" => pc'[u] = pc[u]
      BY <1>2, <1>9
    <3> QED
      BY <1>1, <1>3, <1>9, <3>1, <3>2 DEF Struct, SurfacesOK, At
  <2> QED
    BY <2>1, <2>2
<1>13. OwnedOK'
  <2> SUFFICES ASSUME NEW j \in images
               PROVE  /\ img'[j].state = "live" /\ ~img'[j].imported /\ img'[j].borrowed = None
                      /\ img'[j].surface # None => surf'[img'[j].surface].image = j
    BY <1>3 DEF OwnedOK
  <2>1. j \in Images /\ img'[j] = img[j] /\ j # None
    BY <1>1, <1>5, <1>9, BackingAssumption DEF Typed
  <2>2. img[j].surface \in Surfaces \cup {None}
    BY <1>1, <2>1 DEF Typed, ImageRecord
  <2>3. img[j].surface # s
    BY <1>1, <1>3, <2>1 DEF Struct, OwnedOK
  <2> QED
    BY <1>1, <1>8, <2>1, <2>2, <2>3 DEF Struct, OwnedOK
<1>14. FreshOK'
  BY <1>1, <1>6, <1>9 DEF Struct, FreshOK
<1>15. BorrowsOK'
  <2>1. \A j \in Images : img'[j].borrowed # None => img'[j].borrowed \in images'
    BY <1>1, <1>3, <1>6, <1>9 DEF Struct, BorrowsOK
  <2>2. ASSUME NEW k \in images
        PROVE  img'[k].borrowCount = Cardinality(Borrowers(k)') + Cardinality(Comparing(k)')
    <3>1. /\ img'[k] = img[k] /\ k # None /\ k \in Images
          /\ img[k].borrowCount = Cardinality(Borrowers(k)) + Cardinality(Comparing(k))
      BY <1>1, <1>5, <1>9, BackingAssumption DEF Typed, Struct, BorrowsOK
    <3>2. i \notin Borrowers(k)
      BY <1>5, <3>1 DEF Borrowers, FreshImage
    <3>3. CASE k = b
      <4>1. Borrowers(k)' = Borrowers(k) \cup {i}
        BY <1>6, <1>9, <3>3 DEF Borrowers
      <4>2. t \in Comparing(k) /\ Comparing(k)' = Comparing(k) \ {t}
        BY <1>2, <1>7, <1>9, <3>1, <3>3 DEF Comparing, At
      <4>3. Cardinality(Borrowers(k)') = Cardinality(Borrowers(k)) + 1
        BY <3>2, <4>1, BorrowSetsFinite, FS_AddElement
      <4>4. Cardinality(Comparing(k)') = Cardinality(Comparing(k)) - 1
        BY <4>2, BorrowSetsFinite, FS_RemoveElement
      <4>5. Cardinality(Borrowers(k)) \in Nat /\ Cardinality(Comparing(k)) \in Nat
        BY BorrowSetsFinite
      <4> QED
        BY <3>1, <4>3, <4>4, <4>5
    <3>4. CASE k # b
      <4>1. Borrowers(k)' = Borrowers(k)
        BY <1>5, <1>6, <1>9, <3>2, <3>4 DEF Borrowers
      <4>2. Comparing(k)' = Comparing(k)
        BY <1>2, <1>7, <1>9, <3>1, <3>4 DEF Comparing, At
      <4> QED
        BY <3>1, <4>1, <4>2
    <3> QED
      BY <3>3, <3>4
  <2> QED
    BY <1>3, <2>1, <2>2 DEF BorrowsOK
<1>16. Struct'
  BY <1>10, <1>11, <1>12, <1>13, <1>14, <1>15 DEF Struct
<1>17. NewImage(t, p, i, r)
  BY <1>1, <1>2, <1>3, <1>4, <1>6, <1>7, <1>8 DEF NewImage, Typed
<1> QED
  BY <1>16, <1>17, NewImageInv

-----------------------------------------------------------------------------
(* Images that go: the call t leaves the surface s without its image i,    *)
(* which becomes r and returns its borrow of b, if it has one to return.   *)

Dropping(t, p, s, q, i, r, b) ==
    /\ p \in CallRecord /\ pc' = [pc EXCEPT ![t] = p]
    /\ p.at = "idle" /\ p.surface = None /\ p.image = None
    /\ pc[t].at \in {"add", "idle"} /\ (pc[t].at = "add" => pc[t].surface = s)
    /\ \A u \in Threads : u # t => pc[u].surface # s
    /\ q \in SurfaceRecord /\ q.image = None /\ surf' = [surf EXCEPT ![s] = q]
    /\ surf[s].image = i /\ i \in Images /\ i \notin images
    /\ r \in ImageRecord /\ r.state # "live" /\ (r.state = "none" => r = FreshImage)
    /\ img' \in [Images -> ImageRecord] /\ img'[i] = r
    /\ \A j \in Images : j # i => img'[j] = IF j = b THEN [img[j] EXCEPT !.borrowCount = @ - 1]
                                            ELSE img[j]
    /\ IF b = None THEN r.borrowed = img[i].borrowed
       ELSE b = img[i].borrowed /\ r.borrowed = None
    /\ images' = images

\* The fields of the images after such a step.
LEMMA DropFields ==
    ASSUME Typed, Struct, NEW t \in Threads, NEW p, NEW s \in Surfaces, NEW q, NEW i, NEW r, NEW b,
           Dropping(t, p, s, q, i, r, b)
    PROVE  /\ b \in images \cup {None} /\ b # i /\ i # None
           /\ img[i].surface = s /\ img[i].state = "live"
           /\ \A j \in Images : j # i =>
                /\ img'[j].state = img[j].state /\ img'[j].imported = img[j].imported
                /\ img'[j].surface = img[j].surface /\ img'[j].borrowed = img[j].borrowed
                /\ img'[j].prev = img[j].prev /\ img'[j].next = img[j].next
                /\ img'[j].serial = img[j].serial /\ img'[j].size = img[j].size
                /\ img'[j].borrowCount = IF j = b THEN img[j].borrowCount - 1 ELSE img[j].borrowCount
                /\ j # b => img'[j] = img[j]
<1>1. /\ i \in Images /\ i \notin images /\ surf[s].image = i /\ i # None
  BY BackingAssumption DEF Dropping
<1>2. b \in images \cup {None} /\ b # i
  BY <1>1 DEF Dropping, Struct, BorrowsOK
<1>3. img[i].surface = s /\ img[i].state = "live"
  BY <1>1 DEF Struct, SurfacesOK
<1>4. ASSUME NEW j \in Images, j # i
      PROVE  /\ img'[j].state = img[j].state /\ img'[j].imported = img[j].imported
             /\ img'[j].surface = img[j].surface /\ img'[j].borrowed = img[j].borrowed
             /\ img'[j].prev = img[j].prev /\ img'[j].next = img[j].next
             /\ img'[j].serial = img[j].serial /\ img'[j].size = img[j].size
             /\ img'[j].borrowCount = IF j = b THEN img[j].borrowCount - 1 ELSE img[j].borrowCount
             /\ j # b => img'[j] = img[j]
  <2>1. img[j] \in ImageRecord
    BY DEF Typed
  <2>2. img'[j] = IF j = b THEN [img[j] EXCEPT !.borrowCount = @ - 1] ELSE img[j]
    BY <1>4 DEF Dropping
  <2> QED
    BY <2>1, <2>2 DEF ImageRecord
<1> QED
  BY <1>1, <1>2, <1>3, <1>4

LEMMA DropStruct ==
    ASSUME Typed, Struct, NEW t \in Threads, NEW p, NEW s \in Surfaces, NEW q, NEW i, NEW r, NEW b,
           Dropping(t, p, s, q, i, r, b)
    PROVE  Struct'
<1>1. /\ b \in images \cup {None} /\ b # i /\ i # None
      /\ img[i].surface = s /\ img[i].state = "live"
      /\ \A j \in Images : j # i =>
           /\ img'[j].state = img[j].state /\ img'[j].imported = img[j].imported
           /\ img'[j].surface = img[j].surface /\ img'[j].borrowed = img[j].borrowed
           /\ img'[j].borrowCount = IF j = b THEN img[j].borrowCount - 1 ELSE img[j].borrowCount
           /\ j # b => img'[j] = img[j]
  BY DropFields
<1>2. /\ i \in Images /\ i \notin images /\ surf[s].image = i
      /\ surf'[s] = q /\ q.image = None /\ \A v \in Surfaces : v # s => surf'[v] = surf[v]
      /\ pc'[t] = p /\ \A u \in Threads : u # t => pc'[u] = pc[u]
      /\ p \in CallRecord /\ p.at = "idle" /\ p.surface = None /\ p.image = None
      /\ pc[t].at \in {"add", "idle"} /\ (pc[t].at = "add" => pc[t].surface = s)
      /\ \A u \in Threads : u # t => pc[u].surface # s
      /\ images' = images /\ img'[i] = r
  BY DEF Dropping, Typed
<1>3. CallsOK'
  <2>1. CallOK(pc[t])'
    BY <1>2 DEF CallOK
  <2>2. \A u \in Threads : u # t /\ pc[u].at = "add" => img'[pc[u].image] = img[pc[u].image]
    <3> SUFFICES ASSUME NEW u \in Threads, u # t, pc[u].at = "add"
                 PROVE  img'[pc[u].image] = img[pc[u].image]
      OBVIOUS
    <3>1. /\ pc[u].image \in Images /\ pc[u].image \notin images /\ pc[u].surface \in Surfaces
          /\ surf[pc[u].surface].image = pc[u].image /\ pc[u].image # None
      BY DEF Struct, CallsOK, CallOK, Typed, CallRecord
    <3>2. pc[u].image # i
      BY <1>1, <1>2, <3>1 DEF Struct, SurfacesOK
    <3> QED
      BY <1>1, <3>1, <3>2
  <2>3. \A u \in Threads : u # t => CallOK(pc[u])'
    <3>1. Apart(t, s)
      BY <1>2, <2>2 DEF Apart
    <3> QED
      BY <3>1, OthersKept
  <2> QED
    BY <2>1, <2>3 DEF CallsOK
<1>4. OneCall'
  BY <1>2 DEF Struct, OneCall
<1>5. SurfacesOK'
  <2> SUFFICES ASSUME NEW v \in Surfaces, surf'[v].image # None
               PROVE  /\ surf'[v].live
                      /\ img'[surf'[v].image].state = "live" /\ img'[surf'[v].image].surface = v
                      /\ IF img'[surf'[v].image].imported THEN surf'[v].image \notin images'
                         ELSE \/ surf'[v].image \in images'
                              \/ \E u \in Threads : pc'[u].at = "add" /\ pc'[u].surface = v
    BY DEF SurfacesOK, At
  <2>1. v # s /\ surf'[v] = surf[v] /\ surf[v].image # None
    BY <1>2
  <2>2. surf[v].image \in Images
    BY <2>1 DEF Typed, SurfaceRecord
  <2>3. surf[v].image # i
    BY <1>1, <2>1 DEF Struct, SurfacesOK
  <2>4. \A u \in Threads : pc[u].at = "add" /\ pc[u].surface = v => pc'[u] = pc[u]
    BY <1>2, <2>1
  <2> QED
    BY <1>1, <1>2, <2>1, <2>2, <2>3, <2>4 DEF Struct, SurfacesOK, At
<1>6. OwnedOK'
  <2> SUFFICES ASSUME NEW j \in images
               PROVE  /\ img'[j].state = "live" /\ ~img'[j].imported /\ img'[j].borrowed = None
                      /\ img'[j].surface # None => surf'[img'[j].surface].image = j
    BY <1>2 DEF OwnedOK
  <2>1. j \in Images /\ j # i
    BY <1>2 DEF Typed
  <2>2. img[j].surface \in Surfaces \cup {None}
    BY <2>1 DEF Typed, ImageRecord
  <2>3. img[j].surface # s
    BY <1>2, <2>1, BackingAssumption DEF Struct, OwnedOK
  <2> QED
    BY <1>1, <1>2, <2>1, <2>2, <2>3 DEF Struct, OwnedOK
<1>7. FreshOK'
  <2> SUFFICES ASSUME NEW j \in Images, img'[j].state = "none" PROVE img'[j] = FreshImage
    BY DEF FreshOK
  <2>1. CASE j = i
    BY <1>2, <2>1 DEF Dropping
  <2>2. CASE j # i
    <3>1. j # b
      BY <1>1, <2>2, BackingAssumption DEF Struct, OwnedOK
    <3> QED
      BY <1>1, <2>2, <3>1 DEF Struct, FreshOK
  <2> QED
    BY <2>1, <2>2
<1>8. BorrowsOK'
  <2>1. \A j \in Images : img'[j].borrowed # None => img'[j].borrowed = img[j].borrowed
    BY <1>1, <1>2 DEF Dropping
  <2>2. \A k : Comparing(k)' = Comparing(k)
    BY <1>2 DEF Comparing, At
  <2>3. ASSUME NEW k \in images
        PROVE  img'[k].borrowCount = Cardinality(Borrowers(k)') + Cardinality(Comparing(k)')
    <3>1. /\ k # i /\ k # None /\ k \in Images
          /\ img[k].borrowCount = Cardinality(Borrowers(k)) + Cardinality(Comparing(k))
      BY <1>2, BackingAssumption DEF Typed, Struct, BorrowsOK
    <3>2. CASE k = b
      <4>1. i \in Borrowers(k) /\ Borrowers(k)' = Borrowers(k) \ {i}
        BY <1>1, <1>2, <3>1, <3>2 DEF Borrowers, Dropping
      <4>2. Cardinality(Borrowers(k)') = Cardinality(Borrowers(k)) - 1
        BY <4>1, BorrowSetsFinite, FS_RemoveElement
      <4>3. Cardinality(Borrowers(k)) \in Nat /\ Cardinality(Comparing(k)) \in Nat
        BY BorrowSetsFinite
      <4>4. img'[k].borrowCount = img[k].borrowCount - 1
        BY <1>1, <3>1, <3>2
      <4> QED
        BY <2>2, <3>1, <4>2, <4>3, <4>4
    <3>3. CASE k # b
      <4>1. Borrowers(k)' = Borrowers(k)
        <5>1. r.borrowed = k <=> img[i].borrowed = k
          BY <3>1, <3>3 DEF Dropping
        <5> QED
          BY <1>1, <1>2, <5>1 DEF Borrowers
      <4>2. img'[k].borrowCount = img[k].borrowCount
        BY <1>1, <3>1, <3>3
      <4> QED
        BY <2>2, <3>1, <4>1, <4>2
    <3> QED
      BY <3>2, <3>3
  <2> QED
    BY <1>2, <2>1, <2>3 DEF BorrowsOK, Struct
<1> QED
  BY <1>3, <1>4, <1>5, <1>6, <1>7, <1>8 DEF Struct

LEMMA DropInv ==
    ASSUME Inv, NEW t \in Threads, NEW p, NEW s \in Surfaces, NEW q, NEW i, NEW r, NEW b,
           Dropping(t, p, s, q, i, r, b),
           UNCHANGED <<cache, scratch, unsafe, mutex>>,
           lapsed' = IF b \in Detached THEN lapsed \cup {b} ELSE lapsed
    PROVE  Inv'
<1>1. Typed /\ Struct /\ MutexOK /\ CacheOK /\ LimitsOK
  BY DEF Inv
<1>2. /\ b \in images \cup {None} /\ b # i
      /\ \A j \in Images : j # i =>
           /\ img'[j].surface = img[j].surface
           /\ img'[j].prev = img[j].prev /\ img'[j].next = img[j].next
           /\ img'[j].serial = img[j].serial /\ img'[j].size = img[j].size
           /\ j # b => img'[j] = img[j]
  BY <1>1, DropFields
<1>3. /\ p \in CallRecord /\ pc' = [pc EXCEPT ![t] = p] /\ p.at = "idle"
      /\ pc[t].at \in {"add", "idle"} /\ images' = images /\ i \notin images
      /\ img' \in [Images -> ImageRecord]
      /\ surf' = [surf EXCEPT ![s] = q] /\ q \in SurfaceRecord
  BY DEF Dropping
<1>4. \A j \in images : j \in Images /\ j # i
  BY <1>1, <1>3 DEF Typed
<1>5. Detached' = Detached /\ Detached \subseteq images
  BY <1>2, <1>3, <1>4 DEF Detached
<1>6. Typed'
  <2>1. lapsed' \subseteq Images
    BY <1>1, <1>4, <1>5 DEF Typed
  <2> QED
    BY <1>1, <1>3, <2>1 DEF Typed
<1>7. CacheOK'
  BY <1>1, <1>2, <1>4, <1>5, CacheKept
<1>8. MutexOK'
  BY <1>1, <1>3, MutexKept
<1>9. LimitsOK'
  <2>1. \A j \in Detached : (img[j].borrowCount > 0 \/ j \in lapsed)
                            => (img'[j].borrowCount > 0 \/ j \in lapsed')
    <3> SUFFICES ASSUME NEW j \in Detached, img[j].borrowCount > 0 \/ j \in lapsed
                 PROVE  img'[j].borrowCount > 0 \/ j \in lapsed'
      OBVIOUS
    <3>1. CASE j = b
      BY <3>1
    <3>2. CASE j # b
      BY <1>2, <1>4, <1>5, <3>2
    <3> QED
      BY <3>1, <3>2
  <2> QED
    BY <1>1, <1>3, <1>5, <1>6, <2>1, LimitsBorrow
<1> QED
  BY <1>1, <1>6, <1>7, <1>8, <1>9, DropStruct DEF Inv

\* What becomes of an image that is destroyed, and of the image it borrows.
LEMMA DestroyedFields ==
    ASSUME NEW f \in [Images -> ImageRecord], NEW i \in Images,
           f[i].borrowed = None \/ (f[i].borrowed # i /\ f[f[i].borrowed].borrowCount > 0),
           unsafe \in BOOLEAN
    PROVE  \E r \in ImageRecord, b \in Images \cup {None} :
              /\ Destroyed(f, i) \in [Images -> ImageRecord] /\ Destroyed(f, i)[i] = r
              /\ r.state # "live" /\ (r.state = "none" => r = FreshImage)
              /\ IF unsafe THEN b = None /\ r.borrowed = f[i].borrowed /\ r.state = "retained"
                 ELSE b = f[i].borrowed /\ r = FreshImage
              /\ \A j \in Images : j # i =>
                   Destroyed(f, i)[j] = IF j = b THEN [f[j] EXCEPT !.borrowCount = @ - 1] ELSE f[j]
<1>0. f[i] \in ImageRecord
  OBVIOUS
<1>1. CASE unsafe
  <2> DEFINE r == [f[i] EXCEPT !.state = "retained"]
  <2>1. r \in ImageRecord /\ r.state = "retained" /\ r.borrowed = f[i].borrowed
    BY <1>0 DEF ImageRecord, ImageStates
  <2>2. Destroyed(f, i) = [f EXCEPT ![i] = r]
    BY <1>1 DEF Destroyed
  <2> HIDE DEF r
  <2>3. None \notin Images
    BY BackingAssumption
  <2> QED
    BY <1>1, <2>1, <2>2, <2>3
<1>2. CASE ~unsafe
  <2> DEFINE b == f[i].borrowed
  <2>0. b \in Images \cup {None} /\ None \notin Images
    BY <1>0, BackingAssumption DEF ImageRecord
  <2>1. FreshImage \in ImageRecord /\ FreshImage.state = "none"
    BY ConstantTypes DEF FreshImage
  <2>2. CASE b = None
    <3>1. Destroyed(f, i) = [f EXCEPT ![i] = FreshImage]
      BY <1>2, <2>2 DEF Destroyed, ReleaseBorrow
    <3> QED
      BY <1>2, <2>0, <2>1, <2>2, <3>1
  <2>3. CASE b # None
    <3>1. b \in Images /\ b # i /\ f[b].borrowCount > 0 /\ f[b] \in ImageRecord
      BY <2>0, <2>3
    <3> DEFINE c == [f[b] EXCEPT !.borrowCount = @ - 1]
               g == [f EXCEPT ![b].borrowCount = IF @ > 0 THEN @ - 1 ELSE 0, ![i].borrowed = None]
    <3>2. c \in ImageRecord
      <4>1. f[b].borrowCount - 1 \in Nat
        BY <3>1 DEF ImageRecord
      <4> QED
        BY <3>1, <4>1 DEF ImageRecord
    <3>3. ReleaseBorrow(f, i) = g
      BY <2>3 DEF ReleaseBorrow
    <3>4. DOMAIN g = Images /\ g[b] = c /\ \A j \in Images : j # i /\ j # b => g[j] = f[j]
      BY <3>1
    <3>5. Destroyed(f, i) = [g EXCEPT ![i] = FreshImage]
      BY <1>2, <3>3 DEF Destroyed
    <3> HIDE DEF g
    <3>6. /\ DOMAIN Destroyed(f, i) = Images /\ Destroyed(f, i)[i] = FreshImage
          /\ Destroyed(f, i)[b] = c
          /\ \A j \in Images : j # i /\ j # b => Destroyed(f, i)[j] = f[j]
      BY <3>1, <3>4, <3>5
    <3>7. Destroyed(f, i) = [j \in Images |-> Destroyed(f, i)[j]]
      <4>1. Destroyed(f, i) = [j \in DOMAIN g |-> IF j = i THEN FreshImage ELSE g[j]]
        BY <3>5
      <4> QED
        BY <3>4, <4>1
    <3> DEFINE d == Destroyed(f, i)
    <3> HIDE DEF c, d
    <3>8. /\ d = [j \in Images |-> d[j]] /\ d[i] = FreshImage /\ d[b] = c
          /\ \A j \in Images : j # i /\ j # b => d[j] = f[j]
      BY <3>6, <3>7 DEF d
    <3>9. \A j \in Images : d[j] \in ImageRecord
      BY <2>1, <3>2, <3>8
    <3>10. d \in [Images -> ImageRecord]
      BY <3>8, <3>9
    <3>11. \A j \in Images : j # i => d[j] = IF j = b THEN [f[j] EXCEPT !.borrowCount = @ - 1] ELSE f[j]
      BY <3>8 DEF c
    <3> QED
      BY <1>2, <2>0, <2>1, <3>8, <3>10, <3>11 DEF d
  <2> QED
    BY <2>2, <2>3
<1> QED
  BY <1>1, <1>2

LEMMA AddFailInv ==
    ASSUME Inv, NEW t \in Threads, AddFail(t)
    PROVE  Inv'
<1>1. Typed /\ Struct /\ CallOK(pc[t]) /\ OneCall
  BY DEF Inv, Struct, CallsOK
<1>2. PICK s \in Surfaces, i \in Images :
         /\ pc[t].surface = s /\ pc[t].image = i /\ pc[t].at = "add"
         /\ surf[s].image = i /\ i \notin images /\ img[i].borrowed = None
  BY <1>1 DEF AddFail, At, CallOK, Typed, CallRecord
<1> DEFINE f == [img EXCEPT ![i].surface = None]
<1>3. /\ f \in [Images -> ImageRecord] /\ f[i].borrowed = None
      /\ \A j \in Images : j # i => f[j] = img[j]
  <2>1. img[i] \in ImageRecord /\ img \in [Images -> ImageRecord]
    BY <1>1 DEF Typed
  <2>2. [img[i] EXCEPT !.surface = None] \in ImageRecord
        /\ [img[i] EXCEPT !.surface = None].borrowed = img[i].borrowed
    BY <2>1 DEF ImageRecord
  <2>3. f = [img EXCEPT ![i] = [img[i] EXCEPT !.surface = None]]
    OBVIOUS
  <2> HIDE DEF f
  <2> QED
    BY <1>2, <2>1, <2>2, <2>3
<1>4. /\ img' = Destroyed(f, i) /\ surf' = [surf EXCEPT ![s].image = None]
      /\ UNCHANGED <<images, cache, scratch, unsafe, mutex, lapsed>>
  BY <1>2 DEF AddFail
<1> HIDE DEF f
<1>5. PICK r \in ImageRecord :
         /\ img' \in [Images -> ImageRecord] /\ img'[i] = r
         /\ r.state # "live" /\ (r.state = "none" => r = FreshImage) /\ r.borrowed = None
         /\ \A j \in Images : j # i => img'[j] = img[j]
  <2>1. unsafe \in BOOLEAN
    BY <1>1 DEF Typed
  <2>2. PICK r \in ImageRecord, b \in Images \cup {None} :
              /\ Destroyed(f, i) \in [Images -> ImageRecord] /\ Destroyed(f, i)[i] = r
              /\ r.state # "live" /\ (r.state = "none" => r = FreshImage)
              /\ IF unsafe THEN b = None /\ r.borrowed = f[i].borrowed /\ r.state = "retained"
                 ELSE b = f[i].borrowed /\ r = FreshImage
              /\ \A j \in Images : j # i =>
                   Destroyed(f, i)[j] = IF j = b THEN [f[j] EXCEPT !.borrowCount = @ - 1] ELSE f[j]
    BY <1>3, <2>1, DestroyedFields
  <2>3. b = None /\ r.borrowed = None
    BY <1>3, <2>2 DEF FreshImage
  <2>4. \A j \in Images : j # b
    BY <2>3, BackingAssumption
  <2>5. img' \in [Images -> ImageRecord] /\ img'[i] = r
    BY <1>4, <2>2
  <2>6. \A j \in Images : j # i => img'[j] = img[j]
    BY <1>3, <1>4, <2>2, <2>4
  <2> QED
    BY <2>2, <2>3, <2>5, <2>6
<1>6. PICK p \in CallRecord :
         pc' = [pc EXCEPT ![t] = p] /\ p.at = "idle" /\ p.surface = None /\ p.image = None
  BY FinishRecord DEF AddFail
<1>7. PICK q \in SurfaceRecord : q.image = None /\ surf' = [surf EXCEPT ![s] = q]
  <2>1. surf[s] \in SurfaceRecord /\ surf \in [Surfaces -> SurfaceRecord]
    BY <1>1 DEF Typed
  <2>2. [surf[s] EXCEPT !.image = None] \in SurfaceRecord
        /\ [surf[s] EXCEPT !.image = None].image = None
    BY <2>1 DEF SurfaceRecord
  <2>3. surf' = [surf EXCEPT ![s] = [surf[s] EXCEPT !.image = None]]
    BY <1>4
  <2> QED
    BY <2>2, <2>3
<1>8. \A u \in Threads : u # t => pc[u].surface # s
  BY <1>1, <1>2, BackingAssumption DEF OneCall
<1>9. Dropping(t, p, s, q, i, r, None)
  <2>1. \A j \in Images : j # None
    BY BackingAssumption
  <2> QED
    BY <1>2, <1>4, <1>5, <1>6, <1>7, <1>8, <2>1 DEF Dropping
<1>10. None \notin Detached
  BY <1>1, BackingAssumption DEF Detached, Typed
<1> QED
  BY <1>4, <1>9, <1>10, DropInv

LEMMA DetachImportedInv ==
    ASSUME Inv, NEW t \in Threads, NEW s \in Surfaces, DetachImported(t, s)
    PROVE  Inv'
<1>1. Typed /\ Struct /\ CacheOK /\ CallOK(pc[t]) /\ Listed = Detached
  BY ListedDetached DEF Inv, Struct, CallsOK
<1>2. PICK i \in Images :
         /\ surf[s].image = i /\ img[i].imported /\ i \notin images
         /\ img' = Destroyed(img, i)
         /\ lapsed' = IF unsafe THEN lapsed ELSE LapsedBy(img[i].borrowed)
  BY <1>1 DEF DetachImported, Typed, SurfaceRecord, Struct, SurfacesOK
<1>3. /\ pc[t].at = "idle" /\ Unused(s) /\ surf' = [surf EXCEPT ![s] = NoSurface]
      /\ UNCHANGED <<images, cache, scratch, unsafe, mutex, pc>>
  BY DEF DetachImported, Detaching, At
<1>4. /\ img \in [Images -> ImageRecord] /\ unsafe \in BOOLEAN /\ pc \in [Threads -> CallRecord]
      /\ img[i] \in ImageRecord
  BY <1>1 DEF Typed
<1>5. img[i].borrowed = None \/ (img[i].borrowed # i /\ img[img[i].borrowed].borrowCount > 0)
  <2> SUFFICES ASSUME img[i].borrowed # None
               PROVE  img[i].borrowed # i /\ img[img[i].borrowed].borrowCount > 0
    OBVIOUS
  <2>1. PICK b : b = img[i].borrowed
    OBVIOUS
  <2>2. b \in images /\ b # i /\ i \in Borrowers(b)
    BY <1>1, <1>2, <2>1 DEF Struct, BorrowsOK, Borrowers
  <2>3. Borrowers(b) # {} /\ IsFiniteSet(Borrowers(b))
    BY <2>2, BorrowSetsFinite
  <2>4. Cardinality(Borrowers(b)) # 0
    BY <2>3, FS_EmptySet
  <2>5. img[b].borrowCount = Cardinality(Borrowers(b)) + Cardinality(Comparing(b))
    BY <1>1, <2>2 DEF Struct, BorrowsOK
  <2>6. Cardinality(Borrowers(b)) \in Nat /\ Cardinality(Comparing(b)) \in Nat
    BY BorrowSetsFinite
  <2>7. img[b].borrowCount > 0
    BY <2>4, <2>5, <2>6
  <2> QED
    BY <2>1, <2>2, <2>7
<1>6. PICK r \in ImageRecord, b \in Images \cup {None} :
         /\ Destroyed(img, i) \in [Images -> ImageRecord] /\ Destroyed(img, i)[i] = r
         /\ r.state # "live" /\ (r.state = "none" => r = FreshImage)
         /\ IF unsafe THEN b = None /\ r.borrowed = img[i].borrowed /\ r.state = "retained"
            ELSE b = img[i].borrowed /\ r = FreshImage
         /\ \A j \in Images : j # i =>
              Destroyed(img, i)[j] = IF j = b THEN [img[j] EXCEPT !.borrowCount = @ - 1] ELSE img[j]
  BY <1>4, <1>5, DestroyedFields
<1>7. /\ img' \in [Images -> ImageRecord] /\ img'[i] = r
      /\ r.state # "live" /\ (r.state = "none" => r = FreshImage)
      /\ \A j \in Images : j # i =>
           img'[j] = IF j = b THEN [img[j] EXCEPT !.borrowCount = @ - 1] ELSE img[j]
  BY <1>2, <1>6
<1>8. IF b = None THEN r.borrowed = img[i].borrowed ELSE b = img[i].borrowed /\ r.borrowed = None
  BY <1>6 DEF FreshImage
<1>9. PICK p \in CallRecord :
         pc' = [pc EXCEPT ![t] = p] /\ p.at = "idle" /\ p.surface = None /\ p.image = None
  <2>1. pc[t] \in CallRecord /\ pc[t].surface = None /\ pc[t].image = None
        /\ pc' = [pc EXCEPT ![t] = pc[t]]
    BY <1>1, <1>3, <1>4 DEF CallOK
  <2> QED
    BY <1>3, <2>1
<1>10. NoSurface \in SurfaceRecord /\ NoSurface.image = None
  BY ConstantTypes DEF NoSurface
<1>11. Dropping(t, p, s, NoSurface, i, r, b)
  BY <1>2, <1>3, <1>7, <1>8, <1>9, <1>10 DEF Dropping, Unused
<1>12. None \notin Detached
  BY <1>1, BackingAssumption DEF Detached, Typed
<1>13. lapsed' = IF b \in Detached THEN lapsed \cup {b} ELSE lapsed
  BY <1>1, <1>2, <1>6, <1>12 DEF LapsedBy
<1> QED
  BY <1>3, <1>11, <1>13, DropInv

-----------------------------------------------------------------------------
(* Steps on the images the driver owns.                                    *)

LEMMA AddImageInv ==
    ASSUME Inv, NEW t \in Threads, AddImage(t)
    PROVE  Inv'
<1>1. Typed /\ Struct /\ CacheOK /\ MutexOK /\ LimitsOK /\ CallOK(pc[t]) /\ OneCall
  BY DEF Inv, Struct, CallsOK
<1>2. PICK s \in Surfaces, i \in Images :
         /\ pc[t].surface = s /\ pc[t].image = i /\ pc[t].at = "add" /\ surf[s].image = i
         /\ i \notin images /\ ~img[i].imported /\ img[i].borrowCount = 0 /\ img[i].borrowed = None
         /\ i # None /\ s # None
  BY <1>1, BackingAssumption DEF AddImage, At, CallOK, Typed, CallRecord
<1>3. /\ images' = images \cup {i}
      /\ img' = img /\ surf' = surf /\ cache' = cache /\ scratch' = scratch /\ unsafe' = unsafe
      /\ mutex' = mutex /\ lapsed' = lapsed
  BY <1>2 DEF AddImage
<1>4. PICK p \in CallRecord :
         pc' = [pc EXCEPT ![t] = p] /\ p.at = "idle" /\ p.surface = None /\ p.image = None
  BY FinishRecord DEF AddImage
<1>5. pc'[t] = p /\ \A u \in Threads : u # t => pc'[u] = pc[u] /\ pc[u].surface # s
  BY <1>1, <1>2, <1>4 DEF Typed, OneCall
<1>6. img[i].state = "live" /\ img[i].surface = s
  BY <1>1, <1>2 DEF Struct, SurfacesOK
<1>7. CallsOK'
  <2>1. CallOK(pc[t])'
    BY <1>4, <1>5 DEF CallOK
  <2>2. ASSUME NEW u \in Threads, u # t PROVE CallOK(pc[u])'
    <3>1. CallOK(pc[u]) /\ pc'[u] = pc[u] /\ pc[u].surface # s
      BY <1>1, <1>5, <2>2 DEF Struct, CallsOK
    <3>2. pc[u].at = "add" => pc[u].image # i
      <4> SUFFICES ASSUME pc[u].at = "add", pc[u].image = i PROVE FALSE
        OBVIOUS
      <4>1. pc[u].surface \in Surfaces /\ surf[pc[u].surface].image = i
        BY <1>1, <3>1 DEF CallOK, Typed, CallRecord
      <4> QED
        BY <1>1, <1>2, <1>6, <3>1, <4>1 DEF Struct, SurfacesOK
    <3> QED
      BY <1>3, <3>1, <3>2 DEF CallOK
  <2> QED
    BY <2>1, <2>2 DEF CallsOK
<1>8. OneCall'
  BY <1>1, <1>4, <1>5 DEF OneCall
<1>9. SurfacesOK'
  <2> SUFFICES ASSUME NEW v \in Surfaces, surf[v].image # None
               PROVE  /\ surf[v].live
                      /\ img[surf[v].image].state = "live" /\ img[surf[v].image].surface = v
                      /\ IF img[surf[v].image].imported THEN surf[v].image \notin images'
                         ELSE \/ surf[v].image \in images'
                              \/ \E u \in Threads : pc'[u].at = "add" /\ pc'[u].surface = v
    BY <1>3 DEF SurfacesOK, At
  <2>1. CASE v = s
    BY <1>1, <1>2, <1>3, <2>1 DEF Struct, SurfacesOK
  <2>2. CASE v # s
    <3>1. \A u \in Threads : pc[u].at = "add" /\ pc[u].surface = v => pc'[u] = pc[u]
      BY <1>2, <1>5, <2>2
    <3>2. surf[v].image # i
      BY <1>1, <1>6, <2>2 DEF Struct, SurfacesOK
    <3> QED
      BY <1>1, <1>3, <3>1, <3>2 DEF Struct, SurfacesOK, At
  <2> QED
    BY <2>1, <2>2
<1>10. OwnedOK' /\ FreshOK'
  BY <1>1, <1>2, <1>3, <1>6 DEF Struct, OwnedOK, FreshOK
<1>11. BorrowsOK'
  <2>1. \A k : Borrowers(k)' = Borrowers(k)
    BY <1>3 DEF Borrowers
  <2>2. \A k : Comparing(k)' = Comparing(k)
    BY <1>2, <1>4, <1>5 DEF Comparing, At
  <2>3. Borrowers(i) = {}
    BY <1>1, <1>2 DEF Borrowers, Struct, BorrowsOK
  <2>4. Comparing(i) = {}
    BY <1>1, <1>2 DEF Comparing, At, Struct, CallsOK, CallOK
  <2>5. Cardinality({}) = 0
    BY FS_EmptySet
  <2>6. img[i].borrowCount = Cardinality(Borrowers(i)) + Cardinality(Comparing(i))
    BY <1>2, <2>3, <2>4, <2>5
  <2> QED
    BY <1>1, <1>3, <2>1, <2>2, <2>6 DEF Struct, BorrowsOK
<1>12. Struct'
  BY <1>7, <1>8, <1>9, <1>10, <1>11 DEF Struct
<1>13. Typed'
  BY <1>1, <1>3, <1>4 DEF Typed
<1>14. Detached' = Detached
  BY <1>2, <1>3, <1>6 DEF Detached
<1>15. CacheOK'
  BY <1>1, <1>3, <1>14, CacheKept
<1>16. MutexOK'
  BY <1>1, <1>2, <1>3, <1>4, MutexKept
<1>17. LimitsOK'
  BY <1>1, <1>2, <1>3, <1>4, <1>13, <1>14, LimitsBorrow
<1> QED
  BY <1>12, <1>13, <1>15, <1>16, <1>17 DEF Inv

\* A step of the call t that changes the borrow count of the owned image i.
Counting(t, p, i) ==
    /\ p \in CallRecord /\ pc' = [pc EXCEPT ![t] = p]
    /\ i \in images /\ surf' = surf /\ images' = images
    /\ img' \in [Images -> ImageRecord]
    /\ \A j \in Images : j # i => img'[j] = img[j]
    /\ img'[i].state = img[i].state /\ img'[i].imported = img[i].imported
    /\ img'[i].surface = img[i].surface /\ img'[i].borrowed = img[i].borrowed
    /\ img'[i].prev = img[i].prev /\ img'[i].next = img[i].next
    /\ img'[i].serial = img[i].serial /\ img'[i].size = img[i].size
    /\ img'[i].borrowCount = Cardinality(Borrowers(i)) + Cardinality(Comparing(i)')
    /\ pc[t].at \in {"idle", "layout"} /\ p.at \in {"layout", "external"}
    /\ (pc[t].at = "layout" => pc[t].image = i) /\ (p.at = "layout" => p.image = i)
    /\ (p.at = "external" => p.image = None)
    /\ p.surface # None /\ ~surf[p.surface].live
    /\ \A u \in Threads : u # t => pc[u].surface # p.surface

LEMMA CountingStruct ==
    ASSUME Typed, Struct, NEW t \in Threads, NEW p, NEW i, Counting(t, p, i)
    PROVE  Struct'
<1>1. /\ i \in Images /\ i \in images /\ surf' = surf /\ images' = images
      /\ pc'[t] = p /\ \A u \in Threads : u # t => pc'[u] = pc[u]
      /\ \A j \in Images : j # i => img'[j] = img[j]
      /\ img'[i].state = img[i].state /\ img'[i].imported = img[i].imported
      /\ img'[i].surface = img[i].surface /\ img'[i].borrowed = img[i].borrowed
  BY DEF Counting, Typed
<1>2. \A j \in Images : /\ img'[j].state = img[j].state /\ img'[j].imported = img[j].imported
                        /\ img'[j].surface = img[j].surface /\ img'[j].borrowed = img[j].borrowed
  BY <1>1
<1>3. CallsOK'
  <2>1. CallOK(pc[t])'
    BY <1>1 DEF CallOK, Counting
  <2>2. ASSUME NEW u \in Threads, u # t PROVE CallOK(pc[u])'
    <3>1. CallOK(pc[u]) /\ pc'[u] = pc[u]
      BY <1>1, <2>2 DEF Struct, CallsOK
    <3>2. pc[u].at = "add" => pc[u].image \in Images /\ pc[u].image # i
      BY <1>1, <3>1 DEF CallOK, Typed, CallRecord
    <3> QED
      BY <1>1, <3>1, <3>2 DEF CallOK
  <2> QED
    BY <2>1, <2>2 DEF CallsOK
<1>4. OneCall'
  BY <1>1 DEF Counting, Struct, OneCall
<1>5. SurfacesOK'
  <2> SUFFICES ASSUME NEW v \in Surfaces, surf[v].image # None
               PROVE  /\ surf[v].live
                      /\ img'[surf[v].image].state = "live" /\ img'[surf[v].image].surface = v
                      /\ IF img'[surf[v].image].imported THEN surf[v].image \notin images
                         ELSE \/ surf[v].image \in images
                              \/ \E u \in Threads : pc'[u].at = "add" /\ pc'[u].surface = v
    BY <1>1 DEF SurfacesOK, At
  <2>1. surf[v].image \in Images
    BY DEF Typed, SurfaceRecord
  <2>2. \A u \in Threads : pc[u].at = "add" => pc'[u] = pc[u]
    BY <1>1 DEF Counting
  <2> QED
    BY <1>2, <2>1, <2>2 DEF Struct, SurfacesOK, At
<1>6. OwnedOK'
  BY <1>1, <1>2 DEF Struct, OwnedOK, Typed
<1>7. FreshOK'
  <2>1. img[i].state = "live"
    BY <1>1 DEF Struct, OwnedOK
  <2> QED
    BY <1>1, <2>1 DEF Struct, FreshOK
<1>8. BorrowsOK'
  <2>1. \A k : Borrowers(k)' = Borrowers(k)
    BY <1>2 DEF Borrowers
  <2>2. \A k \in Images : k # i => Comparing(k)' = Comparing(k)
    BY <1>1 DEF Comparing, At, Counting
  <2>3. ASSUME NEW k \in images
        PROVE  img'[k].borrowCount = Cardinality(Borrowers(k)') + Cardinality(Comparing(k)')
    <3>1. CASE k = i
      BY <2>1, <3>1 DEF Counting
    <3>2. CASE k # i
      BY <1>1, <2>1, <2>2, <3>2 DEF Struct, BorrowsOK, Typed
    <3> QED
      BY <3>1, <3>2
  <2> QED
    BY <1>1, <1>2, <2>3 DEF Struct, BorrowsOK
<1> QED
  BY <1>3, <1>4, <1>5, <1>6, <1>7, <1>8 DEF Struct

LEMMA CountingInv ==
    ASSUME Inv, NEW t \in Threads, NEW p, NEW i, Counting(t, p, i),
           UNCHANGED <<cache, scratch, unsafe, mutex>>, lapsed \subseteq lapsed',
           lapsed' \subseteq Images,
           img'[i].borrowCount > 0 \/ (i \in Detached => i \in lapsed')
    PROVE  Inv'
<1>1. Typed /\ Struct /\ CacheOK /\ MutexOK /\ LimitsOK
  BY DEF Inv
<1>2. /\ p \in CallRecord /\ pc' = [pc EXCEPT ![t] = p] /\ images' = images /\ surf' = surf
      /\ img' \in [Images -> ImageRecord]
      /\ pc[t].at \in {"idle", "layout"} /\ p.at \in {"layout", "external"}
  BY DEF Counting
<1>3. \A j \in Images : /\ img'[j].surface = img[j].surface
                        /\ img'[j].prev = img[j].prev /\ img'[j].next = img[j].next
                        /\ img'[j].serial = img[j].serial /\ img'[j].size = img[j].size
                        /\ j # i => img'[j] = img[j]
  BY DEF Counting
<1>4. Typed'
  BY <1>1, <1>2 DEF Typed
<1>5. Detached' = Detached /\ Detached \subseteq Images
  BY <1>1, <1>2, <1>3 DEF Detached, Typed
<1>6. CacheOK'
  BY <1>1, <1>3, <1>5, CacheKept
<1>7. MutexOK'
  BY <1>1, <1>2, MutexKept
<1>8. LimitsOK'
  <2>1. \A j \in Detached : (img[j].borrowCount > 0 \/ j \in lapsed)
                            => (img'[j].borrowCount > 0 \/ j \in lapsed')
    BY <1>3, <1>5
  <2> QED
    BY <1>1, <1>2, <1>4, <1>5, <2>1, LimitsBorrow
<1> QED
  BY <1>1, <1>4, <1>6, <1>7, <1>8, CountingStruct DEF Inv

LEMMA RetainBackingImageByFdInv ==
    ASSUME Inv, NEW t \in Threads, NEW s \in Surfaces, RetainBackingImageByFd(t, s)
    PROVE  Inv'
<1>1. Typed /\ Struct
  BY DEF Inv
<1>2. PICK i \in images :
         /\ img' = [img EXCEPT ![i].borrowCount = @ + 1]
         /\ pc' = [pc EXCEPT ![t] = [Importing(s) EXCEPT !.at = "layout", !.image = i]]
  BY DEF RetainBackingImageByFd
<1>3. /\ pc[t].at = "idle" /\ ~surf[s].live /\ Unused(s) /\ i \in Images /\ s # None
      /\ UNCHANGED <<surf, images, cache, scratch, unsafe, mutex, lapsed>>
  BY <1>1, <1>2, BackingAssumption DEF RetainBackingImageByFd, At, Typed
<1>4. PICK p \in CallRecord :
         pc' = [pc EXCEPT ![t] = p] /\ p.at = "layout" /\ p.surface = s /\ p.image = i
  <2> DEFINE p == [Importing(s) EXCEPT !.at = "layout", !.image = i]
  <2>1. p \in CallRecord /\ p.at = "layout" /\ p.surface = s /\ p.image = i
    <3>1. i \in Images
      BY <1>3
    <3> QED
      BY <3>1, LayoutRecord, Zenon
  <2>2. pc' = [pc EXCEPT ![t] = p]
    BY <1>2
  <2> HIDE DEF p
  <2> QED
    BY <2>1, <2>2
<1>5. /\ img' \in [Images -> ImageRecord]
      /\ \A j \in Images : j # i => img'[j] = img[j]
      /\ img'[i].state = img[i].state /\ img'[i].imported = img[i].imported
      /\ img'[i].surface = img[i].surface /\ img'[i].borrowed = img[i].borrowed
      /\ img'[i].prev = img[i].prev /\ img'[i].next = img[i].next
      /\ img'[i].serial = img[i].serial /\ img'[i].size = img[i].size
      /\ img'[i].borrowCount = img[i].borrowCount + 1
  <2>1. img[i] \in ImageRecord /\ img \in [Images -> ImageRecord]
    BY <1>1, <1>3 DEF Typed
  <2> DEFINE r == [img[i] EXCEPT !.borrowCount = @ + 1]
  <2>2. r \in ImageRecord
    BY <2>1 DEF ImageRecord
  <2>3. img' = [img EXCEPT ![i] = r]
    BY <1>2
  <2>4. /\ r.state = img[i].state /\ r.imported = img[i].imported
        /\ r.surface = img[i].surface /\ r.borrowed = img[i].borrowed
        /\ r.prev = img[i].prev /\ r.next = img[i].next
        /\ r.serial = img[i].serial /\ r.size = img[i].size
        /\ r.borrowCount = img[i].borrowCount + 1
    BY <2>1 DEF ImageRecord
  <2> HIDE DEF r
  <2> QED
    BY <1>3, <2>1, <2>2, <2>3, <2>4
<1>6. Cardinality(Comparing(i)') = Cardinality(Comparing(i)) + 1
  <2>1. t \notin Comparing(i) /\ Comparing(i)' = Comparing(i) \cup {t}
    BY <1>1, <1>3, <1>4 DEF Comparing, At, Typed
  <2> QED
    BY <2>1, BorrowSetsFinite, FS_AddElement
<1>7. /\ img[i].borrowCount = Cardinality(Borrowers(i)) + Cardinality(Comparing(i))
      /\ Cardinality(Borrowers(i)) \in Nat /\ Cardinality(Comparing(i)) \in Nat
  BY <1>1, <1>2, BorrowSetsFinite DEF Struct, BorrowsOK
<1>8. img'[i].borrowCount = Cardinality(Borrowers(i)) + Cardinality(Comparing(i)')
      /\ img'[i].borrowCount > 0
  BY <1>5, <1>6, <1>7
<1>9. Counting(t, p, i)
  BY <1>2, <1>3, <1>4, <1>5, <1>8 DEF Counting, Unused
<1>10. lapsed' \subseteq Images /\ lapsed \subseteq lapsed'
  BY <1>1, <1>3 DEF Typed
<1> QED
  BY <1>3, <1>8, <1>9, <1>10, CountingInv

LEMMA ImportMismatchInv ==
    ASSUME Inv, NEW t \in Threads, ImportMismatch(t)
    PROVE  Inv'
<1>1. Typed /\ Struct /\ OneCall /\ CallOK(pc[t]) /\ CacheOK /\ Listed = Detached
  BY ListedDetached DEF Inv, Struct, CallsOK
<1>2. PICK i \in images, s \in Surfaces :
         /\ pc[t].image = i /\ pc[t].surface = s /\ pc[t].at = "layout" /\ ~surf[s].live
         /\ i \in Images /\ s # None
  BY <1>1 DEF ImportMismatch, At, CallOK, Typed, CallRecord
<1>3. /\ img' = [img EXCEPT ![i].borrowCount = @ - 1] /\ lapsed' = LapsedBy(i)
      /\ pc' = [pc EXCEPT ![t].at = "external", ![t].image = None]
      /\ UNCHANGED <<surf, images, cache, scratch, unsafe, mutex>>
  BY <1>2 DEF ImportMismatch
<1>4. PICK p \in CallRecord :
         pc' = [pc EXCEPT ![t] = p] /\ p.at = "external" /\ p.surface = s /\ p.image = None
  <2> DEFINE p == [pc[t] EXCEPT !.at = "external", !.image = None]
  <2>1. pc[t] \in CallRecord /\ pc \in [Threads -> CallRecord]
    BY <1>1 DEF Typed
  <2>2. p \in CallRecord /\ p.at = "external" /\ p.surface = s /\ p.image = None
    BY <1>2, <2>1 DEF CallRecord
  <2>3. pc' = [pc EXCEPT ![t] = p]
    BY <1>3, <2>1
  <2> HIDE DEF p
  <2> QED
    BY <2>2, <2>3
<1>5. Cardinality(Comparing(i)') = Cardinality(Comparing(i)) - 1 /\ Cardinality(Comparing(i)') \in Nat
  <2>1. t \in Comparing(i) /\ Comparing(i)' = Comparing(i) \ {t}
    BY <1>1, <1>2, <1>4 DEF Comparing, At, Typed
  <2>2. IsFiniteSet(Comparing(i) \ {t})
        /\ Cardinality(Comparing(i) \ {t}) = Cardinality(Comparing(i)) - 1
    BY <2>1, BorrowSetsFinite, FS_RemoveElement
  <2> QED
    BY <2>1, <2>2, FS_CardinalityType
<1>6. /\ img[i].borrowCount = Cardinality(Borrowers(i)) + Cardinality(Comparing(i))
      /\ Cardinality(Borrowers(i)) \in Nat /\ Cardinality(Comparing(i)) \in Nat
  BY <1>1, <1>2, BorrowSetsFinite DEF Struct, BorrowsOK
<1>7. img[i].borrowCount - 1 \in Nat
      /\ img[i].borrowCount - 1 = Cardinality(Borrowers(i)) + Cardinality(Comparing(i)')
  BY <1>5, <1>6
<1>8. /\ img' \in [Images -> ImageRecord]
      /\ \A j \in Images : j # i => img'[j] = img[j]
      /\ img'[i].state = img[i].state /\ img'[i].imported = img[i].imported
      /\ img'[i].surface = img[i].surface /\ img'[i].borrowed = img[i].borrowed
      /\ img'[i].prev = img[i].prev /\ img'[i].next = img[i].next
      /\ img'[i].serial = img[i].serial /\ img'[i].size = img[i].size
      /\ img'[i].borrowCount = img[i].borrowCount - 1
  <2>1. img[i] \in ImageRecord /\ img \in [Images -> ImageRecord]
    BY <1>1, <1>2 DEF Typed
  <2> DEFINE r == [img[i] EXCEPT !.borrowCount = @ - 1]
  <2>2. r \in ImageRecord
    BY <1>7, <2>1 DEF ImageRecord
  <2>3. img' = [img EXCEPT ![i] = r]
    BY <1>3
  <2>4. /\ r.state = img[i].state /\ r.imported = img[i].imported
        /\ r.surface = img[i].surface /\ r.borrowed = img[i].borrowed
        /\ r.prev = img[i].prev /\ r.next = img[i].next
        /\ r.serial = img[i].serial /\ r.size = img[i].size
        /\ r.borrowCount = img[i].borrowCount - 1
    BY <2>1 DEF ImageRecord
  <2> HIDE DEF r
  <2> QED
    BY <1>2, <2>1, <2>2, <2>3, <2>4
<1>9. \A u \in Threads : u # t => pc[u].surface # s
  BY <1>1, <1>2 DEF OneCall
<1>10. Counting(t, p, i)
  BY <1>2, <1>3, <1>4, <1>7, <1>8, <1>9 DEF Counting
<1>11. lapsed' \subseteq Images /\ lapsed \subseteq lapsed' /\ (i \in Detached => i \in lapsed')
  BY <1>1, <1>2, <1>3 DEF Typed, LapsedBy
<1> QED
  BY <1>3, <1>10, <1>11, CountingInv

-----------------------------------------------------------------------------
(* Detaching and pruning.                                                  *)

\* The neighbours of an image in the list, and the last one, are in the list.
LEMMA Neighbours ==
    ASSUME NEW f, NEW D, NEW c, c.count \in Nat, ListOK(f, D, c)
    PROVE  /\ c.tail \in D \cup {None}
           /\ \A i \in D : f[i].prev \in D \cup {None} /\ f[i].next \in D \cup {None}
<1>1. PICK L \in [1 .. c.count -> Images] : Ordered(f, D, c, L)
  BY DEF ListOK
<1>2. c.tail \in D \cup {None}
  <2>1. CASE c.count = 0
    BY <1>1, <2>1 DEF Ordered
  <2>2. CASE c.count # 0
    <3>1. c.count \in 1 .. c.count
      BY <2>2
    <3> QED
      BY <1>1, <2>2, <3>1 DEF Ordered
  <2> QED
    BY <2>1, <2>2
<1>3. ASSUME NEW i \in D PROVE f[i].prev \in D \cup {None} /\ f[i].next \in D \cup {None}
  <2>1. PICK k \in 1 .. c.count : L[k] = i
    BY <1>1 DEF Ordered
  <2>2. (k # 1 => k - 1 \in 1 .. c.count) /\ (k # c.count => k + 1 \in 1 .. c.count)
    OBVIOUS
  <2> QED
    BY <1>1, <2>1, <2>2 DEF Ordered
<1> QED
  BY <1>2, <1>3

\* What linking and unlinking leave alone.
LEMMA LinkedFields ==
    ASSUME NEW f \in [Images -> ImageRecord], NEW c \in CacheRecord, NEW i \in Images, c.tail # i
    PROVE  /\ LinkedImg(f, c, i) \in [Images -> ImageRecord]
           /\ \A j \in Images :
                /\ LinkedImg(f, c, i)[j].state = f[j].state
                /\ LinkedImg(f, c, i)[j].imported = f[j].imported
                /\ LinkedImg(f, c, i)[j].surface = f[j].surface
                /\ LinkedImg(f, c, i)[j].borrowed = f[j].borrowed
                /\ LinkedImg(f, c, i)[j].borrowCount = f[j].borrowCount
                /\ j # i /\ j # c.tail => LinkedImg(f, c, i)[j] = f[j]
<1> DEFINE g == LinkedImg(f, c, i)
<1>0. c.tail \in Images \cup {None}
  BY DEF CacheRecord
<1>1. ASSUME NEW j \in Images
      PROVE  /\ g[j] \in ImageRecord
             /\ g[j].state = f[j].state /\ g[j].imported = f[j].imported
             /\ g[j].surface = f[j].surface /\ g[j].borrowed = f[j].borrowed
             /\ g[j].borrowCount = f[j].borrowCount
             /\ j # i /\ j # c.tail => g[j] = f[j]
  <2>0. f[j] \in ImageRecord
    OBVIOUS
  <2>1. CASE j = i
    <3>1. g[j] = [f[j] EXCEPT !.prev = c.tail, !.next = None]
      BY <2>1 DEF LinkedImg
    <3> HIDE DEF g
    <3> QED
      BY <1>0, <2>0, <2>1, <3>1 DEF ImageRecord
  <2>2. CASE j # i /\ j = c.tail
    <3>1. g[j] = [f[j] EXCEPT !.next = i]
      BY <2>2 DEF LinkedImg
    <3> HIDE DEF g
    <3> QED
      BY <2>0, <2>2, <3>1 DEF ImageRecord
  <2>3. CASE j # i /\ j # c.tail
    <3>1. g[j] = f[j]
      BY <2>3 DEF LinkedImg
    <3> HIDE DEF g
    <3> QED
      BY <2>0, <3>1
  <2> QED
    BY <2>1, <2>2, <2>3
<1>2. g = [j \in Images |-> g[j]]
  BY DEF LinkedImg
<1> HIDE DEF g
<1>3. g \in [Images -> ImageRecord]
  BY <1>1, <1>2
<1> QED
  BY <1>1, <1>3 DEF g

LEMMA UnlinkedFields ==
    ASSUME NEW f \in [Images -> ImageRecord], NEW c, NEW i \in Images
    PROVE  /\ UnlinkedImg(f, c, i) \in [Images -> ImageRecord]
           /\ \A j \in Images :
                /\ UnlinkedImg(f, c, i)[j].state = f[j].state
                /\ UnlinkedImg(f, c, i)[j].imported = f[j].imported
                /\ UnlinkedImg(f, c, i)[j].surface = f[j].surface
                /\ UnlinkedImg(f, c, i)[j].borrowed = f[j].borrowed
                /\ UnlinkedImg(f, c, i)[j].borrowCount = f[j].borrowCount
                /\ j # i /\ j # f[i].prev /\ j # f[i].next => UnlinkedImg(f, c, i)[j] = f[j]
<1> DEFINE g == UnlinkedImg(f, c, i)
<1>0. f[i].prev \in Images \cup {None} /\ f[i].next \in Images \cup {None}
  BY DEF ImageRecord
<1>1. ASSUME NEW j \in Images
      PROVE  /\ g[j] \in ImageRecord
             /\ g[j].state = f[j].state /\ g[j].imported = f[j].imported
             /\ g[j].surface = f[j].surface /\ g[j].borrowed = f[j].borrowed
             /\ g[j].borrowCount = f[j].borrowCount
             /\ j # i /\ j # f[i].prev /\ j # f[i].next => g[j] = f[j]
  <2>0. f[j] \in ImageRecord /\ f[j].prev \in Images \cup {None} /\ f[j].next \in Images \cup {None}
        /\ f[j].serial \in Nat
    BY DEF ImageRecord
  <2> DEFINE n == IF j = i THEN None ELSE IF j = f[i].prev THEN f[i].next ELSE f[j].next
             m == IF j = i THEN None ELSE IF j = f[i].next THEN f[i].prev ELSE f[j].prev
             h == IF j = i THEN 0 ELSE f[j].serial
  <2>1. g[j] = [f[j] EXCEPT !.next = n, !.prev = m, !.serial = h]
    BY DEF UnlinkedImg
  <2>2. n \in Images \cup {None} /\ m \in Images \cup {None} /\ h \in Nat
    BY <1>0, <2>0
  <2>3. j # i /\ j # f[i].prev /\ j # f[i].next => n = f[j].next /\ m = f[j].prev /\ h = f[j].serial
    OBVIOUS
  <2> HIDE DEF n, m, h, g
  <2>4. /\ g[j] \in ImageRecord
        /\ g[j].state = f[j].state /\ g[j].imported = f[j].imported
        /\ g[j].surface = f[j].surface /\ g[j].borrowed = f[j].borrowed
        /\ g[j].borrowCount = f[j].borrowCount /\ g[j].size = f[j].size
        /\ g[j].next = n /\ g[j].prev = m /\ g[j].serial = h
    BY <2>0, <2>1, <2>2 DEF ImageRecord
  <2>5. g[j].next = f[j].next /\ g[j].prev = f[j].prev /\ g[j].serial = f[j].serial
        => g[j] = f[j]
    BY <2>0, <2>4 DEF ImageRecord
  <2> QED
    BY <2>3, <2>4, <2>5
<1>2. g = [j \in Images |-> g[j]]
  BY DEF UnlinkedImg
<1> HIDE DEF g
<1>3. g \in [Images -> ImageRecord]
  BY <1>1, <1>2
<1> QED
  BY <1>1, <1>3 DEF g

LEMMA CacheTypes ==
    ASSUME NEW f \in [Images -> ImageRecord], NEW c \in CacheRecord, NEW i \in Images
    PROVE  /\ [c EXCEPT !.serial = @ + 1] \in CacheRecord
           /\ LinkedCache(f, c, i) \in CacheRecord
           /\ UnlinkedCache(f, c, i) \in CacheRecord
<1>1. /\ f[i].prev \in Images \cup {None} /\ f[i].next \in Images \cup {None} /\ f[i].size \in Nat
  BY DEF ImageRecord
<1>2. /\ c.head \in Images \cup {None} /\ c.tail \in Images \cup {None}
      /\ c.count \in Nat /\ c.bytes \in Nat /\ c.serial \in Nat
  BY DEF CacheRecord
<1>3. [c EXCEPT !.serial = @ + 1] \in CacheRecord
  BY <1>2 DEF CacheRecord
<1>4. LinkedCache(f, c, i) \in CacheRecord
  <2> DEFINE h == IF c.tail = None THEN i ELSE c.head
             b == c.bytes + f[i].size
             n == c.count + 1
  <2>1. h \in Images \cup {None} /\ b \in Nat /\ n \in Nat
    BY <1>1, <1>2
  <2>2. LinkedCache(f, c, i) = [c EXCEPT !.head = h, !.tail = i, !.bytes = b, !.count = n]
    BY DEF LinkedCache
  <2> HIDE DEF h, b, n
  <2> QED
    BY <2>1, <2>2 DEF CacheRecord
<1>5. UnlinkedCache(f, c, i) \in CacheRecord
  <2> DEFINE h == IF f[i].prev = None THEN f[i].next ELSE c.head
             l == IF f[i].next = None THEN f[i].prev ELSE c.tail
             b == IF c.bytes >= f[i].size THEN c.bytes - f[i].size ELSE 0
             n == IF c.count > 0 THEN c.count - 1 ELSE 0
  <2>1. h \in Images \cup {None} /\ l \in Images \cup {None} /\ b \in Nat /\ n \in Nat
    BY <1>1, <1>2
  <2>2. UnlinkedCache(f, c, i) = [c EXCEPT !.head = h, !.tail = l, !.bytes = b, !.count = n]
    BY DEF UnlinkedCache
  <2> HIDE DEF h, l, b, n
  <2> QED
    BY <2>1, <2>2 DEF CacheRecord
<1> QED
  BY <1>3, <1>4, <1>5

LEMMA DetachOwnedInv ==
    ASSUME Inv, NEW t \in Threads, NEW s \in Surfaces, DetachOwned(t, s)
    PROVE  Inv'
<1>1. Typed /\ Struct /\ CacheOK /\ MutexOK /\ CallOK(pc[t])
  BY DEF Inv, Struct, CallsOK
<1>2. PICK i \in Images :
         /\ surf[s].image = i /\ ~img[i].imported /\ i # None
         /\ LET f == [img EXCEPT ![i].surface = None, ![i].serial = cache.serial + 1]
            IN  /\ img' = LinkedImg(f, cache, i)
                /\ cache' = LinkedCache(f, [cache EXCEPT !.serial = @ + 1], i)
  BY <1>1 DEF DetachOwned, Typed, SurfaceRecord
<1>3. /\ pc[t].at = "idle" /\ Unused(s) /\ surf' = [surf EXCEPT ![s] = NoSurface]
      /\ images' = images /\ scratch' = scratch /\ unsafe' = unsafe /\ mutex' = mutex
      /\ lapsed' = lapsed /\ Goto(t, "prune")
  BY DEF DetachOwned, Detaching, At
<1>4. i \in images /\ img[i].state = "live" /\ img[i].surface = s /\ s # None
  BY <1>1, <1>2, <1>3, BackingAssumption DEF Struct, SurfacesOK, Unused
<1> DEFINE f == [img EXCEPT ![i].surface = None, ![i].serial = cache.serial + 1]
           e == [cache EXCEPT !.serial = @ + 1]
<1>5. cache \in CacheRecord /\ img \in [Images -> ImageRecord] /\ cache.serial \in Nat
      /\ cache.count \in Nat
  BY <1>1 DEF Typed, CacheRecord
<1>6. e \in CacheRecord /\ e.tail = cache.tail
  BY <1>5, CacheTypes DEF CacheRecord
<1>7. /\ f \in [Images -> ImageRecord] /\ \A j \in Images : j # i => f[j] = img[j]
      /\ f[i].state = img[i].state /\ f[i].imported = img[i].imported /\ f[i].surface = None
      /\ f[i].borrowed = img[i].borrowed /\ f[i].borrowCount = img[i].borrowCount
      /\ f[i].serial = cache.serial + 1
  <2> DEFINE n == cache.serial + 1
             r == [img[i] EXCEPT !.surface = None, !.serial = n]
  <2>1. img[i] \in ImageRecord /\ n \in Nat
    BY <1>5
  <2>2. f = [img EXCEPT ![i] = r]
    BY <1>5
  <2>3. /\ r \in ImageRecord /\ r.state = img[i].state /\ r.imported = img[i].imported
        /\ r.surface = None /\ r.borrowed = img[i].borrowed
        /\ r.borrowCount = img[i].borrowCount /\ r.serial = n
    <3> HIDE DEF n
    <3> QED
      BY <2>1 DEF ImageRecord
  <2> HIDE DEF f, r
  <2> QED
    BY <1>5, <2>2, <2>3
<1>8. img' = LinkedImg(f, cache, i) /\ cache' = LinkedCache(f, e, i)
  BY <1>2
<1> HIDE DEF f, e
<1>9. Detached \subseteq Images /\ i \notin Detached
  BY <1>1, <1>4 DEF Detached, Typed
<1>10. ListOK(img, Detached, cache)
  BY <1>1 DEF CacheOK
<1>11. cache.tail \in Detached \cup {None}
  BY <1>5, <1>10, Neighbours
<1>12. /\ img' \in [Images -> ImageRecord]
       /\ \A j \in Images :
            /\ img'[j].state = img[j].state /\ img'[j].imported = img[j].imported
            /\ img'[j].borrowed = img[j].borrowed /\ img'[j].borrowCount = img[j].borrowCount
            /\ img'[j].surface = IF j = i THEN None ELSE img[j].surface
            /\ j # i /\ j \notin Detached => img'[j] = img[j]
  <2>1. cache.tail # i
    BY <1>2, <1>9, <1>11
  <2> DEFINE g == LinkedImg(f, cache, i)
  <2>2. /\ g \in [Images -> ImageRecord]
        /\ \A j \in Images :
             /\ g[j].state = f[j].state /\ g[j].imported = f[j].imported
             /\ g[j].surface = f[j].surface /\ g[j].borrowed = f[j].borrowed
             /\ g[j].borrowCount = f[j].borrowCount
             /\ j # i /\ j # cache.tail => g[j] = f[j]
    BY <1>5, <1>7, <2>1, LinkedFields
  <2> HIDE DEF g
  <2>3. img' = g
    BY <1>8 DEF g
  <2>4. \A j \in Images : j \notin Detached => j # cache.tail
    BY <1>11, BackingAssumption
  <2> QED
    BY <1>7, <2>2, <2>3, <2>4
<1>13. Detached' = Detached \cup {i}
  <2>1. \A j \in images : j \in Images
    BY <1>1 DEF Typed
  <2> QED
    BY <1>3, <1>4, <1>12, <2>1 DEF Detached
<1>14. CacheOK'
  <2>1. ListOK(f, Detached, cache)
    <3>1. \A j \in Detached : f[j] = img[j]
      BY <1>7, <1>9
    <3> QED
      BY <1>10, <3>1, SameList
  <2>2. ListOK(LinkedImg(f, e, i), Detached \cup {i}, LinkedCache(f, e, i))
    BY <1>5, <1>7, <1>9, <2>1, LinkList DEF e
  <2>3. LinkedImg(f, e, i) = LinkedImg(f, cache, i)
    BY <1>6 DEF LinkedImg
  <2> QED
    BY <1>8, <1>13, <2>2, <2>3 DEF CacheOK
<1>15. PICK p \in CallRecord :
          /\ pc' = [pc EXCEPT ![t] = p]
          /\ p.at = "prune" /\ p.surface = pc[t].surface /\ p.image = pc[t].image
  BY <1>1, <1>3, GotoRecord
<1>16. p.surface = None /\ p.image = None /\ pc'[t] = p
       /\ \A u \in Threads : u # t => pc'[u] = pc[u]
  BY <1>1, <1>3, <1>15 DEF CallOK, Typed
<1>17. /\ surf'[s] = NoSurface /\ surf'[s].image = None
       /\ \A v \in Surfaces : v # s => surf'[v] = surf[v]
  BY <1>1, <1>3 DEF Typed, NoSurface
<1>18. CallsOK'
  <2>1. CallOK(pc[t])'
    BY <1>15, <1>16 DEF CallOK
  <2>2. Apart(t, s)
    <3>1. ASSUME NEW u \in Threads, pc[u].at = "add" PROVE img'[pc[u].image] = img[pc[u].image]
      <4>1. pc[u].image \in Images /\ pc[u].image \notin images
        BY <1>1, <3>1 DEF Struct, CallsOK, CallOK, Typed, CallRecord
      <4> QED
        BY <1>4, <1>12, <4>1 DEF Detached
    <3> QED
      BY <1>3, <1>16, <1>17, <3>1 DEF Apart, Unused
  <2>3. \A u \in Threads : u # t => CallOK(pc[u])'
    BY <1>1, <2>2, OthersKept
  <2> QED
    BY <2>1, <2>3 DEF CallsOK
<1>19. OneCall'
  BY <1>1, <1>16 DEF Struct, OneCall
<1>20. SurfacesOK'
  <2> SUFFICES ASSUME NEW v \in Surfaces, surf'[v].image # None
               PROVE  /\ surf'[v].live
                      /\ img'[surf'[v].image].state = "live" /\ img'[surf'[v].image].surface = v
                      /\ IF img'[surf'[v].image].imported THEN surf'[v].image \notin images'
                         ELSE \/ surf'[v].image \in images'
                              \/ \E u \in Threads : pc'[u].at = "add" /\ pc'[u].surface = v
    BY DEF SurfacesOK, At
  <2>1. v # s /\ surf'[v] = surf[v] /\ surf[v].image # None
    BY <1>17
  <2>2. surf[v].image \in Images
    BY <1>1, <2>1 DEF Typed, SurfaceRecord
  <2>3. surf[v].image # i
    BY <1>1, <1>4, <2>1 DEF Struct, SurfacesOK
  <2>4. \A u \in Threads : pc[u].at = "add" => pc'[u] = pc[u]
    BY <1>3, <1>16
  <2> QED
    BY <1>1, <1>3, <1>12, <2>1, <2>2, <2>3, <2>4 DEF Struct, SurfacesOK, At
<1>21. OwnedOK'
  <2> SUFFICES ASSUME NEW j \in images
               PROVE  /\ img'[j].state = "live" /\ ~img'[j].imported /\ img'[j].borrowed = None
                      /\ img'[j].surface # None => surf'[img'[j].surface].image = j
    BY <1>3 DEF OwnedOK
  <2>1. j \in Images
    BY <1>1 DEF Typed
  <2>2. img[j].surface \in Surfaces \cup {None}
    BY <1>1, <2>1 DEF Typed, ImageRecord
  <2>3. j # i => img[j].surface # s
    BY <1>1, <1>2, <1>4, <2>1, BackingAssumption DEF Struct, OwnedOK
  <2> QED
    BY <1>1, <1>12, <1>17, <2>1, <2>2, <2>3 DEF Struct, OwnedOK
<1>22. FreshOK'
  <2> SUFFICES ASSUME NEW j \in Images, img'[j].state = "none" PROVE img'[j] = FreshImage
    BY DEF FreshOK
  <2>1. img[j].state = "none"
    BY <1>12
  <2>2. j # i /\ j \notin Detached
    BY <1>1, <1>4, <2>1 DEF Struct, OwnedOK, Detached
  <2> QED
    BY <1>1, <1>12, <2>1, <2>2 DEF Struct, FreshOK
<1>23. BorrowsOK'
  <2>1. \A k : Borrowers(k)' = Borrowers(k)
    BY <1>12 DEF Borrowers
  <2>2. \A k : Comparing(k)' = Comparing(k)
    BY <1>3, <1>15, <1>16 DEF Comparing, At
  <2> QED
    BY <1>1, <1>3, <1>12, <2>1, <2>2 DEF Struct, BorrowsOK, Typed
<1>24. Struct'
  BY <1>18, <1>19, <1>20, <1>21, <1>22, <1>23 DEF Struct
<1>25. Typed'
  <2>1. cache' \in CacheRecord
    BY <1>6, <1>7, <1>8, CacheTypes
  <2>2. NoSurface \in SurfaceRecord
    BY ConstantTypes
  <2> QED
    BY <1>1, <1>3, <1>12, <1>15, <2>1, <2>2 DEF Typed
<1>26. MutexOK'
  BY <1>1, <1>3, <1>15, MutexKept
<1>27. LimitsOK'
  BY <1>15, <1>16 DEF LimitsOK
<1> QED
  BY <1>14, <1>24, <1>25, <1>26, <1>27 DEF Inv

\* What pruning takes: the oldest image of the list that nobody borrows.
LEMMA PruneOldestPicks ==
    ASSUME Typed, CacheOK, PruneOldest
    PROVE  \E i \in Detached :
              /\ img' = Destroyed(UnlinkedImg(img, cache, i), i)
              /\ cache' = UnlinkedCache(img, cache, i)
              /\ images' = images \ {i} /\ lapsed' = lapsed \ {i}
              /\ img[i].borrowCount = 0
              /\ \A j \in Detached : img[j].serial < img[i].serial => img[j].borrowCount > 0
<1>1. PICK L \in [1 .. cache.count -> Images] : Ordered(img, Detached, cache, L)
  BY DEF CacheOK, ListOK
<1>2. /\ Oldest # None /\ img' = Destroyed(UnlinkedImg(img, cache, Oldest), Oldest)
      /\ cache' = UnlinkedCache(img, cache, Oldest)
      /\ images' = images \ {Oldest} /\ lapsed' = lapsed \ {Oldest}
  BY DEF PruneOldest, Prunable
<1>3. PICK k \in 1 .. cache.count :
         /\ Oldest = L[k] /\ BackingImageCanPrune(L[k])
         /\ \A l \in 1 .. cache.count : l < k => ~BackingImageCanPrune(L[l])
  BY <1>1, <1>2, OldestFirst
<1>4. L[k] \in Detached
  BY <1>1 DEF Ordered
<1>5. ASSUME NEW j \in Detached, img[j].serial < img[L[k]].serial PROVE img[j].borrowCount > 0
  <2>1. PICK l \in 1 .. cache.count : L[l] = j
    BY <1>1 DEF Ordered
  <2>2. /\ cache.count \in Nat /\ j \in Images /\ img[j].borrowCount \in Nat
        /\ img[j].serial \in Nat /\ img[L[k]].serial \in Nat
    BY DEF Typed, Detached, CacheRecord, ImageRecord
  <2>3. l < k
    <3>1. k < l => img[L[k]].serial < img[L[l]].serial
      BY <1>1 DEF Ordered
    <3> QED
      BY <1>5, <2>1, <2>2, <3>1
  <2>4. ~BackingImageCanPrune(j) /\ img[j].surface = None
    BY <1>3, <2>1, <2>3 DEF Detached
  <2> QED
    BY <2>2, <2>4 DEF BackingImageCanPrune
<1>6. img[L[k]].borrowCount = 0
  BY <1>3 DEF BackingImageCanPrune
<1> QED
  BY <1>2, <1>3, <1>4, <1>5, <1>6

\* What it leaves behind.
LEMMA PruneOldestFields ==
    ASSUME Inv, PruneOldest
    PROVE  \E i \in Detached :
              /\ images' = images \ {i} /\ lapsed' = lapsed \ {i}
              /\ img' \in [Images -> ImageRecord] /\ cache' \in CacheRecord
              /\ img'[i].state # "live" /\ (img'[i].state = "none" => img'[i] = FreshImage)
              /\ img'[i].borrowed = None
              /\ Borrowers(i) = {} /\ Comparing(i) = {}
              /\ \A j \in Images : j # i =>
                   /\ img'[j].state = img[j].state /\ img'[j].imported = img[j].imported
                   /\ img'[j].surface = img[j].surface /\ img'[j].borrowed = img[j].borrowed
                   /\ img'[j].borrowCount = img[j].borrowCount
                   /\ j \notin Detached => img'[j] = img[j]
              /\ ListOK(img', Detached \ {i}, cache')
              /\ cache'.count <= cache.count /\ cache'.bytes <= cache.bytes
<1>1. Typed /\ Struct /\ CacheOK /\ ListOK(img, Detached, cache)
  BY DEF Inv, CacheOK
<1>2. PICK i \in Detached :
         /\ img' = Destroyed(UnlinkedImg(img, cache, i), i)
         /\ cache' = UnlinkedCache(img, cache, i)
         /\ images' = images \ {i} /\ lapsed' = lapsed \ {i}
         /\ img[i].borrowCount = 0
  BY <1>1, PruneOldestPicks
<1>3. /\ i \in images /\ i \in Images /\ Detached \subseteq Images /\ cache \in CacheRecord
      /\ img \in [Images -> ImageRecord] /\ unsafe \in BOOLEAN /\ cache.count \in Nat
      /\ img[i].borrowed = None
  BY <1>1 DEF Typed, Detached, CacheRecord, Struct, OwnedOK
<1>4. Borrowers(i) = {} /\ Comparing(i) = {}
  <2>1. img[i].borrowCount = Cardinality(Borrowers(i)) + Cardinality(Comparing(i))
    BY <1>1, <1>3 DEF Struct, BorrowsOK
  <2>2. /\ IsFiniteSet(Borrowers(i)) /\ Cardinality(Borrowers(i)) \in Nat
        /\ IsFiniteSet(Comparing(i)) /\ Cardinality(Comparing(i)) \in Nat
    BY BorrowSetsFinite
  <2>3. Cardinality(Borrowers(i)) = 0 /\ Cardinality(Comparing(i)) = 0
    BY <1>2, <2>1, <2>2
  <2> QED
    BY <2>2, <2>3, FS_EmptySet
<1> DEFINE g == UnlinkedImg(img, cache, i)
<1>5. /\ g \in [Images -> ImageRecord]
      /\ \A j \in Images :
           /\ g[j].state = img[j].state /\ g[j].imported = img[j].imported
           /\ g[j].surface = img[j].surface /\ g[j].borrowed = img[j].borrowed
           /\ g[j].borrowCount = img[j].borrowCount
           /\ j # i /\ j # img[i].prev /\ j # img[i].next => g[j] = img[j]
  BY <1>3, UnlinkedFields
<1>6. /\ ListOK(g, Detached \ {i}, cache')
      /\ cache'.count <= cache.count /\ cache'.bytes <= cache.bytes
  BY <1>1, <1>2, <1>3, UnlinkList
<1>7. cache' \in CacheRecord
  BY <1>2, <1>3, CacheTypes
<1>8. img' = Destroyed(g, i)
  BY <1>2
<1> HIDE DEF g
<1>9. g[i].borrowed = None
  BY <1>3, <1>5
<1>10. PICK r \in ImageRecord :
          /\ img' \in [Images -> ImageRecord] /\ img'[i] = r
          /\ r.state # "live" /\ (r.state = "none" => r = FreshImage) /\ r.borrowed = None
          /\ \A j \in Images : j # i => img'[j] = g[j]
  <2>1. PICK r \in ImageRecord, b \in Images \cup {None} :
           /\ Destroyed(g, i) \in [Images -> ImageRecord] /\ Destroyed(g, i)[i] = r
           /\ r.state # "live" /\ (r.state = "none" => r = FreshImage)
           /\ IF unsafe THEN b = None /\ r.borrowed = g[i].borrowed /\ r.state = "retained"
              ELSE b = g[i].borrowed /\ r = FreshImage
           /\ \A j \in Images : j # i =>
                Destroyed(g, i)[j] = IF j = b THEN [g[j] EXCEPT !.borrowCount = @ - 1] ELSE g[j]
    BY <1>3, <1>5, <1>9, DestroyedFields
  <2>2. b = None /\ r.borrowed = None
    BY <1>3, <1>9, <2>1 DEF FreshImage
  <2>3. \A j \in Images : j # None
    BY BackingAssumption
  <2>4. \A j \in Images : j # i => Destroyed(g, i)[j] = g[j]
    BY <2>1, <2>2, <2>3
  <2> QED
    BY <1>8, <2>1, <2>2, <2>4
<1>11. ASSUME NEW j \in Images, j # i
       PROVE  /\ img'[j].state = img[j].state /\ img'[j].imported = img[j].imported
              /\ img'[j].surface = img[j].surface /\ img'[j].borrowed = img[j].borrowed
              /\ img'[j].borrowCount = img[j].borrowCount
              /\ j \notin Detached => img'[j] = img[j]
  <2>1. img[i].prev \in Detached \cup {None} /\ img[i].next \in Detached \cup {None} /\ j # None
    BY <1>1, <1>3, Neighbours, BackingAssumption
  <2> QED
    BY <1>5, <1>10, <1>11, <2>1
<1>12. ListOK(img', Detached \ {i}, cache')
  <2>1. \A j \in Detached \ {i} : img'[j] = g[j]
    BY <1>3, <1>10
  <2> DEFINE h == img'
             c == cache'
             D == Detached \ {i}
  <2>2. ListOK(g, D, c) /\ \A j \in D : h[j] = g[j]
    BY <1>6, <2>1
  <2> HIDE DEF h, c, D
  <2>3. ListOK(h, D, c)
    BY <2>2, SameList
  <2> QED
    BY <2>3 DEF h, c, D
<1> QED
  BY <1>2, <1>4, <1>6, <1>7, <1>10, <1>11, <1>12

LEMMA PruneOldestInv ==
    ASSUME Inv, PruneOldest, NEW t \in Threads, NEW p \in CallRecord, pc' = [pc EXCEPT ![t] = p],
           UNCHANGED <<surf, scratch, unsafe, mutex>>, MutexOK',
           pc[t].at \in {"reclaim", "pruning", "budgeting"}, CallOK(p),
           p.at = IF pc[t].at = "reclaim" THEN "alloc" ELSE pc[t].at,
           p.surface = pc[t].surface
    PROVE  Inv'
<1>1. Typed /\ Struct /\ LimitsOK
  BY DEF Inv
<1>2. PICK i \in Detached :
         /\ images' = images \ {i} /\ lapsed' = lapsed \ {i}
         /\ img' \in [Images -> ImageRecord] /\ cache' \in CacheRecord
         /\ img'[i].state # "live" /\ (img'[i].state = "none" => img'[i] = FreshImage)
         /\ img'[i].borrowed = None
         /\ Borrowers(i) = {} /\ Comparing(i) = {}
         /\ \A j \in Images : j # i =>
              /\ img'[j].state = img[j].state /\ img'[j].imported = img[j].imported
              /\ img'[j].surface = img[j].surface /\ img'[j].borrowed = img[j].borrowed
              /\ img'[j].borrowCount = img[j].borrowCount
              /\ j \notin Detached => img'[j] = img[j]
         /\ ListOK(img', Detached \ {i}, cache')
         /\ cache'.count <= cache.count /\ cache'.bytes <= cache.bytes
  BY PruneOldestFields
<1>3. /\ i \in images /\ i \in Images /\ images \subseteq Images /\ img[i].surface = None
      /\ img[i].borrowed = None /\ img[i].state = "live"
  BY <1>1 DEF Typed, Detached, Struct, OwnedOK
<1>4. pc'[t] = p /\ \A u \in Threads : u # t => pc'[u] = pc[u]
  BY <1>1 DEF Typed
<1>5. Typed'
  BY <1>1, <1>2 DEF Typed
<1>6. Detached' = Detached \ {i}
  BY <1>2, <1>3 DEF Detached
<1>7. CacheOK'
  BY <1>2, <1>6 DEF CacheOK
<1>8. CallsOK'
  <2>1. CallOK(pc[t])'
    BY <1>4 DEF CallOK
  <2>2. ASSUME NEW u \in Threads, u # t PROVE CallOK(pc[u])'
    <3>1. CallOK(pc[u]) /\ pc'[u] = pc[u]
      BY <1>1, <1>4, <2>2 DEF Struct, CallsOK
    <3>2. pc[u].at = "add" => img'[pc[u].image] = img[pc[u].image]
      <4>1. pc[u].at = "add" => pc[u].image \in Images /\ pc[u].image \notin images
        BY <1>1, <3>1 DEF CallOK, Typed, CallRecord
      <4> QED
        BY <1>2, <1>3, <4>1 DEF Detached
    <3>3. pc[u].at = "layout" => pc[u].image # i
      BY <1>2 DEF Comparing, At
    <3> QED
      BY <1>2, <3>1, <3>2, <3>3 DEF CallOK
  <2> QED
    BY <2>1, <2>2 DEF CallsOK
<1>9. OneCall'
  BY <1>1, <1>4 DEF Struct, OneCall
<1>10. SurfacesOK'
  <2> SUFFICES ASSUME NEW v \in Surfaces, surf[v].image # None
               PROVE  /\ surf[v].live
                      /\ img'[surf[v].image].state = "live" /\ img'[surf[v].image].surface = v
                      /\ IF img'[surf[v].image].imported THEN surf[v].image \notin images'
                         ELSE \/ surf[v].image \in images'
                              \/ \E u \in Threads : pc'[u].at = "add" /\ pc'[u].surface = v
    BY DEF SurfacesOK, At
  <2>1. surf[v].image \in Images /\ v # None
    BY <1>1, BackingAssumption DEF Typed, SurfaceRecord
  <2>2. surf[v].image # i
    BY <1>1, <1>3, <2>1 DEF Struct, SurfacesOK
  <2>3. \A u \in Threads : pc[u].at = "add" => pc'[u] = pc[u]
    BY <1>4
  <2> QED
    BY <1>1, <1>2, <2>1, <2>2, <2>3 DEF Struct, SurfacesOK, At
<1>11. OwnedOK'
  BY <1>1, <1>2, <1>3 DEF Struct, OwnedOK
<1>12. FreshOK'
  <2> SUFFICES ASSUME NEW j \in Images, img'[j].state = "none" PROVE img'[j] = FreshImage
    BY DEF FreshOK
  <2>1. CASE j = i
    BY <1>2, <2>1
  <2>2. CASE j # i
    <3>1. img[j].state = "none"
      BY <1>2, <2>2
    <3>2. j \notin Detached
      BY <1>1, <3>1 DEF Struct, OwnedOK, Detached
    <3> QED
      BY <1>1, <1>2, <2>2, <3>1, <3>2 DEF Struct, FreshOK
  <2> QED
    BY <2>1, <2>2
<1>13. BorrowsOK'
  <2>1. \A j \in Images : img'[j].borrowed = img[j].borrowed
    BY <1>2, <1>3
  <2>2. \A k : Borrowers(k)' = Borrowers(k)
    BY <2>1 DEF Borrowers
  <2>3. \A k : Comparing(k)' = Comparing(k)
    BY <1>4 DEF Comparing, At
  <2>4. \A j \in Images : img[j].borrowed # i
    BY <1>2 DEF Borrowers
  <2>5. \A j \in Images : img'[j].borrowed # None => img'[j].borrowed \in images'
    BY <1>1, <1>2, <2>1, <2>4 DEF Struct, BorrowsOK
  <2>6. \A k \in images' : img'[k].borrowCount = Cardinality(Borrowers(k)') + Cardinality(Comparing(k)')
    BY <1>1, <1>2, <1>3, <2>2, <2>3 DEF Struct, BorrowsOK
  <2> QED
    BY <2>5, <2>6 DEF BorrowsOK
<1>14. Struct'
  BY <1>8, <1>9, <1>10, <1>11, <1>12, <1>13 DEF Struct
<1>15. LimitsOK'
  <2>1. \A j \in Detached' : (img[j].borrowCount > 0 \/ j \in lapsed)
                             => (img'[j].borrowCount > 0 \/ j \in lapsed')
    BY <1>2, <1>3, <1>6 DEF Detached
  <2>2. \A u \in Threads : pc[u].at \in {"prune", "pruning"} => pc'[u].at \in {"prune", "pruning"}
    BY <1>4
  <2>3. scratch' <= scratch
    BY <1>1 DEF Typed
  <2> QED
    BY <1>1, <1>2, <1>5, <1>6, <2>1, <2>2, <2>3, LimitsKept
<1> QED
  BY <1>5, <1>7, <1>14, <1>15 DEF Inv

LEMMA ReclaimInv ==
    ASSUME Inv, NEW t \in Threads, Reclaim(t)
    PROVE  Inv'
<1>1. Typed /\ CallOK(pc[t]) /\ MutexOK
  BY DEF Inv, Struct, CallsOK
<1>2. pc[t].at = "reclaim" /\ PruneOldest /\ UNCHANGED <<surf, scratch, unsafe, mutex>>
  BY DEF Reclaim, At
<1>3. PICK p \in CallRecord :
         /\ pc' = [pc EXCEPT ![t] = p]
         /\ p.at = "alloc" /\ p.surface = pc[t].surface /\ p.image = pc[t].image
  BY <1>1, GotoRecord DEF Reclaim
<1>4. CallOK(p)
  BY <1>1, <1>2, <1>3 DEF CallOK
<1>5. MutexOK'
  BY <1>1, <1>2, <1>3, MutexKept
<1> QED
  BY <1>2, <1>3, <1>4, <1>5, PruneOldestInv

LEMMA PruneLoopsInv ==
    ASSUME Inv, NEW t \in Threads, PruneToLimits(t) \/ PruneToMemoryBudget(t)
    PROVE  Inv'
<1>1. Typed /\ CallOK(pc[t]) /\ MutexOK
  BY DEF Inv, Struct, CallsOK
<1>2. pc[t].at \in {"pruning", "budgeting"} /\ PruneOldest
      /\ UNCHANGED <<surf, scratch, unsafe, mutex, pc>>
  BY DEF PruneToLimits, PruneToMemoryBudget, At
<1>3. PICK p \in CallRecord : p = pc[t] /\ pc' = [pc EXCEPT ![t] = p]
  BY <1>1, <1>2 DEF Typed
<1>4. MutexOK'
  BY <1>1, <1>2 DEF MutexOK
<1> QED
  BY <1>1, <1>2, <1>3, <1>4, PruneOldestInv

-----------------------------------------------------------------------------
(* The invariant holds in every reachable state.                           *)

\* The state a driver starts in.
LEMMA EmptyDriver ==
    ASSUME img = [i \in Images |-> FreshImage], surf = [s \in Surfaces |-> NoSurface],
           images = {}, cache = EmptyCache, scratch = 0, lapsed = {},
           unsafe \in BOOLEAN, mutex \in Threads \cup {None}, pc \in [Threads -> CallRecord],
           \A t \in Threads : pc[t].at = "idle" /\ pc[t].surface = None /\ pc[t].image = None,
           MutexOK
    PROVE  Inv
<1>1. Typed
  BY ConstantTypes DEF Typed
<1>2. CallsOK
  BY DEF CallsOK, CallOK
<1>3. OneCall
  BY DEF OneCall
<1>4. SurfacesOK
  BY DEF SurfacesOK, NoSurface
<1>5. OwnedOK /\ FreshOK
  BY DEF OwnedOK, FreshOK
<1>6. BorrowsOK
  BY DEF BorrowsOK, FreshImage
<1>7. Detached = {}
  BY DEF Detached
<1>8. CacheOK
  BY <1>7, EmptyList DEF CacheOK
<1>9. LimitsOK
  BY <1>7 DEF LimitsOK, Excused
<1> QED
  BY <1>1, <1>2, <1>3, <1>4, <1>5, <1>6, <1>8, <1>9 DEF Inv, Struct

LEMMA InitInv == Init => Inv
<1> SUFFICES ASSUME Init PROVE Inv
  OBVIOUS
<1>1. pc \in [Threads -> CallRecord]
  BY ConstantTypes DEF Init
<1>2. \A t \in Threads : pc[t].at = "idle" /\ pc[t].surface = None /\ pc[t].image = None
  BY DEF Init, Idle
<1>3. MutexOK
  BY <1>2, BackingAssumption DEF Init, MutexOK
<1> QED
  BY <1>1, <1>2, <1>3, EmptyDriver DEF Init

LEMMA NvTerminateInv ==
    ASSUME Inv, NvTerminate
    PROVE  Inv'
<1>1. Typed /\ Struct /\ MutexOK
  BY DEF Inv
<1>2. \A t \in Threads : pc[t].at = "idle" /\ pc[t].surface = None /\ pc[t].image = None
  BY <1>1 DEF NvTerminate, At, Struct, CallsOK, CallOK
<1>3. MutexOK'
  BY <1>1 DEF MutexOK, NvTerminate
<1>4. /\ img' = [i \in Images |-> FreshImage] /\ surf' = [s \in Surfaces |-> NoSurface]
      /\ images' = {} /\ cache' = EmptyCache /\ scratch' = 0 /\ lapsed' = {}
      /\ UNCHANGED <<unsafe, mutex, pc>>
  BY DEF NvTerminate
<1>5. Typed'
  BY <1>1, <1>4, ConstantTypes DEF Typed
<1>6. CallsOK'
  BY <1>2, <1>4 DEF CallsOK, CallOK
<1>7. OneCall'
  BY <1>2, <1>4 DEF OneCall
<1>8. SurfacesOK'
  BY <1>4 DEF SurfacesOK, NoSurface
<1>9. OwnedOK' /\ FreshOK'
  BY <1>4 DEF OwnedOK, FreshOK
<1>10. BorrowsOK'
  BY <1>4 DEF BorrowsOK, FreshImage
<1>11. Detached' = {}
  BY <1>4 DEF Detached
<1>12. CacheOK'
  BY <1>4, <1>11, EmptyList DEF CacheOK
<1>13. LimitsOK'
  BY <1>11 DEF LimitsOK, Excused
<1> QED
  BY <1>3, <1>5, <1>6, <1>7, <1>8, <1>9, <1>10, <1>12, <1>13 DEF Inv, Struct

LEMMA NextInv ==
    ASSUME Inv, [Next]_vars
    PROVE  Inv'
<1>1. ASSUME NEW t \in Threads, SurfaceCall(t) PROVE Inv'
  <2>1. PICK s \in Surfaces :
           \/ NvCreateSurface(t, s) \/ RealiseSurface(t, s)
           \/ ImportUnknown(t, s) \/ RetainBackingImageByFd(t, s)
           \/ DetachNothing(t, s) \/ DetachImported(t, s) \/ DetachOwned(t, s)
    BY <1>1 DEF SurfaceCall
  <2> QED
    BY <2>1, SurfaceOnlyInv, RealiseSurfaceInv, ImportUnknownInv, RetainBackingImageByFdInv,
       DetachImportedInv, DetachOwnedInv
<1>2. ASSUME NEW t \in Threads, Step(t) PROVE Inv'
  <2>1. CASE AllocateBackingImage(t) \/ AllocateFail(t) \/ AllocateUnsafe(t)
    BY <2>1, AllocateBackingImageInv, AllocateFailInv, AllocateUnsafeInv
  <2>2. CASE Reclaim(t) \/ RealiseFail(t) \/ AddImage(t) \/ AddFail(t)
    BY <2>2, ReclaimInv, EndsInv, AddImageInv, AddFailInv
  <2>3. CASE ImportMatch(t) \/ ImportMismatch(t) \/ ImportExternal(t) \/ ImportFail(t)
    BY <2>3, ImportedInv, ImportMismatchInv, EndsInv
  <2>4. CASE PruneLock(t) \/ PruneToLimits(t) \/ PruneDone(t)
    BY <2>4, PruneLockInv, PruneLoopsInv, PruneDoneInv
  <2>5. CASE PruneToMemoryBudget(t) \/ BudgetDone(t) \/ GrowScratch(t) \/ GrowFail(t)
    BY <2>5, PruneLoopsInv, BudgetDoneInv, GrowScratchInv, EndsInv
  <2>6. CASE TrimVideoProcScratch(t)
    BY <2>6, AloneInv
  <2>7. CASE \E extra \in 1 .. VideoProcScratchMaxBytes : EnsureVideoProcBuffer(t, extra)
    BY <2>7, EnsureVideoProcBufferInv
  <2> QED
    BY <1>2, <2>1, <2>2, <2>3, <2>4, <2>5, <2>6, <2>7 DEF Step
<1> QED
  BY <1>1, <1>2, NvTerminateInv, AloneInv DEF Next

LEMMA InvHolds == Spec => []Inv
<1>1. Inv /\ [Next]_vars => Inv'
  BY NextInv
<1> QED
  BY <1>1, InitInv, PTL DEF Spec

-----------------------------------------------------------------------------
(* The theorems.                                                           *)

\* No use after free among the backing images of the direct backend: whatever
\* threads allocate, import, detach, prune and reclaim, for any number of them,
\* a surface's image is live and points back to it, drv->images owns live
\* images only, a borrowed image outlives its importer and a call under way
\* holds a live image.
THEOREM ImagesCorrect == Spec => []NoDanglingImage
<1>1. ASSUME Inv PROVE NoDanglingImage
  <2>1. Typed /\ Struct
    BY <1>1 DEF Inv
  <2>2. \A t \in Threads : pc[t].image # None => img[pc[t].image].state = "live"
    <3> SUFFICES ASSUME NEW t \in Threads, pc[t].image # None
                 PROVE  img[pc[t].image].state = "live"
      OBVIOUS
    <3>1. CallOK(pc[t]) /\ pc[t].surface \in Surfaces \cup {None}
      BY <2>1 DEF Struct, CallsOK, Typed, CallRecord
    <3>2. CASE pc[t].at = "add"
      BY <2>1, <3>1, <3>2 DEF CallOK, Struct, SurfacesOK
    <3>3. CASE pc[t].at # "add"
      BY <2>1, <3>1, <3>3 DEF CallOK, Struct, OwnedOK
    <3> QED
      BY <3>2, <3>3
  <2> QED
    BY <2>1, <2>2 DEF NoDanglingImage, Struct, SurfacesOK, OwnedOK, BorrowsOK
<1> QED
  BY <1>1, InvHolds, PTL

\* The detached list is exact after any order of detaches, prunings, reclaims
\* and borrows: following the next links from its head meets each owned image
\* without a surface once, in the order of the detaches, the links agree in
\* both directions, and the count and the bytes are those of its members.
THEOREM DetachedListCorrect == Spec => []DetachedListExact
<1>1. ASSUME Inv PROVE DetachedListExact
  <2>1. Typed /\ CacheOK /\ Listed = Detached /\ Detached \in SUBSET Images
    BY <1>1, ListedDetached DEF Inv, Typed, Detached
  <2>2. PICK L \in [1 .. cache.count -> Images] : Ordered(img, Detached, cache, L)
    BY <2>1 DEF CacheOK, ListOK
  <2>3. cache.count \in Nat /\ img \in [Images -> ImageRecord]
    BY <2>1 DEF Typed, CacheRecord
  <2>4. /\ \A k, l \in 1 .. cache.count : L[k] = L[l] => k = l
        /\ Cardinality(Detached) = cache.count
    BY <2>1, <2>2, <2>3, ListLength
  <2>5. cache.bytes = Cardinality(BytesOf(Listed))
    BY <2>1 DEF CacheOK, ListOK, Bytes, BytesOf
  <2>6. \A k \in 1 .. cache.count : L[k] # None
    BY BackingAssumption
  <2>7. (cache.head = None) = (cache.tail = None)
    <3>1. CASE cache.count = 0
      BY <2>2, <3>1 DEF Ordered
    <3>2. CASE cache.count # 0
      <4>1. 1 \in 1 .. cache.count /\ cache.count \in 1 .. cache.count
        BY <2>3, <3>2
      <4> QED
        BY <2>2, <2>6, <3>2, <4>1 DEF Ordered
    <3> QED
      BY <3>1, <3>2
  <2>8. ASSUME NEW i \in Detached
        PROVE  /\ (img[i].prev = None) = (cache.head = i)
               /\ (img[i].next = None) = (cache.tail = i)
               /\ img[i].next # None => /\ img[img[i].next].prev = i
                                       /\ img[img[i].next].serial > img[i].serial
    <3>1. PICK k \in 1 .. cache.count : L[k] = i
      BY <2>2 DEF Ordered
    <3>2. /\ 1 \in 1 .. cache.count /\ cache.count \in 1 .. cache.count /\ cache.count # 0
          /\ k # 1 => k - 1 \in 1 .. cache.count
          /\ k # cache.count => k + 1 \in 1 .. cache.count /\ k < k + 1 /\ (k + 1) - 1 = k /\ k + 1 # 1
      BY <2>3
    <3>3. cache.head = L[1] /\ cache.tail = L[cache.count]
      BY <2>2, <3>2 DEF Ordered
    <3>4. /\ img[i].prev = IF k = 1 THEN None ELSE L[k - 1]
          /\ img[i].next = IF k = cache.count THEN None ELSE L[k + 1]
      BY <2>2, <3>1 DEF Ordered
    <3>5. (img[i].prev = None) = (cache.head = i)
      BY <2>4, <2>6, <3>1, <3>2, <3>3, <3>4
    <3>6. (img[i].next = None) = (cache.tail = i)
      BY <2>4, <2>6, <3>1, <3>2, <3>3, <3>4
    <3>7. ASSUME k # cache.count
          PROVE  img[L[k + 1]].prev = i /\ img[L[k + 1]].serial > img[i].serial
      <4>1. /\ img[L[k + 1]].prev = L[(k + 1) - 1]
            /\ img[L[k]].serial < img[L[k + 1]].serial
        BY <2>2, <3>2, <3>7 DEF Ordered
      <4>2. L[k + 1] \in Images
        BY <3>2, <3>7
      <4>3. img[L[k]].serial \in Nat /\ img[L[k + 1]].serial \in Nat
        BY <2>3, <4>2 DEF ImageRecord
      <4> QED
        BY <3>1, <3>2, <3>7, <4>1, <4>3
    <3> QED
      BY <3>4, <3>5, <3>6, <3>7
  <2> QED
    BY <2>1, <2>4, <2>5, <2>7, <2>8 DEF DetachedListExact, Detached
<1> QED
  BY <1>1, InvHolds, PTL

\* No borrow is lost or returned twice: the count of an image is the number of
\* its importers plus the imports that are comparing its layout.
THEOREM BorrowsCorrect == Spec => []BorrowsCounted
<1>1. ASSUME Inv PROVE BorrowsCounted
  BY <1>1 DEF Inv, Struct, BorrowsOK, BorrowsCounted, Borrowers, Comparing
<1> QED
  BY <1>1, InvHolds, PTL

\* The cache of detached images is within its number, its bytes and the memory
\* budget once no detach is left to prune it, whatever the limits are, unless
\* every image in it is borrowed or was left over by a borrow that ended or by
\* scratch memory that grew.
THEOREM CacheBoundCorrect == Spec => []CacheBounded
<1>1. ASSUME Inv PROVE CacheBounded
  <2>1. Typed /\ CacheOK /\ Listed = Detached /\ MutexOK /\ LimitsOK
    BY <1>1, ListedDetached DEF Inv
  <2>2. mutex = None => \A t \in Threads : pc[t].at # "pruning"
    BY <2>1, BackingAssumption DEF MutexOK
  <2> QED
    BY <2>1, <2>2 DEF CacheBounded, LimitsOK, WithinLimits, Excused, At
<1> QED
  BY <1>1, InvHolds, PTL

\* Destroying an image changes the surface of no other one.
LEMMA DestroyedSurfaces ==
    ASSUME NEW f \in [Images -> ImageRecord], NEW i \in Images
    PROVE  \A j \in Images : j # i => Destroyed(f, i)[j].surface = f[j].surface
<1>1. \A j \in Images : f[j] \in ImageRecord
  OBVIOUS
<1>2. \A j \in Images : ReleaseBorrow(f, i)[j].surface = f[j].surface
  BY <1>1 DEF ReleaseBorrow, ImageRecord
<1>3. CASE unsafe
  <2>1. Destroyed(f, i) = [f EXCEPT ![i].state = "retained"]
    BY <1>3 DEF Destroyed
  <2> QED
    BY <2>1
<1>4. CASE ~unsafe
  <2> DEFINE g == ReleaseBorrow(f, i)
  <2>1. Destroyed(f, i) = [g EXCEPT ![i] = FreshImage]
    BY <1>4 DEF Destroyed
  <2>2. DOMAIN g = Images
    BY DEF ReleaseBorrow
  <2>3. \A j \in Images : g[j].surface = f[j].surface
    BY <1>2
  <2> HIDE DEF g
  <2> QED
    BY <2>1, <2>2, <2>3
<1> QED
  BY <1>3, <1>4

\* A step that neither prunes nor terminates: no image leaves drv->images, and
\* none leaves the cache.
Keeping ==
    /\ images \subseteq images'
    /\ \A i \in images : img[i].surface = None => img'[i].surface = None

LEMMA QuietKeeps ==
    ASSUME img' = img, images \subseteq images' PROVE Keeping
  BY DEF Keeping

LEMMA NewImageKeeps ==
    ASSUME Inv, NEW t \in Threads,
           AllocateBackingImage(t) \/ AllocateUnsafe(t) \/ ImportMatch(t) \/ ImportExternal(t)
    PROVE  Keeping
<1>1. Typed /\ Struct
  BY DEF Inv
<1>2. PICK i \in Images : Free(i) /\ \A j \in Images : j # i => img'[j] = img[j]
  <2>1. img \in [Images -> ImageRecord]
    BY <1>1 DEF Typed
  <2>2. CASE AllocateBackingImage(t)
    BY <2>1, <2>2 DEF AllocateBackingImage
  <2>3. CASE AllocateUnsafe(t)
    BY <2>1, <2>3 DEF AllocateUnsafe
  <2>4. CASE ImportMatch(t)
    BY <2>1, <2>4 DEF ImportMatch, Imported
  <2>5. CASE ImportExternal(t)
    BY <2>1, <2>5 DEF ImportExternal, Imported
  <2> QED
    BY <2>2, <2>3, <2>4, <2>5
<1>3. i \notin images /\ images \subseteq Images /\ images' = images
  BY <1>1, <1>2, FreeUnused DEF AllocateBackingImage, AllocateUnsafe, ImportMatch,
     ImportExternal, Imported, Typed
<1> QED
  BY <1>2, <1>3 DEF Keeping

LEMMA AddFailKeeps ==
    ASSUME Inv, NEW t \in Threads, AddFail(t)
    PROVE  Keeping
<1>1. Typed /\ CallOK(pc[t])
  BY DEF Inv, Struct, CallsOK
<1>2. PICK i \in Images : i \notin images /\ pc[t].image = i
  BY <1>1 DEF AddFail, At, CallOK, Typed, CallRecord
<1> DEFINE f == [img EXCEPT ![i].surface = None]
<1>3. img' = Destroyed(f, i) /\ images' = images /\ images \subseteq Images
  BY <1>1, <1>2 DEF AddFail, Typed
<1>4. f \in [Images -> ImageRecord] /\ \A j \in Images : j # i => f[j] = img[j]
  BY <1>1 DEF Typed, ImageRecord
<1> HIDE DEF f
<1>5. \A j \in Images : j # i => img'[j].surface = img[j].surface
  BY <1>3, <1>4, DestroyedSurfaces
<1> QED
  BY <1>2, <1>3, <1>5 DEF Keeping

LEMMA DetachImportedKeeps ==
    ASSUME Inv, NEW t \in Threads, NEW s \in Surfaces, DetachImported(t, s)
    PROVE  Keeping
<1>1. Typed /\ Struct
  BY DEF Inv
<1>2. PICK i \in Images : surf[s].image = i /\ i # None /\ img[i].imported
  BY <1>1 DEF DetachImported, Typed, SurfaceRecord
<1>3. img' = Destroyed(img, i) /\ images' = images /\ images \subseteq Images /\ i \notin images
  BY <1>1, <1>2 DEF DetachImported, Typed, Struct, OwnedOK
<1>4. \A j \in Images : j # i => img'[j].surface = img[j].surface
  BY <1>1, <1>3, DestroyedSurfaces DEF Typed
<1> QED
  BY <1>3, <1>4 DEF Keeping

LEMMA BorrowKeeps ==
    ASSUME Inv, NEW t \in Threads,
           ImportMismatch(t) \/ \E s \in Surfaces : RetainBackingImageByFd(t, s)
    PROVE  Keeping
<1>1. Typed
  BY DEF Inv
<1>2. images' = images /\ images \subseteq Images
  BY <1>1 DEF ImportMismatch, RetainBackingImageByFd, Typed
<1>3. \E b, n : img' = [img EXCEPT ![b].borrowCount = n]
  BY DEF ImportMismatch, RetainBackingImageByFd
<1>4. \A j \in Images : img'[j].surface = img[j].surface
  BY <1>1, <1>3 DEF Typed, ImageRecord
<1> QED
  BY <1>2, <1>4 DEF Keeping

LEMMA DetachOwnedKeeps ==
    ASSUME Inv, NEW t \in Threads, NEW s \in Surfaces, DetachOwned(t, s)
    PROVE  Keeping
<1>1. Typed
  BY DEF Inv
<1>2. PICK i \in Images : surf[s].image = i /\ i # None
  BY <1>1 DEF DetachOwned, Typed, SurfaceRecord
<1> DEFINE f == [img EXCEPT ![i].surface = None, ![i].serial = cache.serial + 1]
<1>3. img' = LinkedImg(f, cache, i) /\ images' = images /\ images \subseteq Images
  BY <1>1, <1>2 DEF DetachOwned, Typed
<1>4. /\ f \in [Images -> ImageRecord]
      /\ \A j \in Images : f[j].surface = IF j = i THEN None ELSE img[j].surface
  <2> DEFINE n == cache.serial + 1
             r == [img[i] EXCEPT !.surface = None, !.serial = n]
  <2>1. /\ img[i] \in ImageRecord /\ n \in Nat /\ img \in [Images -> ImageRecord]
    BY <1>1 DEF Typed, CacheRecord
  <2>2. f = [img EXCEPT ![i] = r]
    BY <2>1
  <2>3. r \in ImageRecord /\ r.surface = None
    <3> HIDE DEF n
    <3> QED
      BY <2>1 DEF ImageRecord
  <2> HIDE DEF f, r
  <2> QED
    BY <2>1, <2>2, <2>3
<1> HIDE DEF f
<1>5. \A j \in Images : img'[j].surface = f[j].surface
  <2> SUFFICES ASSUME NEW j \in Images PROVE LinkedImg(f, cache, i)[j].surface = f[j].surface
    BY <1>3
  <2>1. f[j] \in ImageRecord
    BY <1>4
  <2>2. CASE j = i /\ j # cache.tail
    BY <2>1, <2>2 DEF LinkedImg, ImageRecord
  <2>3. CASE j = i /\ j = cache.tail
    BY <2>1, <2>3 DEF LinkedImg, ImageRecord
  <2>4. CASE j # i /\ j = cache.tail
    BY <2>1, <2>4 DEF LinkedImg, ImageRecord
  <2>5. CASE j # i /\ j # cache.tail
    BY <2>5 DEF LinkedImg
  <2> QED
    BY <2>2, <2>3, <2>4, <2>5
<1> QED
  BY <1>3, <1>4, <1>5 DEF Keeping

LEMMA StepKeeps ==
    ASSUME Inv, Next
    PROVE  Keeping \/ PruneOldest \/ NvTerminate
<1>1. ASSUME NEW t \in Threads, SurfaceCall(t) PROVE Keeping
  <2>1. PICK s \in Surfaces :
           \/ NvCreateSurface(t, s) \/ RealiseSurface(t, s)
           \/ ImportUnknown(t, s) \/ RetainBackingImageByFd(t, s)
           \/ DetachNothing(t, s) \/ DetachImported(t, s) \/ DetachOwned(t, s)
    BY <1>1 DEF SurfaceCall
  <2>2. CASE NvCreateSurface(t, s) \/ RealiseSurface(t, s) \/ ImportUnknown(t, s)
             \/ DetachNothing(t, s)
    BY <2>2, QuietKeeps DEF NvCreateSurface, RealiseSurface, ImportUnknown, DetachNothing
  <2> QED
    BY <2>1, <2>2, BorrowKeeps, DetachImportedKeeps, DetachOwnedKeeps
<1>2. ASSUME NEW t \in Threads, Step(t) PROVE Keeping \/ PruneOldest
  <2>1. CASE AllocateBackingImage(t) \/ AllocateUnsafe(t) \/ ImportMatch(t) \/ ImportExternal(t)
    BY <2>1, NewImageKeeps
  <2>2. CASE AllocateFail(t) \/ RealiseFail(t) \/ AddImage(t) \/ ImportFail(t)
    BY <2>2, QuietKeeps DEF AllocateFail, RealiseFail, AddImage, ImportFail
  <2>3. CASE AddFail(t) \/ ImportMismatch(t)
    BY <2>3, AddFailKeeps, BorrowKeeps
  <2>4. CASE Reclaim(t) \/ PruneToLimits(t) \/ PruneToMemoryBudget(t)
    BY <2>4 DEF Reclaim, PruneToLimits, PruneToMemoryBudget
  <2>5. CASE PruneLock(t) \/ PruneDone(t) \/ BudgetDone(t)
    BY <2>5, QuietKeeps DEF PruneLock, PruneDone, BudgetDone
  <2>6. CASE GrowScratch(t) \/ GrowFail(t) \/ TrimVideoProcScratch(t)
    BY <2>6, QuietKeeps DEF GrowScratch, GrowFail, TrimVideoProcScratch
  <2>7. CASE \E extra \in 1 .. VideoProcScratchMaxBytes : EnsureVideoProcBuffer(t, extra)
    BY <2>7, QuietKeeps DEF EnsureVideoProcBuffer
  <2> QED
    BY <1>2, <2>1, <2>2, <2>3, <2>4, <2>5, <2>6, <2>7 DEF Step
<1>3. GpuFails => Keeping
  BY QuietKeeps DEF GpuFails
<1> QED
  BY <1>1, <1>2, <1>3 DEF Next

\* The list is the detached images.
ListsAgree == Listed = Detached

\* Images leave the cache oldest first: when one is pruned, every older one that
\* stays is borrowed; and no image of a living surface is ever evicted, neither
\* by the three limits nor by a reclaim when an allocation fails.
THEOREM EvictionCorrect == Spec => EvictionOrder
<1> DEFINE Evicts == /\ \A i \in Listed \ Listed' : \A j \in Listed' \cap Listed :
                          img[j].serial < img[i].serial => img[j].borrowCount > 0
                     /\ \A i \in images \ images' :
                          img[i].surface # None => ~surf'[img[i].surface].live
<1>1. Inv => ListsAgree
  BY ListedDetached DEF Inv, ListsAgree
<1>2. Inv /\ ListsAgree /\ ListsAgree' /\ [Next]_vars => [Evicts]_vars
  <2> SUFFICES ASSUME Inv, ListsAgree, ListsAgree', Next PROVE Evicts
    OBVIOUS
  <2>1. Typed /\ Struct /\ CacheOK /\ Listed = Detached /\ Listed' = Detached'
    BY DEF Inv, ListsAgree
  <2>2. CASE Keeping
    <3>1. Detached \subseteq Detached' /\ images \subseteq images'
      BY <2>2 DEF Keeping, Detached
    <3> QED
      BY <2>1, <3>1
  <2>3. CASE PruneOldest
    <3>1. PICK i \in Detached :
             /\ images' = images \ {i}
             /\ \A j \in Detached : img[j].serial < img[i].serial => img[j].borrowCount > 0
      BY <2>1, <2>3, PruneOldestPicks
    <3>2. PICK k \in Detached :
             /\ images' = images \ {k}
             /\ \A j \in Images : j # k => img'[j].surface = img[j].surface
      BY <2>3, PruneOldestFields
    <3>3. i \in images /\ k \in images /\ images \subseteq Images /\ img[i].surface = None
      BY <2>1 DEF Detached, Typed
    <3>4. k = i
      BY <3>1, <3>2, <3>3
    <3>5. \A j \in Detached : j # i => j \in Detached'
      BY <3>1, <3>2, <3>3, <3>4 DEF Detached
    <3> QED
      BY <2>1, <3>1, <3>3, <3>5
  <2>4. CASE NvTerminate
    <3>1. images' = {} /\ surf' = [s \in Surfaces |-> NoSurface]
      BY <2>4 DEF NvTerminate
    <3>2. Detached' = {}
      BY <3>1 DEF Detached
    <3>3. \A i \in images : img[i].surface \in Surfaces \cup {None}
      BY <2>1 DEF Typed, ImageRecord
    <3> QED
      BY <2>1, <3>1, <3>2, <3>3 DEF NoSurface
  <2> QED
    BY <2>2, <2>3, <2>4, StepKeeps
<1> QED
  BY <1>1, <1>2, InvHolds, PTL DEF EvictionOrder, Spec
=============================================================================
