--------------------------- MODULE BuffersProofs ----------------------------
(***************************************************************************)
(* Proofs about ObjectTable, for every capacity, generation count and set  *)
(* of object types, and about Buffers, which has the objects in such a     *)
(* table, for any number of threads, size classes, blocks and sizes.       *)
(***************************************************************************)
EXTENDS Buffers, NumberFacts

-----------------------------------------------------------------------------
(* Arithmetic of the IDs.                                                  *)

\* The two halves of an ID do not disturb each other.
LEMMA DivMod ==
    ASSUME NEW b \in Nat \ {0}, NEW q \in Nat, NEW r \in 0 .. b - 1
    PROVE  (q * b + r) \div b = q /\ (q * b + r) % b = r
<1> DEFINE n == q * b + r
           d == n \div b
           m == n % b
<1>1. n \in Nat
  <2>1. q * b \in Nat
    OBVIOUS
  <2> QED
    BY <2>1
<1>2. n = b * d + m /\ m \in 0 .. b - 1 /\ d \in Nat
  <2> HIDE DEF n
  <2> QED
    BY <1>1
<1>3. d = q
  <2> SUFFICES ASSUME d # q PROVE FALSE
    OBVIOUS
  <2> HIDE DEF d, m
  <2>1. b * d + m = b * q + r
    BY <1>2
  <2>2. b * (d - q) = r - m
    BY <1>2, <2>1
  <2> DEFINE e == d - q
  <2>3. e \in Int /\ e # 0 /\ b * e = r - m
    BY <1>2, <2>2
  <2> HIDE DEF e
  <2>4. CASE e >= 1
    <3>1. b * e >= b
      BY <2>3, <2>4
    <3> QED
      BY <1>2, <2>3, <3>1
  <2>5. CASE e <= -1
    <3>1. b * e <= -b
      BY <2>3, <2>5
    <3> QED
      BY <1>2, <2>3, <3>1
  <2> QED
    BY <2>3, <2>4, <2>5
<1> QED
  <2> HIDE DEF d, m
  <2>1. m = r
    BY <1>2, <1>3
  <2> QED
    BY <1>3, <2>1 DEF d, m

\* An ID gives back the generation and the index it was made of.
LEMMA IdParts ==
    ASSUME NEW g \in 0 .. MaxGeneration, NEW i \in 0 .. MaxCapacity - 1
    PROVE  /\ MakeId(g, i) \in Ids /\ MakeId(g, i) \in Nat
           /\ GenerationOf(MakeId(g, i)) = g /\ IndexOf(MakeId(g, i)) = i
<1> USE TableAssumption
<1>1. g * MaxCapacity \in Nat /\ g * MaxCapacity <= MaxGeneration * MaxCapacity
      /\ MaxGeneration * MaxCapacity \in Nat
  <2>1. g * MaxCapacity \in Nat /\ MaxGeneration * MaxCapacity \in Nat
    OBVIOUS
  <2>2. MaxGeneration * MaxCapacity = g * MaxCapacity + (MaxGeneration - g) * MaxCapacity
    OBVIOUS
  <2>3. (MaxGeneration - g) * MaxCapacity >= 0
    OBVIOUS
  <2> QED
    BY <2>1, <2>2, <2>3
<1>2. (g * MaxCapacity + i) \div MaxCapacity = g /\ (g * MaxCapacity + i) % MaxCapacity = i
  BY DivMod
<1>3. g % (MaxGeneration + 1) = g
  OBVIOUS
<1>4. g * MaxCapacity + i \in 0 .. MaxGeneration * MaxCapacity + (MaxCapacity - 1)
  BY <1>1
<1> QED
  BY <1>1, <1>2, <1>3, <1>4 DEF MakeId, Ids, GenerationOf, IndexOf

\* Every ID is made of its generation and its index.
LEMMA IdWhole ==
    ASSUME NEW id \in Ids
    PROVE  id \in Nat /\ id = MakeId(GenerationOf(id), IndexOf(id))
<1> USE TableAssumption
<1> DEFINE d == id \div MaxCapacity
           m == id % MaxCapacity
           top == MaxGeneration * MaxCapacity
<1>1. top \in Nat
  OBVIOUS
<1>2. id \in 0 .. top + (MaxCapacity - 1) /\ id \in Nat
  BY <1>1 DEF Ids, MakeId
<1>3. d \in Nat /\ m \in 0 .. MaxCapacity - 1 /\ id = d * MaxCapacity + m
  <2> HIDE DEF top
  <2> QED
    BY <1>2
<1>4. d <= MaxGeneration
  <2> SUFFICES ASSUME d >= MaxGeneration + 1 PROVE FALSE
    BY <1>3
  <2> HIDE DEF d, m
  <2>1. d * MaxCapacity = top + (d - MaxGeneration) * MaxCapacity
    BY <1>3
  <2>2. (d - MaxGeneration) * MaxCapacity >= MaxCapacity
    BY <1>3
  <2>3. d * MaxCapacity \in Nat /\ (d - MaxGeneration) * MaxCapacity \in Int
    BY <1>3
  <2> HIDE DEF top
  <2> QED
    BY <1>1, <1>2, <1>3, <2>1, <2>2, <2>3
<1>5. d % (MaxGeneration + 1) = d
  <2> HIDE DEF d, m, top
  <2> QED
    BY <1>3, <1>4
<1> QED
  BY <1>2, <1>3, <1>5 DEF MakeId, GenerationOf, IndexOf

\* Two counts with the same remainder are a whole period apart.
LEMMA SameRemainder ==
    ASSUME NEW M \in Nat \ {0}, NEW u \in Nat, NEW v \in Nat, u < v, u % M = v % M
    PROVE  v - u >= M
<1> DEFINE a == u \div M
           c == v \div M
<1>1. /\ a \in Nat /\ u = M * a + (u % M)
      /\ c \in Nat /\ v = M * c + (v % M)
  OBVIOUS
<1> HIDE DEF a, c
<1>2. M * (c - a) = v - u
  BY <1>1
<1> DEFINE e == c - a
<1>3. e \in Int /\ M * e = v - u
  BY <1>1, <1>2
<1> HIDE DEF e
<1>4. e >= 1
  <2> SUFFICES ASSUME e <= 0 PROVE FALSE
    BY <1>3
  <2>1. M * e <= 0
    BY <1>3
  <2> QED
    BY <1>3, <2>1
<1>5. M * e >= M
  BY <1>3, <1>4
<1> QED
  BY <1>3, <1>5

\* The generation after n uses, and after one more.
LEMMA GenerationStep ==
    ASSUME NEW n \in Nat
    PROVE  /\ (n % MaxGeneration) + 1 \in 1 .. MaxGeneration
           /\ NextGeneration((n % MaxGeneration) + 1) = ((n + 1) % MaxGeneration) + 1
<1> USE TableAssumption
<1> DEFINE r == n % MaxGeneration
           a == n \div MaxGeneration
<1>1. n = MaxGeneration * a + r /\ r \in 0 .. MaxGeneration - 1 /\ a \in Nat
  OBVIOUS
<1> HIDE DEF r, a
<1>2. (n + 1) % MaxGeneration = IF r + 1 = MaxGeneration THEN 0 ELSE r + 1
  <2>1. CASE r + 1 = MaxGeneration
    <3>1. n + 1 = (a + 1) * MaxGeneration + 0
      BY <1>1, <2>1
    <3> QED
      BY <1>1, <2>1, <3>1, DivMod, a + 1 \in Nat, 0 \in 0 .. MaxGeneration - 1
  <2>2. CASE r + 1 # MaxGeneration
    <3>1. n + 1 = a * MaxGeneration + (r + 1) /\ r + 1 \in 0 .. MaxGeneration - 1
      BY <1>1, <2>2
    <3> QED
      BY <1>1, <2>2, <3>1, DivMod
  <2> QED
    BY <2>1, <2>2
<1>3. (r + 1 + 1) % (MaxGeneration + 1) = IF r + 1 = MaxGeneration THEN 0 ELSE r + 1 + 1
  <2>1. CASE r + 1 = MaxGeneration
    BY <1>1, <2>1, SMTT(30)
  <2>2. CASE r + 1 # MaxGeneration
    BY <1>1, <2>2, SMTT(30)
  <2> QED
    BY <2>1, <2>2
<1>4. NextGeneration(r + 1) = IF r + 1 = MaxGeneration THEN 1 ELSE r + 1 + 1
  BY <1>1, <1>3 DEF NextGeneration
<1>5. /\ r + 1 \in 1 .. MaxGeneration
      /\ NextGeneration(r + 1) = ((n + 1) % MaxGeneration) + 1
  BY <1>1, <1>2, <1>4
<1> QED
  BY <1>5 DEF r

-----------------------------------------------------------------------------
(* The free list.                                                          *)

\* The slots a list names.
Named(fr) == {fr[n] : n \in 1 .. Len(fr)}

\* The links of the slots sl lead from head through fr to tail.
Linked(sl, head, tail, fr) ==
    /\ \A m, n \in 1 .. Len(fr) : fr[m] = fr[n] => m = n
    /\ \A n \in 1 .. Len(fr) - 1 : sl[fr[n]].nextFree = fr[n + 1]
    /\ IF fr = <<>> THEN head = NONE /\ tail = NONE
       ELSE /\ head = fr[1] /\ tail = fr[Len(fr)]
            /\ sl[tail].nextFree = NONE

\* A list of slots names slots.
LEMMA NamedType ==
    ASSUME NEW S, NEW fr \in Seq(S)
    PROVE  Named(fr) \subseteq S
BY DEF Named

\* A list that has a head is not empty.
LEMMA HeadIsFirst ==
    ASSUME NEW S \in SUBSET Nat, NEW fr \in Seq(S), NEW sl, NEW head, NEW tail,
           Linked(sl, head, tail, fr)
    PROVE  /\ head = NONE <=> fr = <<>>
           /\ fr # <<>> => /\ Len(fr) \in Nat \ {0} /\ head = fr[1] /\ head \in S
                           /\ tail = fr[Len(fr)] /\ tail \in S
                           /\ head \in Named(fr) /\ tail \in Named(fr)
           /\ tail = NONE <=> fr = <<>>
<1>1. fr # <<>> => Len(fr) \in Nat \ {0}
  OBVIOUS
<1>2. fr # <<>> => fr[1] \in S /\ fr[Len(fr)] \in S
  BY <1>1
<1> QED
  BY <1>1, <1>2 DEF Linked, NONE, Named

\* Taking the head leaves the list that begins at its successor.
LEMMA PopLinked ==
    ASSUME NEW S \in SUBSET Nat, NEW fr \in Seq(S), NEW sl, NEW head, NEW tail,
           Linked(sl, head, tail, fr), head # NONE
    PROVE  LET next == sl[head].nextFree IN
           /\ Tail(fr) \in Seq(S)
           /\ Linked(sl, next, IF next = NONE THEN NONE ELSE tail, Tail(fr))
           /\ Named(Tail(fr)) = Named(fr) \ {head}
<1> DEFINE next == sl[head].nextFree
           tl == Tail(fr)
<1>1. /\ fr # <<>> /\ Len(fr) \in Nat \ {0} /\ head = fr[1] /\ head \in S /\ tail = fr[Len(fr)]
      /\ tail \in S
  BY HeadIsFirst
<1>2. /\ tl \in Seq(S) /\ Len(tl) = Len(fr) - 1
      /\ \A n \in 1 .. Len(fr) - 1 : tl[n] = fr[n + 1]
  BY <1>1
<1>3. Named(tl) = Named(fr) \ {head}
  <2>1. ASSUME NEW x \in Named(tl) PROVE x \in Named(fr) \ {head}
    <3>1. PICK n \in 1 .. Len(fr) - 1 : x = tl[n]
      BY <1>2 DEF Named
    <3>2. x = fr[n + 1] /\ n + 1 \in 1 .. Len(fr) /\ n + 1 # 1 /\ 1 \in 1 .. Len(fr)
      BY <1>1, <1>2, <3>1
    <3> QED
      BY <1>1, <3>2 DEF Named, Linked
  <2>2. ASSUME NEW x \in Named(fr), x # head PROVE x \in Named(tl)
    <3>1. PICK n \in 1 .. Len(fr) : x = fr[n]
      BY DEF Named
    <3>2. n - 1 \in 1 .. Len(fr) - 1 /\ (n - 1) + 1 = n
      BY <1>1, <2>2, <3>1
    <3>3. x = tl[n - 1]
      BY <1>2, <3>1, <3>2
    <3> QED
      BY <1>2, <3>2, <3>3 DEF Named
  <2> QED
    BY <2>1, <2>2
<1>4. \A m, n \in 1 .. Len(tl) : tl[m] = tl[n] => m = n
  <2> SUFFICES ASSUME NEW m \in 1 .. Len(tl), NEW n \in 1 .. Len(tl), tl[m] = tl[n]
      PROVE  m = n
    OBVIOUS
  <2>1. /\ m + 1 \in 1 .. Len(fr) /\ n + 1 \in 1 .. Len(fr) /\ fr[m + 1] = fr[n + 1]
    BY <1>1, <1>2
  <2> QED
    BY <1>1, <1>2, <2>1 DEF Linked
<1>5. \A n \in 1 .. Len(tl) - 1 : sl[tl[n]].nextFree = tl[n + 1]
  <2> SUFFICES ASSUME NEW n \in 1 .. Len(tl) - 1
      PROVE  sl[tl[n]].nextFree = tl[n + 1]
    OBVIOUS
  <2>1. /\ n + 1 \in 1 .. Len(fr) - 1 /\ tl[n] = fr[n + 1]
        /\ tl[n + 1] = fr[(n + 1) + 1]
    BY <1>1, <1>2
  <2> QED
    BY <2>1 DEF Linked
<1> DEFINE last == IF next = NONE THEN NONE ELSE tail
<1>6. Linked(sl, next, last, tl)
  <2>1. CASE Len(fr) = 1
    <3>1. next = NONE
      BY <1>1, <2>1 DEF Linked
    <3>2. last = NONE
      BY <3>1
    <3> HIDE DEF tl, next, last
    <3>3. tl = <<>>
      BY <1>1, <1>2, <2>1
    <3> QED
      BY <1>4, <1>5, <3>1, <3>2, <3>3 DEF Linked
  <2>2. CASE Len(fr) # 1
    <3>1. 1 \in 1 .. Len(fr) - 1 /\ 2 \in 1 .. Len(fr)
      <4>1. \A k \in Nat \ {0} : k # 1 => 1 \in 1 .. k - 1 /\ 2 \in 1 .. k
        OBVIOUS
      <4> QED
        BY <1>1, <2>2, <4>1
    <3>2. next = fr[2]
      <4>1. sl[fr[1]].nextFree = fr[1 + 1]
        BY <3>1 DEF Linked
      <4> QED
        BY <1>1, <3>1, <4>1
    <3>3. last = tail
      BY <3>1, <3>2 DEF NONE
    <3>4. sl[tail].nextFree = NONE
      BY <1>1 DEF Linked
    <3> HIDE DEF tl, next, last
    <3>5. tl # <<>> /\ tl[1] = fr[2] /\ tl[Len(tl)] = fr[Len(fr)]
      BY <1>1, <1>2, <3>1
    <3> QED
      BY <1>1, <1>4, <1>5, <3>2, <3>3, <3>4, <3>5 DEF Linked
  <2> QED
    BY <2>1, <2>2
<1> QED
  BY <1>2, <1>3, <1>6

\* Only the links of the listed slots matter.
LEMMA FrameLinked ==
    ASSUME NEW S \in SUBSET Nat, NEW fr \in Seq(S), NEW sl, NEW sl2, NEW head, NEW tail,
           Linked(sl, head, tail, fr),
           \A i \in Named(fr) : sl2[i].nextFree = sl[i].nextFree
    PROVE  Linked(sl2, head, tail, fr)
<1>1. \A n \in 1 .. Len(fr) : fr[n] \in Named(fr)
  BY DEF Named
<1>2. \A n \in 1 .. Len(fr) - 1 : n \in 1 .. Len(fr)
  OBVIOUS
<1>3. fr # <<>> => tail \in Named(fr)
  BY HeadIsFirst
<1> QED
  BY <1>1, <1>2, <1>3 DEF Linked

\* Putting a slot at the end makes it the last of the list.
LEMMA PushLinked ==
    ASSUME NEW S \in SUBSET Nat, NEW fr \in Seq(S), NEW sl \in [S -> Slot], NEW head, NEW tail,
           Linked(sl, head, tail, fr), NEW i \in S, i \notin Named(fr)
    PROVE  /\ Append(fr, i) \in Seq(S)
           /\ Linked(Enqueued(sl, tail, i), IF tail = NONE THEN i ELSE head, i, Append(fr, i))
           /\ Named(Append(fr, i)) = Named(fr) \cup {i}
<1> DEFINE ap == Append(fr, i)
           q == Enqueued(sl, tail, i)
<1>1. /\ ap \in Seq(S) /\ Len(ap) = Len(fr) + 1 /\ ap[Len(fr) + 1] = i
      /\ \A n \in 1 .. Len(fr) : ap[n] = fr[n]
      /\ Len(fr) \in Nat /\ ap # <<>>
  OBVIOUS
<1>2. Named(ap) = Named(fr) \cup {i}
  BY <1>1 DEF Named
<1>3. \A m, n \in 1 .. Len(ap) : ap[m] = ap[n] => m = n
  <2> SUFFICES ASSUME NEW m \in 1 .. Len(ap), NEW n \in 1 .. Len(ap), ap[m] = ap[n]
      PROVE  m = n
    OBVIOUS
  <2>1. CASE m \in 1 .. Len(fr) /\ n \in 1 .. Len(fr)
    BY <1>1, <2>1 DEF Linked
  <2>2. CASE ~(m \in 1 .. Len(fr) /\ n \in 1 .. Len(fr))
    <3>1. \A k \in 1 .. Len(fr) : fr[k] # i
      BY DEF Named
    <3> QED
      BY <1>1, <2>2, <3>1
  <2> QED
    BY <2>1, <2>2
<1>4. CASE fr = <<>>
  <2>1. tail = NONE /\ Len(ap) = 1 /\ ap[1] = i
    BY <1>1, <1>4 DEF Linked
  <2>2. q[i].nextFree = NONE
    BY <2>1 DEF Enqueued, Slot
  <2> QED
    BY <1>1, <1>2, <1>3, <2>1, <2>2 DEF Linked
<1>5. CASE fr # <<>>
  <2>1. /\ tail # NONE /\ head = fr[1] /\ tail = fr[Len(fr)] /\ tail \in S /\ Len(fr) \in Nat \ {0}
        /\ tail \in Named(fr) /\ tail # i
    BY <1>5, HeadIsFirst
  <2>2. /\ q[i].nextFree = NONE /\ q[tail].nextFree = i
        /\ \A j \in S : j # i /\ j # tail => q[j].nextFree = sl[j].nextFree
    BY <2>1 DEF Enqueued, Slot
  <2>3. \A n \in 1 .. Len(ap) - 1 : q[ap[n]].nextFree = ap[n + 1]
    <3> SUFFICES ASSUME NEW n \in 1 .. Len(ap) - 1
        PROVE  q[ap[n]].nextFree = ap[n + 1]
      OBVIOUS
    <3>1. CASE n = Len(fr)
      BY <1>1, <2>1, <2>2, <3>1
    <3>2. CASE n # Len(fr)
      <4>1. /\ n \in 1 .. Len(fr) - 1 /\ n \in 1 .. Len(fr) /\ n + 1 \in 1 .. Len(fr)
            /\ Len(fr) \in 1 .. Len(fr)
        BY <1>1, <2>1, <3>2
      <4>2. ap[n] = fr[n] /\ ap[n + 1] = fr[n + 1] /\ fr[n] # tail /\ fr[n] # i /\ fr[n] \in S
        BY <1>1, <2>1, <3>2, <4>1 DEF Linked, Named
      <4> QED
        BY <2>2, <4>1, <4>2 DEF Linked
    <3> QED
      BY <3>1, <3>2
  <2>4. ap[1] = head /\ ap[Len(ap)] = i
    BY <1>1, <2>1
  <2> QED
    BY <1>1, <1>2, <1>3, <2>1, <2>2, <2>3, <2>4 DEF Linked
<1> QED
  BY <1>4, <1>5

-----------------------------------------------------------------------------
(* The inductive invariant.  FreeListExact alone is not inductive: that    *)
(* the slot an allocation takes is free, and that the slot a removal       *)
(* returns was not, rests on the list naming exactly the free slots; that  *)
(* an ID finds its object rests on the generation of a slot counting the   *)
(* objects that have left it.                                              *)

\* The slots that hold an object.
Full(sl, cap) == {i \in 0 .. cap - 1 : sl[i].object # NULL}

\* The objects in them.
ObjectsIn(sl, cap) == {sl[i].object : i \in Full(sl, cap)}

\* The generation of a slot tells how often it was used, and an object has
\* the ID that its slot and generation make.
IdsMatch(sl, cap, us) ==
    \A i \in 0 .. cap - 1 :
        /\ sl[i].generation = (us[i] % MaxGeneration) + 1
        /\ sl[i].object # NULL => sl[i].object.id = MakeId(sl[i].generation, i)

\* A table with its list and its history.
Sound(sl, cap, head, tail, fr, us) ==
    /\ cap \in 0 .. MaxCapacity
    /\ sl \in [0 .. cap - 1 -> Slot]
    /\ us \in [0 .. cap - 1 -> Nat]
    /\ fr \in Seq(0 .. cap - 1)
    /\ Linked(sl, head, tail, fr)
    /\ Named(fr) = (0 .. cap - 1) \ Full(sl, cap)
    /\ IdsMatch(sl, cap, us)

TableInv ==
    /\ Sound(slots, capacity, freeHead, freeTail, free, uses)
    /\ liveCount = Cardinality(Full(slots, capacity))
    /\ terminating \in BOOLEAN

\* The full slots are finitely many, so that liveCount can count them.
LEMMA FullFinite ==
    ASSUME NEW cap \in Nat, NEW sl
    PROVE  IsFiniteSet(Full(sl, cap)) /\ Cardinality(Full(sl, cap)) \in Nat
<1>1. IsFiniteSet(0 .. cap - 1)
  BY FS_Interval, 0 \in Int, cap - 1 \in Int
<1>2. IsFiniteSet(Full(sl, cap))
  BY <1>1, FS_Subset, Full(sl, cap) \in SUBSET (0 .. cap - 1) DEF Full
<1> QED
  BY <1>2, FS_CardinalityType

\* The head of the list is a free slot of the table.
LEMMA HeadIsFree ==
    ASSUME NEW sl, NEW cap, NEW head, NEW tail, NEW fr, NEW us,
           Sound(sl, cap, head, tail, fr, us), head # NONE
    PROVE  head \in 0 .. cap - 1 /\ head \notin Full(sl, cap)
<1>1. 0 .. cap - 1 \in SUBSET Nat
  BY TableAssumption DEF Sound
<1> QED
  BY <1>1, HeadIsFirst DEF Sound

\* Setting a field of a slot sets that field.
LEMMA SlotFields ==
    ASSUME NEW s \in Slot
    PROVE  /\ \A n \in Int : LET t == [s EXCEPT !.nextFree = n] IN
                t \in Slot /\ t.nextFree = n /\ t.object = s.object /\ t.generation = s.generation
           /\ \A o \in Object \cup {NULL} : LET t == [s EXCEPT !.object = o] IN
                t \in Slot /\ t.nextFree = s.nextFree /\ t.object = o /\ t.generation = s.generation
           /\ \A g \in 1 .. MaxGeneration : LET t == [s EXCEPT !.generation = g] IN
                t \in Slot /\ t.nextFree = s.nextFree /\ t.object = s.object /\ t.generation = g
<1> DEFINE O == Object \cup {NULL}
           G == 1 .. MaxGeneration
<1>1. s \in [object : O, nextFree : Int, generation : G]
  BY DEF Slot
<1> HIDE DEF O, G
<1>2. \A n \in Int : LET t == [s EXCEPT !.nextFree = n] IN
          /\ t \in [object : O, nextFree : Int, generation : G]
          /\ t.nextFree = n /\ t.object = s.object /\ t.generation = s.generation
  BY <1>1
<1>3. \A o \in O : LET t == [s EXCEPT !.object = o] IN
          /\ t \in [object : O, nextFree : Int, generation : G]
          /\ t.nextFree = s.nextFree /\ t.object = o /\ t.generation = s.generation
  BY <1>1
<1>4. \A g \in G : LET t == [s EXCEPT !.generation = g] IN
          /\ t \in [object : O, nextFree : Int, generation : G]
          /\ t.nextFree = s.nextFree /\ t.object = s.object /\ t.generation = g
  BY <1>1
<1> QED
  BY <1>2, <1>3, <1>4 DEF Slot, O, G

\* The slots with a new object in slot i, and without the one there.
Taken(sl, i, type) ==
    [sl EXCEPT ![i].nextFree = NONE,
               ![i].object = [type |-> type, id |-> MakeId(sl[i].generation, i)]]
Emptied(sl, i) == [sl EXCEPT ![i].object = NULL, ![i].generation = NextGeneration(@)]

\* Taking the head for an object.
LEMMA SoundTake ==
    ASSUME NEW sl, NEW cap, NEW head, NEW tail, NEW fr, NEW us,
           Sound(sl, cap, head, tail, fr, us), head # NONE,
           NEW type \in Types, NEW sl2, sl2 = Taken(sl, head, type)
    PROVE  LET next == sl[head].nextFree IN
           /\ Sound(sl2, cap, next, IF next = NONE THEN NONE ELSE tail, Tail(fr), us)
           /\ Full(sl2, cap) = Full(sl, cap) \cup {head}
           /\ head \notin Full(sl, cap)
           /\ ObjectsIn(sl2, cap) = ObjectsIn(sl, cap)
                  \cup {[type |-> type, id |-> MakeId(sl[head].generation, head)]}
<1> USE TableAssumption
<1> DEFINE next == sl[head].nextFree
           last == IF next = NONE THEN NONE ELSE tail
           object == [type |-> type, id |-> MakeId(sl[head].generation, head)]
<1>1. /\ cap \in 0 .. MaxCapacity /\ sl \in [0 .. cap - 1 -> Slot] /\ fr \in Seq(0 .. cap - 1)
      /\ 0 .. cap - 1 \in SUBSET Nat
      /\ Linked(sl, head, tail, fr)
  BY DEF Sound
<1>2. head \in 0 .. cap - 1 /\ head \notin Full(sl, cap)
  BY HeadIsFree
<1>3. /\ Tail(fr) \in Seq(0 .. cap - 1)
      /\ Linked(sl, next, last, Tail(fr))
      /\ Named(Tail(fr)) = Named(fr) \ {head}
  BY <1>1, PopLinked
<1>4. object \in Object /\ object # NULL
  <2>1. MakeId(sl[head].generation, head) \in Nat
    <3>1. sl[head].generation \in Nat /\ head \in Nat
      BY <1>1, <1>2 DEF Slot
    <3> QED
      BY <3>1 DEF MakeId
  <2> QED
    BY <2>1 DEF Object
<1>5. /\ sl2 \in [0 .. cap - 1 -> Slot]
      /\ sl2[head].object = object /\ sl2[head].generation = sl[head].generation
      /\ \A i \in 0 .. cap - 1 : i # head => sl2[i] = sl[i]
  <2> HIDE DEF object
  <2>1. sl[head] \in Slot
    BY <1>1, <1>2
  <2>2. /\ sl2[head] = [sl[head] EXCEPT !.nextFree = NONE, !.object = object]
        /\ DOMAIN sl2 = 0 .. cap - 1
        /\ \A i \in 0 .. cap - 1 : i # head => sl2[i] = sl[i]
    BY <1>1, <1>2 DEF object, Taken
  <2>3. /\ sl2[head] \in Slot
        /\ sl2[head].object = object /\ sl2[head].generation = sl[head].generation
    <3> DEFINE s == [sl[head] EXCEPT !.nextFree = NONE]
    <3>1. s \in Slot /\ s.generation = sl[head].generation
      BY <2>1, SlotFields, NONE \in Int DEF NONE
    <3>2. sl2[head] = [s EXCEPT !.object = object]
      BY <2>2
    <3> HIDE DEF s
    <3> QED
      <4>1. object \in Object \cup {NULL}
        BY <1>4
      <4>2. LET t == [s EXCEPT !.object = object] IN
              t \in Slot /\ t.object = object /\ t.generation = s.generation
        BY ONLY <3>1, <4>1, SlotFields
      <4> QED
        BY ONLY <3>1, <3>2, <4>2
  <2> QED
    BY <1>1, <1>2, <2>2, <2>3
<1>6. Full(sl2, cap) = Full(sl, cap) \cup {head}
  <2> HIDE DEF object
  <2> QED
    BY <1>2, <1>4, <1>5 DEF Full
<1>7. Linked(sl2, next, last, Tail(fr))
  <2>1. \A i \in Named(Tail(fr)) : i \in 0 .. cap - 1 /\ i # head
    BY <1>1, <1>3, NamedType
  <2>2. \A i \in Named(Tail(fr)) : sl2[i].nextFree = sl[i].nextFree
    BY <1>5, <2>1
  <2> HIDE DEF next, last
  <2> QED
    BY <1>1, <1>3, <2>2, FrameLinked
<1>8. IdsMatch(sl2, cap, us)
  <2> SUFFICES ASSUME NEW i \in 0 .. cap - 1
      PROVE  /\ sl2[i].generation = (us[i] % MaxGeneration) + 1
             /\ sl2[i].object # NULL => sl2[i].object.id = MakeId(sl2[i].generation, i)
    BY DEF IdsMatch
  <2>1. sl2[i].generation = sl[i].generation /\ sl[i].generation = (us[i] % MaxGeneration) + 1
    BY <1>5 DEF Sound, IdsMatch
  <2>2. CASE i = head
    BY <1>5, <2>1, <2>2
  <2>3. CASE i # head
    BY <1>5, <2>1, <2>3 DEF Sound, IdsMatch
  <2> QED
    BY <2>2, <2>3, <2>1
<1>9. Named(Tail(fr)) = (0 .. cap - 1) \ Full(sl2, cap)
  BY <1>3, <1>6 DEF Sound
<1>10. Sound(sl2, cap, next, last, Tail(fr), us)
  <2> HIDE DEF next, last, object
  <2> QED
    BY <1>1, <1>3, <1>5, <1>7, <1>8, <1>9 DEF Sound
<1>11. ObjectsIn(sl2, cap) = ObjectsIn(sl, cap) \cup {object}
  <2> HIDE DEF object
  <2>1. \A i \in Full(sl, cap) : i \in 0 .. cap - 1 /\ i # head
    BY <1>2 DEF Full
  <2> QED
    BY <1>5, <1>6, <2>1 DEF ObjectsIn
<1> QED
  BY <1>2, <1>6, <1>10, <1>11

\* A table whose free slot i is not in the list.
SoundBut(i, sl, cap, head, tail, fr, us) ==
    /\ cap \in 0 .. MaxCapacity
    /\ sl \in [0 .. cap - 1 -> Slot]
    /\ us \in [0 .. cap - 1 -> Nat]
    /\ fr \in Seq(0 .. cap - 1)
    /\ Linked(sl, head, tail, fr)
    /\ i \in (0 .. cap - 1) \ Full(sl, cap)
    /\ Named(fr) = (0 .. cap - 1) \ (Full(sl, cap) \cup {i})
    /\ IdsMatch(sl, cap, us)

\* Linking that slot to the end of the list.
LEMMA SoundEnqueue ==
    ASSUME NEW i, NEW sl, NEW cap, NEW head, NEW tail, NEW fr, NEW us,
           SoundBut(i, sl, cap, head, tail, fr, us)
    PROVE  LET q == Enqueued(sl, tail, i) IN
           /\ Sound(q, cap, IF tail = NONE THEN i ELSE head, i, Append(fr, i), us)
           /\ Full(q, cap) = Full(sl, cap)
           /\ ObjectsIn(q, cap) = ObjectsIn(sl, cap)
<1> USE TableAssumption
<1> DEFINE q == Enqueued(sl, tail, i)
<1>0. /\ cap \in 0 .. MaxCapacity /\ sl \in [0 .. cap - 1 -> Slot]
      /\ us \in [0 .. cap - 1 -> Nat] /\ fr \in Seq(0 .. cap - 1)
      /\ Linked(sl, head, tail, fr) /\ i \in 0 .. cap - 1 /\ i \notin Full(sl, cap)
      /\ Named(fr) = (0 .. cap - 1) \ (Full(sl, cap) \cup {i})
      /\ IdsMatch(sl, cap, us)
  BY DEF SoundBut
<1>1. 0 .. cap - 1 \in SUBSET Nat
  BY <1>0
<1>2. /\ Append(fr, i) \in Seq(0 .. cap - 1)
      /\ Linked(q, IF tail = NONE THEN i ELSE head, i, Append(fr, i))
      /\ Named(Append(fr, i)) = Named(fr) \cup {i}
  <2> DEFINE S == 0 .. cap - 1
  <2>1. S \in SUBSET Nat /\ fr \in Seq(S) /\ sl \in [S -> Slot] /\ i \in S /\ i \notin Named(fr)
    BY <1>0, <1>1
  <2>2. q = Enqueued(sl, tail, i) /\ Linked(sl, head, tail, fr)
    BY <1>0
  <2> HIDE DEF S, q
  <2>3. /\ Append(fr, i) \in Seq(S)
        /\ Linked(q, IF tail = NONE THEN i ELSE head, i, Append(fr, i))
        /\ Named(Append(fr, i)) = Named(fr) \cup {i}
    BY ONLY <2>1, <2>2, PushLinked
  <2> QED
    BY <2>3 DEF S
<1>3. tail = NONE \/ tail \in 0 .. cap - 1
  BY <1>0, <1>1, HeadIsFirst
<1>4. /\ q \in [0 .. cap - 1 -> Slot]
      /\ \A j \in 0 .. cap - 1 : q[j].object = sl[j].object /\ q[j].generation = sl[j].generation
  <2> DEFINE a == [sl EXCEPT ![i] = [sl[i] EXCEPT !.nextFree = NONE]]
  <2>1. NONE \in Int /\ i \in Int
    BY <1>0 DEF NONE
  <2>2. /\ a \in [0 .. cap - 1 -> Slot]
        /\ \A j \in 0 .. cap - 1 : a[j].object = sl[j].object /\ a[j].generation = sl[j].generation
    <3>1. LET t == [sl[i] EXCEPT !.nextFree = NONE] IN
            t \in Slot /\ t.object = sl[i].object /\ t.generation = sl[i].generation
      BY <1>0, <2>1, SlotFields
    <3> QED
      BY <1>0, <3>1
  <2>3. CASE tail = NONE
    BY <1>0, <2>2, <2>3 DEF Enqueued
  <2>4. CASE tail # NONE
    <3> HIDE DEF a
    <3> DEFINE b == [a EXCEPT ![tail] = [a[tail] EXCEPT !.nextFree = i]]
    <3>1. q = b
      BY <1>0, <1>3, <2>4 DEF Enqueued, a
    <3>2. LET t == [a[tail] EXCEPT !.nextFree = i] IN
            t \in Slot /\ t.object = a[tail].object /\ t.generation = a[tail].generation
      BY <1>3, <2>1, <2>2, <2>4, SlotFields
    <3>3. /\ b \in [0 .. cap - 1 -> Slot]
          /\ \A j \in 0 .. cap - 1 : b[j].object = a[j].object /\ b[j].generation = a[j].generation
      BY <1>3, <2>2, <2>4, <3>2
    <3> QED
      BY <2>2, <3>1, <3>3
  <2> QED
    BY <2>3, <2>4
<1>5. Full(q, cap) = Full(sl, cap)
  BY <1>0, <1>4 DEF Full
<1>6. IdsMatch(q, cap, us)
  BY <1>0, <1>4 DEF IdsMatch
<1> HIDE DEF q
<1>7. Named(Append(fr, i)) = (0 .. cap - 1) \ Full(q, cap)
  BY <1>0, <1>2, <1>5
<1>8. Sound(q, cap, IF tail = NONE THEN i ELSE head, i, Append(fr, i), us)
  BY <1>0, <1>2, <1>4, <1>6, <1>7 DEF Sound
<1>9. ObjectsIn(q, cap) = ObjectsIn(sl, cap)
  <2>1. \A j \in Full(sl, cap) : j \in 0 .. cap - 1
    BY DEF Full
  <2> QED
    BY <1>4, <1>5, <2>1 DEF ObjectsIn
<1> QED
  BY <1>5, <1>8, <1>9 DEF q

\* An allocation that fails sends the head to the end of the list.
LEMMA SoundRequeue ==
    ASSUME NEW sl, NEW cap, NEW head, NEW tail, NEW fr, NEW us,
           Sound(sl, cap, head, tail, fr, us), head # NONE,
           NEW next, next = sl[head].nextFree,
           NEW last, last = IF next = NONE THEN NONE ELSE tail,
           NEW q, q = Enqueued(sl, last, head)
    PROVE  /\ Sound(q, cap, IF last = NONE THEN head ELSE next, head, Append(Tail(fr), head), us)
           /\ Full(q, cap) = Full(sl, cap)
           /\ ObjectsIn(q, cap) = ObjectsIn(sl, cap)
<1>1. /\ cap \in 0 .. MaxCapacity /\ sl \in [0 .. cap - 1 -> Slot] /\ fr \in Seq(0 .. cap - 1)
      /\ us \in [0 .. cap - 1 -> Nat]
      /\ 0 .. cap - 1 \in SUBSET Nat
      /\ Linked(sl, head, tail, fr) /\ IdsMatch(sl, cap, us)
      /\ Named(fr) = (0 .. cap - 1) \ Full(sl, cap)
  BY TableAssumption DEF Sound
<1>2. head \in 0 .. cap - 1 /\ head \notin Full(sl, cap)
  BY HeadIsFree
<1>3. /\ Tail(fr) \in Seq(0 .. cap - 1)
      /\ Linked(sl, next, last, Tail(fr))
      /\ Named(Tail(fr)) = Named(fr) \ {head}
  <2>1. 0 .. cap - 1 \in SUBSET Nat /\ fr \in Seq(0 .. cap - 1) /\ Linked(sl, head, tail, fr)
    BY <1>1
  <2>2. /\ Tail(fr) \in Seq(0 .. cap - 1)
        /\ Linked(sl, sl[head].nextFree, IF sl[head].nextFree = NONE THEN NONE ELSE tail, Tail(fr))
        /\ Named(Tail(fr)) = Named(fr) \ {head}
    BY <2>1, PopLinked
  <2> QED
    BY <2>2
<1>4. Named(Tail(fr)) = (0 .. cap - 1) \ (Full(sl, cap) \cup {head})
  BY <1>1, <1>3
<1> DEFINE tl == Tail(fr)
<1> HIDE DEF tl
<1>5. SoundBut(head, sl, cap, next, last, tl, us)
  BY <1>1, <1>2, <1>3, <1>4 DEF tl, SoundBut
<1>6. /\ Sound(q, cap, IF last = NONE THEN head ELSE next, head, Append(tl, head), us)
      /\ Full(q, cap) = Full(sl, cap)
      /\ ObjectsIn(q, cap) = ObjectsIn(sl, cap)
  BY <1>5, SoundEnqueue
<1> QED
  BY <1>6 DEF tl

\* Different slots hold different objects, because their IDs differ.
LEMMA ObjectsDistinct ==
    ASSUME NEW sl, NEW cap, NEW head, NEW tail, NEW fr, NEW us,
           Sound(sl, cap, head, tail, fr, us)
    PROVE  /\ \A i \in Full(sl, cap) :
                sl[i].object.id \in Ids /\ IndexOf(sl[i].object.id) = i
           /\ \A i, j \in Full(sl, cap) : sl[i].object.id = sl[j].object.id => i = j
           /\ \A i, j \in Full(sl, cap) : sl[i].object = sl[j].object => i = j
<1> USE TableAssumption
<1>1. ASSUME NEW i \in Full(sl, cap)
      PROVE  sl[i].object.id \in Ids /\ IndexOf(sl[i].object.id) = i
  <2>1. /\ i \in 0 .. MaxCapacity - 1 /\ sl[i] \in Slot
        /\ sl[i].object.id = MakeId(sl[i].generation, i)
    BY DEF Full, Sound, IdsMatch
  <2>2. sl[i].generation \in 0 .. MaxGeneration
    BY <2>1 DEF Slot
  <2> QED
    BY <2>1, <2>2, IdParts
<1> QED
  BY <1>1

\* Removing the object of a slot.
LEMMA SoundRemove ==
    ASSUME NEW sl, NEW cap, NEW head, NEW tail, NEW fr, NEW us,
           Sound(sl, cap, head, tail, fr, us), NEW i \in Full(sl, cap),
           NEW q, q = Enqueued(Emptied(sl, i), tail, i)
    PROVE  /\ Sound(q, cap, IF tail = NONE THEN i ELSE head, i, Append(fr, i),
                    [us EXCEPT ![i] = @ + 1])
           /\ Full(q, cap) = Full(sl, cap) \ {i}
           /\ ObjectsIn(q, cap) = ObjectsIn(sl, cap) \ {sl[i].object}
<1>1. /\ cap \in 0 .. MaxCapacity /\ sl \in [0 .. cap - 1 -> Slot] /\ fr \in Seq(0 .. cap - 1)
      /\ us \in [0 .. cap - 1 -> Nat]
      /\ 0 .. cap - 1 \in SUBSET Nat
      /\ Linked(sl, head, tail, fr) /\ IdsMatch(sl, cap, us)
      /\ Named(fr) = (0 .. cap - 1) \ Full(sl, cap)
      /\ i \in 0 .. cap - 1
  BY TableAssumption DEF Sound, Full
<1> DEFINE sl1 == Emptied(sl, i)
           us1 == [us EXCEPT ![i] = @ + 1]
<1>2. /\ us1 \in [0 .. cap - 1 -> Nat] /\ us1[i] = us[i] + 1
      /\ \A j \in 0 .. cap - 1 : j # i => us1[j] = us[j]
  BY <1>1
<1>3. /\ sl[i].generation = (us[i] % MaxGeneration) + 1
      /\ NextGeneration(sl[i].generation) = (us1[i] % MaxGeneration) + 1
      /\ NextGeneration(sl[i].generation) \in 1 .. MaxGeneration
  <2>1. us[i] \in Nat /\ us[i] + 1 \in Nat
    BY <1>1
  <2> QED
    BY <1>1, <1>2, <2>1, GenerationStep DEF IdsMatch
<1>4. /\ sl1 \in [0 .. cap - 1 -> Slot]
      /\ sl1[i].object = NULL /\ sl1[i].generation = NextGeneration(sl[i].generation)
      /\ \A j \in 0 .. cap - 1 : j # i => sl1[j] = sl[j]
  <2> DEFINE s == [sl[i] EXCEPT !.object = NULL]
             t == [s EXCEPT !.generation = NextGeneration(sl[i].generation)]
  <2>1. sl[i] \in Slot
    BY <1>1
  <2>2. s \in Slot /\ s.object = NULL /\ s.generation = sl[i].generation
    BY <2>1, SlotFields, NULL \in Object \cup {NULL}
  <2>3. sl1 = [sl EXCEPT ![i] = t]
    BY <1>1, <2>2 DEF Emptied
  <2> HIDE DEF s
  <2>4. t \in Slot /\ t.object = NULL /\ t.generation = NextGeneration(sl[i].generation)
    BY <1>3, <2>2, SlotFields
  <2> HIDE DEF t, sl1
  <2> QED
    BY <1>1, <2>3, <2>4
<1> HIDE DEF sl1, us1
<1>5. Full(sl1, cap) = Full(sl, cap) \ {i}
  BY <1>1, <1>4 DEF Full
<1>6. Linked(sl1, head, tail, fr)
  <2>1. \A j \in Named(fr) : j \in 0 .. cap - 1 /\ j # i
    BY <1>1
  <2> QED
    BY <1>1, <1>4, <2>1, FrameLinked
<1>7. IdsMatch(sl1, cap, us1)
  <2> SUFFICES ASSUME NEW j \in 0 .. cap - 1
      PROVE  /\ sl1[j].generation = (us1[j] % MaxGeneration) + 1
             /\ sl1[j].object # NULL => sl1[j].object.id = MakeId(sl1[j].generation, j)
    BY DEF IdsMatch
  <2>1. CASE j = i
    BY <1>3, <1>4, <2>1
  <2>2. CASE j # i
    BY <1>1, <1>2, <1>4, <2>2 DEF IdsMatch
  <2> QED
    BY <2>1, <2>2
<1>8. i \notin Full(sl1, cap) /\ Named(fr) = (0 .. cap - 1) \ (Full(sl1, cap) \cup {i})
  BY <1>1, <1>5
<1>9. q = Enqueued(sl1, tail, i)
  BY DEF sl1
<1>10. SoundBut(i, sl1, cap, head, tail, fr, us1)
  BY <1>1, <1>2, <1>4, <1>6, <1>7, <1>8 DEF SoundBut
<1>11. /\ Sound(q, cap, IF tail = NONE THEN i ELSE head, i, Append(fr, i), us1)
       /\ Full(q, cap) = Full(sl1, cap)
       /\ ObjectsIn(q, cap) = ObjectsIn(sl1, cap)
  BY <1>9, <1>10, SoundEnqueue
<1>12. ObjectsIn(sl1, cap) = ObjectsIn(sl, cap) \ {sl[i].object}
  <2>1. \A j \in Full(sl, cap) \ {i} : sl1[j].object = sl[j].object /\ sl[j].object # sl[i].object
    BY <1>1, <1>4, ObjectsDistinct DEF Full
  <2> QED
    BY <1>5, <2>1 DEF ObjectsIn
<1> QED
  BY <1>5, <1>11, <1>12 DEF us1

\* Growth of a table whose list is empty.
LEMMA SoundGrow ==
    ASSUME Sound(slots, capacity, freeHead, freeTail, free, uses), freeHead = NONE, CanGrow
    PROVE  /\ Sound(Grown.slots, Grown.capacity, Grown.head, Grown.tail, Grown.free,
                    GrownUses(NewCapacity))
           /\ Grown.capacity = NewCapacity /\ Grown.head # NONE
           /\ Full(Grown.slots, Grown.capacity) = Full(slots, capacity)
           /\ ObjectsIn(Grown.slots, Grown.capacity) = ObjectsIn(slots, capacity)
           /\ Grown.slots[Grown.head].generation = 1 /\ Grown.head = capacity
<1> USE TableAssumption
<1> DEFINE cap == capacity
           new == NewCapacity
           sl == [i \in 0 .. new - 1 |->
                     IF i < cap THEN slots[i]
                     ELSE [object |-> NULL, generation |-> 1,
                           nextFree |-> IF i + 1 < new THEN i + 1 ELSE NONE]]
           fr == [n \in 1 .. new - cap |-> cap + n - 1]
           us == GrownUses(new)
<1>1. /\ cap \in Nat /\ new \in Nat /\ cap < new /\ new <= MaxCapacity
      /\ cap \in 0 .. MaxCapacity /\ new \in 0 .. MaxCapacity
  BY DEF Sound, CanGrow, NewCapacity, Min2
<1>2. /\ Grown.slots = sl /\ Grown.capacity = new /\ Grown.head = cap
      /\ Grown.tail = new - 1 /\ Grown.free = fr
  BY DEF Grown, Table
<1>3. slots \in [0 .. cap - 1 -> Slot] /\ uses \in [0 .. cap - 1 -> Nat]
  BY DEF Sound
<1>4. us \in [0 .. new - 1 -> Nat]
      /\ \A i \in 0 .. new - 1 : us[i] = IF i < cap THEN uses[i] ELSE 0
  <2> HIDE DEF new
  <2> QED
    BY <1>1, <1>3 DEF GrownUses
<1> HIDE DEF new, us
<1>5. /\ sl \in [0 .. new - 1 -> Slot]
      /\ \A i \in 0 .. cap - 1 : sl[i] = slots[i]
      /\ \A i \in cap .. new - 1 : /\ sl[i].object = NULL /\ sl[i].generation = 1
                                   /\ sl[i].nextFree = IF i + 1 < new THEN i + 1 ELSE NONE
  <2>1. \A i \in 0 .. new - 1 : i < cap => i \in 0 .. cap - 1 /\ slots[i] \in Slot
    BY <1>1, <1>3
  <2>2. \A i \in 0 .. new - 1 :
          [object |-> NULL, generation |-> 1,
           nextFree |-> IF i + 1 < new THEN i + 1 ELSE NONE] \in Slot
    BY <1>1 DEF Slot, NONE
  <2>3. sl \in [0 .. new - 1 -> Slot]
    BY <2>1, <2>2
  <2> QED
    BY <1>1, <2>3
<1>6. /\ fr \in Seq(0 .. new - 1) /\ Len(fr) = new - cap /\ fr # <<>>
      /\ \A n \in 1 .. new - cap : fr[n] = cap + n - 1
  <2>1. \A n \in 1 .. new - cap : cap + n - 1 \in 0 .. new - 1
    BY <1>1
  <2>2. new - cap \in Nat /\ new - cap # 0
    BY <1>1
  <2> QED
    <3>1. fr \in Seq(0 .. new - 1) /\ Len(fr) = new - cap
      <4>1. \A m \in Nat : \A S, f : f \in [1 .. m -> S] => f \in Seq(S) /\ Len(f) = m
        OBVIOUS
      <4>2. fr \in [1 .. new - cap -> 0 .. new - 1]
        BY <2>1
      <4> HIDE DEF fr
      <4> QED
        BY <2>2, <4>1, <4>2
    <3>2. fr # <<>>
      <4> HIDE DEF fr
      <4> QED
        BY <2>2, <3>1
    <3> QED
      BY <3>1, <3>2
<1> HIDE DEF sl, fr
<1>7. Full(sl, new) = Full(slots, cap)
  BY <1>1, <1>5 DEF Full
<1>8. Named(free) = {} /\ Full(slots, cap) = 0 .. cap - 1
  <2>1. 0 .. cap - 1 \in SUBSET Nat
    BY <1>1
  <2>2. free = <<>>
    BY <2>1, HeadIsFirst DEF Sound
  <2>3. Named(free) = {}
    BY <2>2 DEF Named
  <2> QED
    BY <2>3 DEF Sound, Full
<1>9. Named(fr) = (0 .. new - 1) \ Full(sl, new)
  <2>1. Named(fr) = cap .. new - 1
    <3>1. ASSUME NEW x \in cap .. new - 1 PROVE x \in Named(fr)
      <4>1. x - cap + 1 \in 1 .. new - cap /\ fr[x - cap + 1] = x
        BY <1>1, <1>6
      <4> QED
        BY <1>6, <4>1 DEF Named
    <3>2. ASSUME NEW x \in Named(fr) PROVE x \in cap .. new - 1
      BY <1>1, <1>6 DEF Named
    <3> QED
      BY <3>1, <3>2
  <2> QED
    BY <1>1, <1>7, <1>8, <2>1
<1>10. Linked(sl, cap, new - 1, fr)
  <2>1. \A m, n \in 1 .. Len(fr) : fr[m] = fr[n] => m = n
    BY <1>1, <1>6
  <2>2. \A n \in 1 .. Len(fr) - 1 : sl[fr[n]].nextFree = fr[n + 1]
    <3> SUFFICES ASSUME NEW n \in 1 .. Len(fr) - 1
        PROVE  sl[fr[n]].nextFree = fr[n + 1]
      OBVIOUS
    <3>1. /\ fr[n] = cap + n - 1 /\ fr[n + 1] = (cap + n - 1) + 1
          /\ cap + n - 1 \in cap .. new - 1 /\ (cap + n - 1) + 1 < new
      BY <1>1, <1>6
    <3> QED
      BY <1>5, <3>1
  <2>3. cap = fr[1] /\ new - 1 = fr[Len(fr)] /\ sl[new - 1].nextFree = NONE
    <3>1. 1 \in 1 .. Len(fr) /\ Len(fr) \in 1 .. Len(fr)
      BY <1>1, <1>6
    <3>2. cap = fr[1] /\ new - 1 = fr[Len(fr)]
      BY <1>1, <1>6, <3>1
    <3>3. new - 1 \in cap .. new - 1 /\ ~(new - 1 < cap) /\ ~((new - 1) + 1 < new)
      BY <1>1
    <3>4. sl[new - 1].nextFree = NONE
      BY <1>5, <3>3
    <3> QED
      BY <3>2, <3>4
  <2> QED
    BY <1>6, <2>1, <2>2, <2>3 DEF Linked
<1>11. IdsMatch(sl, new, us)
  <2> SUFFICES ASSUME NEW i \in 0 .. new - 1
      PROVE  /\ sl[i].generation = (us[i] % MaxGeneration) + 1
             /\ sl[i].object # NULL => sl[i].object.id = MakeId(sl[i].generation, i)
    BY DEF IdsMatch
  <2>1. CASE i < cap
    <3>1. i \in 0 .. cap - 1 /\ sl[i] = slots[i] /\ us[i] = uses[i]
      BY <1>1, <1>4, <1>5, <2>1
    <3> QED
      BY <3>1 DEF Sound, IdsMatch
  <2>2. CASE ~(i < cap)
    <3>1. i \in cap .. new - 1 /\ us[i] = 0
      BY <1>1, <1>4, <2>2
    <3>2. 0 % MaxGeneration = 0
      OBVIOUS
    <3> QED
      BY <1>5, <3>1, <3>2
  <2> QED
    BY <2>1, <2>2
<1>12. Sound(sl, new, cap, new - 1, fr, us)
  BY <1>1, <1>4, <1>5, <1>6, <1>9, <1>10, <1>11 DEF Sound
<1>13. cap # NONE
  BY <1>1 DEF NONE
<1>14. ObjectsIn(sl, new) = ObjectsIn(slots, cap)
  <2>1. \A i \in Full(slots, cap) : sl[i].object = slots[i].object
    BY <1>5 DEF Full
  <2> QED
    BY <1>7, <2>1 DEF ObjectsIn
<1>15. sl[cap].generation = 1
  BY <1>1, <1>5
<1> QED
  BY <1>2, <1>7, <1>12, <1>13, <1>14, <1>15 DEF new, us

-----------------------------------------------------------------------------
(* The steps.                                                              *)

\* The empty table.
LEMMA SoundEmpty == Sound(<<>>, 0, NONE, NONE, <<>>, <<>>) /\ Cardinality(Full(<<>>, 0)) = 0
<1>1. 0 .. 0 - 1 = {}
  OBVIOUS
<1>2. <<>> \in [{} -> Slot] /\ <<>> \in [{} -> Nat] /\ <<>> \in Seq({})
  OBVIOUS
<1>3. Full(<<>>, 0) = {} /\ Named(<<>>) = {}
  BY <1>1 DEF Full, Named
<1>4. Linked(<<>>, NONE, NONE, <<>>) /\ IdsMatch(<<>>, 0, <<>>)
  BY <1>1 DEF Linked, IdsMatch
<1> QED
  BY <1>1, <1>2, <1>3, <1>4, TableAssumption, FS_EmptySet DEF Sound

LEMMA InitInv == Init => TableInv
BY SoundEmpty DEF Init, TableInv

\* An allocation, in a table T with a free slot.
LEMMA AllocateInSound ==
    ASSUME NEW T, NEW us, NEW type \in Types,
           Sound(T.slots, T.capacity, T.head, T.tail, T.free, us), T.head # NONE,
           liveCount = Cardinality(Full(T.slots, T.capacity)),
           AllocateIn(T, type) \/ AllocateFailIn(T), uses' = us
    PROVE  /\ Sound(slots', capacity', freeHead', freeTail', free', uses')
           /\ liveCount' = Cardinality(Full(slots', capacity'))
           /\ capacity' = T.capacity
           /\ \/ /\ liveCount' = liveCount + 1
                 /\ ObjectsIn(slots', capacity') = ObjectsIn(T.slots, T.capacity)
                      \cup {[type |-> type, id |-> MakeId(T.slots[T.head].generation, T.head)]}
              \/ /\ liveCount' # liveCount + 1
                 /\ ObjectsIn(slots', capacity') = ObjectsIn(T.slots, T.capacity)
<1>1. /\ T.capacity \in Nat /\ IsFiniteSet(Full(T.slots, T.capacity))
      /\ Cardinality(Full(T.slots, T.capacity)) \in Nat
  BY FullFinite, TableAssumption DEF Sound
<1>2. CASE AllocateIn(T, type)
  <2> DEFINE next == T.slots[T.head].nextFree
  <2>1. /\ Sound(slots', T.capacity, next, IF next = NONE THEN NONE ELSE T.tail, Tail(T.free), us)
        /\ Full(slots', T.capacity) = Full(T.slots, T.capacity) \cup {T.head}
        /\ T.head \notin Full(T.slots, T.capacity)
        /\ ObjectsIn(slots', T.capacity) = ObjectsIn(T.slots, T.capacity)
             \cup {[type |-> type, id |-> MakeId(T.slots[T.head].generation, T.head)]}
    <3>1. slots' = Taken(T.slots, T.head, type)
      BY <1>2 DEF AllocateIn, Taken
    <3> QED
      BY <3>1, SoundTake
  <2>2. Cardinality(Full(slots', T.capacity)) = Cardinality(Full(T.slots, T.capacity)) + 1
    BY <1>1, <2>1, FS_AddElement
  <2> QED
    BY <1>2, <2>1, <2>2 DEF AllocateIn
<1>3. CASE AllocateFailIn(T)
  <2> DEFINE next == T.slots[T.head].nextFree
             last == IF next = NONE THEN NONE ELSE T.tail
  <2>1. /\ Sound(slots', T.capacity, IF last = NONE THEN T.head ELSE next, T.head,
                 Append(Tail(T.free), T.head), us)
        /\ Full(slots', T.capacity) = Full(T.slots, T.capacity)
        /\ ObjectsIn(slots', T.capacity) = ObjectsIn(T.slots, T.capacity)
    BY <1>3, SoundRequeue DEF AllocateFailIn
  <2> QED
    BY <1>1, <1>3, <2>1 DEF AllocateFailIn
<1> QED
  BY <1>2, <1>3

LEMMA AllocateInv ==
    ASSUME TableInv, NEW type \in Types, Allocate(type)
    PROVE  TableInv'
<1>1. /\ Here.slots = slots /\ Here.capacity = capacity /\ Here.head = freeHead
      /\ Here.tail = freeTail /\ Here.free = free
  BY DEF Here, Table
<1>2. /\ Sound(Here.slots, Here.capacity, Here.head, Here.tail, Here.free, uses)
      /\ Here.head # NONE /\ liveCount = Cardinality(Full(Here.slots, Here.capacity))
      /\ AllocateIn(Here, type) \/ AllocateFailIn(Here)
      /\ uses' = uses /\ terminating' \in BOOLEAN
  BY <1>1 DEF TableInv, Allocate
<1>3. /\ Sound(slots', capacity', freeHead', freeTail', free', uses')
      /\ liveCount' = Cardinality(Full(slots', capacity'))
  <2> HIDE DEF Here
  <2> QED
    BY <1>2, AllocateInSound
<1> QED
  BY <1>2, <1>3 DEF TableInv, Full

LEMMA GrowAndAllocateInv ==
    ASSUME TableInv, NEW type \in Types, GrowAndAllocate(type)
    PROVE  TableInv'
<1>1. /\ Sound(Grown.slots, Grown.capacity, Grown.head, Grown.tail, Grown.free,
               GrownUses(NewCapacity))
      /\ Grown.head # NONE
      /\ Full(Grown.slots, Grown.capacity) = Full(slots, capacity)
  BY SoundGrow DEF TableInv, GrowAndAllocate
<1>2. /\ liveCount = Cardinality(Full(Grown.slots, Grown.capacity))
      /\ AllocateIn(Grown, type) \/ AllocateFailIn(Grown)
      /\ uses' = GrownUses(NewCapacity) /\ terminating' \in BOOLEAN
  BY <1>1 DEF TableInv, GrowAndAllocate
<1>3. /\ Sound(slots', capacity', freeHead', freeTail', free', uses')
      /\ liveCount' = Cardinality(Full(slots', capacity'))
  <2> HIDE DEF Grown
  <2> QED
    BY <1>1, <1>2, AllocateInSound
<1> QED
  BY <1>2, <1>3 DEF TableInv, Full

LEMMA RemoveAtInv ==
    ASSUME TableInv, NEW i \in Full(slots, capacity), RemoveAt(i)
    PROVE  /\ TableInv' /\ Full(slots, capacity)' = Full(slots, capacity) \ {i}
           /\ ObjectsIn(slots, capacity)' = ObjectsIn(slots, capacity) \ {slots[i].object}
<1>1. /\ capacity \in Nat /\ IsFiniteSet(Full(slots, capacity))
      /\ Cardinality(Full(slots, capacity)) \in Nat
  BY FullFinite, TableAssumption DEF TableInv, Sound
<1>2. /\ Sound(slots', capacity, IF freeTail = NONE THEN i ELSE freeHead, i, Append(free, i),
               [uses EXCEPT ![i] = @ + 1])
      /\ Full(slots', capacity) = Full(slots, capacity) \ {i}
      /\ ObjectsIn(slots', capacity) = ObjectsIn(slots, capacity) \ {slots[i].object}
  <2>1. slots' = Enqueued(Emptied(slots, i), freeTail, i)
    BY DEF RemoveAt, Emptied
  <2>2. Sound(slots, capacity, freeHead, freeTail, free, uses)
    BY DEF TableInv
  <2> QED
    BY <2>1, <2>2, SoundRemove
<1>3. Cardinality(Full(slots', capacity)) = Cardinality(Full(slots, capacity)) - 1
  BY <1>1, <1>2, FS_RemoveElement
<1> QED
  BY <1>2, <1>3 DEF TableInv, RemoveAt, Full, ObjectsIn

\* An ID that is found leads to a full slot.
LEMMA HoldsFull ==
    ASSUME TableInv, NEW id \in Nat, Holds(id)
    PROVE  IndexOf(id) \in Full(slots, capacity)
<1>1. IndexOf(id) \in Nat
  BY TableAssumption DEF IndexOf
<1>2. IndexOf(id) \in 0 .. capacity - 1
  BY <1>1, TableAssumption DEF Holds, TableInv, Sound
<1> QED
  BY <1>2 DEF Holds, Full

LEMMA RemoveInv ==
    ASSUME TableInv, NEW id \in Nat, Remove(id)
    PROVE  TableInv'
BY HoldsFull, RemoveAtInv DEF Remove

LEMMA OccupiedFull == Occupied = Full(slots, capacity)
BY DEF Occupied, Full, Index

LEMMA TerminationInv ==
    ASSUME TableInv,
           NvTerminate \/ DeleteAllContexts \/ DeleteAllObjects \/ NvdObjectTableDestroy
    PROVE  TableInv'
<1>1. CASE NvTerminate
  BY <1>1 DEF NvTerminate, TableInv, Full
<1>2. CASE DeleteAllContexts
  BY <1>2, OccupiedFull, RemoveAtInv DEF DeleteAllContexts, ContextSlots
<1>3. CASE DeleteAllObjects
  BY <1>3, OccupiedFull, RemoveAtInv DEF DeleteAllObjects
<1>4. CASE NvdObjectTableDestroy
  BY <1>4, SoundEmpty DEF NvdObjectTableDestroy, TableInv, Full
<1> QED
  BY <1>1, <1>2, <1>3, <1>4

-----------------------------------------------------------------------------
(* What the invariant says.                                                *)

LEMMA InvType == TableInv => TypeOK
<1> SUFFICES ASSUME TableInv PROVE TypeOK
  OBVIOUS
<1>1. capacity \in Nat /\ 0 .. capacity - 1 \in SUBSET Nat
  BY TableAssumption DEF TableInv, Sound
<1>2. liveCount \in Nat
  BY <1>1, FullFinite DEF TableInv
<1>3. freeHead \in Index \cup {NONE} /\ freeTail \in Index \cup {NONE}
  BY <1>1, HeadIsFirst DEF TableInv, Sound, Index
<1> QED
  BY <1>2, <1>3 DEF TypeOK, TableInv, Sound, Index

LEMMA InvFreeList == TableInv => FreeListExact
BY OccupiedFull DEF TableInv, Sound, FreeListExact, Linked, Named, Index, Last

\* The IDs of the objects in the table, each with its parts.
LEMMA ObjectIds ==
    ASSUME TableInv, NEW i \in Occupied
    PROVE  LET o == slots[i].object IN
           /\ i \in Index /\ i \in 0 .. MaxCapacity - 1 /\ o \in Object /\ o # NULL
           /\ o.id = MakeId(slots[i].generation, i)
           /\ o.id \in Ids /\ o.id \in Nat
           /\ slots[i].generation \in 1 .. MaxGeneration
           /\ GenerationOf(o.id) = slots[i].generation /\ IndexOf(o.id) = i
           /\ Holds(o.id)
<1> USE TableAssumption
<1>1. /\ i \in 0 .. capacity - 1 /\ i \in Index /\ slots[i] \in Slot /\ slots[i].object # NULL
      /\ capacity \in 0 .. MaxCapacity
      /\ slots[i].object.id = MakeId(slots[i].generation, i)
  BY DEF TableInv, Sound, IdsMatch, Occupied, Index
<1>2. /\ slots[i].object \in Object /\ slots[i].generation \in 1 .. MaxGeneration
      /\ i \in 0 .. MaxCapacity - 1
  BY <1>1 DEF Slot
<1>3. /\ MakeId(slots[i].generation, i) \in Ids
      /\ MakeId(slots[i].generation, i) \in Nat
      /\ GenerationOf(MakeId(slots[i].generation, i)) = slots[i].generation
      /\ IndexOf(MakeId(slots[i].generation, i)) = i
  BY <1>2, IdParts
<1>4. Holds(slots[i].object.id)
  BY <1>1, <1>2, <1>3 DEF Holds
<1> QED
  BY <1>1, <1>2, <1>3, <1>4

LEMMA InvLive == TableInv => LiveObjectFound
<1> SUFFICES ASSUME TableInv, NEW i \in Occupied
    PROVE  /\ Get(slots[i].object.type, slots[i].object.id) = slots[i].object
           /\ \A id \in Ids : Holds(id) /\ IndexOf(id) = i => id = slots[i].object.id
  BY DEF LiveObjectFound
<1>1. /\ slots[i].object.id = MakeId(slots[i].generation, i)
      /\ IndexOf(slots[i].object.id) = i /\ Holds(slots[i].object.id)
  BY ObjectIds
<1>2. Get(slots[i].object.type, slots[i].object.id) = slots[i].object
  BY <1>1 DEF Get
<1>3. ASSUME NEW id \in Ids, Holds(id), IndexOf(id) = i PROVE id = slots[i].object.id
  BY <1>1, <1>3, IdWhole DEF Holds
<1> QED
  BY <1>2, <1>3

LEMMA InvStale == TableInv => StaleIdRejected
<1> USE TableAssumption
<1> SUFFICES ASSUME TableInv, NEW i \in Index, NEW u \in 0 .. uses[i] - 1, Holds(IdOfUse(i, u))
    PROVE  uses[i] - u >= MaxGeneration
  BY DEF StaleIdRejected
<1>1. i \in 0 .. capacity - 1 /\ i \in 0 .. MaxCapacity - 1 /\ uses[i] \in Nat /\ u \in Nat /\ u < uses[i]
  BY DEF TableInv, Sound, Index
<1>2. (u % MaxGeneration) + 1 \in 1 .. MaxGeneration
  BY <1>1, GenerationStep
<1>3. GenerationOf(IdOfUse(i, u)) = (u % MaxGeneration) + 1 /\ IndexOf(IdOfUse(i, u)) = i
  BY <1>1, <1>2, IdParts DEF IdOfUse
<1>4. slots[i].generation = (uses[i] % MaxGeneration) + 1
  BY <1>1 DEF TableInv, Sound, IdsMatch
<1>5. (u % MaxGeneration) + 1 = (uses[i] % MaxGeneration) + 1
  BY <1>3, <1>4 DEF Holds
<1>6. u % MaxGeneration = uses[i] % MaxGeneration
  <2>1. u % MaxGeneration \in Nat /\ uses[i] % MaxGeneration \in Nat
    BY <1>1
  <2> QED
    BY <1>5, <2>1
<1> QED
  BY <1>1, <1>6, SameRemainder

-----------------------------------------------------------------------------
(* The theorems.                                                           *)

LEMMA NextInv == TableInv /\ [Next]_vars => TableInv'
<1> SUFFICES ASSUME TableInv, [Next]_vars PROVE TableInv'
  OBVIOUS
<1>1. ASSUME NEW type \in Types, Allocate(type) \/ GrowAndAllocate(type) PROVE TableInv'
  BY <1>1, AllocateInv, GrowAndAllocateInv
<1>2. ASSUME NEW id \in Ids, Remove(id) PROVE TableInv'
  BY <1>2, IdWhole, RemoveInv
<1>3. CASE UNCHANGED vars
  BY <1>3 DEF vars, TableInv, Full
<1> QED
  BY <1>1, <1>2, <1>3, TerminationInv DEF Next

LEMMA TableInvariant == Spec => []TableInv
BY InitInv, NextInv, PTL DEF Spec

\* Every variable of the table keeps its type: the generation is never zero
\* and the capacity never outgrows the index bits of an ID.
THEOREM TableTypeCorrect == Spec => []TypeOK
BY TableInvariant, InvType, PTL

\* The free list threaded through the slots by growTable, allocate and
\* remove is the FIFO list of exactly the free slots, and liveCount is the
\* number of the others, for a table of any size.
THEOREM FreeListCorrect == Spec => []FreeListExact
BY TableInvariant, InvFreeList, PTL

\* nvdObjectTableGet finds a live object under its ID and under no other,
\* and finds nothing under the ID of a removed one until the generation of
\* its slot has gone round, however long the table is used.
THEOREM LookupsCorrect == Spec => [](LiveObjectFound /\ StaleIdRejected)
BY TableInvariant, InvLive, InvStale, PTL

-----------------------------------------------------------------------------
(* Functions with an entry more, and with some less.                       *)

LEMMA PutDomain ==
    ASSUME NEW f, NEW x, NEW v
    PROVE  DOMAIN Put(f, x, v) = DOMAIN f \cup {x}
BY DEF Put

LEMMA PutNew ==
    ASSUME NEW f, NEW x, NEW v
    PROVE  Put(f, x, v)[x] = v
BY DEF Put

LEMMA PutOld ==
    ASSUME NEW f, NEW x, NEW v, NEW y \in DOMAIN f, y # x
    PROVE  Put(f, x, v)[y] = f[y]
BY DEF Put

LEMMA PutType ==
    ASSUME NEW S, NEW V, NEW f \in [S -> V], NEW x, NEW v \in V
    PROVE  Put(f, x, v) \in [S \cup {x} -> V]
BY DEF Put

LEMMA DropDomain ==
    ASSUME NEW f, NEW T
    PROVE  DOMAIN Drop(f, T) = DOMAIN f \ T
BY DEF Drop

LEMMA DropOld ==
    ASSUME NEW f, NEW T, NEW y \in DOMAIN f \ T
    PROVE  Drop(f, T)[y] = f[y]
BY DEF Drop

LEMMA DropType ==
    ASSUME NEW S, NEW V, NEW f \in [S -> V], NEW T
    PROVE  Drop(f, T) \in [S \ T -> V]
BY DEF Drop

-----------------------------------------------------------------------------
(* Size classes.                                                           *)

\* The class of a size is one whose blocks are large enough for it.
LEMMA ClassFacts ==
    ASSUME NEW size \in Sizes
    PROVE  /\ size \in Nat
           /\ PoolClass(size) \in 0 .. Len(ClassSizes)
           /\ PoolClass(size) # 0 => /\ PoolClass(size) \in Classes
                                     /\ Capacity(size) = ClassSizes[PoolClass(size)]
           /\ Capacity(size) \in Nat /\ size <= Capacity(size)
<1> USE PoolAssumption
<1> DEFINE fits == {c \in Classes : size <= ClassSizes[c]}
<1>1. size \in Nat /\ Classes \subseteq Nat /\ 0 \notin Classes
      /\ Classes \subseteq 0 .. Len(ClassSizes) /\ 0 \in 0 .. Len(ClassSizes)
      /\ \A c \in Classes : ClassSizes[c] \in Nat
  BY DEF Classes
<1>2. CASE fits = {}
  <2>1. PoolClass(size) = 0
    BY <1>2 DEF PoolClass
  <2> QED
    BY <1>1, <2>1 DEF Capacity
<1>3. CASE fits # {}
  <2>1. \E c \in fits : \A d \in fits : c <= d
    BY <1>1, <1>3, LeastNat
  <2>2. PoolClass(size) \in fits
    BY <1>3, <2>1 DEF PoolClass
  <2> QED
    BY <1>1, <2>2 DEF Capacity
<1> QED
  BY <1>2, <1>3

-----------------------------------------------------------------------------
(* The table as Buffers uses it: a set of objects that the steps add one   *)
(* to or take one from.                                                    *)

Objects == ObjectsIn(slots, capacity)

\* An object of the table has an ID, and an ID has one object.
LEMMA ObjectsUnique ==
    ASSUME TableInv
    PROVE  /\ \A o \in Objects : o \in Object /\ o # NULL /\ o.id \in Ids
           /\ \A o, p \in Objects : o.id = p.id => o = p
           /\ (capacity = 0 \/ liveCount = 0) => Objects = {}
<1>1. Sound(slots, capacity, freeHead, freeTail, free, uses)
  BY DEF TableInv
<1>2. \A i \in Full(slots, capacity) : slots[i].object \in Object /\ slots[i].object # NULL
  BY <1>1 DEF Sound, Slot, Full
<1>3. capacity = 0 => Full(slots, capacity) = {}
  BY DEF Full
<1>4. liveCount = 0 => Full(slots, capacity) = {}
  <2>1. capacity \in Nat
    BY <1>1, TableAssumption DEF Sound
  <2>2. IsFiniteSet(Full(slots, capacity)) /\ liveCount = Cardinality(Full(slots, capacity))
    BY <2>1, FullFinite DEF TableInv
  <2> QED
    BY <2>2, FS_EmptySet
<1> QED
  BY <1>1, <1>2, <1>3, <1>4, ObjectsDistinct DEF Objects, ObjectsIn

\* allocateObject adds an object under an ID that no object has, or nothing.
LEMMA NewEffect ==
    ASSUME TableInv, NEW type \in Types, New(type)
    PROVE  /\ TableInv' /\ ~terminating /\ ~terminating' /\ capacity' # 0
           /\ \/ /\ Made /\ NewId \in Ids /\ \A o \in Objects : o.id # NewId
                 /\ Objects' = Objects \cup {[type |-> type, id |-> NewId]}
              \/ ~Made /\ Objects' = Objects
<1> USE TableAssumption
<1>0. /\ Sound(slots, capacity, freeHead, freeTail, free, uses)
      /\ liveCount = Cardinality(Full(slots, capacity)) /\ terminating \in BOOLEAN
      /\ capacity \in 0 .. MaxCapacity
  BY DEF TableInv, Sound
<1>1. CASE Allocate(type)
  <2>1. /\ Here.slots = slots /\ Here.capacity = capacity /\ Here.head = freeHead
        /\ Here.tail = freeTail /\ Here.free = free
    BY DEF Here, Table
  <2>2. /\ Sound(Here.slots, Here.capacity, Here.head, Here.tail, Here.free, uses)
        /\ Here.head # NONE /\ liveCount = Cardinality(Full(Here.slots, Here.capacity))
        /\ AllocateIn(Here, type) \/ AllocateFailIn(Here)
        /\ uses' = uses /\ freeHead # NONE
    BY <1>0, <1>1, <2>1 DEF Allocate
  <2>3. /\ capacity' = capacity
        /\ \/ /\ liveCount' = liveCount + 1
              /\ ObjectsIn(slots', capacity') = ObjectsIn(slots, capacity)
                   \cup {[type |-> type, id |-> MakeId(slots[freeHead].generation, freeHead)]}
           \/ /\ liveCount' # liveCount + 1
              /\ ObjectsIn(slots', capacity') = ObjectsIn(slots, capacity)
    <3> HIDE DEF Here
    <3> QED
      BY <2>1, <2>2, AllocateInSound
  <2>4. freeHead \in 0 .. capacity - 1 /\ freeHead \notin Full(slots, capacity)
    BY <1>0, <2>2, HeadIsFree
  <2>5. NewId = MakeId(slots[freeHead].generation, freeHead)
    BY <2>2 DEF NewId
  <2>6. NewId \in Ids /\ IndexOf(NewId) = freeHead
    <3>1. slots[freeHead].generation \in 0 .. MaxGeneration /\ freeHead \in 0 .. MaxCapacity - 1
      BY <1>0, <2>4 DEF Sound, Slot
    <3> QED
      BY <2>5, <3>1, IdParts
  <2>7. \A o \in Objects : o.id # NewId
    BY <1>0, <2>4, <2>6, ObjectsDistinct DEF Objects, ObjectsIn
  <2>8. TableInv' /\ ~terminating /\ ~terminating' /\ capacity # 0
    BY <1>0, <1>1, <2>4, AllocateInv DEF Allocate
  <2> QED
    BY <2>3, <2>5, <2>6, <2>7, <2>8 DEF Objects, Made
<1>2. CASE GrowAndAllocate(type)
  <2>1. /\ Sound(Grown.slots, Grown.capacity, Grown.head, Grown.tail, Grown.free,
                 GrownUses(NewCapacity))
        /\ Grown.head # NONE /\ Grown.head = capacity /\ Grown.capacity = NewCapacity
        /\ Full(Grown.slots, Grown.capacity) = Full(slots, capacity)
        /\ ObjectsIn(Grown.slots, Grown.capacity) = ObjectsIn(slots, capacity)
        /\ Grown.slots[Grown.head].generation = 1
    BY <1>0, <1>2, SoundGrow DEF GrowAndAllocate
  <2>2. /\ liveCount = Cardinality(Full(Grown.slots, Grown.capacity))
        /\ AllocateIn(Grown, type) \/ AllocateFailIn(Grown)
        /\ uses' = GrownUses(NewCapacity) /\ freeHead = NONE
    BY <1>0, <1>2, <2>1 DEF GrowAndAllocate
  <2>3. /\ capacity' = NewCapacity
        /\ \/ /\ liveCount' = liveCount + 1
              /\ ObjectsIn(slots', capacity') = ObjectsIn(slots, capacity)
                   \cup {[type |-> type, id |-> MakeId(1, capacity)]}
           \/ /\ liveCount' # liveCount + 1
              /\ ObjectsIn(slots', capacity') = ObjectsIn(slots, capacity)
    <3> HIDE DEF Grown
    <3> QED
      BY <2>1, <2>2, AllocateInSound
  <2>4. capacity \in 0 .. MaxCapacity - 1 /\ NewCapacity # 0
    BY <1>0, <1>2 DEF GrowAndAllocate, CanGrow, NewCapacity, Min2
  <2>5. NewId = MakeId(1, capacity)
    BY <2>2 DEF NewId
  <2>6. NewId \in Ids /\ IndexOf(NewId) = capacity
    BY <2>4, <2>5, IdParts, 1 \in 0 .. MaxGeneration
  <2>7. \A o \in Objects : o.id # NewId
    <3>1. capacity \notin Full(slots, capacity)
      BY <1>0 DEF Full
    <3> QED
      BY <1>0, <2>6, <3>1, ObjectsDistinct DEF Objects, ObjectsIn
  <2>8. TableInv' /\ ~terminating /\ ~terminating'
    BY <1>2, GrowAndAllocateInv DEF GrowAndAllocate
  <2> QED
    BY <2>3, <2>4, <2>5, <2>6, <2>7, <2>8 DEF Objects, Made
<1> QED
  BY <1>1, <1>2 DEF New

\* deleteObject takes the object of its ID.
LEMMA RemoveEffect ==
    ASSUME TableInv, NEW o \in Objects, Remove(o.id)
    PROVE  /\ TableInv' /\ Objects' = Objects \ {o}
           /\ terminating' = terminating /\ capacity' = capacity
<1>1. PICK i \in Full(slots, capacity) : o = slots[i].object
  BY DEF Objects, ObjectsIn
<1>2. IndexOf(o.id) = i
  BY <1>1, ObjectsDistinct DEF TableInv
<1> QED
  BY <1>1, <1>2, RemoveAtInv DEF Remove, RemoveAt, Objects

\* A lookup finds exactly the objects of the table.
LEMMA GetEffect ==
    ASSUME TableInv, NEW type, NEW id \in Ids
    PROVE  Get(type, id) # NULL <=> [type |-> type, id |-> id] \in Objects
<1>1. ASSUME Get(type, id) # NULL PROVE [type |-> type, id |-> id] \in Objects
  <2> DEFINE i == IndexOf(id)
  <2>1. Holds(id) /\ slots[i].object.type = type
    BY <1>1 DEF Get
  <2>2. i \in Occupied
    BY <2>1, HoldsFull, IdWhole, OccupiedFull
  <2>3. slots[i].object.id = id
    BY <2>1, <2>2, InvLive DEF LiveObjectFound
  <2>4. slots[i].object \in Object
    BY <2>2, ObjectIds
  <2>5. slots[i].object = [type |-> type, id |-> id]
    BY <2>1, <2>3, <2>4 DEF Object
  <2> QED
    BY <2>2, <2>5, OccupiedFull DEF Objects, ObjectsIn
<1>2. ASSUME [type |-> type, id |-> id] \in Objects PROVE Get(type, id) # NULL
  <2>1. PICK i \in Full(slots, capacity) : [type |-> type, id |-> id] = slots[i].object
    BY <1>2 DEF Objects, ObjectsIn
  <2>2. slots[i].object.type = type /\ slots[i].object.id = id /\ i \in Occupied
    BY <2>1, OccupiedFull
  <2>3. Get(type, id) = slots[i].object /\ slots[i].object # NULL
    BY <2>2, InvLive, ObjectIds DEF LiveObjectFound
  <2> QED
    BY <2>3
<1> QED
  BY <1>1, <1>2

-----------------------------------------------------------------------------
(* The inductive invariant.  The properties need each other: an object is  *)
(* removed under an ID that must still be its own, the IDs a call keeps    *)
(* between its steps stay its own because no other call may have them, and *)
(* a block has one owner because the buffer a call is filling has none.    *)

BufferRecord ==
    [kind : {"buffer"}, size : Sizes, imageOwned : BOOLEAN, ptr : (1 .. MaxBlocks) \cup {NULL},
     poolClass : 0 .. Len(ClassSizes), capacity : Nat]
ImageRecord == [kind : {"image"}, imageBufferId : Nat]
Contents == {NoContents} \cup BufferRecord \cup ImageRecord

\* What is behind the IDs is what the table holds.
BodyOK(bd, objects) ==
    /\ bd \in [{o.id : o \in objects} -> Contents]
    /\ \A o \in objects : bd[o.id].kind = o.type

\* The objects a call keeps between two of its steps.
Held(c) ==
    IF c = Idle THEN {} ELSE IF c.op = "imageMemory" THEN {c.id, c.buffer} ELSE {c.id}

\* They are there, in the state the call left them in.
CallOK(c, bd) ==
    \/ c = Idle
    \/ \E id \in DOMAIN bd, s \in Sizes :
        c = [op |-> "buffer", id |-> id] /\ bd[id] = Buffer(s, FALSE)
    \/ \E id \in DOMAIN bd, s \in Sizes \ {0} :
        c = [op |-> "image", id |-> id, size |-> s] /\ bd[id] = Image(0)
    \/ \E id, b \in DOMAIN bd, s \in Sizes \ {0} :
        /\ c = [op |-> "imageMemory", id |-> id, buffer |-> b]
        /\ bd[id] = Image(0) /\ bd[b] = Buffer(s, TRUE)
    \/ \E id \in DOMAIN bd : c = [op |-> "dropImage", id |-> id] /\ bd[id] = Image(0)
    \/ \E id \in DOMAIN bd : c = [op |-> "destroyImage", id |-> id] /\ bd[id].kind = "image"

CallsOK(calls, bd) ==
    /\ calls = [t \in Threads |-> calls[t]]
    /\ \A t \in Threads : CallOK(calls[t], bd)
    /\ \A t, u \in Threads : t # u => Held(calls[t]) \cap Held(calls[u]) = {}

HeldIds(calls) == UNION {Held(calls[t]) : t \in Threads}

\* Outside the calls an image has a buffer of its own, with memory, and the
\* buffer of an image has its image.
ImagesOK(bd, held) ==
    /\ \A id \in DOMAIN bd \ held : bd[id].kind = "image" =>
        LET b == bd[id].imageBufferId IN
        b \in DOMAIN bd /\ bd[b].kind = "buffer" /\ bd[b].imageOwned /\ bd[b].ptr # NULL
    /\ \A id, x \in DOMAIN bd \ held :
        /\ bd[id].kind = "image" /\ bd[x].kind = "image"
        /\ bd[id].imageBufferId = bd[x].imageBufferId
        => id = x
    /\ \A b \in DOMAIN bd \ held : bd[b].kind = "buffer" /\ bd[b].imageOwned =>
        \E id \in DOMAIN bd \ held : bd[id].kind = "image" /\ bd[id].imageBufferId = b

\* The buffers that have memory.
Filled(bd) == {id \in DOMAIN bd : bd[id].kind = "buffer" /\ bd[id].ptr # NULL}

MemType(m) ==
    /\ m = [heap |-> m.heap, pool |-> m.pool, counts |-> m.counts, bytes |-> m.bytes]
    /\ m.heap \in [DOMAIN m.heap -> Nat] /\ DOMAIN m.heap \subseteq 1 .. MaxBlocks
    /\ m.pool \in [Classes -> Seq(1 .. MaxBlocks)]
    /\ m.counts \in [Classes -> Nat]
    /\ m.bytes \in Nat

\* Every block has one owner, a buffer or a place in the pool.
OwnersOK(bd, heap, pool) ==
    /\ \A id \in Filled(bd) :
        /\ bd[id].ptr \in DOMAIN heap /\ heap[bd[id].ptr] = bd[id].capacity
        /\ bd[id].capacity = Capacity(bd[id].size) /\ bd[id].poolClass = PoolClass(bd[id].size)
        /\ \A c \in Classes : \A n \in 1 .. Len(pool[c]) : pool[c][n] # bd[id].ptr
    /\ \A id, x \in Filled(bd) : bd[id].ptr = bd[x].ptr => id = x
    /\ \A c \in Classes : \A n \in 1 .. Len(pool[c]) :
        /\ pool[c][n] \in DOMAIN heap /\ heap[pool[c][n]] = ClassSizes[c]
        /\ \A d \in Classes : \A k \in 1 .. Len(pool[d]) : pool[c][n] = pool[d][k] => c = d /\ n = k
    /\ \A b \in DOMAIN heap :
        \/ \E id \in Filled(bd) : bd[id].ptr = b
        \/ \E c \in Classes : \E n \in 1 .. Len(pool[c]) : pool[c][n] = b

\* The pool counts what it keeps, and no more than it may.
PlacesOf(pool) == UNION {{c} \X (1 .. Len(pool[c])) : c \in Classes}
BytesOf(pool) == UNION {{p} \X (1 .. ClassSizes[p[1]]) : p \in PlacesOf(pool)}

PoolOK(pool, counts, bytes) ==
    /\ \A c \in Classes : counts[c] = Len(pool[c]) /\ counts[c] <= PoolBlocks
    /\ IsFiniteSet(BytesOf(pool)) /\ bytes = Cardinality(BytesOf(pool))
    /\ bytes <= PoolMaxBytes

MemInv(bd, m) ==
    /\ MemType(m)
    /\ OwnersOK(bd, m.heap, m.pool)
    /\ PoolOK(m.pool, m.counts, m.bytes)

BuffersInv ==
    /\ TableInv
    /\ BodyOK(body, Objects)
    /\ CallsOK(call, body)
    /\ terminating => \A t \in Threads : call[t] = Idle
    /\ ~terminating => ImagesOK(body, HeldIds(call))
    /\ MemInv(body, mem)
    /\ capacity = 0 /\ ~terminating => DOMAIN mem.heap = {}

-----------------------------------------------------------------------------
(* What is behind the IDs.                                                 *)

LEMMA BodyPut ==
    ASSUME NEW bd, NEW objects, BodyOK(bd, objects), NEW o, o.id \notin {x.id : x \in objects},
           NEW b \in Contents, b.kind = o.type
    PROVE  BodyOK(Put(bd, o.id, b), objects \cup {o})
<1>1. {x.id : x \in objects \cup {o}} = {x.id : x \in objects} \cup {o.id}
  OBVIOUS
<1>2. Put(bd, o.id, b) \in [{x.id : x \in objects} \cup {o.id} -> Contents]
  BY PutType DEF BodyOK
<1>3. \A x \in objects \cup {o} : Put(bd, o.id, b)[x.id].kind = x.type
  <2> DEFINE S == {x.id : x \in objects}
             f == Put(bd, o.id, b)
  <2>1. /\ DOMAIN bd = S
        /\ \A x \in objects : x.id \in S /\ x.id # o.id /\ bd[x.id].kind = x.type
    BY DEF BodyOK
  <2> HIDE DEF S
  <2>2. f[o.id] = b
    BY PutNew
  <2>3. \A y \in DOMAIN bd : y # o.id => f[y] = bd[y]
    BY PutOld
  <2> HIDE DEF f
  <2>4. \A x \in objects : f[x.id].kind = x.type
    BY <2>1, <2>3
  <2> QED
    BY <2>2, <2>4 DEF f
<1> QED
  BY <1>1, <1>2, <1>3 DEF BodyOK

LEMMA BodyDrop ==
    ASSUME NEW bd, NEW objects, BodyOK(bd, objects), NEW o \in objects,
           \A x \in objects : x.id = o.id => x = o
    PROVE  BodyOK(Drop(bd, {o.id}), objects \ {o})
<1>1. {x.id : x \in objects \ {o}} = {x.id : x \in objects} \ {o.id}
  OBVIOUS
<1>2. Drop(bd, {o.id}) \in [{x.id : x \in objects} \ {o.id} -> Contents]
  BY DropType DEF BodyOK
<1>3. \A x \in objects \ {o} : Drop(bd, {o.id})[x.id].kind = x.type
  <2> DEFINE S == {x.id : x \in objects}
             f == Drop(bd, {o.id})
  <2>1. /\ DOMAIN bd = S
        /\ \A x \in objects \ {o} : x.id \in S \ {o.id} /\ bd[x.id].kind = x.type
    BY DEF BodyOK
  <2> HIDE DEF S
  <2>2. \A y \in S \ {o.id} : f[y] = bd[y]
    BY <2>1, DropOld
  <2> HIDE DEF f
  <2>3. \A x \in objects \ {o} : f[x.id].kind = x.type
    BY <2>1, <2>2
  <2> QED
    BY <2>3 DEF f
<1> QED
  BY <1>1, <1>2, <1>3 DEF BodyOK

\* The objects of new calls are objects of their kind.
LEMMA NewContents ==
    /\ NoContents \in Contents /\ NoContents.kind = "context"
    /\ \A s \in Sizes, owned \in BOOLEAN :
        /\ Buffer(s, owned) \in BufferRecord /\ Buffer(s, owned) \in Contents
        /\ Buffer(s, owned).kind = "buffer" /\ Buffer(s, owned).ptr = NULL
        /\ Buffer(s, owned).size = s /\ Buffer(s, owned).imageOwned = owned
    /\ \A id \in Nat : /\ Image(id) \in ImageRecord /\ Image(id) \in Contents
                       /\ Image(id).kind = "image" /\ Image(id).imageBufferId = id
<1>1. Len(ClassSizes) \in Nat
  BY PoolAssumption
<1>2. \A s \in Sizes, owned \in BOOLEAN : Buffer(s, owned) \in BufferRecord
  BY <1>1 DEF Buffer, BufferRecord
<1>3. \A id \in Nat : Image(id) \in ImageRecord
  BY DEF Image, ImageRecord
<1> QED
  BY <1>2, <1>3 DEF NoContents, Buffer, Image, Contents

-----------------------------------------------------------------------------
(* The calls.                                                              *)

\* What a call expects of the objects it keeps depends on them alone.
LEMMA CallFrame ==
    ASSUME NEW c, NEW bd, NEW bd2, CallOK(c, bd),
           \A id \in Held(c) : id \in DOMAIN bd2 /\ bd2[id] = bd[id]
    PROVE  CallOK(c, bd2)
<1>1. CASE c = Idle
  BY <1>1 DEF CallOK
<1>2. CASE c # Idle
  <2>1. c.op # "imageMemory" => c.id \in DOMAIN bd2 /\ bd2[c.id] = bd[c.id]
    BY <1>2 DEF Held
  <2>2. c.op = "imageMemory" => /\ c.id \in DOMAIN bd2 /\ bd2[c.id] = bd[c.id]
                                /\ c.buffer \in DOMAIN bd2 /\ bd2[c.buffer] = bd[c.buffer]
    BY <1>2 DEF Held
  <2>3. CASE \E id \in DOMAIN bd, s \in Sizes :
               c = [op |-> "buffer", id |-> id] /\ bd[id] = Buffer(s, FALSE)
    <3>1. PICK id \in DOMAIN bd, s \in Sizes :
                 c = [op |-> "buffer", id |-> id] /\ bd[id] = Buffer(s, FALSE)
      BY <2>3
    <3>2. id \in DOMAIN bd2 /\ bd2[id] = Buffer(s, FALSE)
      BY <2>1, <3>1
    <3> QED
      BY <3>1, <3>2 DEF CallOK
  <2>4. CASE \E id \in DOMAIN bd, s \in Sizes \ {0} :
               c = [op |-> "image", id |-> id, size |-> s] /\ bd[id] = Image(0)
    <3>1. PICK id \in DOMAIN bd, s \in Sizes \ {0} :
                 c = [op |-> "image", id |-> id, size |-> s] /\ bd[id] = Image(0)
      BY <2>4
    <3>2. id \in DOMAIN bd2 /\ bd2[id] = Image(0)
      BY <2>1, <3>1
    <3> QED
      BY <3>1, <3>2 DEF CallOK
  <2>5. CASE \E id, b \in DOMAIN bd, s \in Sizes \ {0} :
               /\ c = [op |-> "imageMemory", id |-> id, buffer |-> b]
               /\ bd[id] = Image(0) /\ bd[b] = Buffer(s, TRUE)
    <3>1. PICK id \in DOMAIN bd, b \in DOMAIN bd, s \in Sizes \ {0} :
                 /\ c = [op |-> "imageMemory", id |-> id, buffer |-> b]
                 /\ bd[id] = Image(0) /\ bd[b] = Buffer(s, TRUE)
      BY <2>5
    <3>2. /\ id \in DOMAIN bd2 /\ bd2[id] = Image(0)
          /\ b \in DOMAIN bd2 /\ bd2[b] = Buffer(s, TRUE)
      BY <2>2, <3>1
    <3> QED
      BY <3>1, <3>2 DEF CallOK
  <2>6. CASE \E id \in DOMAIN bd : c = [op |-> "dropImage", id |-> id] /\ bd[id] = Image(0)
    <3>1. PICK id \in DOMAIN bd : c = [op |-> "dropImage", id |-> id] /\ bd[id] = Image(0)
      BY <2>6
    <3>2. id \in DOMAIN bd2 /\ bd2[id] = Image(0)
      BY <2>1, <3>1
    <3> QED
      BY <3>1, <3>2 DEF CallOK
  <2>7. CASE \E id \in DOMAIN bd : c = [op |-> "destroyImage", id |-> id] /\ bd[id].kind = "image"
    <3>1. PICK id \in DOMAIN bd : c = [op |-> "destroyImage", id |-> id] /\ bd[id].kind = "image"
      BY <2>7
    <3>2. id \in DOMAIN bd2 /\ bd2[id].kind = "image"
      BY <2>1, <3>1
    <3> QED
      BY <3>1, <3>2 DEF CallOK
  <2> QED
    BY <1>2, <2>3, <2>4, <2>5, <2>6, <2>7 DEF CallOK
<1> QED
  BY <1>1, <1>2

\* A call is what its op says.
LEMMA CallCases ==
    ASSUME NEW c, NEW bd, CallOK(c, bd)
    PROVE  /\ Held(c) \subseteq DOMAIN bd
           /\ c = Idle <=> c.op = "none"
           /\ c.op = "buffer" => /\ Held(c) = {c.id} /\ c.id \in DOMAIN bd
                                 /\ \E s \in Sizes : bd[c.id] = Buffer(s, FALSE)
           /\ c.op = "image" => /\ Held(c) = {c.id} /\ c.id \in DOMAIN bd
                                /\ bd[c.id] = Image(0) /\ c.size \in Sizes \ {0}
           /\ c.op = "imageMemory" => /\ Held(c) = {c.id, c.buffer}
                                      /\ c.id \in DOMAIN bd /\ c.buffer \in DOMAIN bd
                                      /\ bd[c.id] = Image(0) /\ c.id # c.buffer
                                      /\ \E s \in Sizes \ {0} : bd[c.buffer] = Buffer(s, TRUE)
           /\ c.op = "dropImage" => /\ Held(c) = {c.id} /\ c.id \in DOMAIN bd /\ bd[c.id] = Image(0)
           /\ c.op = "destroyImage" => /\ Held(c) = {c.id} /\ c.id \in DOMAIN bd
                                       /\ bd[c.id].kind = "image"
<1>1. CASE c = Idle
  <2>1. c.op = "none" /\ Held(c) = {}
    BY <1>1 DEF Idle, Held
  <2> QED
    BY <1>1, <2>1
<1>2. CASE \E id \in DOMAIN bd, s \in Sizes :
             c = [op |-> "buffer", id |-> id] /\ bd[id] = Buffer(s, FALSE)
  <2>1. PICK id \in DOMAIN bd, s \in Sizes :
             c = [op |-> "buffer", id |-> id] /\ bd[id] = Buffer(s, FALSE)
    BY <1>2
  <2>2. c.op = "buffer" /\ c # Idle /\ c.id = id
    BY <2>1 DEF Idle
  <2>3. Held(c) = {id}
    BY <2>2 DEF Held
  <2> QED
    BY <2>1, <2>2, <2>3
<1>3. CASE \E id \in DOMAIN bd, s \in Sizes \ {0} :
             c = [op |-> "image", id |-> id, size |-> s] /\ bd[id] = Image(0)
  BY <1>3 DEF Idle, Held
<1>4. CASE \E id, b \in DOMAIN bd, s \in Sizes \ {0} :
             /\ c = [op |-> "imageMemory", id |-> id, buffer |-> b]
             /\ bd[id] = Image(0) /\ bd[b] = Buffer(s, TRUE)
  <2>1. \A s : Image(0) # Buffer(s, TRUE)
    BY DEF Image, Buffer
  <2>2. PICK id \in DOMAIN bd, b \in DOMAIN bd, s \in Sizes \ {0} :
             /\ c = [op |-> "imageMemory", id |-> id, buffer |-> b]
             /\ bd[id] = Image(0) /\ bd[b] = Buffer(s, TRUE)
    BY <1>4
  <2>3. c.op = "imageMemory" /\ c.id = id /\ c.buffer = b /\ c # Idle /\ id # b
    BY <2>1, <2>2 DEF Idle
  <2>4. Held(c) = {id, b}
    BY <2>3 DEF Held
  <2> QED
    BY <2>2, <2>3, <2>4
<1>5. CASE \E id \in DOMAIN bd : c = [op |-> "dropImage", id |-> id] /\ bd[id] = Image(0)
  BY <1>5 DEF Idle, Held
<1>6. CASE \E id \in DOMAIN bd : c = [op |-> "destroyImage", id |-> id] /\ bd[id].kind = "image"
  BY <1>6 DEF Idle, Held
<1> QED
  BY <1>1, <1>2, <1>3, <1>4, <1>5, <1>6 DEF CallOK

\* A step of thread t that leaves the objects of the other calls alone.
OthersKept(calls, t, bd, bd2, c) ==
    \A u \in Threads \ {t} : \A id \in Held(calls[u]) :
        id \in DOMAIN bd2 /\ bd2[id] = bd[id] /\ id \notin Held(c)
Stepped(calls, t, c) == [calls EXCEPT ![t] = c]

LEMMA CallsStep ==
    ASSUME NEW calls, NEW bd, NEW bd2, CallsOK(calls, bd), NEW t \in Threads, NEW c, CallOK(c, bd2),
           OthersKept(calls, t, bd, bd2, c)
    PROVE  /\ CallsOK(Stepped(calls, t, c), bd2)
           /\ HeldIds(Stepped(calls, t, c)) = (HeldIds(calls) \ Held(calls[t])) \cup Held(c)
<1> USE DEF OthersKept
<1> DEFINE calls2 == Stepped(calls, t, c)
<1>1. /\ calls2 = [u \in Threads |-> calls2[u]] /\ calls2[t] = c
      /\ \A u \in Threads \ {t} : calls2[u] = calls[u]
  BY DEF CallsOK, Stepped
<1> HIDE DEF calls2
<1>2. \A u \in Threads \ {t} : CallOK(calls[u], bd2)
  BY CallFrame DEF CallsOK
<1>3. \A u \in Threads : CallOK(calls2[u], bd2)
  BY <1>1, <1>2
<1>4. ASSUME NEW u \in Threads, NEW w \in Threads, u # w
      PROVE  Held(calls2[u]) \cap Held(calls2[w]) = {}
  <2>1. CASE u = t
    BY <1>1, <1>4, <2>1
  <2>2. CASE w = t
    BY <1>1, <1>4, <2>2
  <2>3. CASE u # t /\ w # t
    BY <1>1, <1>4, <2>3 DEF CallsOK
  <2> QED
    BY <2>1, <2>2, <2>3
<1>5. HeldIds(calls2) = (HeldIds(calls) \ Held(calls[t])) \cup Held(c)
  <2>1. ASSUME NEW id \in HeldIds(calls2)
        PROVE  id \in (HeldIds(calls) \ Held(calls[t])) \cup Held(c)
    <3>1. PICK u \in Threads : id \in Held(calls2[u])
      BY DEF HeldIds
    <3>2. CASE u = t
      BY <1>1, <3>1, <3>2
    <3>3. CASE u # t
      <4>1. id \in Held(calls[u]) /\ id \notin Held(calls[t])
        BY <1>1, <3>1, <3>3 DEF CallsOK
      <4> QED
        BY <4>1 DEF HeldIds
    <3> QED
      BY <3>2, <3>3
  <2>2. ASSUME NEW id \in HeldIds(calls), id \notin Held(calls[t]) PROVE id \in HeldIds(calls2)
    <3>1. PICK u \in Threads : id \in Held(calls[u])
      BY DEF HeldIds
    <3> QED
      BY <1>1, <2>2, <3>1 DEF HeldIds
  <2>3. Held(c) \subseteq HeldIds(calls2)
    BY <1>1 DEF HeldIds
  <2> QED
    BY <2>1, <2>2, <2>3
<1> QED
  BY <1>1, <1>3, <1>4, <1>5 DEF CallsOK, calls2

\* A step that is no call's.
LEMMA CallsSame ==
    ASSUME NEW calls, NEW bd, NEW bd2, CallsOK(calls, bd),
           \A id \in HeldIds(calls) : id \in DOMAIN bd2 /\ bd2[id] = bd[id]
    PROVE  CallsOK(calls, bd2)
<1>1. \A u \in Threads : CallOK(calls[u], bd2)
  <2>1. \A u \in Threads : Held(calls[u]) \subseteq HeldIds(calls)
    BY DEF HeldIds
  <2> QED
    BY <2>1, CallFrame DEF CallsOK
<1> QED
  BY <1>1 DEF CallsOK

-----------------------------------------------------------------------------
(* The blocks.                                                             *)

\* Only the buffers that have memory matter.
LEMMA OwnersFrame ==
    ASSUME NEW bd, NEW bd2, NEW heap, NEW pool, OwnersOK(bd, heap, pool),
           Filled(bd2) = Filled(bd), \A id \in Filled(bd) : bd2[id] = bd[id]
    PROVE  OwnersOK(bd2, heap, pool)
BY DEF OwnersOK

\* A sequence with a new first element, and one without its first.
LEMMA ConsFacts ==
    ASSUME NEW S, NEW s \in Seq(S), NEW x \in S
    PROVE  /\ <<x>> \o s \in Seq(S) /\ Len(<<x>> \o s) = Len(s) + 1
           /\ (<<x>> \o s)[1] = x
           /\ \A n \in 2 .. Len(s) + 1 : (<<x>> \o s)[n] = s[n - 1]
OBVIOUS

LEMMA TailFacts ==
    ASSUME NEW S, NEW s \in Seq(S), s # <<>>
    PROVE  /\ Len(s) \in Nat \ {0} /\ Head(s) = s[1] /\ s[1] \in S
           /\ Tail(s) \in Seq(S) /\ Len(Tail(s)) = Len(s) - 1
           /\ \A n \in 1 .. Len(s) - 1 : Tail(s)[n] = s[n + 1]
OBVIOUS

Pools == [Classes -> Seq(1 .. MaxBlocks)]
Pushed(pool, c, b) == [pool EXCEPT ![c] = <<b>> \o @]
Popped(pool, c) == [pool EXCEPT ![c] = Tail(@)]

\* A block put first in its class: the places move up by one there.
PushedBy(pool, pool2, c, b) ==
    /\ pool2 \in Pools
    /\ Len(pool2[c]) = Len(pool[c]) + 1 /\ pool2[c][1] = b
    /\ \A n \in 2 .. Len(pool[c]) + 1 : pool2[c][n] = pool[c][n - 1]
    /\ \A d \in Classes \ {c} : pool2[d] = pool[d]
    /\ \A d \in Classes : Len(pool[d]) \in Nat /\ Len(pool2[d]) \in Nat

LEMMA PoolPush ==
    ASSUME NEW pool \in Pools, NEW c \in Classes, NEW b \in 1 .. MaxBlocks
    PROVE  PushedBy(pool, Pushed(pool, c, b), c, b)
<1>1. pool[c] \in Seq(1 .. MaxBlocks)
  BY DEF Pools
<1> DEFINE s == <<b>> \o pool[c]
<1>2. /\ s \in Seq(1 .. MaxBlocks) /\ Len(s) = Len(pool[c]) + 1 /\ s[1] = b
      /\ \A n \in 2 .. Len(pool[c]) + 1 : s[n] = pool[c][n - 1]
  BY <1>1, ConsFacts
<1> HIDE DEF s
<1> DEFINE pool2 == [pool EXCEPT ![c] = s]
<1>3. pool2 \in Pools /\ pool2[c] = s /\ \A d \in Classes \ {c} : pool2[d] = pool[d]
  BY <1>2 DEF Pools
<1>4. \A d \in Classes : Len(pool[d]) \in Nat /\ Len(pool2[d]) \in Nat
  BY <1>3 DEF Pools
<1> HIDE DEF pool2
<1>5. /\ pool2 \in Pools
      /\ Len(pool2[c]) = Len(pool[c]) + 1 /\ pool2[c][1] = b
      /\ \A n \in 2 .. Len(pool[c]) + 1 : pool2[c][n] = pool[c][n - 1]
      /\ \A d \in Classes \ {c} : pool2[d] = pool[d]
      /\ \A d \in Classes : Len(pool[d]) \in Nat /\ Len(pool2[d]) \in Nat
  BY <1>2, <1>3, <1>4
<1>6. pool2 = Pushed(pool, c, b)
  BY DEF pool2, s, Pushed
<1> QED
  BY <1>5, <1>6 DEF PushedBy

\* The first block of a class taken: the places move down by one.
PoppedBy(pool, pool2, c, b) ==
    /\ pool2 \in Pools
    /\ Len(pool[c]) \in Nat \ {0} /\ Len(pool2[c]) = Len(pool[c]) - 1
    /\ b = pool[c][1] /\ b \in 1 .. MaxBlocks
    /\ \A n \in 1 .. Len(pool[c]) - 1 : pool2[c][n] = pool[c][n + 1]
    /\ \A d \in Classes \ {c} : pool2[d] = pool[d]
    /\ \A d \in Classes : Len(pool[d]) \in Nat /\ Len(pool2[d]) \in Nat

LEMMA PoolPop ==
    ASSUME NEW pool \in Pools, NEW c \in Classes, pool[c] # <<>>
    PROVE  PoppedBy(pool, Popped(pool, c), c, Head(pool[c]))
<1>1. pool[c] \in Seq(1 .. MaxBlocks)
  BY DEF Pools
<1> DEFINE s == Tail(pool[c])
<1>2. /\ Len(pool[c]) \in Nat \ {0} /\ Head(pool[c]) = pool[c][1] /\ pool[c][1] \in 1 .. MaxBlocks
      /\ s \in Seq(1 .. MaxBlocks) /\ Len(s) = Len(pool[c]) - 1
      /\ \A n \in 1 .. Len(pool[c]) - 1 : s[n] = pool[c][n + 1]
  BY <1>1, TailFacts
<1> HIDE DEF s
<1> DEFINE pool2 == [pool EXCEPT ![c] = s]
<1>3. pool2 \in Pools /\ pool2[c] = s /\ \A d \in Classes \ {c} : pool2[d] = pool[d]
  BY <1>2 DEF Pools
<1>4. \A d \in Classes : Len(pool[d]) \in Nat /\ Len(pool2[d]) \in Nat
  BY <1>3 DEF Pools
<1> HIDE DEF pool2
<1>5. /\ pool2 \in Pools
      /\ Len(pool2[c]) = Len(pool[c]) - 1
      /\ \A n \in 1 .. Len(pool[c]) - 1 : pool2[c][n] = pool[c][n + 1]
      /\ \A d \in Classes \ {c} : pool2[d] = pool[d]
      /\ \A d \in Classes : Len(pool[d]) \in Nat /\ Len(pool2[d]) \in Nat
  BY <1>2, <1>3, <1>4
<1>6. pool2 = Popped(pool, c)
  BY DEF pool2, s, Popped
<1> QED
  BY <1>2, <1>5, <1>6 DEF PoppedBy

\* A buffer's block goes to the pool.
LEMMA OwnersKeep ==
    ASSUME NEW bd, NEW bd2, NEW heap, NEW pool \in Pools, OwnersOK(bd, heap, pool),
           NEW id \in Filled(bd), Filled(bd2) = Filled(bd) \ {id},
           \A x \in Filled(bd2) : bd2[x] = bd[x],
           NEW c \in Classes, NEW b, b = bd[id].ptr, heap[b] = ClassSizes[c],
           NEW pool2, PushedBy(pool, pool2, c, b)
    PROVE  OwnersOK(bd2, heap, pool2)
<1>1. /\ pool2 \in Pools
      /\ Len(pool2[c]) = Len(pool[c]) + 1 /\ pool2[c][1] = b
      /\ \A n \in 2 .. Len(pool[c]) + 1 : pool2[c][n] = pool[c][n - 1]
      /\ \A d \in Classes \ {c} : pool2[d] = pool[d]
      /\ \A d \in Classes : Len(pool[d]) \in Nat /\ Len(pool2[d]) \in Nat
  BY DEF PushedBy
<1> DEFINE Old(d, n) == IF d = c THEN n - 1 ELSE n
<1>2. ASSUME NEW d \in Classes, NEW n \in 1 .. Len(pool2[d]), ~(d = c /\ n = 1)
      PROVE  Old(d, n) \in 1 .. Len(pool[d]) /\ pool2[d][n] = pool[d][Old(d, n)]
  <2>1. CASE d = c
    BY <1>1, <1>2, <2>1
  <2>2. CASE d # c
    BY <1>1, <1>2, <2>2
  <2> QED
    BY <2>1, <2>2
<1>3. ASSUME NEW d \in Classes, NEW n \in 1 .. Len(pool[d])
      PROVE  \E k \in 1 .. Len(pool2[d]) : pool2[d][k] = pool[d][n]
  <2>1. CASE d = c
    <3>1. n + 1 \in 2 .. Len(pool[c]) + 1 /\ n + 1 \in 1 .. Len(pool2[d]) /\ (n + 1) - 1 = n
      BY <1>1, <2>1
    <3> QED
      BY <1>1, <2>1, <3>1
  <2>2. CASE d # c
    BY <1>1, <2>2
  <2> QED
    BY <2>1, <2>2
<1>4. b \in DOMAIN heap /\ \A d \in Classes : \A n \in 1 .. Len(pool[d]) : pool[d][n] # b
  BY DEF OwnersOK
<1>5. 1 \in 1 .. Len(pool2[c])
  BY <1>1
<1>6. ASSUME NEW x \in Filled(bd2)
      PROVE  /\ bd2[x].ptr \in DOMAIN heap /\ heap[bd2[x].ptr] = bd2[x].capacity
             /\ bd2[x].capacity = Capacity(bd2[x].size) /\ bd2[x].poolClass = PoolClass(bd2[x].size)
             /\ \A d \in Classes : \A n \in 1 .. Len(pool2[d]) : pool2[d][n] # bd2[x].ptr
             /\ \A y \in Filled(bd2) : bd2[x].ptr = bd2[y].ptr => x = y
  <2>1. x \in Filled(bd) /\ x # id /\ bd2[x] = bd[x] /\ bd[x].ptr # b
    BY DEF OwnersOK
  <2>2. \A d \in Classes : \A n \in 1 .. Len(pool2[d]) : pool2[d][n] # bd2[x].ptr
    <3> HIDE DEF Old
    <3> QED
      BY <1>1, <1>2, <2>1 DEF OwnersOK
  <2> QED
    BY <2>1, <2>2 DEF OwnersOK
<1>7. ASSUME NEW d \in Classes, NEW n \in 1 .. Len(pool2[d])
      PROVE  /\ pool2[d][n] \in DOMAIN heap /\ heap[pool2[d][n]] = ClassSizes[d]
             /\ \A e \in Classes : \A k \in 1 .. Len(pool2[e]) :
                    pool2[d][n] = pool2[e][k] => d = e /\ n = k
  <2>1. CASE d = c /\ n = 1
    <3> HIDE DEF Old
    <3> QED
      BY <1>1, <1>2, <1>4, <2>1
  <2>2. CASE ~(d = c /\ n = 1)
    <3>1. /\ pool2[d][n] \in DOMAIN heap /\ heap[pool2[d][n]] = ClassSizes[d]
          /\ pool2[d][n] # b
      <4>1. PICK k \in 1 .. Len(pool[d]) : pool2[d][n] = pool[d][k]
        BY <1>2, <2>2
      <4> QED
        BY <1>4, <4>1 DEF OwnersOK
    <3>2. ASSUME NEW e \in Classes, NEW k \in 1 .. Len(pool2[e]), pool2[d][n] = pool2[e][k]
          PROVE  d = e /\ n = k
      <4>1. ~(e = c /\ k = 1)
        BY <1>1, <3>1, <3>2
      <4>2. d = e /\ Old(d, n) = Old(e, k)
        <5> HIDE DEF Old
        <5>1. Old(d, n) \in 1 .. Len(pool[d]) /\ pool2[d][n] = pool[d][Old(d, n)]
          BY <1>2, <2>2
        <5>2. Old(e, k) \in 1 .. Len(pool[e]) /\ pool2[e][k] = pool[e][Old(e, k)]
          BY <1>2, <4>1
        <5>3. \A i \in 1 .. Len(pool[d]), j \in 1 .. Len(pool[e]) :
                 pool[d][i] = pool[e][j] => d = e /\ i = j
          BY DEF OwnersOK
        <5> QED
          BY <3>2, <5>1, <5>2, <5>3
      <4>3. n \in Int /\ k \in Int
        OBVIOUS
      <4> QED
        BY <4>2, <4>3
    <3> QED
      BY <3>1, <3>2
  <2> QED
    BY <2>1, <2>2
<1>8. ASSUME NEW a \in DOMAIN heap
      PROVE  \/ \E x \in Filled(bd2) : bd2[x].ptr = a
             \/ \E d \in Classes : \E n \in 1 .. Len(pool2[d]) : pool2[d][n] = a
  <2>1. CASE a = b
    BY <1>1, <1>5, <2>1
  <2>2. CASE a # b
    <3>1. CASE \E x \in Filled(bd) : bd[x].ptr = a
      BY <2>2, <3>1
    <3>2. CASE \E d \in Classes : \E n \in 1 .. Len(pool[d]) : pool[d][n] = a
      <4>1. PICK d \in Classes : \E n \in 1 .. Len(pool[d]) : pool[d][n] = a
        BY <3>2
      <4>2. PICK n \in 1 .. Len(pool[d]) : pool[d][n] = a
        BY <4>1
      <4> QED
        BY <1>3, <4>2
    <3> QED
      BY <3>1, <3>2 DEF OwnersOK
  <2> QED
    BY <2>1, <2>2
<1> QED
  BY <1>6, <1>7, <1>8 DEF OwnersOK

\* A buffer's block goes back to the allocator.
Freed(heap, heap2, b) ==
    /\ DOMAIN heap2 = DOMAIN heap \ {b}
    /\ \A a \in DOMAIN heap2 : heap2[a] = heap[a]

LEMMA OwnersFree ==
    ASSUME NEW bd, NEW bd2, NEW heap, NEW pool, OwnersOK(bd, heap, pool),
           NEW id \in Filled(bd), Filled(bd2) = Filled(bd) \ {id},
           \A x \in Filled(bd2) : bd2[x] = bd[x],
           NEW heap2, Freed(heap, heap2, bd[id].ptr)
    PROVE  OwnersOK(bd2, heap2, pool)
<1> USE DEF Freed
<1>1. ASSUME NEW x \in Filled(bd2)
      PROVE  /\ bd2[x].ptr \in DOMAIN heap2 /\ heap2[bd2[x].ptr] = bd2[x].capacity
             /\ bd2[x].capacity = Capacity(bd2[x].size) /\ bd2[x].poolClass = PoolClass(bd2[x].size)
             /\ \A d \in Classes : \A n \in 1 .. Len(pool[d]) : pool[d][n] # bd2[x].ptr
             /\ \A y \in Filled(bd2) : bd2[x].ptr = bd2[y].ptr => x = y
  <2>1. x \in Filled(bd) /\ x # id /\ bd2[x] = bd[x] /\ bd[x].ptr # bd[id].ptr
    BY DEF OwnersOK
  <2> QED
    BY <2>1 DEF OwnersOK
<1>2. ASSUME NEW d \in Classes, NEW n \in 1 .. Len(pool[d])
      PROVE  /\ pool[d][n] \in DOMAIN heap2 /\ heap2[pool[d][n]] = ClassSizes[d]
             /\ \A e \in Classes : \A k \in 1 .. Len(pool[e]) :
                    pool[d][n] = pool[e][k] => d = e /\ n = k
  <2>1. pool[d][n] # bd[id].ptr
    BY DEF OwnersOK
  <2> QED
    BY <2>1 DEF OwnersOK
<1>3. ASSUME NEW a \in DOMAIN heap2
      PROVE  \/ \E x \in Filled(bd2) : bd2[x].ptr = a
             \/ \E d \in Classes : \E n \in 1 .. Len(pool[d]) : pool[d][n] = a
  BY DEF OwnersOK
<1> QED
  BY <1>1, <1>2, <1>3 DEF OwnersOK

\* A buffer gets memory of the right size.
FilledBy(bd, bd2, id, b) ==
    /\ id \notin Filled(bd) /\ Filled(bd2) = Filled(bd) \cup {id}
    /\ \A x \in Filled(bd) : bd2[x] = bd[x]
    /\ bd2[id].ptr = b /\ bd2[id].capacity = Capacity(bd2[id].size)
    /\ bd2[id].poolClass = PoolClass(bd2[id].size)

\* A block the allocator gives is the buffer's.
Fresh(heap, heap2, b, size) ==
    /\ b \notin DOMAIN heap /\ DOMAIN heap2 = DOMAIN heap \cup {b}
    /\ heap2[b] = size /\ \A a \in DOMAIN heap : heap2[a] = heap[a]

LEMMA OwnersFresh ==
    ASSUME NEW bd, NEW bd2, NEW heap, NEW pool, OwnersOK(bd, heap, pool),
           NEW id, NEW b, FilledBy(bd, bd2, id, b),
           NEW heap2, Fresh(heap, heap2, b, bd2[id].capacity)
    PROVE  OwnersOK(bd2, heap2, pool)
<1> USE DEF Fresh
<1>1. ASSUME NEW x \in Filled(bd2)
      PROVE  /\ bd2[x].ptr \in DOMAIN heap2 /\ heap2[bd2[x].ptr] = bd2[x].capacity
             /\ bd2[x].capacity = Capacity(bd2[x].size) /\ bd2[x].poolClass = PoolClass(bd2[x].size)
             /\ \A d \in Classes : \A n \in 1 .. Len(pool[d]) : pool[d][n] # bd2[x].ptr
             /\ \A y \in Filled(bd2) : bd2[x].ptr = bd2[y].ptr => x = y
  <2>1. CASE x = id
    BY <2>1 DEF OwnersOK, FilledBy
  <2>2. CASE x # id
    BY <2>2 DEF OwnersOK, FilledBy
  <2> QED
    BY <2>1, <2>2
<1>2. ASSUME NEW d \in Classes, NEW n \in 1 .. Len(pool[d])
      PROVE  /\ pool[d][n] \in DOMAIN heap2 /\ heap2[pool[d][n]] = ClassSizes[d]
             /\ \A e \in Classes : \A k \in 1 .. Len(pool[e]) :
                    pool[d][n] = pool[e][k] => d = e /\ n = k
  BY DEF OwnersOK
<1>3. ASSUME NEW a \in DOMAIN heap2
      PROVE  \/ \E x \in Filled(bd2) : bd2[x].ptr = a
             \/ \E d \in Classes : \E n \in 1 .. Len(pool[d]) : pool[d][n] = a
  <2>1. CASE a = b
    BY <2>1 DEF FilledBy
  <2>2. CASE a # b
    BY <2>2 DEF OwnersOK, FilledBy
  <2> QED
    BY <2>1, <2>2
<1> QED
  BY <1>1, <1>2, <1>3 DEF OwnersOK

\* A block of the pool is the buffer's.
LEMMA OwnersTake ==
    ASSUME NEW bd, NEW bd2, NEW heap, NEW pool \in Pools, OwnersOK(bd, heap, pool),
           NEW id, NEW b, FilledBy(bd, bd2, id, b),
           NEW c \in Classes, NEW pool2, PoppedBy(pool, pool2, c, b),
           bd2[id].capacity = ClassSizes[c]
    PROVE  OwnersOK(bd2, heap, pool2)
<1> USE DEF FilledBy
<1>1. /\ pool2 \in Pools
      /\ Len(pool[c]) \in Nat \ {0} /\ Len(pool2[c]) = Len(pool[c]) - 1
      /\ b = pool[c][1] /\ b \in 1 .. MaxBlocks
      /\ \A n \in 1 .. Len(pool[c]) - 1 : pool2[c][n] = pool[c][n + 1]
      /\ \A d \in Classes \ {c} : pool2[d] = pool[d]
      /\ \A d \in Classes : Len(pool[d]) \in Nat /\ Len(pool2[d]) \in Nat
  BY DEF PoppedBy
<1> DEFINE Old(d, n) == IF d = c THEN n + 1 ELSE n
<1>2. ASSUME NEW d \in Classes, NEW n \in 1 .. Len(pool2[d])
      PROVE  /\ Old(d, n) \in 1 .. Len(pool[d]) /\ pool2[d][n] = pool[d][Old(d, n)]
             /\ d = c => Old(d, n) # 1
  <2>1. CASE d = c
    BY <1>1, <1>2, <2>1
  <2>2. CASE d # c
    BY <1>1, <1>2, <2>2
  <2> QED
    BY <2>1, <2>2
<1>3. ASSUME NEW d \in Classes, NEW n \in 1 .. Len(pool[d]), pool[d][n] # b
      PROVE  \E k \in 1 .. Len(pool2[d]) : pool2[d][k] = pool[d][n]
  <2>1. CASE d = c
    <3>1. n # 1
      BY <1>1, <1>3, <2>1
    <3>2. n - 1 \in 1 .. Len(pool[c]) - 1 /\ n - 1 \in 1 .. Len(pool2[d]) /\ (n - 1) + 1 = n
      BY <1>1, <2>1, <3>1
    <3> QED
      BY <1>1, <2>1, <3>2
  <2>2. CASE d # c
    BY <1>1, <2>2
  <2> QED
    BY <2>1, <2>2
<1>4. /\ 1 \in 1 .. Len(pool[c]) /\ b \in DOMAIN heap /\ heap[b] = ClassSizes[c]
      /\ \A d \in Classes : \A n \in 1 .. Len(pool[d]) : pool[d][n] = b => d = c /\ n = 1
      /\ \A x \in Filled(bd) : bd[x].ptr # b
  <2>1. 1 \in 1 .. Len(pool[c])
    BY <1>1
  <2> QED
    BY <1>1, <2>1 DEF OwnersOK
<1>5. ASSUME NEW d \in Classes, NEW n \in 1 .. Len(pool2[d])
      PROVE  /\ pool2[d][n] \in DOMAIN heap /\ heap[pool2[d][n]] = ClassSizes[d]
             /\ pool2[d][n] # b
             /\ \A e \in Classes : \A k \in 1 .. Len(pool2[e]) :
                    pool2[d][n] = pool2[e][k] => d = e /\ n = k
  <2>1. PICK m \in 1 .. Len(pool[d]) : m = Old(d, n) /\ pool2[d][n] = pool[d][m] /\ (d = c => m # 1)
    BY <1>2
  <2>2. /\ pool2[d][n] \in DOMAIN heap /\ heap[pool2[d][n]] = ClassSizes[d]
        /\ pool2[d][n] # b
    BY <1>4, <2>1 DEF OwnersOK
  <2>3. ASSUME NEW e \in Classes, NEW k \in 1 .. Len(pool2[e]), pool2[d][n] = pool2[e][k]
        PROVE  d = e /\ n = k
    <3>1. d = e /\ Old(d, n) = Old(e, k)
      <4> HIDE DEF Old
      <4>1. Old(d, n) \in 1 .. Len(pool[d]) /\ pool2[d][n] = pool[d][Old(d, n)]
        BY <1>2
      <4>2. Old(e, k) \in 1 .. Len(pool[e]) /\ pool2[e][k] = pool[e][Old(e, k)]
        BY <1>2
      <4>3. \A i \in 1 .. Len(pool[d]), j \in 1 .. Len(pool[e]) :
               pool[d][i] = pool[e][j] => d = e /\ i = j
        BY DEF OwnersOK
      <4> QED
        BY <2>3, <4>1, <4>2, <4>3
    <3>2. n \in Int /\ k \in Int
      OBVIOUS
    <3> QED
      BY <3>1, <3>2
  <2> QED
    BY <2>2, <2>3
<1>6. ASSUME NEW x \in Filled(bd2)
      PROVE  /\ bd2[x].ptr \in DOMAIN heap /\ heap[bd2[x].ptr] = bd2[x].capacity
             /\ bd2[x].capacity = Capacity(bd2[x].size) /\ bd2[x].poolClass = PoolClass(bd2[x].size)
             /\ \A d \in Classes : \A n \in 1 .. Len(pool2[d]) : pool2[d][n] # bd2[x].ptr
             /\ \A y \in Filled(bd2) : bd2[x].ptr = bd2[y].ptr => x = y
  <2>1. CASE x = id
    <3>1. bd2[x].ptr = b /\ \A y \in Filled(bd2) : y # x => bd2[y] = bd[y] /\ y \in Filled(bd)
      BY <2>1
    <3>2. \A y \in Filled(bd2) : bd2[x].ptr = bd2[y].ptr => x = y
      BY <1>4, <3>1
    <3>3. \A d \in Classes : \A n \in 1 .. Len(pool2[d]) : pool2[d][n] # bd2[x].ptr
      BY <1>5, <3>1
    <3> QED
      BY <1>4, <2>1, <3>1, <3>2, <3>3
  <2>2. CASE x # id
    <3>1. x \in Filled(bd) /\ bd2[x] = bd[x]
      BY <2>2
    <3>2. \A d \in Classes : \A n \in 1 .. Len(pool2[d]) : pool2[d][n] # bd2[x].ptr
      <4> HIDE DEF Old
      <4> QED
        BY <1>2, <3>1 DEF OwnersOK
    <3> QED
      BY <1>4, <2>2, <3>1, <3>2 DEF OwnersOK
  <2> QED
    BY <2>1, <2>2
<1>7. ASSUME NEW a \in DOMAIN heap
      PROVE  \/ \E x \in Filled(bd2) : bd2[x].ptr = a
             \/ \E d \in Classes : \E n \in 1 .. Len(pool2[d]) : pool2[d][n] = a
  <2>1. CASE a = b
    BY <2>1
  <2>2. CASE a # b
    <3>1. CASE \E x \in Filled(bd) : bd[x].ptr = a
      BY <3>1
    <3>2. CASE \E d \in Classes : \E n \in 1 .. Len(pool[d]) : pool[d][n] = a
      <4>1. PICK d \in Classes : \E n \in 1 .. Len(pool[d]) : pool[d][n] = a
        BY <3>2
      <4>2. PICK n \in 1 .. Len(pool[d]) : pool[d][n] = a
        BY <4>1
      <4> QED
        BY <1>3, <2>2, <4>2
    <3> QED
      BY <3>1, <3>2 DEF OwnersOK
  <2> QED
    BY <2>1, <2>2
<1> HIDE DEF FilledBy, Old
<1> QED
  BY <1>5, <1>6, <1>7 DEF OwnersOK

-----------------------------------------------------------------------------
(* What the pool counts.                                                   *)

\* The pool `more` keeps one block of class c more than `less`.
OneMore(less, more, c) ==
    /\ \A d \in Classes : Len(less[d]) \in Nat /\ Len(more[d]) \in Nat
    /\ Len(more[c]) = Len(less[c]) + 1
    /\ \A d \in Classes \ {c} : Len(more[d]) = Len(less[d])

LEMMA PlaceParts ==
    ASSUME NEW pool, NEW p
    PROVE  p \in PlacesOf(pool)
             <=> \E c \in Classes : \E n \in 1 .. Len(pool[c]) : p = <<c, n>>
BY DEF PlacesOf

LEMMA PlacesMore ==
    ASSUME NEW less, NEW more, NEW c \in Classes, OneMore(less, more, c)
    PROVE  /\ PlacesOf(more) = PlacesOf(less) \cup {<<c, Len(less[c]) + 1>>}
           /\ <<c, Len(less[c]) + 1>> \notin PlacesOf(less)
<1> DEFINE q == <<c, Len(less[c]) + 1>>
<1>0. /\ Len(less[c]) \in Nat /\ Len(more[c]) = Len(less[c]) + 1
      /\ \A d \in Classes : Len(less[d]) \in Nat /\ Len(more[d]) \in Nat
      /\ \A d \in Classes : d # c => Len(more[d]) = Len(less[d])
  BY DEF OneMore
<1>1. q \notin PlacesOf(less)
  <2> SUFFICES ASSUME q \in PlacesOf(less) PROVE FALSE
    OBVIOUS
  <2>1. PICK d \in Classes : \E n \in 1 .. Len(less[d]) : q = <<d, n>>
    BY PlaceParts
  <2>2. PICK n \in 1 .. Len(less[d]) : q = <<d, n>>
    BY <2>1
  <2>3. d = c /\ n = Len(less[c]) + 1
    BY <2>2
  <2> QED
    BY <1>0, <2>3
<1>2. ASSUME NEW p \in PlacesOf(more) PROVE p \in PlacesOf(less) \cup {q}
  <2>1. PICK d \in Classes : \E n \in 1 .. Len(more[d]) : p = <<d, n>>
    BY PlaceParts
  <2>2. PICK n \in 1 .. Len(more[d]) : p = <<d, n>>
    BY <2>1
  <2>3. CASE d = c /\ n = Len(less[c]) + 1
    BY <2>2, <2>3
  <2>4. CASE ~(d = c /\ n = Len(less[c]) + 1)
    <3>1. n \in 1 .. Len(less[d])
      BY <1>0, <2>4
    <3> QED
      BY <2>2, <3>1, PlaceParts
  <2> QED
    BY <2>3, <2>4
<1>3. ASSUME NEW p \in PlacesOf(less) PROVE p \in PlacesOf(more)
  <2>1. PICK d \in Classes : \E n \in 1 .. Len(less[d]) : p = <<d, n>>
    BY PlaceParts
  <2>2. PICK n \in 1 .. Len(less[d]) : p = <<d, n>>
    BY <2>1
  <2>3. n \in 1 .. Len(more[d])
    BY <1>0
  <2> QED
    BY <2>2, <2>3, PlaceParts
<1>4. q \in PlacesOf(more)
  <2>1. Len(less[c]) + 1 \in 1 .. Len(more[c])
    BY <1>0
  <2> QED
    BY <2>1, PlaceParts
<1> QED
  BY <1>1, <1>2, <1>3, <1>4

\* It keeps as many bytes more as a block of the class has.
LEMMA BytesMore ==
    ASSUME NEW less, NEW more, NEW c \in Classes, OneMore(less, more, c),
           IsFiniteSet(BytesOf(less))
    PROVE  /\ IsFiniteSet(BytesOf(more)) /\ BytesOf(less) \subseteq BytesOf(more)
           /\ Cardinality(BytesOf(more)) = Cardinality(BytesOf(less)) + ClassSizes[c]
<1> DEFINE q == <<c, Len(less[c]) + 1>>
           new == {q} \X (1 .. ClassSizes[c])
<1>1. PlacesOf(more) = PlacesOf(less) \cup {q} /\ q \notin PlacesOf(less) /\ q[1] = c
  BY PlacesMore
<1>2. ClassSizes[c] \in Nat
  BY PoolAssumption DEF Classes
<1>3. IsFiniteSet(new) /\ Cardinality(new) = ClassSizes[c]
  <2> DEFINE I == 1 .. ClassSizes[c]
             Q == {q}
  <2>1. IsFiniteSet(I) /\ Cardinality(I) = ClassSizes[c]
    BY <1>2, FS_Interval
  <2>2. IsFiniteSet(Q) /\ Cardinality(Q) = 1
    BY FS_Singleton
  <2> HIDE DEF I, Q, q
  <2>3. IsFiniteSet(Q \X I) /\ Cardinality(Q \X I) = Cardinality(Q) * Cardinality(I)
    BY <2>1, <2>2, FS_Product
  <2>4. Cardinality(Q \X I) = ClassSizes[c]
    BY <1>2, <2>1, <2>2, <2>3
  <2> QED
    BY <2>3, <2>4 DEF Q, I
<1> HIDE DEF q
<1>4. BytesOf(more) = BytesOf(less) \cup new
  BY <1>1 DEF BytesOf
<1>5. BytesOf(less) \cap new = {}
  BY <1>1 DEF BytesOf
<1> HIDE DEF new
<1>6. Cardinality(BytesOf(less)) \in Nat
  BY FS_CardinalityType
<1> QED
  BY <1>2, <1>3, <1>4, <1>5, <1>6, FS_Union, FS_EmptySet

\* Below its modulus a number is its own remainder.
LEMMA Unwrapped ==
    ASSUME NEW M \in Nat \ {0}, NEW n \in 0 .. M - 1
    PROVE  n % M = n
<1>1. (0 * M + n) % M = n
  BY DivMod
<1>2. 0 * M + n = n
  OBVIOUS
<1> QED
  BY <1>1, <1>2

\* A sum that was checked against a limit below the modulus does not wrap,
\* and neither does the difference that undoes it.
LEMMA CheckedSum ==
    ASSUME NEW M \in Nat \ {0}, NEW max \in 0 .. M - 1, NEW size \in Nat, NEW n \in Nat,
           size <= max, n <= (max - size) % M
    PROVE  (n + size) % M = n + size /\ n + size <= max
<1>1. max - size \in 0 .. M - 1
  OBVIOUS
<1>2. n <= max - size
  BY <1>1, Unwrapped
<1>3. n + size \in 0 .. M - 1 /\ n + size <= max
  BY <1>2
<1> QED
  BY <1>3, Unwrapped

LEMMA CheckedDifference ==
    ASSUME NEW M \in Nat \ {0}, NEW max \in 0 .. M - 1, NEW size \in Nat, NEW n \in Nat,
           n + size <= max
    PROVE  ((n + size) - size) % M = n /\ n <= max
<1>1. n \in 0 .. M - 1 /\ n <= max /\ (n + size) - size = n
  OBVIOUS
<1> QED
  BY <1>1, Unwrapped

LEMMA PoolKeeps ==
    ASSUME NEW pool, NEW counts \in [Classes -> Nat], NEW bytes, PoolOK(pool, counts, bytes),
           NEW pool2, NEW c \in Classes, OneMore(pool, pool2, c),
           counts[c] < PoolBlocks, ClassSizes[c] <= PoolMaxBytes,
           bytes <= (PoolMaxBytes - ClassSizes[c]) % SizeModulus,
           NEW counts2, counts2 = [counts EXCEPT ![c] = @ + 1],
           NEW bytes2, bytes2 = (bytes + ClassSizes[c]) % SizeModulus
    PROVE  PoolOK(pool2, counts2, bytes2) /\ counts2 \in [Classes -> Nat] /\ bytes2 \in Nat
<1>1. /\ IsFiniteSet(BytesOf(pool2))
      /\ Cardinality(BytesOf(pool2)) = bytes + ClassSizes[c] /\ bytes \in Nat
  BY BytesMore, FS_CardinalityType DEF PoolOK
<1>2. /\ SizeModulus \in Nat \ {0} /\ PoolMaxBytes \in 0 .. SizeModulus - 1
      /\ ClassSizes[c] \in Nat /\ PoolBlocks \in Nat
  BY PoolAssumption DEF Classes
<1>3. bytes2 = bytes + ClassSizes[c] /\ bytes2 <= PoolMaxBytes
  BY <1>1, <1>2, CheckedSum
<1>4. bytes2 \in Nat
  BY <1>1, <1>2, <1>3
<1>5. ASSUME NEW d \in Classes
      PROVE  counts2[d] = Len(pool2[d]) /\ counts2[d] <= PoolBlocks
  <2>1. CASE d = c
    <3>1. counts2[d] = counts[c] + 1 /\ counts[c] \in Nat
      BY <2>1
    <3>2. Len(pool2[d]) = Len(pool[c]) + 1 /\ counts[c] = Len(pool[c])
      BY <2>1 DEF PoolOK, OneMore
    <3>3. \A k \in Nat : k < PoolBlocks => k + 1 <= PoolBlocks
      BY <1>2
    <3> QED
      BY <3>1, <3>2, <3>3
  <2>2. CASE d # c
    BY <2>2 DEF PoolOK, OneMore
  <2> QED
    BY <2>1, <2>2
<1>6. counts2 \in [Classes -> Nat]
  <2>1. counts[c] + 1 \in Nat
    OBVIOUS
  <2> QED
    BY <2>1
<1> QED
  BY <1>1, <1>3, <1>4, <1>5, <1>6 DEF PoolOK

LEMMA PoolGives ==
    ASSUME NEW pool, NEW counts \in [Classes -> Nat], NEW bytes, PoolOK(pool, counts, bytes),
           NEW pool2, NEW c \in Classes, OneMore(pool2, pool, c),
           NEW counts2, counts2 = [counts EXCEPT ![c] = @ - 1],
           NEW bytes2, bytes2 = (bytes - ClassSizes[c]) % SizeModulus
    PROVE  PoolOK(pool2, counts2, bytes2) /\ counts2 \in [Classes -> Nat] /\ bytes2 \in Nat
<1>0. BytesOf(pool2) \subseteq BytesOf(pool)
  <2>1. PlacesOf(pool) = PlacesOf(pool2) \cup {<<c, Len(pool2[c]) + 1>>}
    BY PlacesMore
  <2> QED
    BY <2>1 DEF BytesOf
<1>1. /\ IsFiniteSet(BytesOf(pool2)) /\ Cardinality(BytesOf(pool2)) \in Nat
      /\ bytes = Cardinality(BytesOf(pool2)) + ClassSizes[c]
  <2>1. IsFiniteSet(BytesOf(pool2))
    BY <1>0, FS_Subset DEF PoolOK
  <2> QED
    BY <2>1, BytesMore, FS_CardinalityType DEF PoolOK
<1>2. /\ SizeModulus \in Nat \ {0} /\ PoolMaxBytes \in 0 .. SizeModulus - 1
      /\ ClassSizes[c] \in Nat /\ PoolBlocks \in Nat /\ bytes <= PoolMaxBytes
  BY PoolAssumption DEF Classes, PoolOK
<1>3. bytes2 = Cardinality(BytesOf(pool2)) /\ bytes2 <= PoolMaxBytes
  BY <1>1, <1>2, CheckedDifference
<1>5. ASSUME NEW d \in Classes
      PROVE  counts2[d] = Len(pool2[d]) /\ counts2[d] <= PoolBlocks /\ counts2[d] \in Nat
  <2>1. CASE d = c
    <3>1. counts2[d] = counts[c] - 1
      BY <2>1
    <3>2. /\ counts[c] = Len(pool2[d]) + 1 /\ Len(pool2[d]) \in Nat /\ counts[c] <= PoolBlocks
      BY <2>1 DEF PoolOK, OneMore
    <3>3. \A k \in Nat : k + 1 <= PoolBlocks => (k + 1) - 1 = k /\ k <= PoolBlocks
      BY <1>2
    <3> QED
      BY <3>1, <3>2, <3>3
  <2>2. CASE d # c
    BY <2>2 DEF PoolOK, OneMore
  <2> QED
    BY <2>1, <2>2
<1>6. counts2 \in [Classes -> Nat]
  BY <1>5
<1> QED
  BY <1>1, <1>3, <1>5, <1>6 DEF PoolOK

-----------------------------------------------------------------------------
(* allocateBufferMemory and releaseBufferMemory.                           *)

SetPool(m, c, t, u, w) == [m EXCEPT !.pool[c] = t, !.counts[c] = u, !.bytes = w]

LEMMA MemFields ==
    ASSUME NEW m, MemType(m), NEW c, NEW t, NEW u, NEW w
    PROVE  SetPool(m, c, t, u, w)
             = [heap |-> m.heap, pool |-> [m.pool EXCEPT ![c] = t],
                counts |-> [m.counts EXCEPT ![c] = u], bytes |-> w]
<1> DEFINE h == m.heap
           p == m.pool
           k == m.counts
           n == m.bytes
           q == [p EXCEPT ![c] = t]
           l == [k EXCEPT ![c] = u]
           m1 == [m EXCEPT !.pool = q]
           m2 == [m1 EXCEPT !.counts = l]
           m3 == [m2 EXCEPT !.bytes = w]
<1>1. m = [heap |-> h, pool |-> p, counts |-> k, bytes |-> n]
  BY DEF MemType
<1>2. [m EXCEPT !.pool[c] = t, !.counts[c] = u, !.bytes = w] = m3
  OBVIOUS
<1> HIDE DEF q, l, h, p, k, n
<1>3. m1 = [heap |-> h, pool |-> q, counts |-> k, bytes |-> n]
  BY <1>1
<1> HIDE DEF m1
<1>4. m2 = [heap |-> h, pool |-> q, counts |-> l, bytes |-> n]
  BY <1>3
<1> HIDE DEF m2
<1>5. m3 = [heap |-> h, pool |-> q, counts |-> l, bytes |-> w]
  BY <1>4
<1> QED
  BY <1>2, <1>5 DEF q, l, h, p, k, SetPool

\* The memory that an object has does not change.
SameMemory(bd, bd2) ==
    Filled(bd2) = Filled(bd) /\ \A id \in Filled(bd) : bd2[id] = bd[id]

LEMMA MemSame ==
    ASSUME NEW bd, NEW bd2, NEW m, MemInv(bd, m), SameMemory(bd, bd2)
    PROVE  MemInv(bd2, m)
BY OwnersFrame DEF MemInv, SameMemory

\* A call that gets its memory gets a block nobody has, large enough.
LEMMA AllocateMem ==
    ASSUME MemInv(body, mem), NEW size \in Sizes, NEW r \in AllocateBufferMemory(size)
    PROVE  /\ ~r.ok => r.mem = mem
           /\ size = 0 => r.ptr = NULL
           /\ r.ok /\ size # 0 => r.ptr # NULL /\ r.ptr \in 1 .. MaxBlocks
           /\ r.ok /\ size = 0 => r.mem = mem
           /\ r.ok => \A bd2, id : FilledBy(body, bd2, id, r.ptr) /\ bd2[id].size = size /\ size # 0
                => MemInv(bd2, r.mem)
<1>0. NULL \notin 1 .. MaxBlocks
  BY PoolAssumption
<1> DEFINE c == PoolClass(size)
           outcome(m, b, ok) == [mem |-> m, ptr |-> b, ok |-> ok]
<1>1. CASE size = 0
  <2>1. r = outcome(mem, NULL, TRUE)
    BY <1>1 DEF AllocateBufferMemory
  <2> QED
    BY <1>1, <2>1
<1>2. CASE size # 0 /\ c # 0 /\ mem.pool[c] # <<>>
  <2> DEFINE b == Head(mem.pool[c])
             pool2 == Popped(mem.pool, c)
             counts2 == [mem.counts EXCEPT ![c] = @ - 1]
             bytes2 == (mem.bytes - ClassSizes[c]) % SizeModulus
             mem2 == [heap |-> mem.heap, pool |-> pool2, counts |-> counts2, bytes |-> bytes2]
  <2>0. c \in Classes /\ Capacity(size) = ClassSizes[c]
    BY <1>2, ClassFacts
  <2>1. mem = [heap |-> mem.heap, pool |-> mem.pool, counts |-> mem.counts, bytes |-> mem.bytes]
        /\ mem.pool \in Pools /\ mem.counts \in [Classes -> Nat]
    BY DEF MemInv, MemType, Pools
  <2>2. r = outcome([mem EXCEPT !.pool[c] = Tail(@), !.counts[c] = @ - 1,
                                !.bytes = (@ - ClassSizes[c]) % SizeModulus], b, TRUE)
    BY <1>2 DEF AllocateBufferMemory
  <2>3. [mem EXCEPT !.pool[c] = Tail(@), !.counts[c] = @ - 1,
                    !.bytes = (@ - ClassSizes[c]) % SizeModulus] = mem2
    <3> DEFINE t == Tail(mem.pool[c])
    <3>1. pool2 = [mem.pool EXCEPT ![c] = t]
      BY DEF Popped
    <3> HIDE DEF c, t, pool2
    <3> DEFINE u == mem.counts[c] - 1
               w == (mem.bytes - ClassSizes[c]) % SizeModulus
    <3> HIDE DEF u, w
    <3>2. SetPool(mem, c, t, u, w)
            = [heap |-> mem.heap, pool |-> pool2, counts |-> [mem.counts EXCEPT ![c] = u], bytes |-> w]
      BY <3>1, MemFields DEF MemInv
    <3> QED
      BY <3>2 DEF t, u, w, SetPool
  <2>4. r.mem = mem2 /\ r.ptr = b /\ r.ok = TRUE
    BY <2>2, <2>3
  <2>5. PoppedBy(mem.pool, pool2, c, b)
    BY <1>2, <2>0, <2>1, PoolPop
  <2>6. OneMore(pool2, mem.pool, c)
    <3> HIDE DEF pool2, b, c
    <3>1. /\ Len(mem.pool[c]) \in Nat \ {0} /\ Len(pool2[c]) = Len(mem.pool[c]) - 1
          /\ \A d \in Classes \ {c} : pool2[d] = mem.pool[d]
          /\ \A d \in Classes : Len(mem.pool[d]) \in Nat /\ Len(pool2[d]) \in Nat
      BY <2>5 DEF PoppedBy
    <3>2. \A k \in Nat \ {0} : k = (k - 1) + 1
      OBVIOUS
    <3> QED
      BY <3>1, <3>2 DEF OneMore
  <2>7. b \in 1 .. MaxBlocks /\ pool2 \in Pools
    BY <2>5 DEF PoppedBy
  <2>8. PoolOK(pool2, counts2, bytes2) /\ counts2 \in [Classes -> Nat] /\ bytes2 \in Nat
    <3>1. PoolOK(mem.pool, mem.counts, mem.bytes)
      BY DEF MemInv
    <3> HIDE DEF pool2, c
    <3> QED
      BY <2>0, <2>1, <2>6, <3>1, PoolGives
  <2>9. ASSUME NEW bd2, NEW id, FilledBy(body, bd2, id, b), bd2[id].size = size
        PROVE  MemInv(bd2, mem2)
    <3>1. bd2[id].capacity = ClassSizes[c]
      BY <2>0, <2>9 DEF FilledBy
    <3> HIDE DEF pool2, counts2, bytes2, b, c
    <3>2. OwnersOK(body, mem.heap, mem.pool)
      BY DEF MemInv
    <3>3. OwnersOK(bd2, mem.heap, pool2)
      BY <2>0, <2>1, <2>5, <2>9, <3>1, <3>2, OwnersTake
    <3>4. mem2.heap = mem.heap /\ mem2.pool = pool2 /\ mem2.counts = counts2 /\ mem2.bytes = bytes2
      OBVIOUS
    <3>5. MemType(mem2)
      <4>1. mem.heap \in [DOMAIN mem.heap -> Nat] /\ DOMAIN mem.heap \subseteq 1 .. MaxBlocks
        BY DEF MemInv, MemType
      <4> QED
        BY <2>7, <2>8, <3>4, <4>1 DEF MemType, Pools
    <3> HIDE DEF mem2
    <3> QED
      BY <2>8, <3>3, <3>4, <3>5 DEF MemInv
  <2> HIDE DEF mem2, b
  <2> QED
    BY <1>0, <1>2, <2>4, <2>7, <2>9
<1>3. CASE size # 0 /\ ~(c # 0 /\ mem.pool[c] # <<>>)
  <2>1. \/ r = outcome(mem, NULL, FALSE)
        \/ \E b \in FreshBlocks :
             r = outcome([mem EXCEPT !.heap = Put(@, b, Capacity(size))], b, TRUE)
    BY <1>3 DEF AllocateBufferMemory
  <2>2. CASE r = outcome(mem, NULL, FALSE)
    BY <1>3, <2>2
  <2>3. CASE \E b \in FreshBlocks :
               r = outcome([mem EXCEPT !.heap = Put(@, b, Capacity(size))], b, TRUE)
    <3>1. PICK b \in FreshBlocks :
               r = outcome([mem EXCEPT !.heap = Put(@, b, Capacity(size))], b, TRUE)
      BY <2>3
    <3> DEFINE heap2 == Put(mem.heap, b, Capacity(size))
               mem2 == [heap |-> heap2, pool |-> mem.pool, counts |-> mem.counts, bytes |-> mem.bytes]
    <3>2. mem = [heap |-> mem.heap, pool |-> mem.pool, counts |-> mem.counts, bytes |-> mem.bytes]
      BY DEF MemInv, MemType
    <3>3. [mem EXCEPT !.heap = Put(@, b, Capacity(size))] = mem2
      BY <3>2
    <3>4. r.mem = mem2 /\ r.ptr = b /\ r.ok = TRUE
      BY <3>1, <3>3
    <3>5. b \in 1 .. MaxBlocks /\ b \notin DOMAIN mem.heap
      BY DEF FreshBlocks
    <3>6. Capacity(size) \in Nat
      BY ClassFacts
    <3>7. heap2 \in [DOMAIN mem.heap \cup {b} -> Nat]
      BY <3>6, PutType DEF MemInv, MemType
    <3>8. heap2[b] = Capacity(size)
      BY PutNew
    <3>9. \A a \in DOMAIN mem.heap : heap2[a] = mem.heap[a]
      BY <3>5, PutOld
    <3> HIDE DEF heap2
    <3>10. DOMAIN heap2 = DOMAIN mem.heap \cup {b}
      BY <3>7
    <3>11. mem2.heap = heap2 /\ mem2.pool = mem.pool /\ mem2.counts = mem.counts /\ mem2.bytes = mem.bytes
      OBVIOUS
    <3>12. MemType(mem2)
      <4>1. /\ mem.pool \in [Classes -> Seq(1 .. MaxBlocks)] /\ mem.counts \in [Classes -> Nat]
            /\ mem.bytes \in Nat /\ DOMAIN mem.heap \subseteq 1 .. MaxBlocks
        BY DEF MemInv, MemType
      <4>2. heap2 \in [DOMAIN heap2 -> Nat] /\ DOMAIN heap2 \subseteq 1 .. MaxBlocks
        BY <3>5, <3>7, <3>10, <4>1
      <4> QED
        BY <3>11, <4>1, <4>2 DEF MemType
    <3>13. ASSUME NEW bd2, NEW id, FilledBy(body, bd2, id, b), bd2[id].size = size
           PROVE  MemInv(bd2, mem2)
      <4>1. heap2[b] = bd2[id].capacity
        BY <3>8, <3>13 DEF FilledBy
      <4>2. OwnersOK(body, mem.heap, mem.pool)
        BY DEF MemInv
      <4>3. OwnersOK(bd2, heap2, mem.pool)
        <5>1. Fresh(mem.heap, heap2, b, bd2[id].capacity)
          BY <3>5, <3>9, <3>10, <4>1 DEF Fresh
        <5> QED
          BY <3>13, <4>2, <5>1, OwnersFresh
      <4>4. PoolOK(mem.pool, mem.counts, mem.bytes)
        BY DEF MemInv
      <4> HIDE DEF mem2
      <4> QED
        BY <3>11, <3>12, <4>3, <4>4 DEF MemInv
    <3> HIDE DEF mem2
    <3> QED
      BY <1>0, <1>3, <3>4, <3>5, <3>13
  <2> QED
    BY <2>1, <2>2, <2>3
<1> QED
  BY <1>1, <1>2, <1>3

\* A block that is released goes to the pool or to the allocator, once.
LEMMA ReleaseMem ==
    ASSUME MemInv(body, mem), NEW id \in DOMAIN body, body[id] \in Contents,
           NEW bd2, Filled(bd2) = Filled(body) \ {id},
           \A x \in Filled(bd2) : bd2[x] = body[x]
    PROVE  /\ MemInv(bd2, ReleaseBufferMemory(body[id]))
           /\ DOMAIN ReleaseBufferMemory(body[id]).heap \subseteq DOMAIN mem.heap
<1> DEFINE b == body[id]
           m == ReleaseBufferMemory(b)
<1>0. /\ mem = [heap |-> mem.heap, pool |-> mem.pool, counts |-> mem.counts, bytes |-> mem.bytes]
      /\ mem.pool \in Pools /\ mem.counts \in [Classes -> Nat] /\ mem.bytes \in Nat
      /\ mem.heap \in [DOMAIN mem.heap -> Nat] /\ DOMAIN mem.heap \subseteq 1 .. MaxBlocks
      /\ OwnersOK(body, mem.heap, mem.pool) /\ PoolOK(mem.pool, mem.counts, mem.bytes)
  BY DEF MemInv, MemType, Pools
<1>1. CASE b.kind # "buffer" \/ b.ptr = NULL
  <2>1. m = mem
    BY <1>1 DEF ReleaseBufferMemory
  <2>2. id \notin Filled(body)
    BY <1>1 DEF Filled
  <2>3. SameMemory(body, bd2)
    BY <2>2 DEF SameMemory
  <2> QED
    BY <2>1, <2>3, MemSame
<1>2. CASE b.kind = "buffer" /\ b.ptr # NULL
  <2>1. id \in Filled(body)
    BY <1>2 DEF Filled
  <2>2. b \in BufferRecord
    BY <1>2 DEF Contents, NoContents, ImageRecord
  <2>3. b.size \in Sizes /\ b.poolClass = PoolClass(b.size) /\ b.capacity = Capacity(b.size)
        /\ b.ptr \in DOMAIN mem.heap /\ mem.heap[b.ptr] = b.capacity
    BY <1>0, <2>1, <2>2 DEF OwnersOK, BufferRecord
  <2>4. CASE Keeps(b)
    <3> DEFINE c == b.poolClass
               pool2 == Pushed(mem.pool, c, b.ptr)
               counts2 == [mem.counts EXCEPT ![c] = @ + 1]
               bytes2 == (mem.bytes + b.capacity) % SizeModulus
               mem2 == [heap |-> mem.heap, pool |-> pool2, counts |-> counts2, bytes |-> bytes2]
    <3>1. c \in Classes /\ b.capacity = ClassSizes[c]
      BY <2>3, <2>4, ClassFacts DEF Keeps
    <3>2. m = [mem EXCEPT !.pool[c] = <<b.ptr>> \o @, !.counts[c] = @ + 1,
                          !.bytes = (@ + b.capacity) % SizeModulus]
      BY <1>2, <2>4 DEF ReleaseBufferMemory
    <3>3. m = mem2
      BY <1>0, <3>2 DEF Pushed
    <3>4. PushedBy(mem.pool, pool2, c, b.ptr)
      BY <1>0, <2>3, <3>1, PoolPush
    <3>5. mem.counts[c] < PoolBlocks /\ ClassSizes[c] <= PoolMaxBytes
          /\ mem.bytes <= (PoolMaxBytes - ClassSizes[c]) % SizeModulus
          /\ bytes2 = (mem.bytes + ClassSizes[c]) % SizeModulus
      BY <2>4, <3>1 DEF Keeps
    <3> HIDE DEF pool2, c, b, m
    <3>6. OneMore(mem.pool, pool2, c)
      BY <3>4 DEF PushedBy, OneMore
    <3>7. PoolOK(pool2, counts2, bytes2) /\ counts2 \in [Classes -> Nat] /\ bytes2 \in Nat
      <4>1. bytes2 = (mem.bytes + ClassSizes[c]) % SizeModulus
        BY <3>5
      <4> HIDE DEF bytes2
      <4> QED
        BY <1>0, <3>1, <3>5, <3>6, <4>1, PoolKeeps
    <3> HIDE DEF counts2, bytes2
    <3>8. OwnersOK(bd2, mem.heap, pool2)
      <4>1. b.ptr = body[id].ptr /\ mem.heap[b.ptr] = ClassSizes[c]
        BY <2>3, <3>1 DEF b
      <4> QED
        BY <1>0, <2>1, <3>1, <3>4, <4>1, OwnersKeep
    <3>9. mem2.heap = mem.heap /\ mem2.pool = pool2 /\ mem2.counts = counts2 /\ mem2.bytes = bytes2
      OBVIOUS
    <3>10. MemType(mem2)
      <4>1. pool2 \in Pools
        BY <3>4 DEF PushedBy
      <4> QED
        BY <1>0, <3>7, <3>9, <4>1 DEF MemType, Pools
    <3> HIDE DEF mem2
    <3>11. MemInv(bd2, mem2)
      BY <3>7, <3>8, <3>9, <3>10 DEF MemInv
    <3> QED
      BY <3>3, <3>9, <3>11 DEF m, b
  <2>5. CASE ~Keeps(b)
    <3> DEFINE heap2 == Drop(mem.heap, {b.ptr})
               mem2 == [heap |-> heap2, pool |-> mem.pool, counts |-> mem.counts, bytes |-> mem.bytes]
    <3>1. m = [mem EXCEPT !.heap = Drop(@, {b.ptr})]
      BY <1>2, <2>5 DEF ReleaseBufferMemory
    <3>2. m = mem2
      BY <1>0, <3>1
    <3>3. DOMAIN heap2 = DOMAIN mem.heap \ {b.ptr}
      BY DropDomain
    <3>4. \A a \in DOMAIN mem.heap \ {b.ptr} : heap2[a] = mem.heap[a]
      BY DropOld
    <3>5. heap2 \in [DOMAIN mem.heap \ {b.ptr} -> Nat]
      BY <1>0, DropType
    <3> HIDE DEF heap2, m
    <3>6. OwnersOK(bd2, heap2, mem.pool)
      <4>1. Freed(mem.heap, heap2, body[id].ptr)
        BY <3>3, <3>4 DEF Freed
      <4> HIDE DEF b
      <4> QED
        BY <1>0, <2>1, <4>1, OwnersFree
    <3>7. mem2.heap = heap2 /\ mem2.pool = mem.pool /\ mem2.counts = mem.counts /\ mem2.bytes = mem.bytes
      OBVIOUS
    <3>8. MemType(mem2)
      <4>1. heap2 \in [DOMAIN heap2 -> Nat] /\ DOMAIN heap2 \subseteq 1 .. MaxBlocks
        BY <1>0, <3>3, <3>5
      <4> QED
        BY <1>0, <3>7, <4>1 DEF MemType, Pools
    <3> HIDE DEF mem2
    <3>9. MemInv(bd2, mem2)
      BY <1>0, <3>6, <3>7, <3>8 DEF MemInv
    <3>10. DOMAIN mem2.heap \subseteq DOMAIN mem.heap
      BY <3>3, <3>7
    <3> QED
      BY <3>2, <3>9, <3>10 DEF m
  <2> QED
    BY <2>4, <2>5
<1> QED
  BY <1>1, <1>2

-----------------------------------------------------------------------------
(* Images.                                                                 *)

\* The objects of the calls are images, or buffers without memory.
LEMMA HeldOpen ==
    ASSUME NEW calls, NEW bd, CallsOK(calls, bd), NEW id \in HeldIds(calls)
    PROVE  /\ id \in DOMAIN bd
           /\ bd[id].kind = "image" \/ (bd[id].kind = "buffer" /\ bd[id].ptr = NULL)
<1>1. PICK t \in Threads : id \in Held(calls[t])
  BY DEF HeldIds
<1> DEFINE c == calls[t]
<1>2. CallOK(c, bd)
  BY DEF CallsOK
<1>3. Image(0).kind = "image"
      /\ \A s \in Sizes, owned \in BOOLEAN : Buffer(s, owned).kind = "buffer" /\ Buffer(s, owned).ptr = NULL
  BY NewContents
<1> HIDE DEF c
<1>4. id \in Held(c)
  BY <1>1 DEF c
<1>5. c # Idle
  BY <1>4 DEF Held
<1>6. CASE c.op = "buffer"
  <2>1. c.id = id /\ id \in DOMAIN bd /\ \E s \in Sizes : bd[c.id] = Buffer(s, FALSE)
    BY <1>2, <1>4, <1>6, CallCases
  <2> QED
    BY <1>3, <2>1
<1>7. CASE c.op = "imageMemory"
  <2>1. /\ id \in {c.id, c.buffer} /\ c.id \in DOMAIN bd /\ c.buffer \in DOMAIN bd
        /\ bd[c.id] = Image(0) /\ \E s \in Sizes \ {0} : bd[c.buffer] = Buffer(s, TRUE)
    BY <1>2, <1>4, <1>7, CallCases
  <2> QED
    BY <1>3, <2>1
<1>8. CASE c.op \in {"image", "dropImage"}
  <2>1. c.id = id /\ id \in DOMAIN bd /\ bd[c.id] = Image(0)
    BY <1>2, <1>4, <1>8, CallCases
  <2> QED
    BY <1>3, <2>1
<1>9. CASE c.op = "destroyImage"
  BY <1>2, <1>4, <1>9, CallCases
<1>10. c.op \in {"buffer", "imageMemory", "image", "dropImage", "destroyImage"}
  <2>1. CASE \E x \in DOMAIN bd, s \in Sizes :
               c = [op |-> "buffer", id |-> x] /\ bd[x] = Buffer(s, FALSE)
    BY <2>1
  <2>2. CASE \E x \in DOMAIN bd, s \in Sizes \ {0} :
               c = [op |-> "image", id |-> x, size |-> s] /\ bd[x] = Image(0)
    BY <2>2
  <2>3. CASE \E x, b \in DOMAIN bd, s \in Sizes \ {0} :
               /\ c = [op |-> "imageMemory", id |-> x, buffer |-> b]
               /\ bd[x] = Image(0) /\ bd[b] = Buffer(s, TRUE)
    BY <2>3
  <2>4. CASE \E x \in DOMAIN bd : c = [op |-> "dropImage", id |-> x] /\ bd[x] = Image(0)
    BY <2>4
  <2>5. CASE \E x \in DOMAIN bd : c = [op |-> "destroyImage", id |-> x] /\ bd[x].kind = "image"
    BY <2>5
  <2> QED
    BY <1>2, <1>5, <2>1, <2>2, <2>3, <2>4, <2>5 DEF CallOK
<1> QED
  BY <1>6, <1>7, <1>8, <1>9, <1>10

HeldKind(bd, held) ==
    \A id \in held : bd[id].kind = "image" \/ (bd[id].kind = "buffer" /\ bd[id].ptr = NULL)

\* Contexts, and buffers that are no image's.
Plain(b) == b.kind = "context" \/ (b.kind = "buffer" /\ ~b.imageOwned)

\* Outside the calls only plain objects come and go.
PlainChange(bd, held, bd2, held2) ==
    /\ \A x \in (DOMAIN bd \ held) \cap (DOMAIN bd2 \ held2) : bd2[x] = bd[x]
    /\ \A x \in (DOMAIN bd \ held) \ (DOMAIN bd2 \ held2) : Plain(bd[x])
    /\ \A x \in (DOMAIN bd2 \ held2) \ (DOMAIN bd \ held) : Plain(bd2[x])

LEMMA ImagesFrame ==
    ASSUME NEW bd, NEW held, ImagesOK(bd, held), HeldKind(bd, held),
           NEW bd2, NEW held2, PlainChange(bd, held, bd2, held2)
    PROVE  ImagesOK(bd2, held2)
<1> DEFINE U == DOMAIN bd \ held
           V == DOMAIN bd2 \ held2
<1>0. "image" # "context" /\ "image" # "buffer" /\ "context" # "buffer"
  OBVIOUS
<1>1. \A x \in V : bd2[x].kind = "image" => x \in U /\ bd2[x] = bd[x]
  BY <1>0 DEF PlainChange, Plain
<1>2. \A x \in V : bd2[x].kind = "buffer" /\ bd2[x].imageOwned => x \in U /\ bd2[x] = bd[x]
  BY <1>0 DEF PlainChange, Plain
<1>3. \A x \in U : bd[x].kind = "image" => x \in V /\ bd2[x] = bd[x]
  BY <1>0 DEF PlainChange, Plain
<1>4. \A x \in U : bd[x].kind = "buffer" /\ bd[x].imageOwned => x \in V /\ bd2[x] = bd[x]
  BY <1>0 DEF PlainChange, Plain
<1>5. ASSUME NEW x \in V, bd2[x].kind = "image"
      PROVE  LET b == bd2[x].imageBufferId IN
             b \in DOMAIN bd2 /\ bd2[b].kind = "buffer" /\ bd2[b].imageOwned /\ bd2[b].ptr # NULL
  <2> DEFINE b == bd2[x].imageBufferId
  <2>1. x \in U /\ bd2[x] = bd[x]
    BY <1>1, <1>5
  <2>2. b \in DOMAIN bd /\ bd[b].kind = "buffer" /\ bd[b].imageOwned /\ bd[b].ptr # NULL
    BY <1>5, <2>1 DEF ImagesOK
  <2>3. b \in U
    BY <1>0, <2>2 DEF HeldKind
  <2> HIDE DEF b
  <2>4. b \in V /\ bd2[b] = bd[b]
    BY <1>4, <2>2, <2>3
  <2> QED
    BY <2>2, <2>4 DEF b
<1>6. ASSUME NEW x \in V, NEW y \in V, bd2[x].kind = "image", bd2[y].kind = "image",
             bd2[x].imageBufferId = bd2[y].imageBufferId
      PROVE  x = y
  BY <1>1, <1>6 DEF ImagesOK
<1>7. ASSUME NEW b \in V, bd2[b].kind = "buffer", bd2[b].imageOwned
      PROVE  \E x \in V : bd2[x].kind = "image" /\ bd2[x].imageBufferId = b
  <2>1. b \in U /\ bd2[b] = bd[b]
    BY <1>2, <1>7
  <2>2. PICK x \in U : bd[x].kind = "image" /\ bd[x].imageBufferId = b
    BY <1>7, <2>1 DEF ImagesOK
  <2> QED
    BY <1>3, <2>2
<1> QED
  BY <1>5, <1>6, <1>7 DEF ImagesOK

-----------------------------------------------------------------------------
(* What the steps do to the objects and what is behind them.               *)

Entered(bd, bd2, id, b) ==
    /\ id \notin DOMAIN bd /\ DOMAIN bd2 = DOMAIN bd \cup {id}
    /\ bd2[id] = b /\ \A x \in DOMAIN bd : bd2[x] = bd[x]
Left(bd, bd2, id) ==
    /\ id \in DOMAIN bd /\ DOMAIN bd2 = DOMAIN bd \ {id}
    /\ \A x \in DOMAIN bd2 : bd2[x] = bd[x]

LEMMA EnteredMemory ==
    ASSUME NEW bd, NEW bd2, NEW id, NEW b, Entered(bd, bd2, id, b),
           b.kind = "buffer" => b.ptr = NULL
    PROVE  SameMemory(bd, bd2)
BY DEF Entered, SameMemory, Filled

LEMMA LeftMemory ==
    ASSUME NEW bd, NEW bd2, NEW id, Left(bd, bd2, id)
    PROVE  /\ Filled(bd2) = Filled(bd) \ {id}
           /\ \A x \in Filled(bd2) : bd2[x] = bd[x]
BY DEF Left, Filled

LEMMA BodyDomain ==
    ASSUME BuffersInv
    PROVE  /\ DOMAIN body = {o.id : o \in Objects} /\ \A id \in DOMAIN body : body[id] \in Contents
           /\ \A o \in Objects : body[o.id].kind = o.type
           /\ DOMAIN body # {} => capacity # 0
<1>1. DOMAIN body = {o.id : o \in Objects} /\ \A id \in DOMAIN body : body[id] \in Contents
  BY DEF BuffersInv, BodyOK
<1>2. capacity = 0 => Objects = {}
  BY ObjectsUnique DEF BuffersInv
<1>3. \A o \in Objects : body[o.id].kind = o.type
  BY DEF BuffersInv, BodyOK
<1> QED
  BY <1>1, <1>2, <1>3

\* A new object.
LEMMA AddObject ==
    ASSUME BuffersInv, NEW type \in Types, New(type), Made, NEW b \in Contents, b.kind = type,
           With(NewId, b)
    PROVE  /\ TableInv' /\ BodyOK(body', Objects') /\ Entered(body, body', NewId, b)
           /\ ~terminating /\ ~terminating' /\ capacity' # 0
<1>1. TableInv /\ BodyOK(body, Objects)
  BY DEF BuffersInv
<1>2. /\ TableInv' /\ ~terminating /\ ~terminating' /\ capacity' # 0
      /\ NewId \in Ids /\ \A o \in Objects : o.id # NewId
      /\ Objects' = Objects \cup {[type |-> type, id |-> NewId]}
  BY <1>1, NewEffect
<1> DEFINE o == [type |-> type, id |-> NewId]
<1>3. o.id = NewId /\ o.type = type
  OBVIOUS
<1>4. DOMAIN body = {x.id : x \in Objects}
  BY BodyDomain
<1>5. body' = Put(body, NewId, b)
  BY DEF With
<1>6. BodyOK(body', Objects')
  <2>1. NewId \notin {x.id : x \in Objects}
    BY <1>2
  <2> HIDE DEF o
  <2>2. BodyOK(Put(body, o.id, b), Objects \cup {o})
    BY <1>1, <1>3, <2>1, BodyPut
  <2>3. Objects' = Objects \cup {o}
    BY <1>2 DEF o
  <2> QED
    BY <1>3, <1>5, <2>2, <2>3
<1>7. Entered(body, body', NewId, b)
  <2>1. NewId \notin DOMAIN body
    BY <1>2, <1>4
  <2>2. DOMAIN body' = DOMAIN body \cup {NewId}
    BY <1>5, PutDomain
  <2>3. body'[NewId] = b
    BY <1>5, PutNew
  <2>4. \A x \in DOMAIN body : body'[x] = body[x]
    BY <1>5, <2>1, PutOld
  <2> QED
    BY <2>1, <2>2, <2>3, <2>4 DEF Entered
<1> QED
  BY <1>2, <1>6, <1>7

\* No new object.
LEMMA AddNothing ==
    ASSUME BuffersInv, NEW type \in Types, New(type), ~Made, body' = body
    PROVE  TableInv' /\ BodyOK(body', Objects') /\ ~terminating /\ ~terminating' /\ capacity' # 0
BY NewEffect DEF BuffersInv

\* An object goes.
LEMMA TakeObject ==
    ASSUME BuffersInv, NEW o \in Objects, TableInv', Objects' = Objects \ {o},
           body' = Drop(body, {o.id})
    PROVE  BodyOK(body', Objects') /\ Left(body, body', o.id)
<1>1. BodyOK(body', Objects')
  <2>1. \A x \in Objects : x.id = o.id => x = o
    BY ObjectsUnique DEF BuffersInv
  <2> QED
    BY <2>1, BodyDrop DEF BuffersInv
<1>2. Left(body, body', o.id)
  <2>1. o.id \in DOMAIN body
    BY BodyDomain
  <2>2. DOMAIN body' = DOMAIN body \ {o.id}
    BY DropDomain
  <2>3. \A x \in DOMAIN body \ {o.id} : body'[x] = body[x]
    BY DropOld
  <2> QED
    BY <2>1, <2>2, <2>3 DEF Left
<1> QED
  BY <1>1, <1>2

LEMMA DropObject ==
    ASSUME BuffersInv, NEW id \in DOMAIN body, Remove(id), Without(id)
    PROVE  /\ TableInv' /\ BodyOK(body', Objects') /\ Left(body, body', id)
           /\ terminating' = terminating /\ capacity' = capacity
<1>1. PICK o \in Objects : o.id = id
  BY BodyDomain
<1>2. /\ TableInv' /\ Objects' = Objects \ {o}
      /\ terminating' = terminating /\ capacity' = capacity
  BY <1>1, RemoveEffect DEF BuffersInv
<1> QED
  BY <1>1, <1>2, TakeObject DEF Without

-----------------------------------------------------------------------------
(* One lemma for each action.                                              *)

LEMMA HeldKindInv ==
    ASSUME BuffersInv
    PROVE  HeldKind(body, HeldIds(call)) /\ HeldIds(call) \subseteq DOMAIN body
BY HeldOpen DEF HeldKind, BuffersInv

\* A step before nvTerminate, when no image changes hands.
LEMMA StepInv ==
    ASSUME BuffersInv, TableInv', BodyOK(body', Objects'), CallsOK(call', body'),
           ~terminating, ~terminating', MemInv(body', mem'),
           PlainChange(body, HeldIds(call), body', HeldIds(call')), capacity' # 0
    PROVE  BuffersInv'
<1>1. ImagesOK(body', HeldIds(call'))
  BY HeldKindInv, ImagesFrame DEF BuffersInv
<1> QED
  BY <1>1 DEF BuffersInv

\* A new object that a call keeps.
LEMMA EnterHeld ==
    ASSUME NEW bd, NEW held, held \subseteq DOMAIN bd, NEW bd2, NEW id, NEW b,
           Entered(bd, bd2, id, b), NEW held2, held2 = held \cup {id}
    PROVE  PlainChange(bd, held, bd2, held2)
BY DEF Entered, PlainChange

\* A new object that no call keeps.
LEMMA EnterPlain ==
    ASSUME NEW bd, NEW held, held \subseteq DOMAIN bd, NEW bd2, NEW id, NEW b,
           Entered(bd, bd2, id, b), Plain(b)
    PROVE  PlainChange(bd, held, bd2, held)
BY DEF Entered, PlainChange

\* A call gives up an object with the object itself.
LEMMA LeaveHeld ==
    ASSUME NEW bd, NEW held, NEW bd2, NEW id, Left(bd, bd2, id), id \in held,
           NEW held2, held2 = held \ {id}
    PROVE  PlainChange(bd, held, bd2, held2)
BY DEF Left, PlainChange

LEMMA LeavePlain ==
    ASSUME NEW bd, NEW held, NEW bd2, NEW id, Left(bd, bd2, id), Plain(bd[id])
    PROVE  PlainChange(bd, held, bd2, held)
BY DEF Left, PlainChange

LEMMA PlainSame ==
    ASSUME NEW bd, NEW held
    PROVE  PlainChange(bd, held, bd, held)
BY DEF PlainChange

LEMMA CreateContextInv ==
    ASSUME BuffersInv, NEW t \in Threads, NvCreateContext(t)
    PROVE  BuffersInv'
<1>0. "context" \in Types /\ New("context") /\ call' = call /\ mem' = mem
  BY PoolAssumption DEF NvCreateContext
<1>1. CASE Made
  <2>1. /\ TableInv' /\ BodyOK(body', Objects') /\ Entered(body, body', NewId, NoContents)
        /\ ~terminating /\ ~terminating' /\ capacity' # 0
    BY <1>0, <1>1, NewContents, AddObject DEF NvCreateContext
  <2>2. CallsOK(call, body')
    BY <2>1, HeldKindInv, CallsSame DEF Entered, BuffersInv
  <2>3. MemInv(body', mem)
    BY <2>1, EnteredMemory, MemSame, NewContents DEF BuffersInv, NoContents
  <2>4. PlainChange(body, HeldIds(call), body', HeldIds(call))
    BY <2>1, HeldKindInv, EnterPlain, NewContents DEF Plain
  <2> QED
    BY <1>0, <2>1, <2>2, <2>3, <2>4, StepInv
<1>2. CASE ~Made
  <2>1. body' = body
    BY <1>2 DEF NvCreateContext
  <2>2. TableInv' /\ BodyOK(body', Objects') /\ ~terminating /\ ~terminating' /\ capacity' # 0
    BY <1>0, <1>2, <2>1, AddNothing
  <2>3. PlainChange(body, HeldIds(call), body', HeldIds(call'))
    BY <1>0, <2>1, PlainSame
  <2>4. CallsOK(call', body') /\ MemInv(body', mem')
    BY <1>0, <2>1 DEF BuffersInv
  <2> QED
    BY <2>2, <2>3, <2>4, StepInv
<1> QED
  BY <1>1, <1>2

LEMMA DestroyContextInv ==
    ASSUME BuffersInv, NEW t \in Threads, NvDestroyContext(t)
    PROVE  BuffersInv'
<1>1. PICK id \in Live("context") : Starts(t) /\ Remove(id) /\ Without(id) /\ call' = call /\ mem' = mem
  BY DEF NvDestroyContext
<1>2. id \in DOMAIN body /\ body[id].kind = "context" /\ ~terminating
  BY <1>1 DEF Live, Starts
<1>3. /\ TableInv' /\ BodyOK(body', Objects') /\ Left(body, body', id)
      /\ ~terminating' /\ capacity' # 0
  BY <1>1, <1>2, DropObject, BodyDomain
<1>4. id \notin HeldIds(call)
  BY <1>2, HeldKindInv DEF HeldKind
<1>5. CallsOK(call, body')
  BY <1>3, <1>4, HeldKindInv, CallsSame DEF Left, BuffersInv
<1>6. MemInv(body', mem)
  <2>1. id \notin Filled(body)
    BY <1>2 DEF Filled
  <2>2. SameMemory(body, body')
    BY <1>3, <2>1, LeftMemory DEF SameMemory
  <2> QED
    BY <2>2, MemSame DEF BuffersInv
<1>7. PlainChange(body, HeldIds(call), body', HeldIds(call))
  BY <1>2, <1>3, LeavePlain DEF Plain
<1> QED
  BY <1>1, <1>2, <1>3, <1>5, <1>6, <1>7, StepInv

\* A call that a thread begins, with the object it made.
LEMMA BeginCall ==
    ASSUME BuffersInv, NEW t \in Threads, call[t] = Idle, NEW id, NEW b, Entered(body, body', id, b),
           NEW c, CallOK(c, body'), Held(c) = {id}, Go(t, c)
    PROVE  /\ CallsOK(call', body')
           /\ PlainChange(body, HeldIds(call), body', HeldIds(call'))
<1>0. \A u \in Threads : Held(call[u]) \subseteq HeldIds(call)
  BY DEF HeldIds
<1>1. OthersKept(call, t, body, body', c)
  BY <1>0, HeldKindInv DEF Entered, OthersKept
<1>2. Held(call[t]) = {}
  BY DEF Held
<1>3. /\ CallsOK(Stepped(call, t, c), body')
      /\ HeldIds(Stepped(call, t, c)) = (HeldIds(call) \ Held(call[t])) \cup Held(c)
  BY <1>1, CallsStep DEF BuffersInv
<1>4. call' = Stepped(call, t, c)
  BY DEF Go, Stepped
<1>5. HeldIds(call') = HeldIds(call) \cup {id}
  BY <1>2, <1>3, <1>4
<1> QED
  BY <1>3, <1>4, <1>5, HeldKindInv, EnterHeld

LEMMA CreateBufferInv ==
    ASSUME BuffersInv, NEW t \in Threads, NvCreateBuffer(t)
    PROVE  BuffersInv'
<1>0. PICK size \in Sizes :
        /\ Starts(t) /\ New("buffer")
        /\ IF Made THEN With(NewId, Buffer(size, FALSE)) /\ Go(t, [op |-> "buffer", id |-> NewId])
           ELSE UNCHANGED <<body, call>>
        /\ mem' = mem
  BY DEF NvCreateBuffer
<1> DEFINE b == Buffer(size, FALSE)
           c == [op |-> "buffer", id |-> NewId]
<1>1. "buffer" \in Types /\ b \in Contents /\ b.kind = "buffer" /\ b.ptr = NULL
  BY PoolAssumption, NewContents
<1>2. CASE Made
  <2>1. /\ TableInv' /\ BodyOK(body', Objects') /\ Entered(body, body', NewId, b)
        /\ ~terminating /\ ~terminating' /\ capacity' # 0
    <3> HIDE DEF b
    <3>1. With(NewId, b)
      BY <1>0, <1>2 DEF b
    <3> QED
      BY <1>0, <1>1, <1>2, <3>1, AddObject
  <2>2. CallOK(c, body') /\ Held(c) = {NewId}
    <3>1. NewId \in DOMAIN body' /\ body'[NewId] = Buffer(size, FALSE)
      BY <2>1 DEF Entered
    <3> QED
      BY <3>1 DEF CallOK, Held, Idle
  <2>3. Go(t, c) /\ call[t] = Idle
    BY <1>0, <1>2 DEF Starts
  <2>4. MemInv(body', mem)
    <3> HIDE DEF b
    <3> QED
      BY <1>1, <2>1, EnteredMemory, MemSame DEF BuffersInv
  <2> HIDE DEF b, c
  <2>5. /\ CallsOK(call', body')
        /\ PlainChange(body, HeldIds(call), body', HeldIds(call'))
    BY <2>1, <2>2, <2>3, BeginCall
  <2> QED
    BY <1>0, <2>1, <2>4, <2>5, StepInv
<1>3. CASE ~Made
  <2>1. body' = body /\ call' = call
    BY <1>0, <1>3
  <2>2. TableInv' /\ BodyOK(body', Objects') /\ ~terminating /\ ~terminating' /\ capacity' # 0
    BY <1>0, <1>1, <1>3, <2>1, AddNothing
  <2>3. PlainChange(body, HeldIds(call), body', HeldIds(call'))
    BY <2>1, PlainSame
  <2>4. CallsOK(call', body') /\ MemInv(body', mem')
    BY <1>0, <2>1 DEF BuffersInv
  <2> QED
    BY <2>2, <2>3, <2>4, StepInv
<1> QED
  BY <1>2, <1>3

LEMMA CreateImageInv ==
    ASSUME BuffersInv, NEW t \in Threads, NvCreateImage(t)
    PROVE  BuffersInv'
<1>0. PICK size \in Sizes \ {0} :
        /\ Starts(t) /\ New("image")
        /\ IF Made THEN With(NewId, Image(0)) /\ Go(t, [op |-> "image", id |-> NewId, size |-> size])
           ELSE UNCHANGED <<body, call>>
        /\ mem' = mem
  BY DEF NvCreateImage
<1> DEFINE b == Image(0)
           c == [op |-> "image", id |-> NewId, size |-> size]
<1>1. "image" \in Types /\ b \in Contents /\ b.kind = "image"
  BY PoolAssumption, NewContents
<1>2. CASE Made
  <2>1. /\ TableInv' /\ BodyOK(body', Objects') /\ Entered(body, body', NewId, b)
        /\ ~terminating /\ ~terminating' /\ capacity' # 0
    <3> HIDE DEF b
    <3>1. With(NewId, b)
      BY <1>0, <1>2 DEF b
    <3> QED
      BY <1>0, <1>1, <1>2, <3>1, AddObject
  <2>2. CallOK(c, body') /\ Held(c) = {NewId}
    <3>1. NewId \in DOMAIN body' /\ body'[NewId] = Image(0)
      BY <2>1 DEF Entered
    <3> QED
      BY <3>1 DEF CallOK, Held, Idle
  <2>3. Go(t, c) /\ call[t] = Idle
    BY <1>0, <1>2 DEF Starts
  <2>4. MemInv(body', mem)
    <3> HIDE DEF b
    <3> QED
      BY <1>1, <2>1, EnteredMemory, MemSame DEF BuffersInv
  <2> HIDE DEF b, c
  <2>5. /\ CallsOK(call', body')
        /\ PlainChange(body, HeldIds(call), body', HeldIds(call'))
    BY <2>1, <2>2, <2>3, BeginCall
  <2> QED
    BY <1>0, <2>1, <2>4, <2>5, StepInv
<1>3. CASE ~Made
  <2>1. body' = body /\ call' = call
    BY <1>0, <1>3
  <2>2. TableInv' /\ BodyOK(body', Objects') /\ ~terminating /\ ~terminating' /\ capacity' # 0
    BY <1>0, <1>1, <1>3, <2>1, AddNothing
  <2>3. PlainChange(body, HeldIds(call), body', HeldIds(call'))
    BY <2>1, PlainSame
  <2>4. CallsOK(call', body') /\ MemInv(body', mem')
    BY <1>0, <2>1 DEF BuffersInv
  <2> QED
    BY <2>2, <2>3, <2>4, StepInv
<1> QED
  BY <1>2, <1>3

\* A call goes on, with nothing changed but what it keeps.
LEMMA GoOn ==
    ASSUME BuffersInv, NEW t \in Threads, NEW c, CallOK(c, body'), Go(t, c),
           \A x \in DOMAIN body \ Held(call[t]) : x \in DOMAIN body' /\ body'[x] = body[x],
           Held(c) \cap DOMAIN body \subseteq Held(call[t])
    PROVE  /\ CallsOK(call', body')
           /\ HeldIds(call') = (HeldIds(call) \ Held(call[t])) \cup Held(c)
<1>0. \A u \in Threads : Held(call[u]) \subseteq DOMAIN body
  BY HeldKindInv DEF HeldIds
<1>1. \A u \in Threads \ {t} : Held(call[u]) \cap Held(call[t]) = {}
  BY DEF BuffersInv, CallsOK
<1>2. OthersKept(call, t, body, body', c)
  BY <1>0, <1>1 DEF OthersKept
<1>3. /\ CallsOK(Stepped(call, t, c), body')
      /\ HeldIds(Stepped(call, t, c)) = (HeldIds(call) \ Held(call[t])) \cup Held(c)
  BY <1>2, CallsStep DEF BuffersInv
<1>4. call' = Stepped(call, t, c)
  BY DEF Go, Stepped
<1> QED
  BY <1>3, <1>4

\* A call that is under way keeps objects, and the driver has a table.
LEMMA CallUnderWay ==
    ASSUME BuffersInv, NEW t \in Threads, call[t].op # "none"
    PROVE  /\ CallOK(call[t], body) /\ ~terminating /\ Held(call[t]) \subseteq HeldIds(call)
           /\ Held(call[t]) \subseteq DOMAIN body
<1>1. CallOK(call[t], body)
  BY DEF BuffersInv, CallsOK
<1>2. call[t] # Idle
  BY DEF Idle
<1>3. ~terminating
  BY <1>2 DEF BuffersInv
<1>4. Held(call[t]) \subseteq HeldIds(call)
  BY DEF HeldIds
<1> QED
  BY <1>1, <1>3, <1>4, HeldKindInv

LEMMA IdleOK == \A bd : CallOK(Idle, bd) /\ Held(Idle) = {}
BY DEF CallOK, Held

\* The buffer of a call gets its memory.
FilledBody(bd, bd2, id, b) ==
    /\ DOMAIN bd2 = DOMAIN bd /\ bd2[id] = b
    /\ \A x \in DOMAIN bd \ {id} : bd2[x] = bd[x] \/ (bd[x].kind = "image" /\ bd2[x].kind = "image")

FillDone(id, b, s, owned, m) ==
    /\ b \in Contents /\ b.kind = "buffer" /\ b.imageOwned = owned
    /\ s # 0 => b.ptr # NULL
    /\ \A bd2 : FilledBody(body, bd2, id, b) => MemInv(bd2, m)

LEMMA FillEffect ==
    ASSUME BuffersInv, NEW id \in DOMAIN body, NEW s \in Sizes, NEW owned \in BOOLEAN,
           body[id] = Buffer(s, owned), NEW r \in AllocateBufferMemory(s), r.ok,
           NEW b, b = WithMemory(body[id], r.ptr)
    PROVE  FillDone(id, b, s, owned, r.mem)
<1> USE DEF FillDone
<1>0. MemInv(body, mem)
  BY DEF BuffersInv
<1>1. /\ s = 0 => r.ptr = NULL /\ r.mem = mem
      /\ s # 0 => r.ptr # NULL /\ r.ptr \in 1 .. MaxBlocks
      /\ \A bd2, x : FilledBy(body, bd2, x, r.ptr) /\ bd2[x].size = s /\ s # 0
                => MemInv(bd2, r.mem)
  BY <1>0, AllocateMem
<1>2. /\ Buffer(s, owned) \in BufferRecord /\ Buffer(s, owned) \in Contents
      /\ Buffer(s, owned).kind = "buffer" /\ Buffer(s, owned).ptr = NULL
      /\ Buffer(s, owned).size = s /\ Buffer(s, owned).imageOwned = owned
  BY NewContents
<1>3. CASE s = 0
  <2>1. b = body[id]
    BY <1>1, <1>3 DEF WithMemory
  <2>2. ASSUME NEW bd2, FilledBody(body, bd2, id, b) PROVE MemInv(bd2, r.mem)
    <3>1. SameMemory(body, bd2)
      BY <1>2, <2>1, <2>2 DEF FilledBody, SameMemory, Filled
    <3> QED
      BY <1>0, <1>1, <1>3, <3>1, MemSame
  <2> QED
    BY <1>2, <1>3, <2>1, <2>2
<1>4. CASE s # 0
  <2>1. b = [kind |-> "buffer", size |-> s, imageOwned |-> owned, ptr |-> r.ptr,
             poolClass |-> PoolClass(s), capacity |-> Capacity(s)]
    <3>1. b = [Buffer(s, owned) EXCEPT !.ptr = r.ptr, !.poolClass = PoolClass(Buffer(s, owned).size),
                                       !.capacity = Capacity(Buffer(s, owned).size)]
      BY <1>1, <1>4 DEF WithMemory
    <3>2. b = [Buffer(s, owned) EXCEPT !.ptr = r.ptr, !.poolClass = PoolClass(s),
                                       !.capacity = Capacity(s)]
      BY <1>2, <3>1
    <3>3. b = [[[Buffer(s, owned) EXCEPT !.ptr = r.ptr] EXCEPT !.poolClass = PoolClass(s)]
                EXCEPT !.capacity = Capacity(s)]
      BY <3>2
    <3> DEFINE b1 == [Buffer(s, owned) EXCEPT !.ptr = r.ptr]
               b2 == [b1 EXCEPT !.poolClass = PoolClass(s)]
               b3 == [b2 EXCEPT !.capacity = Capacity(s)]
    <3>4. b1 = [kind |-> "buffer", size |-> s, imageOwned |-> owned, ptr |-> r.ptr,
                poolClass |-> 0, capacity |-> 0]
      BY DEF Buffer
    <3>5. b = b3
      BY <3>3
    <3> HIDE DEF b1
    <3>6. b2 = [kind |-> "buffer", size |-> s, imageOwned |-> owned, ptr |-> r.ptr,
                poolClass |-> PoolClass(s), capacity |-> 0]
      BY <3>4
    <3> HIDE DEF b2
    <3>7. b3 = [kind |-> "buffer", size |-> s, imageOwned |-> owned, ptr |-> r.ptr,
                poolClass |-> PoolClass(s), capacity |-> Capacity(s)]
      BY <3>6
    <3> QED
      BY <3>5, <3>7
  <2>2. b \in BufferRecord
    <3>1. PoolClass(s) \in 0 .. Len(ClassSizes) /\ Capacity(s) \in Nat
      BY ClassFacts
    <3> QED
      BY <1>1, <1>4, <2>1, <3>1 DEF BufferRecord
  <2>3. b.kind = "buffer" /\ b.imageOwned = owned /\ b.ptr = r.ptr /\ b.size = s
        /\ b.poolClass = PoolClass(s) /\ b.capacity = Capacity(s)
    BY <2>1
  <2>4. ASSUME NEW bd2, FilledBody(body, bd2, id, b) PROVE MemInv(bd2, r.mem)
    <3>1. FilledBy(body, bd2, id, r.ptr)
      BY <1>1, <1>2, <1>4, <2>3, <2>4 DEF FilledBody, FilledBy, Filled
    <3>2. bd2[id].size = s
      BY <2>3, <2>4 DEF FilledBody
    <3> QED
      BY <1>1, <1>4, <3>1, <3>2
  <2> QED
    BY <1>1, <1>4, <2>2, <2>3, <2>4 DEF Contents
<1> QED
  BY <1>3, <1>4

LEMMA BodySet ==
    ASSUME NEW bd, NEW objects, BodyOK(bd, objects), NEW id \in DOMAIN bd,
           NEW b \in Contents, b.kind = bd[id].kind
    PROVE  BodyOK([bd EXCEPT ![id] = b], objects)
<1> DEFINE bd2 == [bd EXCEPT ![id] = b]
           S == {o.id : o \in objects}
<1>1. bd \in [S -> Contents] /\ \A o \in objects : o.id \in S /\ bd[o.id].kind = o.type
  BY DEF BodyOK
<1> HIDE DEF S
<1>2. bd2 \in [S -> Contents] /\ \A x \in S : bd2[x].kind = bd[x].kind
  BY <1>1
<1> HIDE DEF bd2
<1>3. \A o \in objects : bd2[o.id].kind = o.type
  BY <1>1, <1>2
<1> QED
  BY <1>2, <1>3 DEF BodyOK, bd2, S

\* A step that leaves the table alone.
LEMMA TableSame ==
    ASSUME BuffersInv, UNCHANGED vars
    PROVE  TableInv' /\ Objects' = Objects /\ terminating' = terminating /\ capacity' = capacity
BY DEF BuffersInv, TableInv, Full, Objects, ObjectsIn, vars

LEMMA CreateBufferMemoryInv ==
    ASSUME BuffersInv, NEW t \in Threads, NvCreateBufferMemory(t)
    PROVE  BuffersInv'
<1> DEFINE id == call[t].id
<1>1. call[t].op = "buffer" /\ Go(t, Idle)
  BY DEF NvCreateBufferMemory, In
<1>2. /\ CallOK(call[t], body) /\ ~terminating /\ Held(call[t]) \subseteq HeldIds(call)
  BY <1>1, CallUnderWay
<1>3. Held(call[t]) = {id} /\ id \in DOMAIN body /\ \E s \in Sizes : body[id] = Buffer(s, FALSE)
  BY <1>1, <1>2, CallCases
<1>4. PICK s \in Sizes : body[id] = Buffer(s, FALSE)
  BY <1>3
<1>5. /\ body[id].size = s /\ body[id].kind = "buffer" /\ body[id].ptr = NULL
      /\ ~body[id].imageOwned /\ capacity # 0
  <2>1. /\ Buffer(s, FALSE).size = s /\ Buffer(s, FALSE).kind = "buffer"
        /\ Buffer(s, FALSE).ptr = NULL /\ Buffer(s, FALSE).imageOwned = FALSE
    BY NewContents
  <2>2. capacity # 0
    BY <1>3, BodyDomain
  <2> QED
    BY <1>4, <2>1, <2>2
<1>6. PICK r \in AllocateBufferMemory(s) :
        /\ mem' = r.mem
        /\ IF r.ok THEN body' = [body EXCEPT ![id] = WithMemory(@, r.ptr)] /\ UNCHANGED vars
           ELSE Remove(id) /\ Without(id)
  BY <1>5 DEF NvCreateBufferMemory
<1> HIDE DEF id
<1>7. CASE r.ok
  <2> DEFINE b == WithMemory(body[id], r.ptr)
  <2>1. /\ b \in Contents /\ b.kind = "buffer" /\ b.imageOwned = FALSE
        /\ \A bd2 : FilledBody(body, bd2, id, b) => MemInv(bd2, r.mem)
    <3>1. FillDone(id, b, s, FALSE, r.mem)
      BY <1>3, <1>4, <1>7, FillEffect
    <3> QED
      BY <3>1 DEF FillDone
  <2> HIDE DEF b
  <2>2. body' = [body EXCEPT ![id] = b] /\ UNCHANGED vars
    BY <1>6, <1>7 DEF b
  <2>3. DOMAIN body' = DOMAIN body /\ body'[id] = b /\ \A x \in DOMAIN body \ {id} : body'[x] = body[x]
    BY <1>3, <2>2
  <2>4. MemInv(body', mem')
    BY <1>6, <2>1, <2>3 DEF FilledBody
  <2>5. BodyOK(body', Objects')
    BY <1>3, <1>5, <2>1, <2>2, BodySet, TableSame DEF BuffersInv
  <2>6. CallsOK(call', body') /\ HeldIds(call') = HeldIds(call) \ {id}
    <3>1. /\ CallsOK(call', body')
          /\ HeldIds(call') = (HeldIds(call) \ Held(call[t])) \cup Held(Idle)
      BY <1>1, <1>3, <2>3, GoOn, IdleOK
    <3> QED
      BY <1>3, <3>1, IdleOK
  <2>7. PlainChange(body, HeldIds(call), body', HeldIds(call'))
    BY <1>2, <1>3, <2>1, <2>3, <2>6 DEF PlainChange, Plain
  <2> QED
    BY <1>2, <1>5, <2>2, <2>4, <2>5, <2>6, <2>7, TableSame, StepInv
<1>8. CASE ~r.ok
  <2>1. Remove(id) /\ Without(id)
    BY <1>6, <1>8
  <2>2. /\ TableInv' /\ BodyOK(body', Objects') /\ Left(body, body', id)
        /\ terminating' = terminating /\ capacity' = capacity
    BY <1>3, <2>1, DropObject
  <2>3. mem' = mem
    <3>1. MemInv(body, mem)
      BY DEF BuffersInv
    <3> QED
      BY <1>6, <1>8, <3>1, AllocateMem
  <2>4. CallsOK(call', body') /\ HeldIds(call') = HeldIds(call) \ {id}
    <3>1. \A x \in DOMAIN body \ Held(call[t]) : x \in DOMAIN body' /\ body'[x] = body[x]
      BY <1>3, <2>2 DEF Left
    <3>2. /\ CallsOK(call', body')
          /\ HeldIds(call') = (HeldIds(call) \ Held(call[t])) \cup Held(Idle)
      BY <1>1, <3>1, GoOn, IdleOK
    <3> QED
      BY <1>3, <3>2, IdleOK
  <2>5. MemInv(body', mem')
    <3>1. id \notin Filled(body)
      BY <1>5 DEF Filled
    <3>2. SameMemory(body, body')
      BY <2>2, <3>1, LeftMemory DEF SameMemory
    <3> QED
      BY <2>3, <3>2, MemSame DEF BuffersInv
  <2>6. PlainChange(body, HeldIds(call), body', HeldIds(call'))
    BY <1>2, <1>3, <2>2, <2>4, LeaveHeld
  <2> QED
    BY <1>2, <1>5, <2>2, <2>4, <2>5, <2>6, StepInv
<1> QED
  BY <1>7, <1>8

LEMMA CreateImageBufferInv ==
    ASSUME BuffersInv, NEW t \in Threads, NvCreateImageBuffer(t)
    PROVE  BuffersInv'
<1> DEFINE c == call[t]
           c2 == [op |-> "dropImage", id |-> c.id]
           c3 == [op |-> "imageMemory", id |-> c.id, buffer |-> NewId]
           b == Buffer(c.size, TRUE)
<1>1. c.op = "image" /\ mem' = mem
  BY DEF NvCreateImageBuffer, In
<1>2. CallOK(c, body) /\ ~terminating /\ Held(c) \subseteq HeldIds(call)
  BY <1>1, CallUnderWay
<1>3. /\ Held(c) = {c.id} /\ c.id \in DOMAIN body
      /\ body[c.id] = Image(0) /\ c.size \in Sizes \ {0}
  <2> HIDE DEF c
  <2> QED
    BY <1>1, <1>2, CallCases
<1>4. capacity # 0 /\ "buffer" \in Types
  BY <1>3, BodyDomain, PoolAssumption
<1>5. CASE New("buffer") /\ Made /\ With(NewId, b) /\ Go(t, c3)
  <2>1. b \in Contents /\ b.kind = "buffer" /\ b.ptr = NULL
    <3>1. c.size \in Sizes /\ TRUE \in BOOLEAN
      BY <1>3
    <3> HIDE DEF c
    <3> QED
      BY <3>1, NewContents
  <2>2. /\ TableInv' /\ BodyOK(body', Objects') /\ Entered(body, body', NewId, b)
        /\ ~terminating' /\ capacity' # 0
    <3> HIDE DEF b
    <3> QED
      BY <1>4, <1>5, <2>1, AddObject
  <2>3. c.id \in DOMAIN body' /\ body'[c.id] = Image(0) /\ NewId \in DOMAIN body'
        /\ body'[NewId] = Buffer(c.size, TRUE) /\ NewId \notin DOMAIN body
    BY <1>3, <2>2 DEF Entered
  <2>4. CallOK(c3, body') /\ Held(c3) = {c.id, NewId}
    <3> HIDE DEF c
    <3>1. Held(c3) = {c.id, NewId}
      BY DEF Held, Idle
    <3> QED
      BY <1>3, <2>3, <3>1 DEF CallOK
  <2>5. MemInv(body', mem)
    <3> HIDE DEF b
    <3> QED
      BY <2>1, <2>2, EnteredMemory, MemSame DEF BuffersInv
  <2>6. /\ CallsOK(call', body')
        /\ HeldIds(call') = (HeldIds(call) \ Held(call[t])) \cup Held(c3)
    <3>1. \A x \in DOMAIN body \ Held(call[t]) : x \in DOMAIN body' /\ body'[x] = body[x]
      BY <2>2 DEF Entered
    <3>2. Held(c3) \cap DOMAIN body \subseteq Held(call[t])
      BY <1>3, <2>3, <2>4
    <3>3. CallOK(c3, body') /\ Go(t, c3)
      BY <1>5, <2>4
    <3> HIDE DEF c3
    <3> QED
      BY <3>1, <3>2, <3>3, GoOn
  <2>7. HeldIds(call') = HeldIds(call) \cup {NewId}
    BY <1>2, <1>3, <2>4, <2>6
  <2>8. PlainChange(body, HeldIds(call), body', HeldIds(call'))
    BY <2>2, <2>7, HeldKindInv, EnterHeld
  <2> QED
    BY <1>1, <1>2, <2>2, <2>5, <2>6, <2>8, StepInv
<1>6. CASE /\ (New("buffer") /\ ~Made) \/ UNCHANGED vars
           /\ Go(t, c2) /\ body' = body
  <2>1. TableInv' /\ BodyOK(body', Objects') /\ ~terminating' /\ capacity' # 0
    <3>1. CASE New("buffer") /\ ~Made
      BY <1>4, <1>6, <3>1, AddNothing
    <3>2. CASE UNCHANGED vars
      <4>1. TableInv' /\ Objects' = Objects /\ ~terminating' /\ capacity' # 0
        BY <1>2, <1>4, <3>2, TableSame
      <4> QED
        BY <1>6, <4>1 DEF BuffersInv
    <3> QED
      BY <1>6, <3>1, <3>2
  <2>2. CallOK(c2, body') /\ Held(c2) = {c.id}
    <3> HIDE DEF c
    <3>1. Held(c2) = {c.id}
      BY DEF Held, Idle
    <3> QED
      BY <1>3, <1>6, <3>1 DEF CallOK
  <2>3. CallsOK(call', body') /\ HeldIds(call') = (HeldIds(call) \ Held(call[t])) \cup Held(c2)
    <3>1. CallOK(c2, body') /\ Go(t, c2) /\ Held(c2) \cap DOMAIN body \subseteq Held(call[t])
      BY <1>3, <1>6, <2>2
    <3> HIDE DEF c2
    <3> QED
      BY <1>6, <3>1, GoOn
  <2>4. HeldIds(call') = HeldIds(call)
    BY <1>2, <1>3, <2>2, <2>3
  <2>5. PlainChange(body, HeldIds(call), body', HeldIds(call'))
    BY <1>6, <2>4, PlainSame
  <2>6. MemInv(body', mem')
    BY <1>1, <1>6 DEF BuffersInv
  <2> QED
    BY <1>2, <2>1, <2>3, <2>5, <2>6, StepInv
<1> QED
  BY <1>5, <1>6 DEF NvCreateImageBuffer

\* An image that is complete, with its buffer.
LEMMA ImagesNew ==
    ASSUME NEW bd, NEW held, ImagesOK(bd, held), HeldKind(bd, held), held \subseteq DOMAIN bd,
           NEW id \in held, NEW b \in held, id # b,
           NEW bd2, DOMAIN bd2 = DOMAIN bd, \A x \in DOMAIN bd \ {id, b} : bd2[x] = bd[x],
           bd2[id].kind = "image" /\ bd2[id].imageBufferId = b,
           bd2[b].kind = "buffer" /\ bd2[b].imageOwned /\ bd2[b].ptr # NULL,
           NEW held2, held2 = held \ {id, b}
    PROVE  ImagesOK(bd2, held2)
<1> DEFINE U == DOMAIN bd \ held
           V == DOMAIN bd2 \ held2
<1>1. V = U \cup {id, b} /\ id \notin U /\ b \notin U
  OBVIOUS
<1>2. \A x \in U : bd2[x] = bd[x] /\ x # id /\ x # b
  OBVIOUS
<1>3. \A x \in U : bd[x].kind = "image" =>
        /\ bd[x].imageBufferId \in U /\ bd[x].imageBufferId \in DOMAIN bd
        /\ bd[bd[x].imageBufferId].kind = "buffer"
        /\ bd[bd[x].imageBufferId].imageOwned /\ bd[bd[x].imageBufferId].ptr # NULL
  BY DEF ImagesOK, HeldKind
<1>4. ASSUME NEW x \in V, bd2[x].kind = "image"
      PROVE  LET y == bd2[x].imageBufferId IN
             y \in DOMAIN bd2 /\ bd2[y].kind = "buffer" /\ bd2[y].imageOwned /\ bd2[y].ptr # NULL
  <2>1. CASE x = id
    BY <2>1
  <2>2. CASE x \in U
    BY <1>2, <1>3, <1>4, <2>2
  <2>3. x # b
    BY <1>4
  <2> QED
    BY <1>1, <2>1, <2>2, <2>3
<1>5. ASSUME NEW x \in V, NEW y \in V, bd2[x].kind = "image", bd2[y].kind = "image",
             bd2[x].imageBufferId = bd2[y].imageBufferId
      PROVE  x = y
  <2>0. x # b /\ y # b
    BY <1>5
  <2>1. CASE x = id
    BY <1>1, <1>2, <1>3, <1>5, <2>0, <2>1
  <2>2. CASE y = id
    BY <1>1, <1>2, <1>3, <1>5, <2>0, <2>2
  <2>3. CASE x \in U /\ y \in U
    BY <1>2, <1>5, <2>3 DEF ImagesOK
  <2> QED
    BY <1>1, <2>0, <2>1, <2>2, <2>3
<1>6. ASSUME NEW y \in V, bd2[y].kind = "buffer", bd2[y].imageOwned
      PROVE  \E x \in V : bd2[x].kind = "image" /\ bd2[x].imageBufferId = y
  <2>1. CASE y = b
    BY <1>1, <2>1
  <2>2. CASE y \in U
    <3>1. PICK x \in U : bd[x].kind = "image" /\ bd[x].imageBufferId = y
      BY <1>2, <1>6, <2>2 DEF ImagesOK
    <3> QED
      BY <1>1, <1>2, <3>1
  <2>3. y # id
    BY <1>6
  <2> QED
    BY <1>1, <2>1, <2>2, <2>3
<1> QED
  BY <1>4, <1>5, <1>6 DEF ImagesOK

\* An image that goes, after its buffer.
LEMMA ImagesGone ==
    ASSUME NEW bd, NEW held, ImagesOK(bd, held), HeldKind(bd, held), held \subseteq DOMAIN bd,
           NEW id \in DOMAIN bd \ held, bd[id].kind = "image", NEW b, b = bd[id].imageBufferId,
           NEW bd2, Left(bd, bd2, b), NEW held2, held2 = held \cup {id}
    PROVE  ImagesOK(bd2, held2)
<1> DEFINE U == DOMAIN bd \ held
           V == DOMAIN bd2 \ held2
<1>1. b \in U /\ bd[b].kind = "buffer" /\ id # b
  BY DEF ImagesOK, HeldKind
<1>2. V = U \ {id, b} /\ \A x \in V : bd2[x] = bd[x]
  BY DEF Left
<1>3. \A x \in U : bd[x].kind = "image" =>
        /\ bd[x].imageBufferId \in U /\ bd[x].imageBufferId \in DOMAIN bd
        /\ bd[bd[x].imageBufferId].kind = "buffer"
        /\ bd[bd[x].imageBufferId].imageOwned /\ bd[bd[x].imageBufferId].ptr # NULL
  BY DEF ImagesOK, HeldKind
<1>4. ASSUME NEW x \in V, bd2[x].kind = "image"
      PROVE  LET y == bd2[x].imageBufferId IN
             y \in DOMAIN bd2 /\ bd2[y].kind = "buffer" /\ bd2[y].imageOwned /\ bd2[y].ptr # NULL
  <2> DEFINE y == bd2[x].imageBufferId
  <2>1. x \in U /\ x # id /\ bd2[x] = bd[x]
    BY <1>2
  <2>2. y \in U /\ bd[y].kind = "buffer" /\ bd[y].imageOwned /\ bd[y].ptr # NULL
    BY <1>3, <1>4, <2>1
  <2>3. y # b
    BY <1>4, <2>1 DEF ImagesOK
  <2> HIDE DEF y
  <2>4. y \in V /\ bd2[y] = bd[y]
    BY <1>2, <2>2, <2>3
  <2> QED
    BY <2>2, <2>4 DEF y
<1>5. ASSUME NEW x \in V, NEW y \in V, bd2[x].kind = "image", bd2[y].kind = "image",
             bd2[x].imageBufferId = bd2[y].imageBufferId
      PROVE  x = y
  BY <1>2, <1>5 DEF ImagesOK
<1>6. ASSUME NEW y \in V, bd2[y].kind = "buffer", bd2[y].imageOwned
      PROVE  \E x \in V : bd2[x].kind = "image" /\ bd2[x].imageBufferId = y
  <2>1. PICK x \in U : bd[x].kind = "image" /\ bd[x].imageBufferId = y
    BY <1>2, <1>6 DEF ImagesOK
  <2>2. x # id /\ x # b
    BY <1>1, <1>2, <2>1
  <2> QED
    BY <1>2, <2>1, <2>2
<1> QED
  BY <1>4, <1>5, <1>6 DEF ImagesOK

LEMMA CreateImageMemoryInv ==
    ASSUME BuffersInv, NEW t \in Threads, NvCreateImageMemory(t)
    PROVE  BuffersInv'
<1> DEFINE c == call[t]
           id == c.id
           y == c.buffer
           c2 == [op |-> "dropImage", id |-> id]
<1>1. c.op = "imageMemory"
  BY DEF NvCreateImageMemory, In
<1>2. CallOK(c, body) /\ ~terminating /\ Held(c) \subseteq HeldIds(call)
  BY <1>1, CallUnderWay
<1>3. /\ Held(c) = {id, y} /\ id \in DOMAIN body /\ y \in DOMAIN body
      /\ body[id] = Image(0) /\ id # y /\ \E s \in Sizes \ {0} : body[y] = Buffer(s, TRUE)
  <2> HIDE DEF c
  <2> QED
    BY <1>1, <1>2, CallCases
<1>4. PICK s \in Sizes \ {0} : body[y] = Buffer(s, TRUE)
  BY <1>3
<1>5. /\ body[y].size = s /\ body[y].kind = "buffer" /\ body[y].ptr = NULL
      /\ body[id].kind = "image" /\ capacity # 0
  <2>1. /\ Buffer(s, TRUE).size = s /\ Buffer(s, TRUE).kind = "buffer"
        /\ Buffer(s, TRUE).ptr = NULL /\ Image(0).kind = "image"
    BY NewContents
  <2>2. capacity # 0
    BY <1>3, BodyDomain
  <2> QED
    BY <1>3, <1>4, <2>1, <2>2
<1>6. PICK r \in AllocateBufferMemory(s) :
        /\ mem' = r.mem
        /\ IF r.ok
           THEN /\ body' = [body EXCEPT ![y] = WithMemory(@, r.ptr), ![id] = Image(y)]
                /\ Go(t, Idle) /\ UNCHANGED vars
           ELSE /\ Remove(y) /\ Without(y)
                /\ Go(t, c2)
  BY <1>5 DEF NvCreateImageMemory
<1>7. y \in Nat
  <2>1. \A o \in Objects : o.id \in Nat
    BY ObjectsUnique DEF BuffersInv, Object
  <2> QED
    BY <1>3, <2>1, BodyDomain
<1> HIDE DEF id, y, c2
<1>8. CASE r.ok
  <2> DEFINE b == WithMemory(body[y], r.ptr)
             bd1 == [body EXCEPT ![y] = b]
  <2>1. /\ b \in Contents /\ b.kind = "buffer" /\ b.imageOwned = TRUE /\ b.ptr # NULL
        /\ \A bd2 : FilledBody(body, bd2, y, b) => MemInv(bd2, r.mem)
    <3>1. FillDone(y, b, s, TRUE, r.mem)
      BY <1>3, <1>4, <1>8, FillEffect
    <3> QED
      BY <3>1 DEF FillDone
  <2>2. body' = [body EXCEPT ![y] = b, ![id] = Image(y)] /\ UNCHANGED vars /\ Go(t, Idle)
    BY <1>6, <1>8
  <2> HIDE DEF b
  <2>3. Image(y) \in Contents /\ Image(y).kind = "image" /\ Image(y).imageBufferId = y
    BY <1>7, NewContents
  <2>4. /\ DOMAIN body' = DOMAIN body /\ body'[y] = b /\ body'[id] = Image(y)
        /\ \A x \in DOMAIN body \ {id, y} : body'[x] = body[x]
    BY <1>3, <2>2
  <2>5. MemInv(body', mem')
    <3>1. FilledBody(body, body', y, b)
      BY <1>5, <2>3, <2>4 DEF FilledBody
    <3> QED
      BY <1>6, <2>1, <3>1
  <2>6. TableInv' /\ Objects' = Objects /\ terminating' = terminating /\ capacity' = capacity
    BY <2>2, TableSame
  <2>7. BodyOK(body', Objects')
    <3>1. BodyOK(bd1, Objects)
      BY <1>3, <1>5, <2>1, BodySet DEF BuffersInv
    <3>2. id \in DOMAIN bd1 /\ bd1[id].kind = "image"
      BY <1>3, <1>5
    <3>3. body' = [bd1 EXCEPT ![id] = Image(y)]
      BY <2>2
    <3> HIDE DEF bd1
    <3>4. BodyOK([bd1 EXCEPT ![id] = Image(y)], Objects)
      BY <2>3, <3>1, <3>2, BodySet
    <3> QED
      BY <2>6, <3>3, <3>4
  <2>8. CallsOK(call', body') /\ HeldIds(call') = HeldIds(call) \ {id, y}
    <3>1. /\ CallsOK(call', body')
          /\ HeldIds(call') = (HeldIds(call) \ Held(call[t])) \cup Held(Idle)
      BY <1>3, <2>2, <2>4, GoOn, IdleOK
    <3> QED
      BY <1>3, <3>1, IdleOK
  <2>9. ImagesOK(body', HeldIds(call'))
    <3>1. ImagesOK(body, HeldIds(call)) /\ id \in HeldIds(call) /\ y \in HeldIds(call)
      BY <1>2, <1>3 DEF BuffersInv
    <3>2. /\ body'[id].kind = "image" /\ body'[id].imageBufferId = y
          /\ body'[y].kind = "buffer" /\ body'[y].imageOwned /\ body'[y].ptr # NULL
      BY <2>1, <2>3, <2>4
    <3> QED
      BY <1>3, <2>4, <2>8, <3>1, <3>2, HeldKindInv, ImagesNew
  <2> QED
    BY <1>2, <1>5, <2>5, <2>6, <2>7, <2>8, <2>9 DEF BuffersInv
<1>9. CASE ~r.ok
  <2>1. Remove(y) /\ Without(y) /\ Go(t, c2)
    BY <1>6, <1>9
  <2>2. /\ TableInv' /\ BodyOK(body', Objects') /\ Left(body, body', y)
        /\ terminating' = terminating /\ capacity' = capacity
    BY <1>3, <2>1, DropObject
  <2>3. mem' = mem
    <3>1. MemInv(body, mem)
      BY DEF BuffersInv
    <3> QED
      BY <1>6, <1>9, <3>1, AllocateMem
  <2>4. CallOK(c2, body') /\ Held(c2) = {id}
    <3>1. Held(c2) = {id}
      BY DEF Held, Idle, c2
    <3>2. id \in DOMAIN body' /\ body'[id] = Image(0)
      BY <1>3, <2>2 DEF Left
    <3> QED
      BY <3>1, <3>2 DEF CallOK, c2
  <2>5. CallsOK(call', body') /\ HeldIds(call') = HeldIds(call) \ {y}
    <3>1. \A x \in DOMAIN body \ Held(call[t]) : x \in DOMAIN body' /\ body'[x] = body[x]
      BY <1>3, <2>2 DEF Left
    <3>2. /\ CallsOK(call', body')
          /\ HeldIds(call') = (HeldIds(call) \ Held(call[t])) \cup Held(c2)
      BY <1>3, <2>1, <2>4, <3>1, GoOn
    <3> QED
      BY <1>2, <1>3, <2>4, <3>2
  <2>6. MemInv(body', mem')
    <3>1. y \notin Filled(body)
      BY <1>5 DEF Filled
    <3>2. SameMemory(body, body')
      BY <2>2, <3>1, LeftMemory DEF SameMemory
    <3> QED
      BY <2>3, <3>2, MemSame DEF BuffersInv
  <2>7. PlainChange(body, HeldIds(call), body', HeldIds(call'))
    BY <1>2, <1>3, <2>2, <2>5, LeaveHeld
  <2> QED
    BY <1>2, <1>5, <2>2, <2>5, <2>6, <2>7, StepInv
<1> QED
  BY <1>8, <1>9

LEMMA DropImageInv ==
    ASSUME BuffersInv, NEW t \in Threads, NvDropImage(t)
    PROVE  BuffersInv'
<1> DEFINE c == call[t]
           id == c.id
<1>1. c.op \in {"dropImage", "destroyImage"} /\ Remove(id) /\ Without(id) /\ Go(t, Idle) /\ mem' = mem
  BY DEF NvDropImage, In
<1>2. CallOK(c, body) /\ ~terminating /\ Held(c) \subseteq HeldIds(call)
  BY <1>1, CallUnderWay
<1>3. Held(c) = {id} /\ id \in DOMAIN body /\ body[id].kind = "image"
  <2>1. Image(0).kind = "image"
    BY NewContents
  <2> HIDE DEF c
  <2> QED
    BY <1>1, <1>2, <2>1, CallCases
<1>4. capacity # 0
  BY <1>3, BodyDomain
<1> HIDE DEF id
<1>5. /\ TableInv' /\ BodyOK(body', Objects') /\ Left(body, body', id)
      /\ terminating' = terminating /\ capacity' = capacity
  BY <1>1, <1>3, DropObject
<1>6. CallsOK(call', body') /\ HeldIds(call') = HeldIds(call) \ {id}
  <2>1. \A x \in DOMAIN body \ Held(call[t]) : x \in DOMAIN body' /\ body'[x] = body[x]
    BY <1>3, <1>5 DEF Left
  <2>2. /\ CallsOK(call', body')
        /\ HeldIds(call') = (HeldIds(call) \ Held(call[t])) \cup Held(Idle)
    BY <1>1, <2>1, GoOn, IdleOK
  <2> QED
    BY <1>3, <2>2, IdleOK
<1>7. MemInv(body', mem')
  <2>1. id \notin Filled(body)
    BY <1>3 DEF Filled
  <2>2. SameMemory(body, body')
    BY <1>5, <2>1, LeftMemory DEF SameMemory
  <2> QED
    BY <1>1, <2>2, MemSame DEF BuffersInv
<1>8. PlainChange(body, HeldIds(call), body', HeldIds(call'))
  BY <1>2, <1>3, <1>5, <1>6, LeaveHeld
<1> QED
  BY <1>2, <1>4, <1>5, <1>6, <1>7, <1>8, StepInv

\* What the client was given, no call keeps.
LEMMA GivenUnheld ==
    ASSUME BuffersInv, NEW kind
    PROVE  Given(kind) = Live(kind) \ HeldIds(call)
<1>1. ASSUME NEW id, NEW t \in Threads
      PROVE  (call[t] = Idle \/ (call[t].id # id /\ ~(call[t].op = "imageMemory" /\ call[t].buffer = id)))
               <=> id \notin Held(call[t])
  BY DEF Held
<1> QED
  BY <1>1 DEF Given, HeldIds

LEMMA DestroyBufferInv ==
    ASSUME BuffersInv, NEW t \in Threads, NvDestroyBuffer(t)
    PROVE  BuffersInv'
<1>1. PICK id \in Given("buffer") :
        /\ Starts(t) /\ ~body[id].imageOwned /\ mem' = ReleaseBufferMemory(body[id])
        /\ Remove(id) /\ Without(id) /\ call' = call
  BY DEF NvDestroyBuffer
<1>2. id \in DOMAIN body /\ body[id].kind = "buffer" /\ ~terminating /\ id \notin HeldIds(call)
  BY <1>1, GivenUnheld DEF Live, Starts
<1>3. /\ TableInv' /\ BodyOK(body', Objects') /\ Left(body, body', id)
      /\ ~terminating' /\ capacity' # 0
  BY <1>1, <1>2, DropObject, BodyDomain
<1>4. CallsOK(call, body')
  BY <1>2, <1>3, HeldKindInv, CallsSame DEF Left, BuffersInv
<1>5. MemInv(body', mem')
  BY <1>1, <1>2, <1>3, BodyDomain, LeftMemory, ReleaseMem DEF BuffersInv
<1>6. PlainChange(body, HeldIds(call), body', HeldIds(call))
  BY <1>1, <1>2, <1>3, LeavePlain DEF Plain
<1> QED
  BY <1>1, <1>2, <1>3, <1>4, <1>5, <1>6, StepInv

LEMMA DestroyImageInv ==
    ASSUME BuffersInv, NEW t \in Threads, NvDestroyImage(t)
    PROVE  BuffersInv'
<1>1. PICK id \in Given("image") :
        /\ Starts(t)
        /\ IF Get("buffer", body[id].imageBufferId) # NULL
           THEN /\ mem' = ReleaseBufferMemory(body[body[id].imageBufferId])
                /\ Remove(body[id].imageBufferId) /\ Without(body[id].imageBufferId)
           ELSE UNCHANGED <<mem, vars, body>>
        /\ Go(t, [op |-> "destroyImage", id |-> id])
  BY DEF NvDestroyImage
<1> DEFINE b == body[id].imageBufferId
           c == [op |-> "destroyImage", id |-> id]
<1>2. /\ id \in DOMAIN body /\ body[id].kind = "image" /\ ~terminating /\ id \notin HeldIds(call)
      /\ call[t] = Idle
  BY <1>1, GivenUnheld DEF Live, Starts
<1>3. ImagesOK(body, HeldIds(call))
  BY <1>2 DEF BuffersInv
<1>4. b \in DOMAIN body /\ body[b].kind = "buffer" /\ body[b].ptr # NULL
  BY <1>2, <1>3 DEF ImagesOK
<1> HIDE DEF b
<1>5. b \notin HeldIds(call) /\ b # id
  BY <1>2, <1>4, HeldKindInv DEF HeldKind
<1>6. Get("buffer", b) # NULL
  <2>1. PICK o \in Objects : o.id = b
    BY <1>4, BodyDomain
  <2>2. o \in Object /\ o.id \in Ids /\ o.type = "buffer"
    BY <1>4, <2>1, ObjectsUnique, BodyDomain DEF BuffersInv
  <2>3. o = [type |-> "buffer", id |-> b]
    BY <2>1, <2>2 DEF Object
  <2> QED
    BY <2>1, <2>2, <2>3, GetEffect DEF BuffersInv
<1>7. mem' = ReleaseBufferMemory(body[b]) /\ Remove(b) /\ Without(b) /\ Go(t, c)
  BY <1>1, <1>6 DEF b
<1>8. /\ TableInv' /\ BodyOK(body', Objects') /\ Left(body, body', b)
      /\ ~terminating' /\ capacity' # 0
  BY <1>2, <1>4, <1>7, DropObject, BodyDomain
<1>9. CallOK(c, body') /\ Held(c) = {id}
  <2>1. id \in DOMAIN body' /\ body'[id].kind = "image"
    BY <1>2, <1>5, <1>8 DEF Left
  <2>2. Held(c) = {id}
    BY DEF Held, Idle
  <2> QED
    BY <2>1, <2>2 DEF CallOK
<1> HIDE DEF c
<1>10. CallsOK(call', body') /\ HeldIds(call') = HeldIds(call) \cup {id}
  <2>0. \A u \in Threads : Held(call[u]) \subseteq HeldIds(call)
    BY DEF HeldIds
  <2>1. OthersKept(call, t, body, body', c)
    BY <1>2, <1>5, <1>8, <1>9, <2>0, HeldKindInv DEF Left, OthersKept
  <2>2. Held(call[t]) = {}
    BY <1>2 DEF Held
  <2>3. /\ CallsOK(Stepped(call, t, c), body')
        /\ HeldIds(Stepped(call, t, c)) = (HeldIds(call) \ Held(call[t])) \cup Held(c)
    BY <1>9, <2>1, CallsStep DEF BuffersInv
  <2>4. call' = Stepped(call, t, c)
    BY <1>7 DEF Go, Stepped
  <2> QED
    BY <1>9, <2>2, <2>3, <2>4
<1>11. MemInv(body', mem')
  BY <1>4, <1>7, <1>8, BodyDomain, LeftMemory, ReleaseMem DEF BuffersInv
<1>12. ImagesOK(body', HeldIds(call'))
  <2>1. b = body[id].imageBufferId
    BY DEF b
  <2> QED
    BY <1>2, <1>3, <1>8, <1>10, <2>1, HeldKindInv, ImagesGone
<1> QED
  BY <1>8, <1>10, <1>11, <1>12 DEF BuffersInv

\* nvTerminate takes the object of one slot.
LEMMA SlotGone ==
    ASSUME BuffersInv, NEW i \in Full(slots, capacity), RemoveAt(i)
    PROVE  /\ TableInv' /\ slots[i].object \in Objects /\ Objects' = Objects \ {slots[i].object}
           /\ terminating' = terminating /\ capacity' = capacity
           /\ \A x \in DOMAIN body :
                slots'[IndexOf(x)].object = NULL <=> x = slots[i].object.id
<1>0. TableInv /\ Sound(slots, capacity, freeHead, freeTail, free, uses)
  BY DEF BuffersInv, TableInv
<1>1. /\ TableInv' /\ Full(slots, capacity)' = Full(slots, capacity) \ {i}
      /\ ObjectsIn(slots, capacity)' = ObjectsIn(slots, capacity) \ {slots[i].object}
  BY <1>0, RemoveAtInv
<1>2. terminating' = terminating /\ capacity' = capacity
  BY DEF RemoveAt
<1>3. \A j \in 0 .. capacity - 1 : slots'[j].object # NULL <=> j \in Full(slots, capacity) \ {i}
  BY <1>1, <1>2 DEF Full
<1>4. ASSUME NEW x \in DOMAIN body
      PROVE  slots'[IndexOf(x)].object = NULL <=> x = slots[i].object.id
  <2>1. PICK o \in Objects : o.id = x
    BY BodyDomain
  <2>2. PICK j \in Full(slots, capacity) : o = slots[j].object
    BY DEF Objects, ObjectsIn
  <2>3. IndexOf(x) = j /\ (slots[j].object.id = slots[i].object.id => i = j)
    BY <1>0, <2>1, <2>2, ObjectsDistinct
  <2>4. j \in 0 .. capacity - 1
    BY DEF Full
  <2> QED
    BY <1>3, <2>1, <2>2, <2>3, <2>4
<1> QED
  BY <1>1, <1>2, <1>4 DEF Objects, ObjectsIn

\* While the driver terminates no call is under way.
LEMMA EndingInv ==
    ASSUME BuffersInv, terminating, TableInv', BodyOK(body', Objects'), call' = call, terminating',
           MemInv(body', mem')
    PROVE  BuffersInv'
<1>1. \A t \in Threads : call[t] = Idle
  BY DEF BuffersInv
<1>2. CallsOK(call', body')
  BY <1>1, IdleOK DEF CallsOK, BuffersInv
<1> QED
  BY <1>1, <1>2 DEF BuffersInv

LEMMA TerminateInv ==
    ASSUME BuffersInv, Terminate \/ TerminateContexts \/ TerminateObjects \/ TerminateTable
    PROVE  BuffersInv'
<1>1. CASE Terminate
  <2>1. TableInv'
    BY <1>1, TerminationInv DEF Terminate, BuffersInv
  <2>2. /\ terminating' /\ Objects' = Objects /\ body' = body /\ call' = call /\ mem' = mem
        /\ \A t \in Threads : call[t] = Idle
    BY <1>1 DEF Terminate, NvTerminate, Quiet, Objects, ObjectsIn, Full
  <2> QED
    BY <2>1, <2>2 DEF BuffersInv
<1>2. CASE TerminateContexts
  <2>1. PICK i \in ContextSlots : RemoveAt(i)
    BY <1>2 DEF TerminateContexts, DeleteAllContexts
  <2>2. i \in Full(slots, capacity) /\ slots[i].object.type = "context" /\ terminating
    BY <1>2, <2>1, OccupiedFull DEF ContextSlots, TerminateContexts, DeleteAllContexts
  <2> DEFINE o == slots[i].object
  <2>3. /\ TableInv' /\ o \in Objects /\ Objects' = Objects \ {o}
        /\ terminating' = terminating
        /\ \A x \in DOMAIN body : slots'[IndexOf(x)].object = NULL <=> x = o.id
    BY <2>1, <2>2, SlotGone
  <2>4. body' = Drop(body, {o.id})
    <3>1. {x \in DOMAIN body : slots'[IndexOf(x)].object # NULL} = DOMAIN body \ {o.id}
      BY <2>3
    <3>2. body' = [id \in {x \in DOMAIN body : slots'[IndexOf(x)].object # NULL} |-> body[id]]
      BY <1>2 DEF TerminateContexts
    <3> QED
      BY <3>1, <3>2 DEF Drop
  <2>5. o.type = "context"
    BY <2>2
  <2> HIDE DEF o
  <2>6. BodyOK(body', Objects') /\ Left(body, body', o.id)
    BY <2>3, <2>4, TakeObject
  <2>7. MemInv(body', mem')
    <3>1. o.id \notin Filled(body)
      BY <2>3, <2>5, BodyDomain DEF Filled
    <3>2. SameMemory(body, body')
      BY <2>6, <3>1, LeftMemory DEF SameMemory
    <3>3. mem' = mem
      BY <1>2 DEF TerminateContexts
    <3> QED
      BY <3>2, <3>3, MemSame DEF BuffersInv
  <2>8. call' = call
    BY <1>2 DEF TerminateContexts
  <2> QED
    BY <2>2, <2>3, <2>6, <2>7, <2>8, EndingInv
<1>3. CASE TerminateObjects
  <2>1. PICK i \in Occupied : RemoveAt(i)
    BY <1>3 DEF TerminateObjects, DeleteAllObjects
  <2>2. i \in Full(slots, capacity) /\ terminating
    BY <1>3, <2>1, OccupiedFull DEF TerminateObjects, DeleteAllObjects
  <2> DEFINE o == slots[i].object
             gone == CHOOSE x \in DOMAIN body : slots'[IndexOf(x)].object = NULL
  <2>3. /\ TableInv' /\ o \in Objects /\ Objects' = Objects \ {o}
        /\ terminating' = terminating
        /\ \A x \in DOMAIN body : slots'[IndexOf(x)].object = NULL <=> x = o.id
    BY <2>1, <2>2, SlotGone
  <2>4. gone = o.id
    <3>1. o.id \in DOMAIN body
      BY <2>3, BodyDomain
    <3> QED
      BY <2>3, <3>1
  <2>5. mem' = ReleaseBufferMemory(body[gone]) /\ body' = Drop(body, {gone}) /\ call' = call
    BY <1>3 DEF TerminateObjects, Without
  <2> HIDE DEF o, gone
  <2>6. BodyOK(body', Objects') /\ Left(body, body', o.id)
    BY <2>3, <2>4, <2>5, TakeObject
  <2>7. MemInv(body', mem')
    <3>1. o.id \in DOMAIN body /\ body[o.id] \in Contents
      BY <2>3, BodyDomain
    <3> QED
      BY <2>4, <2>5, <2>6, <3>1, LeftMemory, ReleaseMem DEF BuffersInv
  <2> QED
    BY <2>2, <2>3, <2>5, <2>6, <2>7, EndingInv
<1>4. CASE TerminateTable
  <2>1. /\ TableInv' /\ liveCount = 0 /\ capacity' = 0 /\ ~terminating' /\ slots' = <<>> /\ terminating
        /\ mem' = DestroyBufferPool /\ body' = body /\ call' = call
    BY <1>4, TerminationInv DEF TerminateTable, NvdObjectTableDestroy, BuffersInv
  <2>2. Objects = {} /\ Objects' = {}
    <3>1. Objects = {}
      BY <2>1, ObjectsUnique DEF BuffersInv
    <3>2. Full(slots, capacity)' = {}
      BY <2>1 DEF Full
    <3> QED
      BY <3>1, <3>2 DEF Objects, ObjectsIn
  <2>3. DOMAIN body = {} /\ Filled(body) = {}
    BY <2>2, BodyDomain DEF Filled
  <2> DEFINE kept == UNION {{mem.pool[c][n] : n \in 1 .. Len(mem.pool[c])} : c \in Classes}
             heap2 == Drop(mem.heap, kept)
             none == [c \in Classes |-> <<>>]
             zero == [c \in Classes |-> 0]
  <2>4. mem' = [heap |-> heap2, pool |-> none, counts |-> zero, bytes |-> 0]
    <3>1. mem' = [EmptyMemory EXCEPT !.heap = heap2]
      BY <2>1 DEF DestroyBufferPool
    <3> HIDE DEF heap2
    <3> QED
      BY <3>1 DEF EmptyMemory
  <2>5. DOMAIN mem.heap \subseteq kept
    <3>1. ASSUME NEW b \in DOMAIN mem.heap PROVE b \in kept
      <4>1. \E c \in Classes : \E n \in 1 .. Len(mem.pool[c]) : mem.pool[c][n] = b
        BY <2>3 DEF BuffersInv, MemInv, OwnersOK
      <4> QED
        BY <4>1
    <3> QED
      BY <3>1
  <2>6. DOMAIN heap2 = {}
    <3> HIDE DEF kept
    <3>1. DOMAIN heap2 = DOMAIN mem.heap \ kept
      BY DropDomain
    <3> QED
      BY <2>5, <3>1
  <2>7. heap2 \in [DOMAIN heap2 -> Nat]
    BY <2>5, <2>6, DropType DEF BuffersInv, MemInv, MemType
  <2> HIDE DEF kept, heap2
  <2>8. /\ mem'.heap = heap2 /\ mem'.pool = none /\ mem'.counts = zero /\ mem'.bytes = 0
        /\ mem' = [heap |-> mem'.heap, pool |-> mem'.pool, counts |-> mem'.counts, bytes |-> mem'.bytes]
    BY <2>4
  <2>9. MemType(mem')
    <3>1. none \in [Classes -> Seq(1 .. MaxBlocks)] /\ zero \in [Classes -> Nat] /\ 0 \in Nat
      OBVIOUS
    <3> HIDE DEF none, zero
    <3> QED
      BY <2>6, <2>7, <2>8, <3>1 DEF MemType
  <2>10. \A c \in Classes : Len(none[c]) = 0 /\ zero[c] = 0
    OBVIOUS
  <2> HIDE DEF none, zero
  <2>11. OwnersOK(body', mem'.heap, mem'.pool)
    <3>1. \A c \in Classes : 1 .. Len(none[c]) = {}
      BY <2>10
    <3>2. OwnersOK(body, heap2, none)
      BY <2>3, <2>6, <3>1 DEF OwnersOK
    <3> QED
      BY <2>1, <2>8, <3>2
  <2>12. PoolOK(mem'.pool, mem'.counts, mem'.bytes)
    <3>1. PlacesOf(none) = {}
      <4>1. \A p : p \notin PlacesOf(none)
        BY <2>10, PlaceParts
      <4> QED
        BY <4>1
    <3>2. BytesOf(none) = {}
      BY <3>1 DEF BytesOf
    <3>3. PoolBlocks \in Nat /\ PoolMaxBytes \in Nat
      BY PoolAssumption
    <3>4. PoolOK(none, zero, 0)
      BY <2>10, <3>2, <3>3, FS_EmptySet DEF PoolOK
    <3> QED
      BY <2>8, <3>4
  <2>13. MemInv(body', mem')
    BY <2>9, <2>11, <2>12 DEF MemInv
  <2>14. BodyOK(body', Objects')
    BY <2>1, <2>2 DEF BuffersInv
  <2>15. ImagesOK(body', HeldIds(call'))
    BY <2>1, <2>3 DEF ImagesOK
  <2>16. CallsOK(call', body')
    BY <2>1 DEF BuffersInv
  <2>17. DOMAIN mem'.heap = {}
    BY <2>6, <2>8
  <2> QED
    BY <2>1, <2>13, <2>14, <2>15, <2>16, <2>17 DEF BuffersInv
<1> QED
  BY <1>1, <1>2, <1>3, <1>4

-----------------------------------------------------------------------------
(* The invariant, and what it says.                                        *)

LEMMA BuffersInitInv == BuffersInit => BuffersInv
<1> SUFFICES ASSUME BuffersInit PROVE BuffersInv
  OBVIOUS
<1>0. Init /\ body = <<>> /\ call = [t \in Threads |-> Idle] /\ mem = EmptyMemory
  BY DEF BuffersInit
<1>1. TableInv /\ capacity = 0 /\ ~terminating
  BY <1>0, InitInv DEF Init
<1>2. Objects = {}
  BY <1>1, ObjectsUnique
<1>3. DOMAIN body = {} /\ body \in [{} -> Contents] /\ Filled(body) = {}
  BY <1>0 DEF Filled
<1>4. BodyOK(body, Objects)
  <2>1. {o.id : o \in Objects} = {}
    BY <1>2
  <2> QED
    BY <1>2, <1>3, <2>1 DEF BodyOK
<1>5. CallsOK(call, body)
  <2>1. call = [t \in Threads |-> call[t]] /\ \A t \in Threads : call[t] = Idle
    BY <1>0
  <2> QED
    BY <2>1, IdleOK DEF CallsOK
<1>6. ImagesOK(body, HeldIds(call))
  BY <1>3 DEF ImagesOK
<1> DEFINE none == [c \in Classes |-> <<>>]
           zero == [c \in Classes |-> 0]
<1>7. /\ mem = [heap |-> mem.heap, pool |-> mem.pool, counts |-> mem.counts, bytes |-> mem.bytes]
      /\ mem.heap = <<>> /\ mem.pool = none /\ mem.counts = zero /\ mem.bytes = 0
  BY <1>0 DEF EmptyMemory
<1>8. none \in [Classes -> Seq(1 .. MaxBlocks)] /\ zero \in [Classes -> Nat] /\ 0 \in Nat
      /\ \A c \in Classes : Len(none[c]) = 0 /\ zero[c] = 0
  OBVIOUS
<1> HIDE DEF none, zero
<1>9. DOMAIN mem.heap = {} /\ mem.heap \in [DOMAIN mem.heap -> Nat]
  BY <1>7
<1>10. MemType(mem)
  BY <1>7, <1>8, <1>9 DEF MemType
<1>11. OwnersOK(body, mem.heap, mem.pool)
  <2>1. \A c \in Classes : 1 .. Len(mem.pool[c]) = {}
    BY <1>7, <1>8
  <2> QED
    BY <1>3, <1>9, <2>1 DEF OwnersOK
<1>12. PoolOK(mem.pool, mem.counts, mem.bytes)
  <2>1. PlacesOf(none) = {}
    <3>1. \A p : p \notin PlacesOf(none)
      BY <1>8, PlaceParts
    <3> QED
      BY <3>1
  <2>2. BytesOf(none) = {}
    BY <2>1 DEF BytesOf
  <2>3. PoolBlocks \in Nat /\ PoolMaxBytes \in Nat
    BY PoolAssumption
  <2>4. PoolOK(none, zero, 0)
    BY <1>8, <2>2, <2>3, FS_EmptySet DEF PoolOK
  <2> QED
    BY <1>7, <2>4
<1> QED
  BY <1>1, <1>4, <1>5, <1>6, <1>9, <1>10, <1>11, <1>12 DEF BuffersInv, MemInv

LEMMA BuffersNextInv == BuffersInv /\ [BuffersNext]_allVars => BuffersInv'
<1> SUFFICES ASSUME BuffersInv, [BuffersNext]_allVars PROVE BuffersInv'
  OBVIOUS
<1>1. CASE UNCHANGED allVars
  <2>1. UNCHANGED vars /\ body' = body /\ call' = call /\ mem' = mem
    BY <1>1 DEF allVars
  <2>2. TableInv' /\ Objects' = Objects /\ terminating' = terminating /\ capacity' = capacity
    BY <2>1, TableSame
  <2> QED
    BY <2>1, <2>2 DEF BuffersInv
<1>2. ASSUME NEW t \in Threads, NvCreateContext(t) PROVE BuffersInv'
  BY <1>2, CreateContextInv
<1>3. ASSUME NEW t \in Threads, NvDestroyContext(t) PROVE BuffersInv'
  BY <1>3, DestroyContextInv
<1>4. ASSUME NEW t \in Threads, NvCreateBuffer(t) PROVE BuffersInv'
  BY <1>4, CreateBufferInv
<1>5. ASSUME NEW t \in Threads, NvCreateBufferMemory(t) PROVE BuffersInv'
  BY <1>5, CreateBufferMemoryInv
<1>6. ASSUME NEW t \in Threads, NvCreateImage(t) PROVE BuffersInv'
  BY <1>6, CreateImageInv
<1>7. ASSUME NEW t \in Threads, NvCreateImageBuffer(t) PROVE BuffersInv'
  BY <1>7, CreateImageBufferInv
<1>8. ASSUME NEW t \in Threads, NvCreateImageMemory(t) PROVE BuffersInv'
  BY <1>8, CreateImageMemoryInv
<1>9. ASSUME NEW t \in Threads, NvDropImage(t) PROVE BuffersInv'
  BY <1>9, DropImageInv
<1>10. ASSUME NEW t \in Threads, NvDestroyBuffer(t) PROVE BuffersInv'
  BY <1>10, DestroyBufferInv
<1>11. ASSUME NEW t \in Threads, NvDestroyImage(t) PROVE BuffersInv'
  BY <1>11, DestroyImageInv
<1>12. ASSUME Terminate \/ TerminateContexts \/ TerminateObjects \/ TerminateTable PROVE BuffersInv'
  BY <1>12, TerminateInv
<1> QED
  BY <1>1, <1>2, <1>3, <1>4, <1>5, <1>6, <1>7, <1>8, <1>9, <1>10, <1>11, <1>12 DEF BuffersNext

LEMMA BuffersInvariant == BuffersSpec => []BuffersInv
<1>1. BuffersInit => BuffersInv
  BY BuffersInitInv
<1>2. BuffersInv /\ [BuffersNext]_allVars => BuffersInv'
  BY BuffersNextInv
<1> QED
  BY <1>1, <1>2, PTL DEF BuffersSpec

LEMMA InvIds == BuffersInv => IdsExact
<1> SUFFICES ASSUME BuffersInv PROVE IdsExact
  OBVIOUS
<1>0. TableInv
  BY DEF BuffersInv
<1>1. {slots[i].object.id : i \in Occupied} = DOMAIN body
  <2>1. DOMAIN body = {o.id : o \in Objects}
    BY BodyDomain
  <2> QED
    BY <2>1, OccupiedFull DEF Objects, ObjectsIn
<1>2. ASSUME NEW id \in DOMAIN body PROVE Get(body[id].kind, id) # NULL
  <2>1. PICK o \in Objects : o.id = id
    BY BodyDomain
  <2>2. o \in Object /\ o.id \in Ids /\ o.type = body[id].kind
    BY <1>0, <2>1, ObjectsUnique, BodyDomain
  <2>3. o = [type |-> body[id].kind, id |-> id]
    BY <2>1, <2>2 DEF Object
  <2> QED
    BY <1>0, <2>1, <2>2, <2>3, GetEffect
<1> QED
  BY <1>0, <1>1, <1>2, InvLive, InvStale DEF IdsExact

LEMMA InvPlaces == Places = PlacesOf(mem.pool) /\ KeptBytes = BytesOf(mem.pool)
BY DEF Places, PlacesOf, KeptBytes, BytesOf

LEMMA InvPool == BuffersInv => PoolWithinLimits
BY InvPlaces DEF BuffersInv, MemInv, PoolOK, PoolWithinLimits

LEMMA InvImages == BuffersInv => ImageBuffersLive
<1> SUFFICES ASSUME BuffersInv, ~terminating
    PROVE  /\ \A id \in Given("image") :
                LET b == body[id].imageBufferId IN
                b \in Live("buffer") /\ body[b].imageOwned /\ body[b].ptr # NULL
           /\ \A b \in Given("buffer") :
                body[b].imageOwned => \E id \in Live("image") : body[id].imageBufferId = b
  BY DEF ImageBuffersLive
<1>1. ImagesOK(body, HeldIds(call))
  BY DEF BuffersInv
<1>2. Given("image") = Live("image") \ HeldIds(call) /\ Given("buffer") = Live("buffer") \ HeldIds(call)
  BY GivenUnheld
<1> QED
  BY <1>1, <1>2 DEF ImagesOK, Live

LEMMA InvBlocks == BuffersInv => BlocksOwned
<1> SUFFICES ASSUME BuffersInv PROVE BlocksOwned
  OBVIOUS
<1>0. OwnersOK(body, mem.heap, mem.pool) /\ DOMAIN mem.heap \subseteq 1 .. MaxBlocks
  BY DEF BuffersInv, MemInv, MemType
<1>1. ASSUME NEW b \in DOMAIN mem.heap PROVE Cardinality(Owners(b)) + Cardinality(Kept(b)) = 1
  <2>0. b # NULL
    BY <1>0, PoolAssumption
  <2>1. \A x : x \in Owners(b) <=> x \in Filled(body) /\ body[x].ptr = b
    BY <2>0 DEF Owners, Live, Filled
  <2>2. \A p : p \in Kept(b) <=> \E c \in Classes : \E n \in 1 .. Len(mem.pool[c]) :
                                   p = <<c, n>> /\ mem.pool[c][n] = b
    <3>1. ASSUME NEW p \in Kept(b)
          PROVE  \E c \in Classes : \E n \in 1 .. Len(mem.pool[c]) : p = <<c, n>> /\ mem.pool[c][n] = b
      <4>1. p \in PlacesOf(mem.pool) /\ mem.pool[p[1]][p[2]] = b
        BY InvPlaces DEF Kept
      <4>2. PICK c \in Classes : \E n \in 1 .. Len(mem.pool[c]) : p = <<c, n>>
        BY <4>1, PlaceParts
      <4>3. PICK n \in 1 .. Len(mem.pool[c]) : p = <<c, n>>
        BY <4>2
      <4>4. p[1] = c /\ p[2] = n
        BY <4>3
      <4> QED
        BY <4>1, <4>3, <4>4
    <3>2. ASSUME NEW c \in Classes, NEW n \in 1 .. Len(mem.pool[c]), mem.pool[c][n] = b
          PROVE  <<c, n>> \in Kept(b)
      <4>1. <<c, n>> \in PlacesOf(mem.pool)
        BY PlaceParts
      <4> QED
        BY <3>2, <4>1, InvPlaces DEF Kept
    <3> QED
      BY <3>1, <3>2
  <2>3. CASE \E x \in Filled(body) : body[x].ptr = b
    <3>1. PICK x \in Filled(body) : body[x].ptr = b
      BY <2>3
    <3>2. Owners(b) = {x}
      <4>1. x \in Owners(b)
        BY <2>1, <3>1
      <4>2. \A z \in Owners(b) : z = x
        BY <1>0, <2>1, <3>1 DEF OwnersOK
      <4> QED
        BY <4>1, <4>2
    <3>3. Kept(b) = {}
      <4>1. \A c \in Classes : \A n \in 1 .. Len(mem.pool[c]) : mem.pool[c][n] # b
        BY <1>0, <3>1 DEF OwnersOK
      <4> QED
        BY <2>2, <4>1
    <3>4. Cardinality(Owners(b)) = 1 /\ Cardinality(Kept(b)) = 0
      BY <3>2, <3>3, FS_Singleton, FS_EmptySet
    <3> QED
      BY <3>4
  <2>4. CASE \E c \in Classes : \E n \in 1 .. Len(mem.pool[c]) : mem.pool[c][n] = b
    <3>1. PICK c \in Classes : \E n \in 1 .. Len(mem.pool[c]) : mem.pool[c][n] = b
      BY <2>4
    <3>2. PICK n \in 1 .. Len(mem.pool[c]) : mem.pool[c][n] = b
      BY <3>1
    <3>3. Owners(b) = {}
      BY <1>0, <2>1, <3>2 DEF OwnersOK
    <3>4. Kept(b) = {<<c, n>>}
      <4>1. <<c, n>> \in Kept(b)
        BY <2>2, <3>2
      <4>2. ASSUME NEW p \in Kept(b) PROVE p = <<c, n>>
        <5>1. PICK d \in Classes : \E k \in 1 .. Len(mem.pool[d]) : p = <<d, k>> /\ mem.pool[d][k] = b
          BY <2>2
        <5>2. PICK k \in 1 .. Len(mem.pool[d]) : p = <<d, k>> /\ mem.pool[d][k] = b
          BY <5>1
        <5>3. d = c /\ k = n
          BY <1>0, <3>2, <5>2 DEF OwnersOK
        <5> QED
          BY <5>2, <5>3
      <4> QED
        BY <4>1, <4>2
    <3>5. Cardinality(Owners(b)) = 0 /\ Cardinality(Kept(b)) = 1
      BY <3>3, <3>4, FS_Singleton, FS_EmptySet
    <3> QED
      BY <3>5
  <2> QED
    BY <1>0, <2>3, <2>4 DEF OwnersOK
<1>2. ASSUME NEW id \in Live("buffer"), body[id].ptr # NULL
      PROVE  /\ body[id].ptr \in DOMAIN mem.heap
             /\ mem.heap[body[id].ptr] = body[id].capacity /\ body[id].size <= body[id].capacity
  <2>1. id \in Filled(body)
    BY <1>2 DEF Live, Filled
  <2>2. body[id] \in Contents /\ body[id].kind = "buffer"
    BY BodyDomain DEF Live
  <2>3. body[id] \in BufferRecord
    BY <2>2 DEF Contents, NoContents, ImageRecord
  <2>4. body[id].size \in Sizes
    BY <2>3 DEF BufferRecord
  <2> QED
    BY <1>0, <2>1, <2>4, ClassFacts DEF OwnersOK
<1>3. \A c \in Classes : \A n \in 1 .. Len(mem.pool[c]) :
        mem.pool[c][n] \in DOMAIN mem.heap /\ mem.heap[mem.pool[c][n]] = ClassSizes[c]
  BY <1>0 DEF OwnersOK
<1>4. capacity = 0 /\ ~terminating => DOMAIN mem.heap = {}
  BY DEF BuffersInv
<1> QED
  BY <1>1, <1>2, <1>3, <1>4 DEF BlocksOwned

\* The IDs that allocateObject gave out and deleteObject has not taken back
\* are the ones of the table's slots; each finds its own object, whatever
\* calls create, fail and destroy at the same time.
THEOREM IdsCorrect == BuffersSpec => []IdsExact
<1>1. BuffersInv => IdsExact
  BY InvIds
<1> QED
  BY <1>1, BuffersInvariant, PTL

\* The slots that are free are the ones the free list holds, also under the
\* calls of the client: the list in the order in which deleteObject put them.
THEOREM BuffersFreeListCorrect == BuffersSpec => []FreeListExact
<1>1. BuffersInv => FreeListExact
  BY InvFreeList DEF BuffersInv
<1> QED
  BY <1>1, BuffersInvariant, PTL

\* A block of memory that allocateBufferMemory took from the allocator is
\* one buffer's or in one place of the pool until releaseBufferMemory or
\* destroyBufferPool frees it, and it is as large as its user believes.
THEOREM BlocksCorrect == BuffersSpec => []BlocksOwned
<1>1. BuffersInv => BlocksOwned
  BY InvBlocks
<1> QED
  BY <1>1, BuffersInvariant, PTL

\* An image that nvCreateImage returned has its buffer, and no image's
\* buffer is left without its image, until nvTerminate.
THEOREM ImageBuffersCorrect == BuffersSpec => []ImageBuffersLive
<1>1. BuffersInv => ImageBuffersLive
  BY InvImages
<1> QED
  BY <1>1, BuffersInvariant, PTL

\* bufferPoolCounts and bufferPoolBytes are what the pool keeps, within the
\* limits, and the unsigned arithmetic of releaseBufferMemory never wraps.
THEOREM PoolCorrect == BuffersSpec => []PoolWithinLimits
<1>1. BuffersInv => PoolWithinLimits
  BY InvPool
<1> QED
  BY <1>1, BuffersInvariant, PTL
=============================================================================
