------------------------- MODULE PictureIndexProofs -------------------------
(***************************************************************************)
(* Proofs about PictureIndex, for any number of contexts, surfaces and     *)
(* indices, and whatever the client keeps as references.                   *)
(***************************************************************************)
EXTENDS PictureIndex, NumberFacts

-----------------------------------------------------------------------------
(* The inductive invariant, in two parts.  Base holds of every client.     *)
(* Claims needs film grain output to stay in its context: EndDecode makes  *)
(* the display surface one of the context without giving it an index, so   *)
(* that a foreign one would have an index the owner table does not know.   *)

SurfRecord ==
    [live : BOOLEAN, pictureIdx : Indices \cup {NONE},
     context : Contexts \cup {NULL}, resolving : BOOLEAN]
CxRecord ==
    [state : {"live", "destroying", "gone"},
     owners : [Indices -> Surfaces \cup {NULL}],
     active : SUBSET (Indices \cup {NONE}), building : SUBSET (Indices \cup {NONE}),
     allocated : 0 .. MaxSurfaces, cursor : Indices, count : 0 .. MaxSurfaces,
     phase : {"closed", "open", "rendered"},
     target : Surfaces \cup {NULL}, display : Surfaces \cup {NULL},
     jobs : Seq(Job), references : SUBSET Surfaces]

Typed ==
    /\ surf \in [Surfaces -> SurfRecord]
    /\ cx \in [Contexts -> CxRecord]
    /\ pc \in [Actors -> {"idle", "release", "detach", "assign", "await", "publish"}]
    /\ arg \in [Actors -> Surfaces \cup {NULL}]
    /\ objectCreationMutex \in Actors \cup {NULL}
    /\ surfaceCreationMutex \in [Contexts -> Actors \cup {NULL}]

\* Calls and pictures belong to contexts that are live, one at a time, and
\* have the surfaces they need.
InCall(c) == cx[c].state = "live" /\ cx[c].phase = "closed"
CallsOK ==
    /\ \A c \in Contexts : pc[c] # "idle" => InCall(c)
    /\ \A c \in Contexts : cx[c].phase # "closed" =>
        cx[c].state = "live" /\ cx[c].target # NULL /\ cx[c].display # NULL
    /\ \A a \in Actors : pc[a] # "idle" => arg[a] # NULL

\* The indices in use are below the mark, and the mark is within the decoder.
BelowMark(r) ==
    /\ \A i \in Indices : r.owners[i] # NULL => i < r.allocated
    /\ r.count # 0 => r.allocated <= r.count
MarksOK == \A c \in Contexts : BelowMark(cx[c])

Base == Typed /\ CallsOK /\ MarksOK /\ NoStaleContext

\* A surface without a context has no index.
Unattached == \A s \in Surfaces : surf[s].context = NULL => surf[s].pictureIdx = NONE

\* The surfaces in calls: each of one thread, without an index once it waits
\* for one, and of no picture and no job.
Pending(c) == pc[c] \in {"assign", "await"}
ArgsOK ==
    /\ \A a \in Actors : arg[a] # NULL =>
        /\ surf[arg[a]].live
        /\ \A b \in Actors : arg[b] = arg[a] => a = b
        /\ \A c \in Contexts : arg[a] \notin cx[c].references \cup {cx[c].target, cx[c].display}
    /\ \A c \in Contexts : Pending(c) => surf[arg[c]].pictureIdx = NONE

\* The surfaces of a picture: of no other context, and no reference.
InPicture(c) == {cx[c].target, cx[c].display}
PicturesOK ==
    /\ \A c \in Contexts : cx[c].phase # "closed" => \A s \in InPicture(c) : Found(c, s)
    /\ \A c, x \in Contexts : \A s \in InPicture(c) : s # NULL =>
        s \notin cx[x].references /\ (s \in InPicture(x) => c = x)

\* The surfaces of queued frames: resolving, with their index, one frame each.
JobOK(c, job) ==
    /\ job.pictureIdx # NONE /\ cx[c].owners[job.pictureIdx] = job.surface
    /\ surf[job.surface].resolving
    /\ \A a \in Actors : arg[a] # job.surface
    /\ \A x \in Contexts : job.surface \notin InPicture(x)
JobsOK ==
    \A c \in Contexts :
        /\ cx[c].jobs # <<>> => cx[c].state = "live"
        /\ \A n \in 1 .. Len(cx[c].jobs) :
            /\ JobOK(c, cx[c].jobs[n])
            /\ \A m \in 1 .. Len(cx[c].jobs) : cx[c].jobs[m].surface = cx[c].jobs[n].surface => m = n

\* The masks are of indices; for a codec that recycles, the references are
\* in them.
MasksOK == \A c \in Contexts : cx[c].active \subseteq Indices /\ cx[c].building \subseteq Indices
ReferenceOK(c, s) ==
    /\ Found(c, s)
    /\ c \notin AV1 =>
        /\ surf[s].pictureIdx \in cx[c].active
        /\ cx[c].phase = "rendered" => surf[s].pictureIdx \in cx[c].building
RefsOK ==
    \A c \in Contexts :
        /\ cx[c].references # {} => cx[c].state = "live"
        /\ NamesAll => \A s \in cx[c].references : ReferenceOK(c, s)

Claims == OwnersAgree /\ Unattached /\ ArgsOK /\ PicturesOK /\ JobsOK /\ MasksOK /\ RefsOK

-----------------------------------------------------------------------------
(* The choice of an index.                                                 *)

\* The ring has a first available index.
LEMMA FirstFromAvailable ==
    ASSUME NEW limit \in Nat \ {0}, NEW available \in SUBSET (0 .. limit - 1),
           NEW start \in Int, available # {}
    PROVE  FirstFrom(available, start, limit) \in available
<1> DEFINE Place(i) == (i - start) % limit
           T == {Place(i) : i \in available}
<1>1. \A i \in available : Place(i) \in Nat
  OBVIOUS
<1>2. T \in SUBSET Nat /\ T # {}
  <2> HIDE DEF Place
  <2> QED
    BY <1>1
<1>3. PICK x \in T : \A y \in T : x <= y
  <2> HIDE DEF T
  <2> QED
    BY <1>2, LeastNat
<1>4. PICK i \in available : \A j \in available : Place(i) <= Place(j)
  <2> HIDE DEF Place
  <2> QED
    BY <1>3
<1> QED
  BY <1>4 DEF FirstFrom

LEMMA LimitRange ==
    ASSUME Typed, NEW c \in Contexts
    PROVE  /\ SurfaceLimit(c) \in 1 .. MaxSurfaces
           /\ 0 .. SurfaceLimit(c) - 1 \subseteq Indices
           /\ cx[c].cursor \in Int /\ cx[c].allocated \in Nat
BY PictureIndexAssumption DEF Typed, CxRecord, SurfaceLimit, Indices

\* The chosen index is below the limit, new or of the kind that may be
\* recycled, and the mark moves past it.
LEMMA SelectedIndex ==
    ASSUME Base, NEW c \in Contexts, NEW busy \in SUBSET Indices, Selected(c, busy) # NONE
    PROVE  LET i == Selected(c, busy) IN
           /\ i \in Indices /\ i < SurfaceLimit(c)
           /\ \/ cx[c].owners[i] = NULL
              \/ c \notin AV1 /\ i \notin cx[c].active /\ i \notin busy
           /\ AllocatedAfter(c, i) \in 0 .. MaxSurfaces
           /\ i < AllocatedAfter(c, i) /\ cx[c].allocated <= AllocatedAfter(c, i)
           /\ cx[c].allocated <= SurfaceLimit(c) => AllocatedAfter(c, i) <= SurfaceLimit(c)
           /\ CursorAfter(c, i) \in Indices
<1> DEFINE i == Selected(c, busy)
           lim == SurfaceLimit(c)
           low == 0 .. lim - 1
           unowned == {j \in low : cx[c].owners[j] = NULL}
           free == low \ (cx[c].active \cup busy)
<1>1. lim \in 1 .. MaxSurfaces /\ low \subseteq Indices /\ cx[c].cursor \in Int /\ cx[c].allocated \in Nat
  BY LimitRange DEF Base
<1>2. \A j \in Indices : cx[c].owners[j] # NULL => j < cx[c].allocated
  BY DEF Base, MarksOK, BelowMark
<1>2a. MaxSurfaces \in Nat \ {0} /\ cx[c].allocated \in 0 .. MaxSurfaces
  BY PictureIndexAssumption DEF Base, Typed, CxRecord
<1>3. CASE c \in AV1
  <2>1. i = FirstFrom(unowned, cx[c].cursor, lim)
    BY <1>3 DEF Selected
  <2>2. unowned \in SUBSET low /\ lim \in Nat \ {0}
    BY <1>1
  <2>3. i \in unowned
    <3> HIDE DEF i, unowned, low
    <3>1. unowned # {}
      BY <2>1 DEF FirstFrom, i
    <3> QED
      BY <1>1, <2>1, <2>2, <3>1, FirstFromAvailable DEF low
  <2> QED
    BY <1>1, <1>2a, <1>3, <2>3 DEF AllocatedAfter, Larger, CursorAfter, Indices
<1>4. CASE c \notin AV1 /\ cx[c].allocated < lim
  <2>1. i = cx[c].allocated
    BY <1>4 DEF Selected, SelectPictureIndex
  <2> QED
    BY <1>1, <1>2, <1>2a, <1>4, <2>1 DEF AllocatedAfter, Larger, CursorAfter, Indices
<1>5. CASE c \notin AV1 /\ ~(cx[c].allocated < lim)
  <2>1. i = FirstFrom(free, cx[c].cursor, lim)
    BY <1>5 DEF Selected, SelectPictureIndex
  <2>2. free \in SUBSET low /\ lim \in Nat \ {0}
    BY <1>1
  <2>3. i \in free
    <3> HIDE DEF i, free, low
    <3>1. free # {}
      BY <2>1 DEF FirstFrom, i
    <3> QED
      BY <1>1, <2>1, <2>2, <3>1, FirstFromAvailable DEF low
  <2> QED
    BY <1>1, <1>2a, <1>5, <2>3 DEF AllocatedAfter, Larger, CursorAfter, Indices
<1> QED
  BY <1>3, <1>4, <1>5

-----------------------------------------------------------------------------
(* What the steps do to the records.                                       *)

LEMMA FreshRecords ==
    /\ FreshSurface \in SurfRecord
    /\ FreshContext \in CxRecord /\ BelowMark(FreshContext)
    /\ [FreshContext EXCEPT !.state = "gone"] \in CxRecord
    /\ BelowMark([FreshContext EXCEPT !.state = "gone"])
<1>1. 0 \in Indices /\ 0 \in 0 .. MaxSurfaces
  BY PictureIndexAssumption DEF Indices
<1>2. <<>> \in Seq(Job)
  OBVIOUS
<1> QED
  BY <1>1, <1>2 DEF FreshSurface, FreshContext, SurfRecord, CxRecord, BelowMark, NONE

\* The fields a step leaves alone.
SameOwners(o, r) == o.owners = r.owners /\ o.allocated = r.allocated /\ o.cursor = r.cursor
SameMasks(o, r) == o.active = r.active /\ o.building = r.building
SamePicture(o, r) == o.phase = r.phase /\ o.target = r.target /\ o.display = r.display
SameWork(o, r) == o.jobs = r.jobs /\ o.references = r.references

LEMMA OpenedFields ==
    ASSUME NEW r \in CxRecord, NEW c \in Contexts, NEW s \in Surfaces
    PROVE  LET o == Opened(r, c, s) IN
           /\ o \in CxRecord
           /\ o.phase = "open" /\ o.target = s /\ o.display = s
           /\ o.building = IF c \in AV1 THEN r.building ELSE {}
           /\ o.state = r.state /\ o.active = r.active /\ o.count = r.count
           /\ SameOwners(o, r) /\ SameWork(o, r)
BY DEF Opened, CxRecord, SameOwners, SameWork

\* The record after an index was given to s.
Given(r, c, s, i) ==
    [r EXCEPT !.owners[i] = s, !.allocated = AllocatedAfter(c, i), !.cursor = CursorAfter(c, i)]

LEMMA GivenFields ==
    ASSUME NEW r \in CxRecord, NEW c \in Contexts, NEW s \in Surfaces, NEW i \in Indices,
           AllocatedAfter(c, i) \in 0 .. MaxSurfaces, CursorAfter(c, i) \in Indices
    PROVE  LET o == Given(r, c, s, i) IN
           /\ o \in CxRecord
           /\ o.owners = [r.owners EXCEPT ![i] = s]
           /\ o.allocated = AllocatedAfter(c, i)
           /\ o.state = r.state /\ o.count = r.count
           /\ SameMasks(o, r) /\ SamePicture(o, r) /\ SameWork(o, r)
BY DEF Given, CxRecord, SameMasks, SamePicture, SameWork

LEMMA ClosedFields ==
    ASSUME NEW r \in CxRecord
    PROVE  LET o == Closed(r) IN
           /\ o \in CxRecord
           /\ o.phase = "closed" /\ o.target = NULL /\ o.display = NULL
           /\ o.state = r.state /\ o.count = r.count
           /\ SameOwners(o, r) /\ SameMasks(o, r) /\ SameWork(o, r)
BY DEF Closed, CxRecord, SameMasks, SameOwners, SameWork

\* The record after an index was taken back.
Dropped(r, i) == [r EXCEPT !.owners[i] = NULL, !.active = @ \ {i}, !.building = @ \ {i}]

LEMMA DroppedFields ==
    ASSUME NEW r \in CxRecord, NEW i \in Indices
    PROVE  LET o == Dropped(r, i) IN
           /\ o \in CxRecord
           /\ o.owners = [r.owners EXCEPT ![i] = NULL]
           /\ o.active = r.active \ {i} /\ o.building = r.building \ {i}
           /\ o.state = r.state /\ o.count = r.count /\ o.allocated = r.allocated
           /\ SamePicture(o, r) /\ SameWork(o, r)
BY DEF Dropped, CxRecord, SamePicture, SameWork

\* Whether the release of s concerns an owner table.
Owning(s) ==
    LET c == surf[s].context  i == surf[s].pictureIdx IN
    c # NULL /\ i # NONE /\ cx[c].state = "live" /\ cx[c].owners[i] = s

LEMMA ReleasedRecords ==
    ASSUME Typed, NEW s \in Surfaces
    PROVE  LET c == surf[s].context  i == surf[s].pictureIdx IN
           CxReleased(s) = IF Owning(s) THEN [cx EXCEPT ![c] = Dropped(cx[c], i)] ELSE cx
<1> DEFINE c == surf[s].context
           i == surf[s].pictureIdx
<1>1. CASE ~Owning(s)
  BY <1>1 DEF CxReleased, Owning
<1>2. CASE Owning(s)
  <2>1. c \in Contexts /\ i \in Indices /\ cx[c] \in CxRecord
    BY <1>2 DEF Owning, Typed, SurfRecord
  <2>2. CxReleased(s) = [cx EXCEPT ![c].owners[i] = NULL,
                    ![c].active = @ \ {i}, ![c].building = @ \ {i}]
    BY <1>2 DEF CxReleased, Owning
  <2>3. CxReleased(s) = [cx EXCEPT ![c] = Dropped(cx[c], i)]
    <3> HIDE DEF c, i
    <3> QED
      BY <2>1, <2>2 DEF Dropped, Typed
  <2> QED
    BY <1>2, <2>3
<1> QED
  BY <1>1, <1>2

LEMMA SurfReleasedRecords ==
    ASSUME Typed, NEW s \in Surfaces
    PROVE  /\ SurfReleased(s) \in [Surfaces -> SurfRecord]
           /\ \A t \in Surfaces : t # s => SurfReleased(s)[t] = surf[t]
           /\ SurfReleased(s)[s].context = NULL /\ SurfReleased(s)[s].pictureIdx = NONE
           /\ SurfReleased(s)[s].live = surf[s].live
           /\ SurfReleased(s)[s].resolving = surf[s].resolving
BY DEF SurfReleased, Typed, SurfRecord

-----------------------------------------------------------------------------
(* Steps in terms of the surface and the context that they touch.          *)

SurfOnly(s) ==
    surf' \in [Surfaces -> SurfRecord] /\ \A t \in Surfaces : t # s => surf'[t] = surf[t]
CxOnly(c) ==
    cx' \in [Contexts -> CxRecord] /\ \A x \in Contexts : x # c => cx'[x] = cx[x]

\* Only the resolving flag of s is set.
Flagged(s, b) ==
    /\ SurfOnly(s)
    /\ surf'[s].resolving = b /\ surf'[s].live = surf[s].live
    /\ surf'[s].context = surf[s].context /\ surf'[s].pictureIdx = surf[s].pictureIdx
\* s has left its context.
Freed(s) ==
    /\ SurfOnly(s)
    /\ surf'[s].resolving = surf[s].resolving /\ surf'[s].live = surf[s].live
    /\ surf'[s].context = NULL /\ surf'[s].pictureIdx = NONE

LEMMA FlagStep ==
    ASSUME Typed, NEW s \in Surfaces, NEW b \in BOOLEAN,
           surf' = [surf EXCEPT ![s].resolving = b]
    PROVE  Flagged(s, b)
BY DEF Typed, SurfRecord, Flagged, SurfOnly

LEMMA FreeStep ==
    ASSUME Typed, NEW s \in Surfaces, surf' = SurfReleased(s)
    PROVE  Freed(s)
BY SurfReleasedRecords DEF Freed, SurfOnly

LEMMA CxStep ==
    ASSUME Typed, NEW c \in Contexts, NEW r \in CxRecord, cx' = [cx EXCEPT ![c] = r]
    PROVE  CxOnly(c) /\ cx'[c] = r
BY DEF Typed, CxOnly

LEMMA CxFields ==
    ASSUME Typed, NEW c \in Contexts
    PROVE  /\ cx[c] \in CxRecord
           /\ cx[c].owners \in [Indices -> Surfaces \cup {NULL}]
           /\ cx[c].active \subseteq Indices \cup {NONE} /\ cx[c].building \subseteq Indices \cup {NONE}
           /\ cx[c].allocated \in 0 .. MaxSurfaces /\ cx[c].count \in 0 .. MaxSurfaces
           /\ cx[c].target \in Surfaces \cup {NULL} /\ cx[c].display \in Surfaces \cup {NULL}
           /\ cx[c].jobs \in Seq(Job) /\ cx[c].references \subseteq Surfaces
BY DEF Typed, CxRecord

LEMMA SurfFields ==
    ASSUME Typed, NEW s \in Surfaces
    PROVE  /\ surf[s] \in SurfRecord
           /\ surf[s].live \in BOOLEAN /\ surf[s].resolving \in BOOLEAN
           /\ surf[s].pictureIdx \in Indices \cup {NONE}
           /\ surf[s].context \in Contexts \cup {NULL}
BY DEF Typed, SurfRecord

\* Steps that leave the contexts alone keep Base if the calls stay in order
\* and no surface gets a context.
LEMMA SurfBase ==
    ASSUME Base, UNCHANGED cx,
           surf' \in [Surfaces -> SurfRecord],
           \A t \in Surfaces : surf'[t].context \in {surf[t].context, NULL},
           pc' \in [Actors -> {"idle", "release", "detach", "assign", "await", "publish"}],
           arg' \in [Actors -> Surfaces \cup {NULL}],
           objectCreationMutex' \in Actors \cup {NULL},
           surfaceCreationMutex' \in [Contexts -> Actors \cup {NULL}],
           \A c \in Contexts : pc'[c] # "idle" => InCall(c),
           \A a \in Actors : pc'[a] # "idle" => arg'[a] # NULL
    PROVE  Base'
<1>1. Typed'
  BY DEF Base, Typed
<1>2. CallsOK' /\ MarksOK'
  BY DEF Base, CallsOK, InCall, MarksOK, BelowMark
<1>3. NoStaleContext'
  BY DEF Base, NoStaleContext
<1> QED
  BY <1>1, <1>2, <1>3 DEF Base

\* Steps on one context keep Base if they do not end it, keep its indices in
\* the pool and leave the calls of the others alone.
LEMMA CxBase ==
    ASSUME Base, NEW c \in Contexts, CxOnly(c),
           surf' \in [Surfaces -> SurfRecord],
           \A t \in Surfaces : surf'[t].context \in {surf[t].context, NULL, c},
           cx'[c].state # "gone",
           pc'[c] # "idle" => InCall(c)',
           cx'[c].phase # "closed" =>
               cx'[c].state = "live" /\ cx'[c].target # NULL /\ cx'[c].display # NULL,
           BelowMark(cx'[c]),
           NEW p, pc' = [pc EXCEPT ![c] = p],
           p \in {"idle", "release", "detach", "assign", "await", "publish"},
           arg' \in [Actors -> Surfaces \cup {NULL}],
           \A a \in Actors : pc'[a] # "idle" => arg'[a] # NULL,
           objectCreationMutex' \in Actors \cup {NULL},
           surfaceCreationMutex' \in [Contexts -> Actors \cup {NULL}]
    PROVE  Base'
<1>1. Typed'
  BY DEF Base, Typed, CxOnly, Actors
<1>2. CallsOK'
  BY DEF Base, Typed, CallsOK, InCall, CxOnly, Actors
<1>3. MarksOK'
  BY DEF Base, MarksOK, CxOnly
<1>4. NoStaleContext'
  BY PictureIndexAssumption DEF Base, Typed, SurfRecord, NoStaleContext, CxOnly
<1> QED
  BY <1>1, <1>2, <1>3, <1>4 DEF Base

-----------------------------------------------------------------------------
(* Base, action by action.  The lemmas that describe a step are used again *)
(* for Claims.                                                             *)

AfterRelease(a) == IF a = VPP THEN "publish" ELSE "assign"

LEMMA CallSurface ==
    ASSUME Base, NEW a \in Actors, pc[a] # "idle"
    PROVE  arg[a] \in Surfaces
BY DEF Base, Typed, CallsOK

LEMMA ReleaseLockBase ==
    ASSUME Base, NEW a \in Actors, ReleaseLock(a)
    PROVE  Base'
<1>1. arg[a] \in Surfaces
  BY CallSurface DEF ReleaseLock
<1>2. pc' \in [Actors -> {"idle", "release", "detach", "assign", "await", "publish"}]
      /\ \A b \in Actors : pc'[b] # "idle" => pc[b] # "idle"
  BY DEF ReleaseLock, Base, Typed
<1>3. surf' \in [Surfaces -> SurfRecord]
      /\ \A t \in Surfaces : surf'[t].context \in {surf[t].context, NULL}
  <2>1. CASE UNCHANGED surf
    BY <2>1 DEF Base, Typed
  <2>2. CASE surf' = SurfReleased(arg[a])
    BY <1>1, <2>2, FreeStep DEF Base, Freed, SurfOnly
  <2> QED
    BY <2>1, <2>2 DEF ReleaseLock
<1>4. objectCreationMutex' \in Actors \cup {NULL} /\ UNCHANGED <<cx, arg, surfaceCreationMutex>>
  BY DEF ReleaseLock, Base, Typed
<1>5. \A c \in Contexts : pc'[c] # "idle" => InCall(c)
  BY <1>2 DEF Base, CallsOK, Actors
<1>6. \A b \in Actors : pc'[b] # "idle" => arg'[b] # NULL
  BY <1>2, <1>4 DEF Base, CallsOK
<1> QED
  BY <1>2, <1>3, <1>4, <1>5, <1>6, SurfBase DEF Base, Typed

\* The release of s with both mutexes held.
LEMMA ReleasedStep ==
    ASSUME Typed, NEW s \in Surfaces, cx' = CxReleased(s)
    PROVE  LET c == surf[s].context  i == surf[s].pictureIdx IN
           /\ cx' \in [Contexts -> CxRecord]
           /\ \A x \in Contexts : x # c \/ ~Owning(s) => cx'[x] = cx[x]
           /\ Owning(s) => c \in Contexts /\ i \in Indices /\ cx'[c] = Dropped(cx[c], i)
           /\ \A x \in Contexts :
                /\ cx'[x].state = cx[x].state /\ cx'[x].count = cx[x].count
                /\ cx'[x].allocated = cx[x].allocated
                /\ SamePicture(cx'[x], cx[x]) /\ SameWork(cx'[x], cx[x])
                /\ \A j \in Indices : cx'[x].owners[j] \in {cx[x].owners[j], NULL}
                /\ cx'[x].active \subseteq cx[x].active /\ cx'[x].building \subseteq cx[x].building
<1> DEFINE c == surf[s].context
           i == surf[s].pictureIdx
<1>1. CASE ~Owning(s)
  BY <1>1, ReleasedRecords DEF Typed, SamePicture, SameWork
<1>2. CASE Owning(s)
  <2>1. c \in Contexts /\ i \in Indices /\ cx[c] \in CxRecord
    BY <1>2 DEF Owning, Typed, SurfRecord
  <2>2. cx' = [cx EXCEPT ![c] = Dropped(cx[c], i)]
    BY <1>2, ReleasedRecords
  <2> HIDE DEF c, i
  <2>3. Dropped(cx[c], i) \in CxRecord
    BY <2>1, DroppedFields
  <2>4. CxOnly(c) /\ cx'[c] = Dropped(cx[c], i)
    BY <2>1, <2>2, <2>3, CxStep
  <2>5. cx[c].owners \in [Indices -> Surfaces \cup {NULL}]
    BY <2>1, CxFields
  <2>6. /\ cx'[c].state = cx[c].state /\ cx'[c].count = cx[c].count
        /\ cx'[c].allocated = cx[c].allocated
        /\ SamePicture(cx'[c], cx[c]) /\ SameWork(cx'[c], cx[c])
        /\ \A j \in Indices : cx'[c].owners[j] \in {cx[c].owners[j], NULL}
        /\ cx'[c].active \subseteq cx[c].active /\ cx'[c].building \subseteq cx[c].building
    <3>1. LET o == Dropped(cx[c], i) IN
          /\ o.owners = [cx[c].owners EXCEPT ![i] = NULL]
          /\ o.active = cx[c].active \ {i} /\ o.building = cx[c].building \ {i}
          /\ o.state = cx[c].state /\ o.count = cx[c].count /\ o.allocated = cx[c].allocated
          /\ SamePicture(o, cx[c]) /\ SameWork(o, cx[c])
      BY <2>1, DroppedFields
    <3> QED
      BY <2>1, <2>4, <2>5, <3>1
  <2> QED
    BY <1>2, <2>1, <2>4, <2>6 DEF CxOnly, SamePicture, SameWork, c, i
<1> QED
  BY <1>1, <1>2

LEMMA ReleasedBase ==
    ASSUME Base, NEW s \in Surfaces, cx' = CxReleased(s),
           surf' \in [Surfaces -> SurfRecord],
           \A t \in Surfaces : surf'[t].context \in {surf[t].context, NULL},
           pc' \in [Actors -> {"idle", "release", "detach", "assign", "await", "publish"}],
           \A a \in Actors : pc'[a] # "idle" => pc[a] # "idle",
           UNCHANGED <<arg, surfaceCreationMutex>>,
           objectCreationMutex' \in Actors \cup {NULL}
    PROVE  Base'
<1>1. cx' \in [Contexts -> CxRecord]
      /\ \A x \in Contexts :
            /\ cx'[x].state = cx[x].state /\ cx'[x].count = cx[x].count
            /\ cx'[x].allocated = cx[x].allocated
            /\ SamePicture(cx'[x], cx[x])
            /\ \A j \in Indices : cx'[x].owners[j] \in {cx[x].owners[j], NULL}
  BY ReleasedStep DEF Base
<1>2. Typed'
  BY <1>1 DEF Base, Typed
<1>3. CallsOK'
  BY <1>1 DEF Base, CallsOK, InCall, SamePicture, Actors
<1>4. MarksOK'
  BY <1>1 DEF Base, MarksOK, BelowMark
<1>5. NoStaleContext'
  BY <1>1, SurfFields DEF Base, NoStaleContext
<1> QED
  BY <1>2, <1>3, <1>4, <1>5 DEF Base

LEMMA ReleaseIndexBase ==
    ASSUME Base, NEW a \in Actors, ReleaseIndex(a)
    PROVE  Base'
<1>1. arg[a] \in Surfaces
  BY CallSurface DEF ReleaseIndex
<1>2. Freed(arg[a])
  BY <1>1, FreeStep DEF ReleaseIndex, Base
<1>3. pc' \in [Actors -> {"idle", "release", "detach", "assign", "await", "publish"}]
      /\ \A b \in Actors : pc'[b] # "idle" => pc[b] # "idle"
  BY DEF ReleaseIndex, Base, Typed
<1> QED
  BY <1>1, <1>2, <1>3, ReleasedBase DEF ReleaseIndex, Freed, SurfOnly

LEMMA NvDestroySurfaceBase ==
    ASSUME Base, NEW s \in Surfaces, NvDestroySurface(s)
    PROVE  Base'
<1>1. surf' \in [Surfaces -> SurfRecord]
      /\ \A t \in Surfaces : surf'[t].context \in {surf[t].context, NULL}
  <2>1. surf' = [SurfReleased(s) EXCEPT ![s].live = FALSE]
    BY DEF NvDestroySurface
  <2>2. SurfReleased(s) \in [Surfaces -> SurfRecord] /\ SurfReleased(s)[s].context = NULL
        /\ \A t \in Surfaces : t # s => SurfReleased(s)[t] = surf[t]
    BY SurfReleasedRecords DEF Base
  <2> QED
    BY <2>1, <2>2 DEF SurfRecord
<1> QED
  BY <1>1, ReleasedBase DEF NvDestroySurface, locks, Base, Typed

\* A picture opens on s, which has its index.
OpenStep(c, s) ==
    /\ CxOnly(c) /\ cx'[c] = Opened(cx[c], c, s)
    /\ cx'[c].phase = "open" /\ cx'[c].target = s /\ cx'[c].display = s
    /\ cx'[c].building = IF c \in AV1 THEN cx[c].building ELSE {}
    /\ cx'[c].state = cx[c].state /\ cx'[c].active = cx[c].active /\ cx'[c].count = cx[c].count
    /\ SameOwners(cx'[c], cx[c]) /\ SameWork(cx'[c], cx[c])

LEMMA OpenedStep ==
    ASSUME Typed, NEW c \in Contexts, NEW s \in Surfaces, cx' = [cx EXCEPT ![c] = Opened(@, c, s)]
    PROVE  OpenStep(c, s)
<1> DEFINE r == Opened(cx[c], c, s)
<1>1. cx[c] \in CxRecord
  BY DEF Typed
<1>2. r \in CxRecord
  BY <1>1, OpenedFields
<1>3. cx' = [cx EXCEPT ![c] = r]
  OBVIOUS
<1>4. CxOnly(c) /\ cx'[c] = r
  <2> HIDE DEF r
  <2> QED
    BY <1>2, <1>3, CxStep
<1> QED
  BY <1>1, <1>4, OpenedFields DEF OpenStep

LEMMA NvBeginPictureBase ==
    ASSUME Base, NEW c \in Contexts, NEW s \in Surfaces, NvBeginPicture(c, s)
    PROVE  Base'
<1>1. InCall(c) /\ s # NULL /\ c \in Actors
  BY PictureIndexAssumption DEF NvBeginPicture, InCall, Actors
<1>2. ASSUME NEW p \in {"release", "assign"}, pc' = [pc EXCEPT ![c] = p],
             arg' = [arg EXCEPT ![c] = s], UNCHANGED <<surf, cx, locks>>
      PROVE  Base'
  <2>1. pc' \in [Actors -> {"idle", "release", "detach", "assign", "await", "publish"}]
        /\ arg' \in [Actors -> Surfaces \cup {NULL}]
    BY <1>2 DEF Base, Typed
  <2>2. \A x \in Contexts : pc'[x] # "idle" => InCall(x)
    BY <1>1, <1>2 DEF Base, Typed, CallsOK, Actors
  <2>3. \A a \in Actors : pc'[a] # "idle" => arg'[a] # NULL
    BY <1>1, <1>2 DEF Base, Typed, CallsOK
  <2> QED
    BY <1>2, <2>1, <2>2, <2>3, SurfBase DEF Base, Typed, locks
<1>3. ASSUME surf' = [surf EXCEPT ![s].resolving = TRUE],
             cx' = [cx EXCEPT ![c] = Opened(@, c, s)], UNCHANGED <<pc, arg, locks>>
      PROVE  Base'
  <2>1. Flagged(s, TRUE) /\ OpenStep(c, s)
    BY <1>3, FlagStep, OpenedStep DEF Base
  <2>2. \A t \in Surfaces : surf'[t].context = surf[t].context
    BY <2>1 DEF Flagged, SurfOnly
  <2>3. BelowMark(cx'[c]) /\ cx'[c].state = "live" /\ cx'[c].phase # "closed"
        /\ cx'[c].target # NULL /\ cx'[c].display # NULL
    BY <1>1, <2>1 DEF OpenStep, InCall, Base, MarksOK, BelowMark, SameOwners
  <2>4. pc[c] = "idle" /\ pc' = [pc EXCEPT ![c] = "idle"] /\ pc'[c] = "idle"
    BY <1>1, <1>3 DEF NvBeginPicture, Base, Typed
  <2>5. UNCHANGED <<pc, arg, objectCreationMutex, surfaceCreationMutex>>
    BY <1>3 DEF locks
  <2>6. \A a \in Actors : pc'[a] # "idle" => arg'[a] # NULL
    BY <2>5 DEF Base, CallsOK
  <2> QED
    BY <2>1, <2>2, <2>3, <2>4, <2>5, <2>6, CxBase DEF Base, Typed, OpenStep, Flagged, SurfOnly
<1> QED
  BY <1>2, <1>3 DEF NvBeginPicture

\* The surface of a call gets the index i.
AssignStep(c, s, i) ==
    /\ CxOnly(c)
    /\ cx'[c].owners = [cx[c].owners EXCEPT ![i] = s]
    /\ cx'[c].allocated = AllocatedAfter(c, i)
    /\ cx'[c].phase = "open" /\ cx'[c].target = s /\ cx'[c].display = s
    /\ cx'[c].building = IF c \in AV1 THEN cx[c].building ELSE {}
    /\ cx'[c].state = cx[c].state /\ cx'[c].active = cx[c].active /\ cx'[c].count = cx[c].count
    /\ SameWork(cx'[c], cx[c])
    /\ surf' \in [Surfaces -> SurfRecord]
    /\ surf'[s].live = surf[s].live /\ surf'[s].resolving
    /\ surf'[s].context = c /\ surf'[s].pictureIdx = i
    /\ \A t \in Surfaces : t # s =>
        /\ surf'[t].live = surf[t].live /\ surf'[t].resolving = surf[t].resolving
        /\ surf'[t].context = surf[t].context
        /\ surf'[t].pictureIdx = IF t = cx[c].owners[i] /\ surf[t].pictureIdx = i
                                 THEN NONE ELSE surf[t].pictureIdx

LEMMA AssignedSurfaces ==
    ASSUME Typed, NEW c \in Contexts, NEW s \in Surfaces, NEW i \in Indices
    PROVE  LET sf == SurfAssigned(c, s, i) IN
           /\ sf \in [Surfaces -> SurfRecord]
           /\ sf[s].live = surf[s].live /\ sf[s].resolving
           /\ sf[s].context = c /\ sf[s].pictureIdx = i
           /\ \A t \in Surfaces : t # s =>
                /\ sf[t].live = surf[t].live /\ sf[t].resolving = surf[t].resolving
                /\ sf[t].context = surf[t].context
                /\ sf[t].pictureIdx = IF t = cx[c].owners[i] /\ surf[t].pictureIdx = i
                                      THEN NONE ELSE surf[t].pictureIdx
BY DEF SurfAssigned, Typed, SurfRecord

LEMMA AssignIndexStep ==
    ASSUME Base, NEW c \in Contexts, AssignIndex(c)
    PROVE  LET i == Selected(c, Busy(c)) IN
           /\ arg[c] \in Surfaces /\ pc[c] \in {"assign", "await"} /\ i # NONE /\ i \in Indices
           /\ AssignStep(c, arg[c], i)
           /\ pc' = [pc EXCEPT ![c] = "idle"] /\ arg' = [arg EXCEPT ![c] = NULL]
<1> DEFINE i == Selected(c, Busy(c))
           s == arg[c]
           g == Given(cx[c], c, s, i)
           o == Opened(g, c, s)
<1>1. pc[c] \in {"assign", "await"} /\ i # NONE /\ c \in Actors
  BY DEF AssignIndex, Trying, Actors
<1>2. s \in Surfaces
  BY <1>1, CallSurface
<1>3. Busy(c) \in SUBSET Indices
  BY LimitRange DEF Busy, Base
<1>4. i \in Indices /\ AllocatedAfter(c, i) \in 0 .. MaxSurfaces /\ CursorAfter(c, i) \in Indices
  BY <1>1, <1>3, SelectedIndex
<1>5. surf' = SurfAssigned(c, s, i) /\ cx' = [cx EXCEPT ![c] = o]
  BY DEF AssignIndex, Given
<1>6. cx[c] \in CxRecord
  BY DEF Base, Typed
<1> HIDE DEF i, s
<1>7. /\ g \in CxRecord
      /\ g.owners = [cx[c].owners EXCEPT ![i] = s]
      /\ g.allocated = AllocatedAfter(c, i)
      /\ g.state = cx[c].state /\ g.count = cx[c].count
      /\ SameMasks(g, cx[c]) /\ SamePicture(g, cx[c]) /\ SameWork(g, cx[c])
  BY <1>2, <1>4, <1>6, GivenFields
<1> HIDE DEF g
<1>8. /\ o \in CxRecord
      /\ o.phase = "open" /\ o.target = s /\ o.display = s
      /\ o.building = IF c \in AV1 THEN g.building ELSE {}
      /\ o.state = g.state /\ o.active = g.active /\ o.count = g.count
      /\ SameOwners(o, g) /\ SameWork(o, g)
  BY <1>2, <1>7, OpenedFields
<1> HIDE DEF o
<1>9. CxOnly(c) /\ cx'[c] = o
  BY <1>5, <1>8, CxStep DEF Base
<1>10. AssignStep(c, s, i)
  <2>1. Typed
    BY DEF Base
  <2> QED
    BY <2>1, <1>2, <1>4, <1>5, <1>7, <1>8, <1>9, AssignedSurfaces
    DEF AssignStep, SameMasks, SameOwners, SameWork
<1> QED
  BY <1>1, <1>2, <1>4, <1>10 DEF i, s, AssignIndex

LEMMA AssignIndexBase ==
    ASSUME Base, NEW c \in Contexts, AssignIndex(c)
    PROVE  Base'
<1> DEFINE i == Selected(c, Busy(c))
           s == arg[c]
<1>1. /\ s \in Surfaces /\ pc[c] \in {"assign", "await"} /\ i # NONE /\ i \in Indices
      /\ AssignStep(c, s, i)
      /\ pc' = [pc EXCEPT ![c] = "idle"] /\ arg' = [arg EXCEPT ![c] = NULL]
  BY AssignIndexStep
<1>2. c \in Actors /\ s # NULL /\ pc'[c] = "idle"
  BY <1>1, PictureIndexAssumption DEF Base, Typed, Actors
<1>3. \A t \in Surfaces : surf'[t].context \in {surf[t].context, c}
  BY <1>1 DEF AssignStep
<1>4. InCall(c) /\ BelowMark(cx[c])
  BY <1>1 DEF Base, CallsOK, MarksOK
<1>5. /\ Busy(c) \in SUBSET Indices
      /\ i < AllocatedAfter(c, i) /\ cx[c].allocated <= AllocatedAfter(c, i)
      /\ AllocatedAfter(c, i) \in 0 .. MaxSurfaces
      /\ cx[c].allocated <= SurfaceLimit(c) => AllocatedAfter(c, i) <= SurfaceLimit(c)
  <2>1. Busy(c) \in SUBSET Indices
    BY LimitRange DEF Busy, Base
  <2> QED
    BY <1>1, <2>1, SelectedIndex
<1>6. BelowMark(cx'[c])
  <2>1. cx[c].owners \in [Indices -> Surfaces \cup {NULL}] /\ cx[c].allocated \in 0 .. MaxSurfaces
        /\ cx[c].count \in 0 .. MaxSurfaces /\ i \in Int /\ Indices \subseteq Int
    BY <1>1, CxFields DEF Base, Indices
  <2>2. cx'[c].owners = [cx[c].owners EXCEPT ![i] = s] /\ cx'[c].count = cx[c].count
        /\ cx'[c].allocated = AllocatedAfter(c, i)
    BY <1>1 DEF AssignStep
  <2> HIDE DEF i, s
  <2>3. \A j \in Indices : cx'[c].owners[j] # NULL => j < AllocatedAfter(c, i)
    <3> SUFFICES ASSUME NEW j \in Indices, cx'[c].owners[j] # NULL
                 PROVE  j < AllocatedAfter(c, i)
      OBVIOUS
    <3>1. CASE j = i
      BY <1>5, <3>1
    <3>2. CASE j # i
      <4>1. cx[c].owners[j] # NULL
        BY <2>1, <2>2, <3>2
      <4>2. j < cx[c].allocated
        BY <1>4, <4>1 DEF BelowMark
      <4> QED
        BY <1>5, <2>1, <4>2
    <3> QED
      BY <3>1, <3>2
  <2>4. cx'[c].count # 0 => AllocatedAfter(c, i) <= cx'[c].count
    BY <1>4, <1>5, <2>1, <2>2 DEF BelowMark, SurfaceLimit
  <2> QED
    BY <2>2, <2>3, <2>4 DEF BelowMark
<1>7. arg' \in [Actors -> Surfaces \cup {NULL}] /\ surfaceCreationMutex' \in [Contexts -> Actors \cup {NULL}]
      /\ UNCHANGED objectCreationMutex
  BY <1>1 DEF AssignIndex, Base, Typed
<1>8. \A a \in Actors : pc'[a] # "idle" => arg'[a] # NULL
  BY <1>1, <1>2 DEF Base, Typed, CallsOK
<1> HIDE DEF i, s
<1>9. cx'[c].state = "live" /\ cx'[c].target # NULL /\ cx'[c].display # NULL /\ CxOnly(c)
      /\ surf' \in [Surfaces -> SurfRecord]
  BY <1>1, <1>2, <1>4 DEF AssignStep, InCall
<1> QED
  BY <1>1, <1>2, <1>3, <1>6, <1>7, <1>8, <1>9, CxBase DEF Base, Typed

LEMMA AssignWaitBase ==
    ASSUME Base, NEW c \in Contexts, AssignWait(c)
    PROVE  Base'
<1>1. pc[c] # "idle" /\ c \in Actors /\ pc' = [pc EXCEPT ![c] = "await"]
      /\ UNCHANGED <<surf, cx, arg, objectCreationMutex>>
      /\ surfaceCreationMutex' \in [Contexts -> Actors \cup {NULL}]
  BY DEF AssignWait, Trying, Actors, Base, Typed
<1>2. pc' \in [Actors -> {"idle", "release", "detach", "assign", "await", "publish"}]
      /\ \A a \in Actors : pc'[a] # "idle" => pc[a] # "idle"
  BY <1>1 DEF Base, Typed
<1>3. \A x \in Contexts : pc'[x] # "idle" => InCall(x)
  BY <1>2 DEF Base, CallsOK, Actors
<1>4. \A a \in Actors : pc'[a] # "idle" => arg'[a] # NULL
  BY <1>1, <1>2 DEF Base, CallsOK
<1> QED
  BY <1>1, <1>2, <1>3, <1>4, SurfBase DEF Base, Typed

LEMMA AssignFailBase ==
    ASSUME Base, NEW c \in Contexts, AssignFail(c)
    PROVE  Base'
<1>1. c \in Actors /\ pc' = [pc EXCEPT ![c] = "idle"] /\ arg' = [arg EXCEPT ![c] = NULL]
      /\ UNCHANGED <<surf, cx, objectCreationMutex>>
      /\ surfaceCreationMutex' \in [Contexts -> Actors \cup {NULL}]
  BY DEF AssignFail, Actors, Base, Typed
<1>2. pc' \in [Actors -> {"idle", "release", "detach", "assign", "await", "publish"}]
      /\ arg' \in [Actors -> Surfaces \cup {NULL}]
      /\ \A a \in Actors : pc'[a] # "idle" => pc[a] # "idle"
  BY <1>1 DEF Base, Typed
<1>3. \A x \in Contexts : pc'[x] # "idle" => InCall(x)
  BY <1>2 DEF Base, CallsOK, Actors
<1>4. \A a \in Actors : pc'[a] # "idle" => arg'[a] # NULL
  BY <1>1 DEF Base, Typed, CallsOK
<1> QED
  BY <1>1, <1>2, <1>3, <1>4, SurfBase DEF Base, Typed

\* The steps of an open picture, which change its context only.
LEMMA PictureBase ==
    ASSUME Base, NEW c \in Contexts, CxOnly(c),
           surf' \in [Surfaces -> SurfRecord],
           \A t \in Surfaces : surf'[t].context \in {surf[t].context, c},
           cx[c].phase # "closed", cx'[c].state = cx[c].state,
           cx'[c].phase # "closed" => cx'[c].target # NULL /\ cx'[c].display # NULL,
           BelowMark(cx'[c]), UNCHANGED <<pc, arg, locks>>
    PROVE  Base'
<1>1. cx[c].state = "live" /\ pc[c] = "idle" /\ c \in Actors
  BY DEF Base, CallsOK, InCall, Typed, Actors
<1>2. pc' = [pc EXCEPT ![c] = "idle"] /\ pc'[c] = "idle"
  BY <1>1 DEF Base, Typed
<1>3. UNCHANGED <<pc, arg, objectCreationMutex, surfaceCreationMutex>>
  BY DEF locks
<1>4. \A a \in Actors : pc'[a] # "idle" => arg'[a] # NULL
  BY <1>3 DEF Base, CallsOK
<1>5. cx'[c].state = "live" /\ cx'[c].state # "gone" /\ (pc'[c] # "idle" => InCall(c)')
  BY <1>1, <1>2
<1>6. arg' \in [Actors -> Surfaces \cup {NULL}] /\ objectCreationMutex' \in Actors \cup {NULL}
      /\ surfaceCreationMutex' \in [Contexts -> Actors \cup {NULL}]
  BY <1>3 DEF Base, Typed
<1>7. \A t \in Surfaces : surf'[t].context \in {surf[t].context, NULL, c}
  OBVIOUS
<1> QED
  BY <1>2, <1>4, <1>5, <1>6, <1>7, CxBase

RenderStep(c, d, b) ==
    /\ CxOnly(c)
    /\ cx'[c].phase = "rendered" /\ cx'[c].target = cx[c].target /\ cx'[c].display = d
    /\ cx'[c].building = b
    /\ cx'[c].state = cx[c].state /\ cx'[c].active = cx[c].active /\ cx'[c].count = cx[c].count
    /\ SameOwners(cx'[c], cx[c]) /\ SameWork(cx'[c], cx[c])

LEMMA RenderedStep ==
    ASSUME Typed, NEW c \in Contexts, NEW d \in Surfaces \cup {NULL},
           NEW b \in SUBSET (Indices \cup {NONE}),
           cx' = [cx EXCEPT ![c] = [cx[c] EXCEPT !.phase = "rendered", !.display = d, !.building = b]]
    PROVE  RenderStep(c, d, b)
<1> DEFINE r == [cx[c] EXCEPT !.phase = "rendered", !.display = d, !.building = b]
<1>1. cx[c] \in CxRecord
  BY DEF Typed
<1>2. /\ r \in CxRecord
      /\ r.phase = "rendered" /\ r.target = cx[c].target /\ r.display = d /\ r.building = b
      /\ r.state = cx[c].state /\ r.active = cx[c].active /\ r.count = cx[c].count
      /\ SameOwners(r, cx[c]) /\ SameWork(r, cx[c])
  BY <1>1 DEF CxRecord, SameOwners, SameWork
<1> HIDE DEF r
<1>3. CxOnly(c) /\ cx'[c] = r
  BY <1>2, CxStep DEF r
<1> QED
  BY <1>2, <1>3 DEF RenderStep

\* The indices of the references that a picture names.
NamedIndices(c, named) == {surf[r].pictureIdx : r \in {q \in named : Found(c, q)}}

LEMMA RenderReferencesStep ==
    ASSUME Base, NEW c \in Contexts, NEW named \in SUBSET Surfaces, RenderReferences(c, named)
    PROVE  RenderStep(c, cx[c].display,
                      IF c \in AV1 THEN cx[c].building ELSE cx[c].building \cup NamedIndices(c, named))
<1> DEFINE b == IF c \in AV1 THEN cx[c].building ELSE cx[c].building \cup NamedIndices(c, named)
<1>1. cx[c] \in CxRecord /\ cx[c].display \in Surfaces \cup {NULL}
  BY CxFields DEF Base
<1>2. b \in SUBSET (Indices \cup {NONE})
  BY CxFields, SurfFields DEF Base, NamedIndices
<1>3. cx' = [cx EXCEPT ![c].phase = "rendered", ![c].building = b]
  BY DEF RenderReferences, NamedIndices
<1> HIDE DEF b
<1>4. [cx EXCEPT ![c].phase = "rendered", ![c].building = b]
        = [cx EXCEPT ![c] = [cx[c] EXCEPT !.phase = "rendered", !.building = b]]
  BY <1>1 DEF Base, Typed
<1>5. [cx[c] EXCEPT !.phase = "rendered", !.building = b]
        = [cx[c] EXCEPT !.phase = "rendered", !.display = cx[c].display, !.building = b]
  BY <1>1 DEF CxRecord
<1>6. RenderStep(c, cx[c].display, b)
  BY <1>1, <1>2, <1>3, <1>4, <1>5, RenderedStep DEF Base
<1> QED
  BY <1>6 DEF b

LEMMA RenderFilmGrainStep ==
    ASSUME Base, NEW c \in Contexts, NEW d \in Surfaces, RenderFilmGrain(c, d)
    PROVE  RenderStep(c, d, cx[c].building)
<1> DEFINE b == cx[c].building
<1>1. cx[c] \in CxRecord /\ b \in SUBSET (Indices \cup {NONE})
  BY CxFields DEF Base
<1>2. cx' = [cx EXCEPT ![c].phase = "rendered", ![c].display = d]
  BY DEF RenderFilmGrain
<1>3. [cx EXCEPT ![c].phase = "rendered", ![c].display = d]
        = [cx EXCEPT ![c] = [cx[c] EXCEPT !.phase = "rendered", !.display = d]]
  BY <1>1 DEF Base, Typed
<1>4. [cx[c] EXCEPT !.phase = "rendered", !.display = d]
        = [cx[c] EXCEPT !.phase = "rendered", !.display = d, !.building = b]
  BY <1>1 DEF CxRecord
<1> QED
  BY <1>1, <1>2, <1>3, <1>4, RenderedStep DEF Base

LEMMA RenderBase ==
    ASSUME Base, NEW c \in Contexts, NEW d \in Surfaces, NEW b, RenderStep(c, d, b),
           cx[c].phase = "open", UNCHANGED <<surf, pc, arg, locks>>
    PROVE  Base'
<1>1. BelowMark(cx'[c]) /\ cx'[c].target # NULL /\ cx'[c].display # NULL
  BY PictureIndexAssumption DEF RenderStep, Base, CallsOK, MarksOK, BelowMark, SameOwners
<1>2. cx'[c].state = cx[c].state /\ CxOnly(c)
  BY DEF RenderStep
<1>3. surf' \in [Surfaces -> SurfRecord]
  BY DEF Base, Typed
<1> QED
  BY <1>1, <1>2, <1>3, PictureBase

LEMMA RenderReferencesBase ==
    ASSUME Base, NEW c \in Contexts, NEW named \in SUBSET Surfaces, RenderReferences(c, named)
    PROVE  Base'
<1>1. cx[c].phase = "open" /\ cx[c].display \in Surfaces
  BY CxFields DEF RenderReferences, Base, CallsOK
<1> QED
  BY <1>1, RenderReferencesStep, RenderBase DEF RenderReferences

LEMMA RenderFilmGrainBase ==
    ASSUME Base, NEW c \in Contexts, NEW d \in Surfaces, RenderFilmGrain(c, d)
    PROVE  Base'
BY RenderFilmGrainStep, RenderBase DEF RenderFilmGrain

\* The sizes a decoder may have hold the indices in use.
LEMMA DecoderSize ==
    ASSUME Base, NEW c \in Contexts, NEW n \in DecoderSizes(c)
    PROVE  n \in 1 .. MaxSurfaces /\ cx[c].allocated <= n
<1>1. cx[c].count \in 0 .. MaxSurfaces /\ cx[c].allocated \in 0 .. MaxSurfaces
  BY CxFields DEF Base
<1>2. CASE cx[c].count # 0
  BY <1>1, <1>2 DEF DecoderSizes, Base, MarksOK, BelowMark
<1>3. CASE cx[c].count = 0
  <2>1. PICK hint \in Hints[c] : n = SelectDecodeSurfaceCount(DefaultSurfaces, hint, Override)
    BY <1>3 DEF DecoderSizes
  <2>2. hint \in Nat /\ DefaultSurfaces \in Nat /\ Override \in Nat
        /\ MinSurfaces \in Nat \ {0} /\ MaxSurfaces \in Nat /\ MinSurfaces <= MaxSurfaces
    BY PictureIndexAssumption
  <2>3. n \in 1 .. MaxSurfaces
    BY <2>1, <2>2 DEF SelectDecodeSurfaceCount, Smaller, Larger
  <2> QED
    BY <1>3, <2>3 DEF DecoderSizes
<1> QED
  BY <1>2, <1>3

\* A picture ends: what the target and the display become, and the context.
EndStep(c, queued) ==
    LET t == cx[c].target  d == cx[c].display IN
    /\ surf' \in [Surfaces -> SurfRecord]
    /\ \A s \in Surfaces :
        /\ surf'[s].live = surf[s].live /\ surf'[s].pictureIdx = surf[s].pictureIdx
        /\ s # d => surf'[s].context = surf[s].context
        /\ s \notin {t, d} => surf'[s].resolving = surf[s].resolving
        /\ s = d => surf'[s].context \in {surf[s].context, c} /\ surf'[s].resolving = queued
    /\ CxOnly(c)
    /\ cx'[c].phase = "closed" /\ cx'[c].target = NULL /\ cx'[c].display = NULL
    /\ cx'[c].state = cx[c].state /\ cx'[c].building = cx[c].building
    /\ SameOwners(cx'[c], cx[c])
    /\ cx'[c].count = 0 \/ cx[c].allocated <= cx'[c].count

LEMMA PictureSurfaces ==
    ASSUME Base, NEW c \in Contexts, cx[c].phase # "closed"
    PROVE  cx[c].target \in Surfaces /\ cx[c].display \in Surfaces /\ cx[c].state = "live"
BY CxFields DEF Base, CallsOK

LEMMA EndFailStep ==
    ASSUME Base, NEW c \in Contexts, EndFail(c)
    PROVE  /\ EndStep(c, FALSE)
           /\ cx'[c].active = cx[c].active /\ SameWork(cx'[c], cx[c])
<1> DEFINE t == cx[c].target
           d == cx[c].display
<1>1. PICK n \in DecoderSizes(c) \cup {cx[c].count} :
        cx' = [cx EXCEPT ![c] = Closed([@ EXCEPT !.count = n])]
  BY DEF EndFail
<1>2. n \in 0 .. MaxSurfaces /\ (n = 0 \/ cx[c].allocated <= n)
  <2>1. cx[c].count \in 0 .. MaxSurfaces /\ (cx[c].count # 0 => cx[c].allocated <= cx[c].count)
    BY CxFields DEF Base, MarksOK, BelowMark
  <2>2. CASE n \in DecoderSizes(c)
    BY <2>2, DecoderSize
  <2> QED
    BY <1>1, <2>1, <2>2
<1> DEFINE r == [cx[c] EXCEPT !.count = n]
           o == Closed(r)
<1>3. cx[c] \in CxRecord
  BY DEF Base, Typed
<1>4. /\ r \in CxRecord /\ r.count = n /\ r.state = cx[c].state
      /\ SameOwners(r, cx[c]) /\ SameMasks(r, cx[c]) /\ SameWork(r, cx[c])
  BY <1>2, <1>3 DEF CxRecord, SameOwners, SameMasks, SameWork
<1> HIDE DEF r
<1>5. /\ o \in CxRecord
      /\ o.phase = "closed" /\ o.target = NULL /\ o.display = NULL
      /\ o.state = r.state /\ o.count = r.count
      /\ SameOwners(o, r) /\ SameMasks(o, r) /\ SameWork(o, r)
  BY <1>4, ClosedFields
<1>6. cx' = [cx EXCEPT ![c] = o]
  BY <1>1 DEF r
<1> HIDE DEF o
<1>7. CxOnly(c) /\ cx'[c] = o
  BY <1>5, <1>6, CxStep DEF Base
<1>8. t \in Surfaces /\ d \in Surfaces
  BY PictureSurfaces DEF EndFail
<1>9. /\ surf' \in [Surfaces -> SurfRecord]
      /\ \A s \in Surfaces :
          /\ surf'[s].live = surf[s].live /\ surf'[s].pictureIdx = surf[s].pictureIdx
          /\ surf'[s].context = surf[s].context
          /\ s \notin {t, d} => surf'[s].resolving = surf[s].resolving
          /\ s = d => surf'[s].resolving = FALSE
  <2>1. surf' = [surf EXCEPT ![t].resolving = FALSE, ![d].resolving = FALSE]
    BY DEF EndFail
  <2> HIDE DEF t, d
  <2> DEFINE f == [surf EXCEPT ![t].resolving = FALSE]
  <2>2. surf' = [f EXCEPT ![d].resolving = FALSE]
    BY <2>1
  <2>3. /\ f \in [Surfaces -> SurfRecord] /\ \A s \in Surfaces : s # t => f[s] = surf[s]
        /\ f[t].live = surf[t].live /\ f[t].pictureIdx = surf[t].pictureIdx
        /\ f[t].context = surf[t].context
    BY <1>8 DEF Base, Typed, SurfRecord
  <2> HIDE DEF f
  <2>4. /\ surf' \in [Surfaces -> SurfRecord] /\ \A s \in Surfaces : s # d => surf'[s] = f[s]
        /\ surf'[d].live = f[d].live /\ surf'[d].pictureIdx = f[d].pictureIdx
        /\ surf'[d].context = f[d].context /\ surf'[d].resolving = FALSE
    BY <1>8, <2>2, <2>3 DEF SurfRecord
  <2> QED
    BY <1>8, <2>3, <2>4
<1> QED
  BY <1>2, <1>4, <1>5, <1>7, <1>9 DEF EndStep, SameOwners, SameMasks, SameWork

\* The decoded picture is queued or not; its context keeps what follows.
Decoded(c, ok, queued, kept) ==
    LET t == cx[c].target  d == cx[c].display IN
    /\ EndStep(c, queued)
    /\ surf'[d].context = c
    /\ cx'[c].active = IF ok /\ c \notin AV1 THEN cx[c].building \cup {surf[t].pictureIdx}
                       ELSE cx[c].active
    /\ cx'[c].jobs = IF queued
                     THEN Append(cx[c].jobs, [surface |-> d, pictureIdx |-> surf[d].pictureIdx])
                     ELSE cx[c].jobs
    /\ cx'[c].references = kept

LEMMA EndDecodeStep ==
    ASSUME Base, NEW c \in Contexts, NEW ok \in BOOLEAN, NEW queued \in BOOLEAN,
           NEW kept \in SUBSET Surfaces, EndDecode(c, ok, queued, kept)
    PROVE  Decoded(c, ok, queued, kept)
<1> DEFINE t == cx[c].target
           d == cx[c].display
           j == IF queued
                THEN Append(cx[c].jobs, [surface |-> d, pictureIdx |-> surf[d].pictureIdx])
                ELSE cx[c].jobs
           m == IF ok /\ c \notin AV1 THEN cx[c].building \cup {surf[t].pictureIdx}
                ELSE cx[c].active
<1>1. PICK n \in DecoderSizes(c) :
        cx' = [cx EXCEPT ![c] = Closed(
            [cx[c] EXCEPT !.count = n, !.jobs = j, !.active = m, !.references = kept])]
  BY DEF EndDecode
<1>2. n \in 0 .. MaxSurfaces /\ cx[c].allocated <= n
  BY DecoderSize
<1>3. t \in Surfaces /\ d \in Surfaces
  BY PictureSurfaces DEF EndDecode
<1>4. j \in Seq(Job)
  <2>1. cx[c].jobs \in Seq(Job)
    BY CxFields DEF Base
  <2>2. [surface |-> d, pictureIdx |-> surf[d].pictureIdx] \in Job
    BY <1>3, SurfFields DEF Job, Base
  <2> QED
    BY <2>1, <2>2
<1>5. m \in SUBSET (Indices \cup {NONE})
  BY <1>3, CxFields, SurfFields DEF Base
<1> HIDE DEF j, m
<1> DEFINE r == [cx[c] EXCEPT !.count = n, !.jobs = j, !.active = m, !.references = kept]
           o == Closed(r)
<1>6. cx[c] \in CxRecord
  BY DEF Base, Typed
<1>7. /\ r \in CxRecord /\ r.count = n /\ r.jobs = j /\ r.active = m /\ r.references = kept
      /\ r.state = cx[c].state /\ r.building = cx[c].building
      /\ SameOwners(r, cx[c])
  BY <1>2, <1>4, <1>5, <1>6 DEF CxRecord, SameOwners
<1> HIDE DEF r
<1>8. /\ o \in CxRecord
      /\ o.phase = "closed" /\ o.target = NULL /\ o.display = NULL
      /\ o.state = r.state /\ o.count = r.count
      /\ SameOwners(o, r) /\ SameMasks(o, r) /\ SameWork(o, r)
  BY <1>7, ClosedFields
<1>9. cx' = [cx EXCEPT ![c] = o]
  BY <1>1 DEF r
<1> HIDE DEF o
<1>10. CxOnly(c) /\ cx'[c] = o
  BY <1>8, <1>9, CxStep DEF Base
<1>11. /\ surf' \in [Surfaces -> SurfRecord]
       /\ \A s \in Surfaces :
           /\ surf'[s].live = surf[s].live /\ surf'[s].pictureIdx = surf[s].pictureIdx
           /\ s # d => surf'[s].context = surf[s].context
           /\ s \notin {t, d} => surf'[s].resolving = surf[s].resolving
           /\ s = d => surf'[s].context = c /\ surf'[s].resolving = queued
  <2>1. surf' = [surf EXCEPT ![t].resolving = FALSE, ![d].resolving = queued, ![d].context = c]
    BY DEF EndDecode
  <2> HIDE DEF t, d
  <2> DEFINE f == [surf EXCEPT ![t].resolving = FALSE]
  <2>2. surf' = [f EXCEPT ![d].resolving = queued, ![d].context = c]
    BY <2>1
  <2>3. /\ f \in [Surfaces -> SurfRecord] /\ \A s \in Surfaces : s # t => f[s] = surf[s]
        /\ f[t].live = surf[t].live /\ f[t].pictureIdx = surf[t].pictureIdx
        /\ f[t].context = surf[t].context
    BY <1>3 DEF Base, Typed, SurfRecord
  <2> HIDE DEF f
  <2>4. /\ surf' \in [Surfaces -> SurfRecord] /\ \A s \in Surfaces : s # d => surf'[s] = f[s]
        /\ surf'[d].live = f[d].live /\ surf'[d].pictureIdx = f[d].pictureIdx
        /\ surf'[d].context = c /\ surf'[d].resolving = queued
    BY <1>3, <2>2, <2>3 DEF SurfRecord
  <2> QED
    BY <1>3, <2>3, <2>4
<1> QED
  BY <1>2, <1>3, <1>7, <1>8, <1>10, <1>11 DEF Decoded, EndStep, SameOwners, SameMasks, SameWork, j, m

LEMMA EndBase ==
    ASSUME Base, NEW c \in Contexts, NEW queued \in BOOLEAN, EndStep(c, queued),
           cx[c].phase # "closed", UNCHANGED <<pc, arg, locks>>
    PROVE  Base'
<1>1. \A t \in Surfaces : surf'[t].context \in {surf[t].context, c}
  BY DEF EndStep
<1>2. BelowMark(cx'[c])
  BY DEF EndStep, SameOwners, Base, MarksOK, BelowMark
<1> QED
  BY <1>1, <1>2, PictureBase DEF EndStep

LEMMA EndFailBase ==
    ASSUME Base, NEW c \in Contexts, EndFail(c)
    PROVE  Base'
BY EndFailStep, EndBase DEF EndFail

LEMMA EndDecodeBase ==
    ASSUME Base, NEW c \in Contexts, NEW ok \in BOOLEAN, NEW queued \in BOOLEAN,
           NEW kept \in SUBSET Surfaces, EndDecode(c, ok, queued, kept)
    PROVE  Base'
<1>0. Decoded(c, ok, queued, kept)
  BY EndDecodeStep
<1>1. EndStep(c, queued)
  BY <1>0 DEF Decoded
<1> QED
  BY <1>1, EndBase DEF EndDecode

\* The oldest frame of c is copied.
WorkStep(c) ==
    /\ CxOnly(c)
    /\ cx'[c].jobs = Tail(cx[c].jobs) /\ cx'[c].references = cx[c].references
    /\ cx'[c].state = cx[c].state /\ cx'[c].count = cx[c].count
    /\ SameOwners(cx'[c], cx[c]) /\ SameMasks(cx'[c], cx[c]) /\ SamePicture(cx'[c], cx[c])
    /\ Head(cx[c].jobs).surface \in Surfaces
    /\ Flagged(Head(cx[c].jobs).surface, FALSE)

LEMMA WorkerResolveStep ==
    ASSUME Base, NEW c \in Contexts, WorkerResolve(c)
    PROVE  WorkStep(c)
<1> DEFINE j == Tail(cx[c].jobs)
           h == Head(cx[c].jobs).surface
           r == [cx[c] EXCEPT !.jobs = j]
<1>1. cx[c] \in CxRecord /\ cx[c].jobs \in Seq(Job) /\ cx[c].jobs # <<>>
  BY CxFields DEF Base, WorkerResolve
<1>2. j \in Seq(Job) /\ Head(cx[c].jobs) \in Job
  BY <1>1
<1>3. h \in Surfaces
  BY <1>2 DEF Job
<1>4. Flagged(h, FALSE)
  <2>1. surf' = [surf EXCEPT ![h].resolving = FALSE]
    BY DEF WorkerResolve
  <2> HIDE DEF h
  <2> QED
    BY <1>3, <2>1, FlagStep DEF Base
<1>5. cx' = [cx EXCEPT ![c].jobs = j]
  BY DEF WorkerResolve
<1> HIDE DEF j
<1>6. cx' = [cx EXCEPT ![c] = r]
  BY <1>1, <1>5 DEF Base, Typed
<1>7. /\ r \in CxRecord /\ r.jobs = j /\ r.references = cx[c].references
      /\ r.state = cx[c].state /\ r.count = cx[c].count
      /\ SameOwners(r, cx[c]) /\ SameMasks(r, cx[c]) /\ SamePicture(r, cx[c])
  BY <1>1, <1>2 DEF CxRecord, SameOwners, SameMasks, SamePicture
<1> HIDE DEF r
<1>8. CxOnly(c) /\ cx'[c] = r
  BY <1>6, <1>7, CxStep DEF Base
<1> QED
  BY <1>3, <1>4, <1>7, <1>8 DEF WorkStep, j

LEMMA WorkerResolveBase ==
    ASSUME Base, NEW c \in Contexts, WorkerResolve(c)
    PROVE  Base'
<1>1. WorkStep(c) /\ UNCHANGED <<pc, arg, objectCreationMutex, surfaceCreationMutex>>
  BY WorkerResolveStep DEF WorkerResolve, locks
<1>2. /\ cx' \in [Contexts -> CxRecord]
      /\ \A x \in Contexts :
            /\ cx'[x].state = cx[x].state /\ SamePicture(cx'[x], cx[x])
            /\ cx'[x].count = cx[x].count /\ SameOwners(cx'[x], cx[x])
  BY <1>1 DEF WorkStep, CxOnly, SamePicture, SameOwners
<1>3. /\ surf' \in [Surfaces -> SurfRecord]
      /\ \A s \in Surfaces : surf'[s].context = surf[s].context
  BY <1>1 DEF WorkStep, Flagged, SurfOnly
<1>4. Typed'
  BY <1>1, <1>2, <1>3 DEF Base, Typed
<1>5. CallsOK'
  BY <1>1, <1>2 DEF Base, CallsOK, InCall, SamePicture
<1>6. MarksOK'
  BY <1>2 DEF Base, MarksOK, BelowMark, SameOwners
<1>7. NoStaleContext'
  BY <1>2, <1>3, SurfFields DEF Base, NoStaleContext
<1> QED
  BY <1>4, <1>5, <1>6, <1>7 DEF Base

LEMMA VppActor == VPP \in Actors /\ VPP \notin Contexts
BY PictureIndexAssumption DEF Actors

\* Steps of the VideoProc thread that at most set flags.
LEMMA VideoProcBase ==
    ASSUME Base, UNCHANGED <<cx, locks>>,
           surf' \in [Surfaces -> SurfRecord],
           \A t \in Surfaces : surf'[t].context = surf[t].context,
           NEW p \in {"idle", "release", "publish"}, pc' = [pc EXCEPT ![VPP] = p],
           NEW s \in Surfaces \cup {NULL}, arg' = [arg EXCEPT ![VPP] = s],
           p # "idle" => s # NULL
    PROVE  Base'
<1>1. pc' \in [Actors -> {"idle", "release", "detach", "assign", "await", "publish"}]
      /\ arg' \in [Actors -> Surfaces \cup {NULL}]
  BY VppActor DEF Base, Typed
<1>2. \A x \in Contexts : pc'[x] # "idle" => InCall(x)
  BY VppActor DEF Base, Typed, CallsOK, Actors
<1>3. \A a \in Actors : pc'[a] # "idle" => arg'[a] # NULL
  BY VppActor DEF Base, Typed, CallsOK
<1> QED
  BY <1>1, <1>2, <1>3, SurfBase DEF Base, Typed, locks

LEMMA VideoProcBeginBase ==
    ASSUME Base, NEW s \in Surfaces, VideoProcBegin(s)
    PROVE  Base'
<1>1. Flagged(s, TRUE)
  BY FlagStep DEF VideoProcBegin, Base
<1>2. pc' = [pc EXCEPT ![VPP] = "idle"] /\ arg' = [arg EXCEPT ![VPP] = s]
  BY VppActor DEF VideoProcBegin, Base, Typed
<1>3. \A t \in Surfaces : surf'[t].context = surf[t].context
  BY <1>1 DEF Flagged, SurfOnly
<1> QED
  BY <1>1, <1>2, <1>3, VideoProcBase DEF VideoProcBegin, Flagged, SurfOnly

LEMMA VideoProcCopyBase ==
    ASSUME Base, VideoProcCopy
    PROVE  Base'
<1>1. arg[VPP] \in Surfaces /\ arg' = [arg EXCEPT ![VPP] = arg[VPP]]
      /\ pc' = [pc EXCEPT ![VPP] = "release"] /\ UNCHANGED <<surf, cx, locks>>
  BY VppActor DEF VideoProcCopy, Base, Typed
<1>2. arg[VPP] # NULL /\ surf' \in [Surfaces -> SurfRecord]
  BY <1>1, PictureIndexAssumption DEF Base, Typed
<1> QED
  BY <1>1, <1>2, VideoProcBase

LEMMA VideoProcPublishBase ==
    ASSUME Base, VideoProcPublish
    PROVE  Base'
<1>1. arg[VPP] \in Surfaces /\ arg' = [arg EXCEPT ![VPP] = arg[VPP]]
      /\ pc' = [pc EXCEPT ![VPP] = "idle"] /\ UNCHANGED <<cx, locks>>
  BY VppActor, CallSurface DEF VideoProcPublish, Base, Typed
<1>2. Flagged(arg[VPP], FALSE)
  BY <1>1, FlagStep DEF VideoProcPublish, Base
<1>3. \A t \in Surfaces : surf'[t].context = surf[t].context
  BY <1>2 DEF Flagged, SurfOnly
<1> QED
  BY <1>1, <1>2, <1>3, VideoProcBase DEF Flagged, SurfOnly

LEMMA VideoProcEndBase ==
    ASSUME Base, VideoProcEnd
    PROVE  Base'
<1>1. arg[VPP] \in Surfaces /\ arg' = [arg EXCEPT ![VPP] = NULL]
      /\ pc' = [pc EXCEPT ![VPP] = "idle"] /\ UNCHANGED <<cx, locks>>
  BY VppActor DEF VideoProcEnd, Base, Typed
<1>2. Flagged(arg[VPP], FALSE)
  BY <1>1, FlagStep DEF VideoProcEnd, Base
<1>3. \A t \in Surfaces : surf'[t].context = surf[t].context
  BY <1>2 DEF Flagged, SurfOnly
<1> QED
  BY <1>1, <1>2, <1>3, VideoProcBase DEF Flagged, SurfOnly

\* Creation and destruction.
LEMMA NvCreateSurfaceStep ==
    ASSUME Typed, NEW s \in Surfaces, NvCreateSurface(s)
    PROVE  /\ SurfOnly(s) /\ ~surf[s].live
           /\ surf'[s].context = NULL /\ surf'[s].pictureIdx = NONE /\ surf'[s].live
<1>1. FreshSurface \in SurfRecord
  BY FreshRecords
<1> QED
  BY <1>1 DEF NvCreateSurface, Typed, SurfOnly, FreshSurface

LEMMA NvCreateSurfaceBase ==
    ASSUME Base, NEW s \in Surfaces, NvCreateSurface(s)
    PROVE  Base'
<1>1. SurfOnly(s) /\ surf'[s].context = NULL
  BY NvCreateSurfaceStep DEF Base
<1>2. UNCHANGED <<cx, pc, arg, objectCreationMutex, surfaceCreationMutex>>
  BY DEF NvCreateSurface, locks
<1>3. surf' \in [Surfaces -> SurfRecord] /\ \A t \in Surfaces : surf'[t].context \in {surf[t].context, NULL}
  BY <1>1 DEF SurfOnly
<1>4. (\A c \in Contexts : pc'[c] # "idle" => InCall(c))
      /\ \A a \in Actors : pc'[a] # "idle" => arg'[a] # NULL
  BY <1>2 DEF Base, CallsOK
<1> QED
  BY <1>2, <1>3, <1>4, SurfBase DEF Base, Typed

LEMMA NvCreateContextStep ==
    ASSUME Typed, NEW c \in Contexts, NvCreateContext(c)
    PROVE  CxOnly(c) /\ cx'[c] = FreshContext /\ FreshContext \in CxRecord
BY FreshRecords, CxStep DEF NvCreateContext

LEMMA NvCreateContextBase ==
    ASSUME Base, NEW c \in Contexts, NvCreateContext(c)
    PROVE  Base'
<1>1. CxOnly(c) /\ cx'[c] = FreshContext /\ cx[c].state = "gone"
      /\ UNCHANGED <<surf, pc, arg, objectCreationMutex, surfaceCreationMutex>>
  BY NvCreateContextStep DEF Base, NvCreateContext, locks
<1>2. FreshContext.state = "live" /\ FreshContext.phase = "closed" /\ BelowMark(FreshContext)
  BY FreshRecords DEF FreshContext
<1>3. c \in Actors /\ pc[c] = "idle" /\ pc' = [pc EXCEPT ![c] = "idle"] /\ pc'[c] = "idle"
  BY <1>1 DEF Base, CallsOK, InCall, Typed, Actors
<1>4. \A a \in Actors : pc'[a] # "idle" => arg'[a] # NULL
  BY <1>1 DEF Base, CallsOK
<1>5. /\ arg' \in [Actors -> Surfaces \cup {NULL}] /\ objectCreationMutex' \in Actors \cup {NULL}
      /\ surfaceCreationMutex' \in [Contexts -> Actors \cup {NULL}]
      /\ surf' \in [Surfaces -> SurfRecord]
      /\ \A t \in Surfaces : surf'[t].context \in {surf[t].context, NULL, c}
  BY <1>1 DEF Base, Typed
<1>6. /\ cx'[c].state # "gone" /\ BelowMark(cx'[c])
      /\ pc'[c] # "idle" => InCall(c)'
      /\ cx'[c].phase # "closed" =>
           cx'[c].state = "live" /\ cx'[c].target # NULL /\ cx'[c].display # NULL
  BY <1>1, <1>2, <1>3
<1> QED
  BY <1>1, <1>3, <1>4, <1>5, <1>6, CxBase

\* The end of c, and a failed attempt at it.
DestroyStep(c) ==
    /\ surf' \in [Surfaces -> SurfRecord]
    /\ \A s \in Surfaces :
        /\ surf'[s].live = surf[s].live
        /\ surf'[s].resolving = (surf[s].resolving /\ s \notin JobSurfaces(c))
        /\ surf[s].context = c => surf'[s].context = NULL /\ surf'[s].pictureIdx = NONE
        /\ surf[s].context # c =>
             surf'[s].context = surf[s].context /\ surf'[s].pictureIdx = surf[s].pictureIdx
    /\ CxOnly(c) /\ cx'[c] = [FreshContext EXCEPT !.state = "gone"]

LEMMA NvDestroyContextStep ==
    ASSUME Typed, NEW c \in Contexts, NvDestroyContext(c)
    PROVE  DestroyStep(c)
<1> DEFINE r == [FreshContext EXCEPT !.state = "gone"]
<1>1. r \in CxRecord
  BY FreshRecords
<1>2. cx' = [cx EXCEPT ![c] = r]
  BY DEF NvDestroyContext
<1>3. CxOnly(c) /\ cx'[c] = r
  <2> HIDE DEF r
  <2> QED
    BY <1>1, <1>2, CxStep
<1>4. surf' = SurfDetached(c)
  BY DEF NvDestroyContext
<1>5. /\ surf' \in [Surfaces -> SurfRecord]
      /\ \A s \in Surfaces :
          /\ surf'[s].live = surf[s].live
          /\ surf'[s].resolving = (surf[s].resolving /\ s \notin JobSurfaces(c))
          /\ surf[s].context = c => surf'[s].context = NULL /\ surf'[s].pictureIdx = NONE
          /\ surf[s].context # c =>
               surf'[s].context = surf[s].context /\ surf'[s].pictureIdx = surf[s].pictureIdx
  <2> DEFINE J == JobSurfaces(c)
  <2> HIDE DEF J
  <2>1. \A s \in Surfaces : surf[s].context = c =>
          surf'[s] = [surf[s] EXCEPT !.resolving = (surf[s].resolving /\ s \notin J),
                                     !.context = NULL, !.pictureIdx = NONE]
    BY <1>4 DEF SurfDetached, J
  <2>2. \A s \in Surfaces : surf[s].context # c =>
          surf'[s] = [surf[s] EXCEPT !.resolving = (surf[s].resolving /\ s \notin J),
                                     !.context = surf[s].context, !.pictureIdx = surf[s].pictureIdx]
    BY <1>4 DEF SurfDetached, J
  <2>3. ASSUME NEW s \in Surfaces
        PROVE  /\ surf'[s] \in SurfRecord
               /\ surf'[s].live = surf[s].live
               /\ surf'[s].resolving = (surf[s].resolving /\ s \notin J)
               /\ surf[s].context = c => surf'[s].context = NULL /\ surf'[s].pictureIdx = NONE
               /\ surf[s].context # c =>
                    surf'[s].context = surf[s].context /\ surf'[s].pictureIdx = surf[s].pictureIdx
    <3> DEFINE b == (surf[s].resolving /\ s \notin J)
    <3>1. b \in BOOLEAN /\ surf[s].context \in Contexts \cup {NULL}
          /\ surf[s].pictureIdx \in Indices \cup {NONE}
      BY SurfFields
    <3>2. CASE surf[s].context = c
      <4>1. surf'[s] = [surf[s] EXCEPT !.resolving = b, !.context = NULL, !.pictureIdx = NONE]
        BY <2>1, <3>2
      <4> HIDE DEF b
      <4>2. surf'[s].live = surf[s].live /\ surf'[s].resolving = b /\ surf'[s].context = NULL
            /\ surf'[s].pictureIdx = NONE /\ surf'[s] \in SurfRecord
        BY <3>1, <4>1 DEF Typed, SurfRecord
      <4> QED
        BY <3>2, <4>2 DEF b
    <3>3. CASE surf[s].context # c
      <4>1. surf'[s] = [surf[s] EXCEPT !.resolving = b, !.context = surf[s].context,
                                       !.pictureIdx = surf[s].pictureIdx]
        BY <2>2, <3>3
      <4> HIDE DEF b
      <4>2. surf'[s].live = surf[s].live /\ surf'[s].resolving = b
            /\ surf'[s].context = surf[s].context
            /\ surf'[s].pictureIdx = surf[s].pictureIdx /\ surf'[s] \in SurfRecord
        BY <3>1, <4>1 DEF Typed, SurfRecord
      <4> QED
        BY <3>3, <4>2 DEF b
    <3> QED
      BY <3>2, <3>3
  <2>4. surf' = [s \in Surfaces |-> surf'[s]]
    BY <1>4 DEF SurfDetached
  <2> QED
    BY <2>3, <2>4 DEF J
<1> QED
  BY <1>3, <1>5 DEF DestroyStep

LEMMA NvDestroyContextBase ==
    ASSUME Base, NEW c \in Contexts, NvDestroyContext(c)
    PROVE  Base'
<1> DEFINE r == [FreshContext EXCEPT !.state = "gone"]
<1>1. DestroyStep(c) /\ UNCHANGED <<pc, arg, objectCreationMutex, surfaceCreationMutex>>
      /\ \A a \in Actors : pc[a] = "idle"
  BY NvDestroyContextStep DEF Base, NvDestroyContext, locks, NoCalls
<1>2. r.phase = "closed" /\ BelowMark(r)
  BY FreshRecords DEF FreshContext
<1> HIDE DEF r
<1>3. Typed'
  BY <1>1 DEF DestroyStep, CxOnly, Base, Typed
<1>4. CallsOK'
  BY <1>1, <1>2 DEF DestroyStep, CxOnly, Base, CallsOK, Actors, r
<1>5. MarksOK'
  BY <1>1, <1>2 DEF DestroyStep, CxOnly, Base, MarksOK, r
<1>6. NoStaleContext'
  BY <1>1, SurfFields DEF DestroyStep, CxOnly, Base, NoStaleContext
<1> QED
  BY <1>3, <1>4, <1>5, <1>6 DEF Base

DestroyFailStep(c) ==
    /\ surf' \in [Surfaces -> SurfRecord]
    /\ \A s \in Surfaces :
        /\ surf'[s].live = surf[s].live
        /\ surf'[s].resolving = (surf[s].resolving /\ s \notin JobSurfaces(c))
        /\ surf'[s].context = surf[s].context /\ surf'[s].pictureIdx = surf[s].pictureIdx
    /\ CxOnly(c)
    /\ cx'[c].state = "destroying" /\ cx'[c].jobs = <<>> /\ cx'[c].references = {}
    /\ cx'[c].count = cx[c].count
    /\ SameOwners(cx'[c], cx[c]) /\ SameMasks(cx'[c], cx[c]) /\ SamePicture(cx'[c], cx[c])

LEMMA NvDestroyContextFailStep ==
    ASSUME Typed, NEW c \in Contexts, NvDestroyContextFail(c)
    PROVE  DestroyFailStep(c)
<1> DEFINE r == [cx[c] EXCEPT !.state = "destroying", !.jobs = <<>>, !.references = {}]
<1>1. cx[c] \in CxRecord /\ <<>> \in Seq(Job)
  BY DEF Typed
<1>2. cx' = [cx EXCEPT ![c] = r]
  <2>1. cx' = [cx EXCEPT ![c].state = "destroying", ![c].jobs = <<>>, ![c].references = {}]
    BY DEF NvDestroyContextFail
  <2> QED
    BY <1>1, <2>1 DEF Typed
<1>3. /\ r \in CxRecord
      /\ r.state = "destroying" /\ r.jobs = <<>> /\ r.references = {} /\ r.count = cx[c].count
      /\ SameOwners(r, cx[c]) /\ SameMasks(r, cx[c]) /\ SamePicture(r, cx[c])
  BY <1>1 DEF CxRecord, SameOwners, SameMasks, SamePicture
<1> HIDE DEF r
<1>4. CxOnly(c) /\ cx'[c] = r
  BY <1>2, <1>3, CxStep
<1>5. surf' = [s \in Surfaces |-> [surf[s] EXCEPT !.resolving = @ /\ s \notin JobSurfaces(c)]]
  BY DEF NvDestroyContextFail
<1>6. /\ surf' \in [Surfaces -> SurfRecord]
      /\ \A s \in Surfaces :
          /\ surf'[s].live = surf[s].live
          /\ surf'[s].resolving = (surf[s].resolving /\ s \notin JobSurfaces(c))
          /\ surf'[s].context = surf[s].context /\ surf'[s].pictureIdx = surf[s].pictureIdx
  BY <1>5 DEF Typed, SurfRecord
<1> QED
  BY <1>3, <1>4, <1>6 DEF DestroyFailStep

LEMMA NvDestroyContextFailBase ==
    ASSUME Base, NEW c \in Contexts, NvDestroyContextFail(c)
    PROVE  Base'
<1>1. DestroyFailStep(c) /\ UNCHANGED <<pc, arg, objectCreationMutex, surfaceCreationMutex>>
      /\ (\A a \in Actors : pc[a] = "idle") /\ cx[c].phase = "closed"
  BY NvDestroyContextFailStep DEF Base, NvDestroyContextFail, locks, NoCalls
<1>2. Typed'
  BY <1>1 DEF DestroyFailStep, CxOnly, Base, Typed
<1>3. CallsOK'
  BY <1>1 DEF DestroyFailStep, CxOnly, Base, CallsOK, Actors, SamePicture
<1>4. MarksOK'
  BY <1>1 DEF DestroyFailStep, CxOnly, Base, MarksOK, BelowMark, SameOwners
<1>5. NoStaleContext'
  BY <1>1, SurfFields DEF DestroyFailStep, CxOnly, Base, NoStaleContext
<1> QED
  BY <1>2, <1>3, <1>4, <1>5 DEF Base

LEMMA BaseInit == Init => Base
<1> SUFFICES ASSUME Init PROVE Base
  OBVIOUS
<1>1. Typed
  BY FreshRecords DEF Init, Typed
<1>2. CallsOK
  BY DEF Init, CallsOK, FreshContext, Actors
<1>3. MarksOK
  BY FreshRecords DEF Init, MarksOK
<1>4. NoStaleContext
  BY DEF Init, NoStaleContext, FreshSurface
<1> QED
  BY <1>1, <1>2, <1>3, <1>4 DEF Base

LEMMA BaseNext ==
    ASSUME Base, [Next]_vars
    PROVE  Base'
<1>1. CASE UNCHANGED vars
  <2>1. UNCHANGED <<surf, cx, pc, arg, objectCreationMutex, surfaceCreationMutex>>
    BY <1>1 DEF vars, locks
  <2> QED
    BY <2>1, SurfBase DEF Base, Typed, CallsOK
<1>2. ASSUME NEW a \in Actors, Proceed(a) PROVE Base'
  <2>1. CASE ReleaseLock(a)
    BY <2>1, ReleaseLockBase
  <2>2. CASE ReleaseIndex(a)
    BY <2>2, ReleaseIndexBase
  <2>3. CASE a \in Contexts /\ AssignIndex(a)
    BY <2>3, AssignIndexBase
  <2>4. CASE a \in Contexts /\ AssignWait(a)
    BY <2>4, AssignWaitBase
  <2>5. CASE a \in Contexts /\ AssignFail(a)
    BY <2>5, AssignFailBase
  <2>6. CASE VideoProcPublish
    BY <2>6, VideoProcPublishBase
  <2> QED
    BY <1>2, <2>1, <2>2, <2>3, <2>4, <2>5, <2>6 DEF Proceed
<1>3. ASSUME NEW c \in Contexts, NEW s \in Surfaces, NvBeginPicture(c, s) \/ RenderFilmGrain(c, s)
      PROVE  Base'
  BY <1>3, NvBeginPictureBase, RenderFilmGrainBase
<1>4. ASSUME NEW c \in Contexts, NEW named \in SUBSET Surfaces, RenderReferences(c, named)
      PROVE  Base'
  BY <1>4, RenderReferencesBase
<1>5. ASSUME NEW c \in Contexts, NEW ok \in BOOLEAN, NEW queued \in BOOLEAN,
             NEW kept \in SUBSET Surfaces, EndDecode(c, ok, queued, kept)
      PROVE  Base'
  BY <1>5, EndDecodeBase
<1>6. ASSUME NEW c \in Contexts,
             \/ EndFail(c) \/ WorkerResolve(c) \/ NvCreateContext(c)
             \/ NvDestroyContext(c) \/ NvDestroyContextFail(c)
      PROVE  Base'
  BY <1>6, EndFailBase, WorkerResolveBase, NvCreateContextBase, NvDestroyContextBase,
     NvDestroyContextFailBase
<1>7. ASSUME NEW s \in Surfaces, VideoProcBegin(s) \/ NvCreateSurface(s) \/ NvDestroySurface(s)
      PROVE  Base'
  BY <1>7, VideoProcBeginBase, NvCreateSurfaceBase, NvDestroySurfaceBase
<1>8. CASE VideoProcCopy \/ VideoProcEnd
  BY <1>8, VideoProcCopyBase, VideoProcEndBase
<1>9. CASE Next
  BY <1>2, <1>3, <1>4, <1>5, <1>6, <1>7, <1>8, <1>9 DEF Next
<1> QED
  BY <1>1, <1>9

\* No surface ever points to a context that was destroyed: destroying detaches
\* every surface that does, whoever the owner table names, and only calls on
\* live contexts attach one.
THEOREM NoStaleContextCorrect == Spec => []NoStaleContext
<1>1. Base => NoStaleContext
  BY DEF Base
<1> QED
  BY BaseInit, BaseNext, <1>1, PTL DEF Spec

\* Every index in use is within the pool of the decoder, whenever the decoder
\* is created and however many indices were handed out before it was.
THEOREM IndexInPoolCorrect == Spec => []IndexInPool
<1>1. Base => IndexInPool
  <2> SUFFICES ASSUME Base, NEW c \in Contexts, cx[c].count # 0, NEW i \in Indices,
                      cx[c].owners[i] # NULL
               PROVE  i < cx[c].count
    BY DEF IndexInPool
  <2>1. i < cx[c].allocated /\ cx[c].allocated <= cx[c].count
    BY DEF Base, MarksOK, BelowMark
  <2>2. i \in Int /\ cx[c].allocated \in Int /\ cx[c].count \in Int
    BY CxFields DEF Base, Indices
  <2> QED
    BY <2>1, <2>2
<1> QED
  BY BaseInit, BaseNext, <1>1, PTL DEF Spec

-----------------------------------------------------------------------------
(* Claims, action by action.                                               *)

\* Every surface keeps its place: existence, context and index.
SameBinding ==
    \A s \in Surfaces :
        /\ surf'[s].live = surf[s].live
        /\ surf'[s].context = surf[s].context /\ surf'[s].pictureIdx = surf[s].pictureIdx

\* No frame of s is queued.
NotQueued(s) == \A c \in Contexts : \A n \in 1 .. Len(cx[c].jobs) : cx[c].jobs[n].surface # s

\* No call, no picture and no reference is s.
Unused(s) ==
    /\ \A a \in Actors : arg[a] # s
    /\ \A c \in Contexts : s \notin cx[c].references /\ s \notin InPicture(c)

LEMMA UnusedNotQueued ==
    ASSUME Claims, NEW s \in Surfaces
    PROVE  /\ ~surf[s].resolving => NotQueued(s)
           /\ (\E a \in Actors : arg[a] = s) => NotQueued(s)
           /\ (\E c \in Contexts : s \in InPicture(c)) => NotQueued(s)
           /\ ~InUse(s) <=> Unused(s)
<1>1. ~surf[s].resolving => NotQueued(s)
  BY DEF Claims, JobsOK, JobOK, NotQueued
<1>2. (\E a \in Actors : arg[a] = s) => NotQueued(s)
  BY DEF Claims, JobsOK, JobOK, NotQueued
<1>3. (\E c \in Contexts : s \in InPicture(c)) => NotQueued(s)
  BY DEF Claims, JobsOK, JobOK, NotQueued
<1>4. ~InUse(s) <=> Unused(s)
  BY DEF InUse, Unused, InPicture
<1> QED
  BY <1>1, <1>2, <1>3, <1>4

LEMMA JobFields ==
    ASSUME Base, NEW c \in Contexts, NEW n \in 1 .. Len(cx[c].jobs)
    PROVE  /\ cx[c].jobs[n] \in Job
           /\ cx[c].jobs[n].surface \in Surfaces
           /\ cx[c].jobs[n].pictureIdx \in Indices \cup {NONE}
           /\ cx[c].jobs # <<>>
<1>1. cx[c].jobs \in Seq(Job)
  BY CxFields DEF Base
<1>2. cx[c].jobs[n] \in Job /\ cx[c].jobs # <<>>
  BY <1>1
<1> QED
  BY <1>2 DEF Job

\* A queued frame is of a surface of the context that is its owner.
LEMMA JobOwner ==
    ASSUME Base, Claims, NEW c \in Contexts, NEW n \in 1 .. Len(cx[c].jobs)
    PROVE  LET s == cx[c].jobs[n].surface IN
           surf[s].live /\ surf[s].context = c /\ surf[s].pictureIdx = cx[c].jobs[n].pictureIdx
<1>1. cx[c].state = "live" /\ JobOK(c, cx[c].jobs[n])
  BY JobFields DEF Claims, JobsOK
<1>2. cx[c].jobs[n].surface \in Surfaces /\ cx[c].jobs[n].pictureIdx \in Indices
  BY <1>1, JobFields DEF JobOK
<1>3. cx[c].jobs[n].surface # NULL
  BY <1>2, PictureIndexAssumption
<1> QED
  BY <1>1, <1>2, <1>3 DEF JobOK, Claims, OwnersAgree

\* Steps of calls that change no binding and no context.
LEMMA CallClaims ==
    ASSUME Base, Claims, UNCHANGED cx, SameBinding,
           \A t \in Surfaces : NotQueued(t) \/ surf'[t].resolving = surf[t].resolving,
           NEW a \in Actors, NEW q, arg' = [arg EXCEPT ![a] = q],
           \/ q = NULL \/ q = arg[a]
           \/ q \in Surfaces /\ surf[q].live /\ Unused(q) /\ NotQueued(q),
           \A c \in Contexts : Pending(c)' =>
                \/ Pending(c) /\ arg'[c] = arg[c]
                \/ arg'[c] \in Surfaces /\ surf[arg'[c]].pictureIdx = NONE
    PROVE  Claims'
<1>1. OwnersAgree' /\ Unattached'
  <2>1. \A c \in Contexts : \A i \in Indices : cx[c].owners[i] \in Surfaces \cup {NULL}
    BY CxFields DEF Base
  <2>2. \A s \in Surfaces : surf[s].pictureIdx \in Indices \cup {NONE}
    BY SurfFields DEF Base
  <2> QED
    BY <2>1, <2>2 DEF Claims, OwnersAgree, Unattached, SameBinding
<1>2. arg \in [Actors -> Surfaces \cup {NULL}] /\ NULL \notin Surfaces
      /\ (\A c \in Contexts : c \in Actors) /\ \A b \in Actors : b # a => arg'[b] = arg[b]
  BY PictureIndexAssumption DEF Base, Typed, Actors
<1>3. ArgsOK'
  <2>1. ASSUME NEW b \in Actors, arg'[b] # NULL
        PROVE  /\ surf'[arg'[b]].live
               /\ \A x \in Actors : arg'[x] = arg'[b] => b = x
               /\ \A c \in Contexts : arg'[b] \notin cx'[c].references \cup {cx'[c].target, cx'[c].display}
    BY <1>2, <2>1 DEF Claims, ArgsOK, SameBinding, Unused, InPicture
  <2>2. ASSUME NEW c \in Contexts, Pending(c)' PROVE surf'[arg'[c]].pictureIdx = NONE
    <3>1. CASE Pending(c) /\ arg'[c] = arg[c]
      <4>1. arg[c] \in Surfaces
        BY <3>1, <1>2, CallSurface DEF Pending
      <4> QED
        BY <3>1, <4>1 DEF Claims, ArgsOK, SameBinding
    <3>2. CASE arg'[c] \in Surfaces /\ surf[arg'[c]].pictureIdx = NONE
      BY <3>2 DEF SameBinding
    <3> QED
      BY <2>2, <3>1, <3>2
  <2> QED
    BY <2>1, <2>2 DEF ArgsOK
<1>4. PicturesOK'
  <2>1. \A c \in Contexts : \A s \in Surfaces : Found(c, s) => Found(c, s)'
    BY DEF Found, SameBinding
  <2>2. \A c \in Contexts : cx[c].phase # "closed" => InPicture(c) \subseteq Surfaces
    BY PictureSurfaces DEF InPicture
  <2>3. \A c \in Contexts : InPicture(c)' = InPicture(c)
    BY DEF InPicture
  <2> QED
    BY <2>1, <2>2, <2>3 DEF Claims, PicturesOK
<1>5. JobsOK'
  <2>1. ASSUME NEW c \in Contexts, NEW n \in 1 .. Len(cx[c].jobs) PROVE JobOK(c, cx[c].jobs[n])'
    <3> DEFINE s == cx[c].jobs[n].surface
    <3>1. s \in Surfaces /\ ~NotQueued(s) /\ s # NULL
      BY JobFields, PictureIndexAssumption DEF NotQueued
    <3>2. JobOK(c, cx[c].jobs[n])
      BY DEF Claims, JobsOK
    <3>3. surf'[s].resolving
      BY <3>1, <3>2 DEF JobOK
    <3>4. \A b \in Actors : arg'[b] # s
      BY <1>2, <3>1, <3>2 DEF JobOK
    <3> QED
      BY <3>2, <3>3, <3>4 DEF JobOK, InPicture
  <2> QED
    BY <2>1 DEF Claims, JobsOK
<1>6. MasksOK' /\ RefsOK'
  <2>1. \A c \in Contexts : \A s \in Surfaces : ReferenceOK(c, s) => ReferenceOK(c, s)'
    BY DEF ReferenceOK, Found, SameBinding
  <2>2. \A c \in Contexts : cx[c].references \subseteq Surfaces
    BY CxFields DEF Base
  <2> QED
    BY <2>1, <2>2 DEF Claims, MasksOK, RefsOK
<1> QED
  BY <1>1, <1>3, <1>4, <1>5, <1>6 DEF Claims

\* A step that changes nothing but pc.
LEMMA PcClaims ==
    ASSUME Base, Claims, UNCHANGED <<surf, cx, arg>>,
           \A c \in Contexts : Pending(c)' => Pending(c)
    PROVE  Claims'
<1>1. VPP \in Actors /\ arg' = [arg EXCEPT ![VPP] = arg[VPP]]
  BY VppActor DEF Base, Typed
<1>2. SameBinding /\ \A c \in Contexts : Pending(c)' => Pending(c) /\ arg'[c] = arg[c]
  BY DEF SameBinding
<1> QED
  BY <1>1, <1>2, CallClaims

LEMMA AssignWaitClaims ==
    ASSUME Base, Claims, NEW c \in Contexts, AssignWait(c)
    PROVE  Claims'
<1>1. \A x \in Contexts : Pending(x)' => Pending(x)
  BY DEF AssignWait, Trying, Pending, Base, Typed, Actors
<1> QED
  BY <1>1, PcClaims DEF AssignWait

LEMMA AssignFailClaims ==
    ASSUME Base, Claims, NEW c \in Contexts, AssignFail(c)
    PROVE  Claims'
<1>1. c \in Actors /\ arg' = [arg EXCEPT ![c] = NULL] /\ pc' = [pc EXCEPT ![c] = "idle"]
      /\ UNCHANGED <<surf, cx>>
  BY DEF AssignFail, Actors
<1>2. \A x \in Contexts : Pending(x)' => Pending(x) /\ arg'[x] = arg[x]
  BY <1>1 DEF Pending, Base, Typed, Actors
<1>3. SameBinding
  BY <1>1 DEF SameBinding
<1> QED
  BY <1>1, <1>2, <1>3, CallClaims

LEMMA FlaggedBinding ==
    ASSUME NEW s \in Surfaces, NEW b, Flagged(s, b), NotQueued(s)
    PROVE  SameBinding /\ \A t \in Surfaces : NotQueued(t) \/ surf'[t].resolving = surf[t].resolving
BY DEF Flagged, SurfOnly, SameBinding

LEMMA VideoProcBeginClaims ==
    ASSUME Base, Claims, NEW s \in Surfaces, VideoProcBegin(s)
    PROVE  Claims'
<1>1. Flagged(s, TRUE)
  BY FlagStep DEF VideoProcBegin, Base
<1>2. surf[s].live /\ Unused(s) /\ NotQueued(s)
  BY UnusedNotQueued DEF VideoProcBegin
<1>3. arg' = [arg EXCEPT ![VPP] = s] /\ UNCHANGED <<cx, pc>>
  BY DEF VideoProcBegin
<1>4. \A x \in Contexts : Pending(x)' => Pending(x) /\ arg'[x] = arg[x]
  BY <1>3, VppActor DEF Pending, Base, Typed, Actors
<1> QED
  BY <1>1, <1>2, <1>3, <1>4, VppActor, FlaggedBinding, CallClaims

LEMMA VideoProcCopyClaims ==
    ASSUME Base, Claims, VideoProcCopy
    PROVE  Claims'
<1>1. \A x \in Contexts : Pending(x)' => Pending(x)
  BY VppActor DEF VideoProcCopy, Pending, Base, Typed, Actors
<1> QED
  BY <1>1, PcClaims DEF VideoProcCopy

LEMMA VideoProcPublishClaims ==
    ASSUME Base, Claims, VideoProcPublish
    PROVE  Claims'
<1>1. arg[VPP] \in Surfaces
  BY VppActor, CallSurface DEF VideoProcPublish
<1>2. Flagged(arg[VPP], FALSE) /\ NotQueued(arg[VPP])
  BY <1>1, VppActor, FlagStep, UnusedNotQueued DEF VideoProcPublish, Base
<1>3. arg' = [arg EXCEPT ![VPP] = arg[VPP]] /\ UNCHANGED <<cx, arg>>
  BY VppActor DEF VideoProcPublish, Base, Typed
<1>4. \A x \in Contexts : Pending(x)' => Pending(x) /\ arg'[x] = arg[x]
  BY <1>3, VppActor DEF VideoProcPublish, Pending, Base, Typed, Actors
<1> QED
  BY <1>1, <1>2, <1>3, <1>4, VppActor, FlaggedBinding, CallClaims

LEMMA VideoProcEndClaims ==
    ASSUME Base, Claims, VideoProcEnd
    PROVE  Claims'
<1>1. arg[VPP] \in Surfaces
  BY VppActor DEF VideoProcEnd, Base, Typed
<1>2. Flagged(arg[VPP], FALSE) /\ NotQueued(arg[VPP])
  BY <1>1, VppActor, FlagStep, UnusedNotQueued DEF VideoProcEnd, Base
<1>3. arg' = [arg EXCEPT ![VPP] = NULL] /\ UNCHANGED <<cx, pc>>
  BY DEF VideoProcEnd
<1>4. \A x \in Contexts : Pending(x)' => Pending(x) /\ arg'[x] = arg[x]
  BY <1>3, VppActor DEF Pending, Base, Typed, Actors
<1> QED
  BY <1>1, <1>2, <1>3, <1>4, VppActor, FlaggedBinding, CallClaims

\* A surface that is in no picture, no job and no reference lets go of its
\* index; the owner table follows if it names the surface.
LEMMA LetGo ==
    ASSUME Base, Claims, NEW s \in Surfaces, SurfOnly(s), cx' = CxReleased(s), UNCHANGED arg,
           surf'[s].context = NULL, surf'[s].pictureIdx = NONE,
           \A c \in Contexts : s \notin cx[c].references /\ s \notin InPicture(c),
           NotQueued(s),
           surf'[s].live = surf[s].live \/ \A a \in Actors : arg[a] # s,
           \A c \in Contexts : Pending(c)' => Pending(c) \/ arg[c] = s
    PROVE  Claims'
<1> DEFINE k == surf[s].context
           p == surf[s].pictureIdx
<1>1. /\ cx' \in [Contexts -> CxRecord]
      /\ \A x \in Contexts : x # k \/ ~Owning(s) => cx'[x] = cx[x]
      /\ Owning(s) => k \in Contexts /\ p \in Indices /\ cx'[k] = Dropped(cx[k], p)
      /\ \A x \in Contexts :
            /\ cx'[x].state = cx[x].state
            /\ SamePicture(cx'[x], cx[x]) /\ SameWork(cx'[x], cx[x])
            /\ \A j \in Indices : cx'[x].owners[j] \in {cx[x].owners[j], NULL}
            /\ cx'[x].active \subseteq cx[x].active /\ cx'[x].building \subseteq cx[x].building
  BY ReleasedStep DEF Base
<1>2. s # NULL /\ NULL \notin Surfaces /\ NULL \notin Contexts /\ NONE \notin Indices
      /\ \A t \in Surfaces : t # s => surf'[t] = surf[t]
  BY PictureIndexAssumption DEF SurfOnly, Indices, NONE
<1>3. \A x \in Contexts : cx[x].owners \in [Indices -> Surfaces \cup {NULL}]
  BY CxFields DEF Base
\* The entries of other surfaces stay, and s has none left.
<1>4. \A x \in Contexts : cx[x].state = "live" =>
        \A j \in Indices :
            /\ cx'[x].owners[j] # s
            /\ cx[x].owners[j] # s => cx'[x].owners[j] = cx[x].owners[j]
  <2> SUFFICES ASSUME NEW x \in Contexts, cx[x].state = "live", NEW j \in Indices
               PROVE  /\ cx'[x].owners[j] # s
                      /\ cx[x].owners[j] # s => cx'[x].owners[j] = cx[x].owners[j]
    OBVIOUS
  <2>1. cx[x].owners[j] = s => k = x /\ p = j /\ Owning(s)
    <3>1. cx[x].owners[j] = s => k = x /\ p = j
      BY <1>2 DEF Claims, OwnersAgree
    <3> QED
      BY <1>2, <3>1 DEF Owning
  <2>2. CASE x # k \/ ~Owning(s)
    BY <1>1, <2>1, <2>2
  <2>3. CASE x = k /\ Owning(s)
    <3>1. p \in Indices /\ cx[k] \in CxRecord /\ cx'[k] = Dropped(cx[k], p) /\ cx[k].owners[p] = s
      BY <1>1, <2>3 DEF Base, Typed, Owning
    <3>2. cx'[k].owners = [cx[k].owners EXCEPT ![p] = NULL]
      <4> HIDE DEF k, p
      <4>1. Dropped(cx[k], p).owners = [cx[k].owners EXCEPT ![p] = NULL]
        BY <3>1, DroppedFields
      <4> QED
        BY <3>1, <4>1
    <3> QED
      BY <1>2, <1>3, <2>1, <2>3, <3>1, <3>2
  <2> QED
    BY <2>2, <2>3
\* The masks lose only what s had.
<1>5. \A x \in Contexts : \A j \in Indices :
        ~(x = k /\ j = p) =>
            /\ j \in cx[x].active => j \in cx'[x].active
            /\ j \in cx[x].building => j \in cx'[x].building
  <2> SUFFICES ASSUME NEW x \in Contexts, NEW j \in Indices, ~(x = k /\ j = p)
               PROVE  /\ j \in cx[x].active => j \in cx'[x].active
                      /\ j \in cx[x].building => j \in cx'[x].building
    OBVIOUS
  <2>1. CASE x # k \/ ~Owning(s)
    BY <1>1, <2>1
  <2>2. CASE x = k /\ Owning(s)
    <3>1. p \in Indices /\ cx[k] \in CxRecord /\ cx'[k] = Dropped(cx[k], p)
      BY <1>1, <2>2 DEF Base, Typed
    <3>2. cx'[k].active = cx[k].active \ {p} /\ cx'[k].building = cx[k].building \ {p}
      <4> HIDE DEF k, p
      <4>1. Dropped(cx[k], p).active = cx[k].active \ {p}
            /\ Dropped(cx[k], p).building = cx[k].building \ {p}
        BY <3>1, DroppedFields
      <4> QED
        BY <3>1, <4>1
    <3> QED
      BY <2>2, <3>2
  <2> QED
    BY <2>1, <2>2
<1>6. OwnersAgree' /\ Unattached'
  <2>1. ASSUME NEW c \in Contexts, cx'[c].state = "live", NEW i \in Indices, cx'[c].owners[i] # NULL
        PROVE  LET t == cx'[c].owners[i] IN
               surf'[t].live /\ surf'[t].context = c /\ surf'[t].pictureIdx = i
    <3>1. cx[c].state = "live" /\ cx'[c].owners[i] # s /\ cx'[c].owners[i] = cx[c].owners[i]
          /\ cx[c].owners[i] \in Surfaces
      BY <1>1, <1>3, <1>4, <2>1
    <3> QED
      BY <1>2, <2>1, <3>1 DEF Claims, OwnersAgree
  <2>2. ASSUME NEW c \in Contexts, cx'[c].state = "live", NEW t \in Surfaces,
               surf'[t].context = c, surf'[t].pictureIdx # NONE
        PROVE  cx'[c].owners[surf'[t].pictureIdx] = t
    <3>1. t # s /\ surf'[t] = surf[t] /\ surf[t].pictureIdx \in Indices /\ cx[c].state = "live"
      BY <1>1, <1>2, <2>2, SurfFields DEF Base
    <3>2. cx[c].owners[surf[t].pictureIdx] = t
      BY <2>2, <3>1 DEF Claims, OwnersAgree
    <3> QED
      BY <1>4, <3>1, <3>2
  <2>3. Unattached'
    BY <1>2 DEF Claims, Unattached
  <2> QED
    BY <2>1, <2>2, <2>3 DEF OwnersAgree
<1>7. \A x \in Contexts : InPicture(x)' = InPicture(x) /\ cx'[x].references = cx[x].references
        /\ cx'[x].jobs = cx[x].jobs /\ cx'[x].phase = cx[x].phase
  BY <1>1 DEF InPicture, SamePicture, SameWork
<1>8. \A c \in Contexts : \A t \in Surfaces :
        t # s /\ cx[c].state = "live" /\ Found(c, t) => Found(c, t)'
  BY <1>2, <1>4, SurfFields DEF Found, Base
<1>9. ArgsOK'
  <2>1. \A a \in Actors : arg[a] \in Surfaces \cup {NULL}
    BY DEF Base, Typed
  <2>2. \A a \in Actors : arg[a] # NULL => surf'[arg[a]].live
    BY <1>2, <2>1 DEF Claims, ArgsOK
  <2>3. \A c \in Contexts : Pending(c)' => surf'[arg[c]].pictureIdx = NONE
    <3> SUFFICES ASSUME NEW c \in Contexts, Pending(c)', arg[c] # s
                 PROVE  surf'[arg[c]].pictureIdx = NONE
      OBVIOUS
    <3>1. Pending(c) /\ arg[c] \in Surfaces
      BY CallSurface DEF Pending, Actors
    <3> QED
      BY <1>2, <3>1 DEF Claims, ArgsOK
  <2> QED
    BY <1>1, <2>2, <2>3 DEF Claims, ArgsOK, SamePicture, SameWork
<1>10. PicturesOK'
  <2>1. \A c \in Contexts : cx[c].phase # "closed" => InPicture(c) \subseteq Surfaces /\ cx[c].state = "live"
    BY PictureSurfaces DEF InPicture
  <2> QED
    BY <1>7, <1>8, <2>1 DEF Claims, PicturesOK
<1>11. JobsOK'
  <2>1. ASSUME NEW c \in Contexts, NEW n \in 1 .. Len(cx[c].jobs) PROVE JobOK(c, cx[c].jobs[n])'
    <3> DEFINE job == cx[c].jobs[n]
    <3>1. job.surface \in Surfaces /\ job.surface # s /\ JobOK(c, job) /\ cx[c].state = "live"
          /\ job.pictureIdx \in Indices
      BY JobFields DEF NotQueued, Claims, JobsOK, JobOK
    <3>2. cx'[c].owners[job.pictureIdx] = job.surface
      BY <1>4, <3>1 DEF JobOK
    <3> QED
      BY <1>2, <1>7, <3>1, <3>2 DEF JobOK
  <2> QED
    BY <1>1, <1>7, <2>1 DEF Claims, JobsOK
<1>12. MasksOK'
  BY <1>1 DEF Claims, MasksOK
<1>13. RefsOK'
  <2>1. ASSUME NamesAll, NEW c \in Contexts, NEW t \in cx[c].references PROVE ReferenceOK(c, t)'
    <3>1. t \in Surfaces /\ t # s /\ cx[c].state = "live" /\ ReferenceOK(c, t)
      BY <2>1, CxFields DEF Base, Claims, RefsOK
    <3>2. Found(c, t)' /\ surf'[t] = surf[t] /\ surf[t].pictureIdx \in Indices
      BY <1>2, <1>8, <3>1, SurfFields DEF ReferenceOK, Found, Base
    <3>3. ~(c = k /\ surf[t].pictureIdx = p)
      <4>1. surf[t].context = c /\ cx[c].owners[surf[t].pictureIdx] = t
        BY <3>1 DEF ReferenceOK, Found
      <4>2. c = k /\ p # NONE => cx[c].owners[p] = s
        BY <3>1 DEF Claims, OwnersAgree
      <4> QED
        BY <1>2, <3>1, <3>2, <4>1, <4>2
    <3> QED
      BY <1>5, <1>7, <3>1, <3>2, <3>3 DEF ReferenceOK
  <2> QED
    BY <1>1, <1>7, <2>1 DEF Claims, RefsOK
<1> QED
  BY <1>6, <1>9, <1>10, <1>11, <1>12, <1>13 DEF Claims

LEMMA ReleaseLockClaims ==
    ASSUME Base, Claims, NEW a \in Actors, ReleaseLock(a)
    PROVE  Claims'
<1> DEFINE s == arg[a]
<1>1. s \in Surfaces /\ s # NULL
  BY CallSurface, PictureIndexAssumption DEF ReleaseLock
<1>2. UNCHANGED <<cx, arg>>
  BY DEF ReleaseLock
<1>3. CASE UNCHANGED surf /\ pc' = [pc EXCEPT ![a] = "detach"]
  <2>1. \A c \in Contexts : Pending(c)' => Pending(c)
    BY <1>3 DEF Pending, Base, Typed, Actors
  <2> QED
    BY <1>2, <1>3, <2>1, PcClaims
<1>4. CASE /\ ~(surf[s].context # NULL /\ cx[surf[s].context].state = "live")
           /\ surf' = SurfReleased(s)
           /\ pc' = [pc EXCEPT ![a] = AfterRelease(a)]
  <2>1. Freed(s)
    BY <1>1, <1>4, FreeStep DEF Base
  <2>2. cx' = CxReleased(s)
    <3>1. ~Owning(s)
      BY <1>4 DEF Owning
    <3> QED
      BY <1>1, <1>2, <3>1, ReleasedRecords DEF Base
  <2>3. NotQueued(s) /\ \A c \in Contexts : s \notin cx[c].references /\ s \notin InPicture(c)
    BY <1>1, UnusedNotQueued DEF Claims, ArgsOK, InPicture
  <2>4. \A c \in Contexts : Pending(c)' => Pending(c) \/ arg[c] = s
    BY <1>4 DEF Pending, Base, Typed, Actors
  <2> QED
    BY <1>1, <1>2, <2>1, <2>2, <2>3, <2>4, LetGo DEF Freed
<1> QED
  BY <1>3, <1>4 DEF ReleaseLock, AfterRelease

LEMMA ReleaseIndexClaims ==
    ASSUME Base, Claims, NEW a \in Actors, ReleaseIndex(a)
    PROVE  Claims'
<1> DEFINE s == arg[a]
<1>1. s \in Surfaces /\ s # NULL
  BY CallSurface, PictureIndexAssumption DEF ReleaseIndex
<1>2. UNCHANGED arg /\ cx' = CxReleased(s) /\ pc' = [pc EXCEPT ![a] = AfterRelease(a)]
  BY DEF ReleaseIndex, AfterRelease
<1>3. Freed(s)
  BY <1>1, FreeStep DEF Base, ReleaseIndex
<1>4. NotQueued(s) /\ \A c \in Contexts : s \notin cx[c].references /\ s \notin InPicture(c)
  BY <1>1, UnusedNotQueued DEF Claims, ArgsOK, InPicture
<1>5. \A c \in Contexts : Pending(c)' => Pending(c) \/ arg[c] = s
  BY <1>2 DEF Pending, Base, Typed, Actors
<1> QED
  BY <1>1, <1>2, <1>3, <1>4, <1>5, LetGo DEF Freed

LEMMA NvDestroySurfaceClaims ==
    ASSUME Base, Claims, NEW s \in Surfaces, NvDestroySurface(s)
    PROVE  Claims'
<1>1. SurfOnly(s) /\ surf'[s].context = NULL /\ surf'[s].pictureIdx = NONE
  <2>1. surf' = [SurfReleased(s) EXCEPT ![s].live = FALSE]
    BY DEF NvDestroySurface
  <2>2. SurfReleased(s) \in [Surfaces -> SurfRecord] /\ SurfReleased(s)[s].context = NULL
        /\ SurfReleased(s)[s].pictureIdx = NONE
        /\ \A t \in Surfaces : t # s => SurfReleased(s)[t] = surf[t]
    BY SurfReleasedRecords DEF Base
  <2> QED
    BY <2>1, <2>2 DEF SurfRecord, SurfOnly
<1>2. NotQueued(s) /\ Unused(s)
  BY UnusedNotQueued DEF NvDestroySurface
<1>3. cx' = CxReleased(s) /\ UNCHANGED <<pc, arg>>
  BY DEF NvDestroySurface
<1>4. \A c \in Contexts : Pending(c)' => Pending(c)
  BY <1>3 DEF Pending
<1> QED
  BY <1>1, <1>2, <1>3, <1>4, LetGo DEF Unused

LEMMA AssignIndexClaims ==
    ASSUME Base, Claims, NEW c \in Contexts, AssignIndex(c)
    PROVE  Claims'
<1> DEFINE i == Selected(c, Busy(c))
           s == arg[c]
           o == cx[c].owners[i]
<1>1. /\ s \in Surfaces /\ Pending(c) /\ i \in Indices /\ AssignStep(c, s, i)
      /\ pc' = [pc EXCEPT ![c] = "idle"] /\ arg' = [arg EXCEPT ![c] = NULL]
  BY AssignIndexStep DEF Pending
<1>2. s # NULL /\ c \in Actors /\ NULL \notin Surfaces /\ NULL \notin Contexts /\ NONE \notin Indices
      /\ c # NULL
  BY <1>1, PictureIndexAssumption DEF Actors, Indices, NONE
<1>3. \A x \in Contexts : cx[x].owners \in [Indices -> Surfaces \cup {NULL}]
  BY CxFields DEF Base
<1>4. cx[c].state = "live" /\ cx[c].phase = "closed"
  BY <1>1 DEF Base, CallsOK, InCall, Pending
<1>5. surf[s].pictureIdx = NONE /\ surf[s].live
  BY <1>1, <1>2 DEF Claims, ArgsOK
\* The index has no owner, or one that is no reference and has no frame queued.
<1>6. o = NULL \/ /\ o \in Surfaces /\ o # s /\ surf[o].context = c /\ surf[o].pictureIdx = i
                  /\ c \notin AV1 /\ i \notin cx[c].active /\ NotQueued(o)
  <2> SUFFICES ASSUME o # NULL
               PROVE  /\ o \in Surfaces /\ o # s /\ surf[o].context = c /\ surf[o].pictureIdx = i
                      /\ c \notin AV1 /\ i \notin cx[c].active /\ NotQueued(o)
    OBVIOUS
  <2>1. o \in Surfaces /\ surf[o].context = c /\ surf[o].pictureIdx = i /\ o # s
    BY <1>1, <1>2, <1>3, <1>4, <1>5 DEF Claims, OwnersAgree
  <2>2. /\ i < SurfaceLimit(c) /\ c \notin AV1 /\ i \notin cx[c].active /\ i \notin Busy(c)
    <3>1. Busy(c) \in SUBSET Indices
      BY LimitRange DEF Busy, Base
    <3> QED
      BY <1>1, <1>2, <3>1, SelectedIndex
  <2>3. i \in 0 .. SurfaceLimit(c) - 1
    <3>1. i \in Nat /\ SurfaceLimit(c) \in Nat
      BY <1>1, LimitRange DEF Indices, Base
    <3> QED
      BY <2>2, <3>1
  <2>4. ~surf[o].resolving
    BY <2>2, <2>3 DEF Busy
  <2> QED
    BY <2>1, <2>2, <2>4, UnusedNotQueued
<1> HIDE DEF i, s
<1>7. /\ \A x \in Contexts : x # c => cx'[x] = cx[x]
      /\ cx'[c].owners = [cx[c].owners EXCEPT ![i] = s]
      /\ cx'[c].phase = "open" /\ cx'[c].target = s /\ cx'[c].display = s
      /\ cx'[c].building = IF c \in AV1 THEN cx[c].building ELSE {}
      /\ cx'[c].state = cx[c].state /\ cx'[c].active = cx[c].active
      /\ cx'[c].jobs = cx[c].jobs /\ cx'[c].references = cx[c].references
  BY <1>1 DEF AssignStep, CxOnly, SameWork
<1>8. /\ surf' \in [Surfaces -> SurfRecord]
      /\ surf'[s].live = surf[s].live /\ surf'[s].resolving
      /\ surf'[s].context = c /\ surf'[s].pictureIdx = i
      /\ \A t \in Surfaces : t # s =>
            /\ surf'[t].live = surf[t].live /\ surf'[t].resolving = surf[t].resolving
            /\ surf'[t].context = surf[t].context
            /\ t # o => surf'[t].pictureIdx = surf[t].pictureIdx
            /\ surf'[t].pictureIdx \in {NONE, surf[t].pictureIdx}
            /\ t = o => surf'[t].pictureIdx = NONE
  BY <1>1, <1>2, <1>6 DEF AssignStep
<1>9. OwnersAgree' /\ Unattached'
  <2>1. ASSUME NEW x \in Contexts, cx'[x].state = "live", NEW j \in Indices, cx'[x].owners[j] # NULL
        PROVE  LET t == cx'[x].owners[j] IN
               surf'[t].live /\ surf'[t].context = x /\ surf'[t].pictureIdx = j
    <3>1. CASE x = c /\ j = i
      <4>1. cx'[x].owners[j] = s
        BY <1>1, <1>3, <1>7, <3>1
      <4> QED
        BY <1>5, <1>8, <3>1, <4>1
    <3>2. CASE ~(x = c /\ j = i)
      <4> DEFINE t == cx[x].owners[j]
      <4>1. cx'[x].owners[j] = t /\ cx[x].state = "live" /\ t \in Surfaces
        BY <1>1, <1>3, <1>7, <2>1, <3>2
      <4>2. surf[t].live /\ surf[t].context = x /\ surf[t].pictureIdx = j
        BY <1>2, <4>1 DEF Claims, OwnersAgree
      <4>3. t # s /\ t # o
        BY <1>2, <1>5, <1>6, <3>2, <4>1, <4>2
      <4> QED
        BY <1>8, <4>1, <4>2, <4>3
    <3> QED
      BY <3>1, <3>2
  <2>2. ASSUME NEW x \in Contexts, cx'[x].state = "live", NEW t \in Surfaces,
               surf'[t].context = x, surf'[t].pictureIdx # NONE
        PROVE  cx'[x].owners[surf'[t].pictureIdx] = t
    <3>1. CASE t = s
      BY <1>1, <1>3, <1>7, <1>8, <2>2, <3>1
    <3>2. CASE t # s
      <4>1. t # o /\ surf[t].context = x /\ surf'[t].pictureIdx = surf[t].pictureIdx
            /\ cx[x].state = "live"
        BY <1>7, <1>8, <2>2, <3>2
      <4>2. cx[x].owners[surf[t].pictureIdx] = t
        BY <2>2, <4>1 DEF Claims, OwnersAgree
      <4>3. surf[t].pictureIdx \in Indices
        BY <2>2, <4>1, SurfFields DEF Base
      <4> QED
        BY <1>3, <1>7, <4>1, <4>2, <4>3
    <3> QED
      BY <3>1, <3>2
  <2>3. Unattached'
    BY <1>2, <1>8 DEF Claims, Unattached
  <2> QED
    BY <2>1, <2>2, <2>3 DEF OwnersAgree
<1>10. \A b \in Actors : b # c => arg'[b] = arg[b] /\ arg[b] # s
  BY <1>1, <1>2 DEF Base, Typed, Claims, ArgsOK, s
<1>11. arg'[c] = NULL /\ arg \in [Actors -> Surfaces \cup {NULL}]
  BY <1>1, <1>2 DEF Base, Typed
<1>12. \A x \in Contexts : s \notin cx[x].references /\ s \notin InPicture(x)
  BY <1>2 DEF Claims, ArgsOK, InPicture, s
<1>13. InPicture(c)' = {s} /\ \A x \in Contexts : x # c => InPicture(x)' = InPicture(x)
  BY <1>7 DEF InPicture
<1>14. ArgsOK'
  <2>1. ASSUME NEW b \in Actors, arg'[b] # NULL
        PROVE  /\ surf'[arg'[b]].live
               /\ \A x \in Actors : arg'[x] = arg'[b] => b = x
               /\ \A x \in Contexts : arg'[b] \notin cx'[x].references \cup {cx'[x].target, cx'[x].display}
    <3>1. b # c /\ arg'[b] = arg[b] /\ arg[b] # s /\ arg[b] \in Surfaces
      BY <1>10, <1>11, <2>1
    <3>2. \A x \in Actors : arg'[x] = arg'[b] => b = x
      BY <1>10, <1>11, <2>1, <3>1 DEF Claims, ArgsOK
    <3> QED
      BY <1>7, <1>8, <2>1, <3>1, <3>2 DEF Claims, ArgsOK
  <2>2. ASSUME NEW x \in Contexts, Pending(x)' PROVE surf'[arg'[x]].pictureIdx = NONE
    <3>1. x # c /\ Pending(x) /\ x \in Actors
      BY <1>1, <1>2, <2>2 DEF Pending, Base, Typed, Actors
    <3>2. arg'[x] = arg[x] /\ arg[x] \in Surfaces /\ arg[x] # s
      BY <1>10, <3>1, CallSurface DEF Pending
    <3> QED
      BY <1>8, <3>1, <3>2 DEF Claims, ArgsOK
  <2> QED
    BY <2>1, <2>2 DEF ArgsOK
<1>15. PicturesOK'
  <2>1. ASSUME NEW x \in Contexts, cx'[x].phase # "closed", NEW t \in InPicture(x)'
        PROVE  Found(x, t)'
    <3>1. CASE x = c
      <4>1. t = s /\ cx'[c].owners[i] = s
        BY <1>1, <1>3, <1>7, <1>13, <2>1, <3>1
      <4>2. surf'[s].live /\ i # NONE
        BY <1>1, <1>2, <1>5, <1>8
      <4> QED
        BY <1>8, <3>1, <4>1, <4>2 DEF Found
    <3>2. CASE x # c
      <4>1. t \in InPicture(x) /\ t \in Surfaces /\ t # s /\ Found(x, t)
        BY <1>7, <1>12, <1>13, <2>1, <3>2, PictureSurfaces DEF Claims, PicturesOK, InPicture
      <4>2. t # o
        BY <1>2, <1>6, <3>2, <4>1 DEF Found
      <4> QED
        BY <1>7, <1>8, <3>2, <4>1, <4>2 DEF Found
    <3> QED
      BY <3>1, <3>2
  <2>2. ASSUME NEW x \in Contexts, NEW y \in Contexts, NEW t \in InPicture(x)', t # NULL
        PROVE  t \notin cx'[y].references /\ (t \in InPicture(y)' => x = y)
    <3>1. cx'[y].references = cx[y].references
      BY <1>7
    <3>2. CASE x = c
      BY <1>12, <1>13, <3>1, <3>2
    <3>3. CASE x # c
      BY <1>12, <1>13, <2>2, <3>1, <3>3 DEF Claims, PicturesOK
    <3> QED
      BY <3>2, <3>3
  <2> QED
    BY <2>1, <2>2 DEF PicturesOK
<1>16. JobsOK'
  <2>1. \A x \in Contexts : cx'[x].jobs = cx[x].jobs /\ cx'[x].state = cx[x].state
    BY <1>7
  <2>2. NotQueued(s)
    BY <1>1, <1>2, UnusedNotQueued DEF s
  <2>3. ASSUME NEW x \in Contexts, NEW n \in 1 .. Len(cx[x].jobs) PROVE JobOK(x, cx[x].jobs[n])'
    <3> DEFINE job == cx[x].jobs[n]
    <3>1. job.surface \in Surfaces /\ job.surface # s /\ job.surface # o /\ JobOK(x, job)
          /\ job.pictureIdx \in Indices /\ job.surface # NULL
      BY <1>2, <1>6, <2>2, JobFields DEF NotQueued, Claims, JobsOK, JobOK
    <3>2. cx'[x].owners[job.pictureIdx] = job.surface
      BY <1>3, <1>7, <3>1 DEF JobOK
    <3>3. \A b \in Actors : arg'[b] # job.surface
      BY <1>10, <1>11, <3>1 DEF JobOK
    <3>4. \A y \in Contexts : job.surface \notin InPicture(y)'
      BY <1>13, <3>1 DEF JobOK
    <3>5. surf'[job.surface].resolving
      BY <1>8, <3>1 DEF JobOK
    <3> HIDE DEF job
    <3>6. JobOK(x, job)'
      BY <2>1, <3>1, <3>2, <3>3, <3>4, <3>5 DEF JobOK, job
    <3> QED
      BY <3>6 DEF job
  <2> QED
    BY <2>1, <2>3 DEF Claims, JobsOK
<1>17. MasksOK'
  BY <1>7 DEF Claims, MasksOK
<1>18. RefsOK'
  <2>1. ASSUME NamesAll, NEW x \in Contexts, NEW t \in cx[x].references PROVE ReferenceOK(x, t)'
    <3>1. t \in Surfaces /\ t # s /\ ReferenceOK(x, t)
      BY <1>12, <2>1, CxFields DEF Base, Claims, RefsOK
    <3>2. surf[t].pictureIdx \in Indices
      BY <3>1, SurfFields DEF ReferenceOK, Found, Base
    <3>3. t # o
      BY <1>2, <1>6, <3>1 DEF ReferenceOK, Found
    <3>4. Found(x, t)'
      BY <1>3, <1>7, <1>8, <3>1, <3>2, <3>3 DEF ReferenceOK, Found
    <3> QED
      BY <1>7, <1>8, <3>1, <3>3, <3>4 DEF ReferenceOK
  <2> QED
    BY <1>7, <2>1 DEF Claims, RefsOK
<1> QED
  BY <1>9, <1>14, <1>15, <1>16, <1>17, <1>18 DEF Claims

\* Frames for the steps that move no index.
LEMMA BoundStep ==
    ASSUME Base, Claims, SameBinding,
           \A x \in Contexts : cx'[x].owners = cx[x].owners,
           \A x \in Contexts : cx'[x].state = "live" => cx[x].state = "live"
    PROVE  /\ OwnersAgree' /\ Unattached'
           /\ \A x \in Contexts : \A s \in Surfaces : Found(x, s) => Found(x, s)'
<1>1. \A c \in Contexts : \A i \in Indices : cx[c].owners[i] \in Surfaces \cup {NULL}
  BY CxFields DEF Base
<1>2. \A s \in Surfaces : surf[s].pictureIdx \in Indices \cup {NONE}
  BY SurfFields DEF Base
<1>3. OwnersAgree' /\ Unattached'
  BY <1>1, <1>2 DEF Claims, OwnersAgree, Unattached, SameBinding
<1>4. \A x \in Contexts : \A s \in Surfaces : Found(x, s) => Found(x, s)'
  BY DEF Found, SameBinding
<1> QED
  BY <1>3, <1>4

LEMMA ArgsFrame ==
    ASSUME Base, Claims, UNCHANGED <<pc, arg>>, SameBinding,
           \A a \in Actors : arg[a] # NULL =>
               \A x \in Contexts : arg[a] \notin cx'[x].references /\ arg[a] \notin InPicture(x)'
    PROVE  ArgsOK'
<1>1. \A a \in Actors : arg[a] \in Surfaces \cup {NULL}
  BY DEF Base, Typed
<1>2. \A c \in Contexts : Pending(c) => arg[c] \in Surfaces
  BY CallSurface DEF Pending, Actors
<1>3. \A c \in Contexts : Pending(c)' <=> Pending(c)
  BY DEF Pending
<1> QED
  BY <1>1, <1>2, <1>3 DEF Claims, ArgsOK, SameBinding, InPicture

LEMMA JobsFrame ==
    ASSUME Base, Claims, UNCHANGED arg,
           \A x \in Contexts : cx'[x].owners = cx[x].owners /\ cx'[x].state = cx[x].state
                               /\ cx'[x].jobs = cx[x].jobs,
           \A t \in Surfaces : NotQueued(t) \/
               (surf'[t].resolving = surf[t].resolving /\ \A x \in Contexts : t \notin InPicture(x)')
    PROVE  JobsOK'
<1>1. ASSUME NEW x \in Contexts, NEW n \in 1 .. Len(cx[x].jobs) PROVE JobOK(x, cx[x].jobs[n])'
  <2> DEFINE job == cx[x].jobs[n]
  <2>1. job.surface \in Surfaces /\ ~NotQueued(job.surface) /\ JobOK(x, job)
    BY JobFields DEF NotQueued, Claims, JobsOK
  <2> HIDE DEF job
  <2>2. surf'[job.surface].resolving /\ \A y \in Contexts : job.surface \notin InPicture(y)'
    BY <2>1 DEF JobOK
  <2>3. cx'[x].jobs[n] = job
    BY DEF job
  <2> QED
    BY <2>1, <2>2, <2>3 DEF JobOK
<1> QED
  BY <1>1 DEF Claims, JobsOK

LEMMA NvBeginPictureClaims ==
    ASSUME Base, Claims, NEW c \in Contexts, NEW s \in Surfaces, NvBeginPicture(c, s)
    PROVE  Claims'
<1>1. surf[s].live /\ Unused(s) /\ NotQueued(s) /\ c \in Actors
  BY UnusedNotQueued DEF NvBeginPicture, Actors
<1>2. ASSUME NEW p \in {"release", "assign"}, pc' = [pc EXCEPT ![c] = p],
             arg' = [arg EXCEPT ![c] = s], UNCHANGED <<surf, cx>>,
             p = "assign" => surf[s].pictureIdx = NONE
      PROVE  Claims'
  <2>1. SameBinding /\ \A t \in Surfaces : surf'[t].resolving = surf[t].resolving
    BY <1>2 DEF SameBinding
  <2>2. \A x \in Contexts : Pending(x)' =>
            \/ Pending(x) /\ arg'[x] = arg[x]
            \/ arg'[x] \in Surfaces /\ surf[arg'[x]].pictureIdx = NONE
    BY <1>1, <1>2 DEF Pending, Base, Typed, Actors
  <2> QED
    BY <1>1, <1>2, <2>1, <2>2, CallClaims
<1>3. ASSUME surf[s].context \in {NULL, c}, surf[s].pictureIdx # NONE,
             surf' = [surf EXCEPT ![s].resolving = TRUE],
             cx' = [cx EXCEPT ![c] = Opened(@, c, s)], UNCHANGED <<pc, arg>>,
             cx[c].state = "live"
      PROVE  Claims'
  <2>1. Flagged(s, TRUE) /\ OpenStep(c, s)
    BY <1>3, FlagStep, OpenedStep DEF Base
  <2>2. /\ \A x \in Contexts : x # c => cx'[x] = cx[x]
        /\ cx'[c].phase = "open" /\ cx'[c].target = s /\ cx'[c].display = s
        /\ cx'[c].building = IF c \in AV1 THEN cx[c].building ELSE {}
        /\ cx'[c].state = cx[c].state /\ cx'[c].active = cx[c].active
        /\ cx'[c].owners = cx[c].owners
        /\ cx'[c].jobs = cx[c].jobs /\ cx'[c].references = cx[c].references
    BY <2>1 DEF OpenStep, CxOnly, SameOwners, SameWork
  <2>3. SameBinding /\ \A t \in Surfaces : NotQueued(t) \/ surf'[t].resolving = surf[t].resolving
    BY <1>1, <2>1, FlaggedBinding
  <2>4. /\ OwnersAgree' /\ Unattached'
        /\ \A x \in Contexts : \A t \in Surfaces : Found(x, t) => Found(x, t)'
    BY <2>2, <2>3, BoundStep
  <2>5. InPicture(c)' = {s} /\ \A x \in Contexts : x # c => InPicture(x)' = InPicture(x)
    BY <2>2 DEF InPicture
  <2>6. Found(c, s)
    BY <1>1, <1>3 DEF Claims, Unattached, OwnersAgree, Found
  <2>7. ArgsOK'
    <3>1. \A a \in Actors : arg[a] # NULL =>
               \A x \in Contexts : arg[a] \notin cx'[x].references /\ arg[a] \notin InPicture(x)'
      BY <1>1, <2>2, <2>5 DEF Unused, Claims, ArgsOK, InPicture
    <3> QED
      BY <1>3, <2>3, <3>1, ArgsFrame
  <2>8. PicturesOK'
    <3>1. ASSUME NEW x \in Contexts, cx'[x].phase # "closed", NEW t \in InPicture(x)'
          PROVE  Found(x, t)'
      <4>1. CASE x = c
        BY <2>4, <2>5, <2>6, <3>1, <4>1
      <4>2. CASE x # c
        BY <2>2, <2>4, <2>5, <3>1, <4>2, PictureSurfaces DEF Claims, PicturesOK, InPicture
      <4> QED
        BY <4>1, <4>2
    <3>2. ASSUME NEW x \in Contexts, NEW y \in Contexts, NEW t \in InPicture(x)', t # NULL
          PROVE  t \notin cx'[y].references /\ (t \in InPicture(y)' => x = y)
      <4>1. cx'[y].references = cx[y].references
        BY <2>2
      <4>2. CASE x = c
        BY <1>1, <2>5, <4>1, <4>2 DEF Unused
      <4>3. CASE x # c
        BY <1>1, <2>5, <3>2, <4>1, <4>3 DEF Unused, Claims, PicturesOK
      <4> QED
        BY <4>2, <4>3
    <3> QED
      BY <3>1, <3>2 DEF PicturesOK
  <2>9. JobsOK'
    <3>1. \A t \in Surfaces : NotQueued(t) \/
             (surf'[t].resolving = surf[t].resolving /\ \A x \in Contexts : t \notin InPicture(x)')
      BY <1>1, <2>3, <2>5, UnusedNotQueued
    <3>2. \A x \in Contexts : cx'[x].owners = cx[x].owners /\ cx'[x].state = cx[x].state
                               /\ cx'[x].jobs = cx[x].jobs
      BY <2>2
    <3> QED
      BY <1>3, <3>1, <3>2, JobsFrame
  <2>10. MasksOK'
    BY <2>2 DEF Claims, MasksOK
  <2>11. RefsOK'
    <3>1. ASSUME NamesAll, NEW x \in Contexts, NEW t \in cx[x].references PROVE ReferenceOK(x, t)'
      <4>1. t \in Surfaces /\ ReferenceOK(x, t)
        BY <3>1, CxFields DEF Base, Claims, RefsOK
      <4>2. Found(x, t)' /\ surf'[t].pictureIdx = surf[t].pictureIdx
        BY <2>3, <2>4, <4>1 DEF ReferenceOK, SameBinding
      <4> QED
        BY <2>2, <4>1, <4>2 DEF ReferenceOK
    <3> QED
      BY <2>2, <3>1 DEF Claims, RefsOK
  <2> QED
    BY <2>4, <2>7, <2>8, <2>9, <2>10, <2>11 DEF Claims
<1> QED
  BY <1>2, <1>3 DEF NvBeginPicture

\* A picture gets its references, or a display of its own.
LEMMA RenderClaims ==
    ASSUME Base, Claims, NEW c \in Contexts, NEW d \in Surfaces, NEW b \in SUBSET Indices,
           RenderStep(c, d, b), cx[c].phase = "open", UNCHANGED <<surf, pc, arg>>,
           \/ d = cx[c].display
           \/ Unused(d) /\ NotQueued(d) /\ Found(c, d),
           NamesAll /\ c \notin AV1 => \A t \in cx[c].references : surf[t].pictureIdx \in b
    PROVE  Claims'
<1>1. /\ \A x \in Contexts : x # c => cx'[x] = cx[x]
      /\ cx'[c].phase = "rendered" /\ cx'[c].target = cx[c].target /\ cx'[c].display = d
      /\ cx'[c].building = b
      /\ cx'[c].state = cx[c].state /\ cx'[c].active = cx[c].active
      /\ cx'[c].owners = cx[c].owners
      /\ cx'[c].jobs = cx[c].jobs /\ cx'[c].references = cx[c].references
  BY DEF RenderStep, CxOnly, SameOwners, SameWork
<1>2. SameBinding
  BY DEF SameBinding
<1>3. /\ OwnersAgree' /\ Unattached'
      /\ \A x \in Contexts : \A t \in Surfaces : Found(x, t) => Found(x, t)'
  BY <1>1, <1>2, BoundStep
<1>4. InPicture(c)' \subseteq InPicture(c) \cup {d}
      /\ \A x \in Contexts : x # c => InPicture(x)' = InPicture(x)
  BY <1>1 DEF InPicture
<1>5. cx[c].target \in Surfaces /\ cx[c].display \in Surfaces /\ cx[c].target \in InPicture(c)
      /\ cx[c].display \in InPicture(c)
  BY PictureSurfaces DEF InPicture
<1>6. d \in InPicture(c) \/ (Unused(d) /\ NotQueued(d))
  BY <1>5
<1>7. Found(c, d) /\ \A t \in InPicture(c) : Found(c, t) /\ t \in Surfaces
  BY <1>5 DEF Claims, PicturesOK, InPicture
<1>8. ArgsOK'
  <2>1. \A a \in Actors : arg[a] # NULL =>
             \A x \in Contexts : arg[a] \notin cx'[x].references /\ arg[a] \notin InPicture(x)'
    BY <1>1, <1>4, <1>6 DEF Unused, Claims, ArgsOK, InPicture
  <2> QED
    BY <1>2, <2>1, ArgsFrame
<1>9. PicturesOK'
  <2>1. ASSUME NEW x \in Contexts, cx'[x].phase # "closed", NEW t \in InPicture(x)'
        PROVE  Found(x, t)'
    <3>1. CASE x = c
      BY <1>3, <1>4, <1>7, <2>1, <3>1
    <3>2. CASE x # c
      BY <1>1, <1>3, <1>4, <2>1, <3>2, PictureSurfaces DEF Claims, PicturesOK, InPicture
    <3> QED
      BY <3>1, <3>2
  <2>2. ASSUME NEW x \in Contexts, NEW y \in Contexts, NEW t \in InPicture(x)', t # NULL
        PROVE  t \notin cx'[y].references /\ (t \in InPicture(y)' => x = y)
    <3>1. cx'[y].references = cx[y].references
      BY <1>1
    <3>2. \A z \in Contexts : t \in InPicture(z)' => t \in InPicture(z) \/ (z = c /\ t = d /\ Unused(t))
      BY <1>4, <1>6
    <3> QED
      BY <2>2, <3>1, <3>2 DEF Unused, Claims, PicturesOK
  <2> QED
    BY <2>1, <2>2 DEF PicturesOK
<1>10. JobsOK'
  <2>1. \A t \in Surfaces : NotQueued(t) \/
           (surf'[t].resolving = surf[t].resolving /\ \A x \in Contexts : t \notin InPicture(x)')
    BY <1>4, <1>6, UnusedNotQueued
  <2> QED
    BY <1>1, <2>1, JobsFrame
<1>11. MasksOK'
  BY <1>1 DEF Claims, MasksOK
<1>12. RefsOK'
  <2>1. ASSUME NamesAll, NEW x \in Contexts, NEW t \in cx[x].references PROVE ReferenceOK(x, t)'
    <3>1. t \in Surfaces /\ ReferenceOK(x, t)
      BY <2>1, CxFields DEF Base, Claims, RefsOK
    <3>2. Found(x, t)'
      BY <1>3, <3>1 DEF ReferenceOK
    <3> QED
      BY <1>1, <2>1, <3>1, <3>2 DEF ReferenceOK
  <2> QED
    BY <1>1, <2>1 DEF Claims, RefsOK
<1> QED
  BY <1>3, <1>8, <1>9, <1>10, <1>11, <1>12 DEF Claims

LEMMA RenderReferencesClaims ==
    ASSUME Base, Claims, NEW c \in Contexts, NEW named \in SUBSET Surfaces, RenderReferences(c, named)
    PROVE  Claims'
<1> DEFINE b == IF c \in AV1 THEN cx[c].building ELSE cx[c].building \cup NamedIndices(c, named)
<1>1. RenderStep(c, cx[c].display, b)
  BY RenderReferencesStep
<1>2. NamedIndices(c, named) \subseteq Indices
  BY SurfFields DEF NamedIndices, Found, Base
<1>3. b \in SUBSET Indices
  BY <1>2 DEF Claims, MasksOK
<1>4. ASSUME NamesAll, c \notin AV1, NEW t \in cx[c].references PROVE surf[t].pictureIdx \in b
  <2>1. t \in named /\ Found(c, t)
    BY <1>4 DEF RenderReferences, Claims, RefsOK, ReferenceOK
  <2> QED
    BY <1>4, <2>1 DEF NamedIndices
<1>5. cx[c].display \in Surfaces
  BY PictureSurfaces DEF RenderReferences
<1> HIDE DEF b
<1> QED
  BY <1>1, <1>3, <1>4, <1>5, RenderClaims DEF RenderReferences

LEMMA RenderFilmGrainClaims ==
    ASSUME ~ForeignDisplay, Base, Claims, NEW c \in Contexts, NEW d \in Surfaces, RenderFilmGrain(c, d)
    PROVE  Claims'
<1>1. RenderStep(c, d, cx[c].building)
  BY RenderFilmGrainStep
<1>2. Unused(d) /\ NotQueued(d)
  BY UnusedNotQueued DEF RenderFilmGrain
<1>3. Found(c, d)
  <2>1. surf[d].live /\ surf[d].context = c /\ surf[d].pictureIdx # NONE /\ cx[c].state = "live"
    BY PictureSurfaces DEF RenderFilmGrain, NONE
  <2> QED
    BY <2>1 DEF Claims, OwnersAgree, Found
<1>4. cx[c].building \in SUBSET Indices
  BY DEF Claims, MasksOK
<1> QED
  BY <1>1, <1>2, <1>3, <1>4, RenderClaims DEF RenderFilmGrain

\* The end of a picture, apart from its frame and the references.
LEMMA EndFrame ==
    ASSUME Base, Claims, NEW c \in Contexts, NEW queued \in BOOLEAN, EndStep(c, queued),
           cx[c].phase # "closed", UNCHANGED <<pc, arg>>,
           NEW kept \in SUBSET Surfaces, cx'[c].references = kept,
           kept \subseteq cx[c].references \cup {cx[c].target}
    PROVE  /\ SameBinding /\ OwnersAgree' /\ Unattached' /\ ArgsOK' /\ PicturesOK'
           /\ \A x \in Contexts : x # c => cx'[x] = cx[x]
           /\ \A x \in Contexts : \A t \in Surfaces : Found(x, t) => Found(x, t)'
           /\ InPicture(c)' = {NULL}
           /\ \A x \in Contexts : x # c => InPicture(x)' = InPicture(x)
           /\ Found(c, cx[c].target) /\ Found(c, cx[c].display)
           /\ \A t \in Surfaces : t \in InPicture(c) \/ surf'[t].resolving = surf[t].resolving
           /\ cx'[c].owners = cx[c].owners
<1> DEFINE t == cx[c].target
           d == cx[c].display
<1>1. /\ \A s \in Surfaces :
          /\ surf'[s].live = surf[s].live /\ surf'[s].pictureIdx = surf[s].pictureIdx
          /\ s # d => surf'[s].context = surf[s].context
          /\ s \notin {t, d} => surf'[s].resolving = surf[s].resolving
          /\ s = d => surf'[s].context \in {surf[s].context, c}
      /\ \A x \in Contexts : x # c => cx'[x] = cx[x]
      /\ cx'[c].phase = "closed" /\ cx'[c].target = NULL /\ cx'[c].display = NULL
      /\ cx'[c].state = cx[c].state /\ cx'[c].owners = cx[c].owners
  BY DEF EndStep, CxOnly, SameOwners
<1>2. t \in Surfaces /\ d \in Surfaces /\ InPicture(c) = {t, d} /\ NULL \notin Surfaces
  BY PictureSurfaces, PictureIndexAssumption DEF InPicture
<1>3. Found(c, t) /\ Found(c, d)
  BY <1>2 DEF Claims, PicturesOK
<1>4. SameBinding
  BY <1>1, <1>2, <1>3 DEF SameBinding, Found
<1>5. \A x \in Contexts : cx'[x].owners = cx[x].owners /\ cx'[x].state = cx[x].state
  BY <1>1
<1>6. /\ OwnersAgree' /\ Unattached'
      /\ \A x \in Contexts : \A s \in Surfaces : Found(x, s) => Found(x, s)'
  BY <1>4, <1>5, BoundStep
<1>7. InPicture(c)' = {NULL} /\ \A x \in Contexts : x # c => InPicture(x)' = InPicture(x)
  BY <1>1 DEF InPicture
<1>8. \A s \in Surfaces : s \in InPicture(c) \/ surf'[s].resolving = surf[s].resolving
  BY <1>1, <1>2
<1>9. ArgsOK'
  <2>1. ASSUME NEW a \in Actors, arg[a] # NULL, NEW x \in Contexts
        PROVE  arg[a] \notin cx'[x].references /\ arg[a] \notin InPicture(x)'
    <3>1. \A y \in Contexts : arg[a] \notin cx[y].references /\ arg[a] \notin InPicture(y)
      BY <2>1 DEF Claims, ArgsOK, InPicture
    <3> QED
      BY <1>1, <1>2, <1>7, <2>1, <3>1
  <2> QED
    BY <1>4, <2>1, ArgsFrame
<1>10. PicturesOK'
  <2>1. ASSUME NEW x \in Contexts, cx'[x].phase # "closed", NEW s \in InPicture(x)'
        PROVE  Found(x, s)'
    <3>1. x # c /\ cx[x].phase # "closed" /\ s \in InPicture(x)
      BY <1>1, <1>7, <2>1
    <3>2. s \in Surfaces /\ Found(x, s)
      BY <3>1, PictureSurfaces DEF Claims, PicturesOK, InPicture
    <3> QED
      BY <1>6, <3>2
  <2>2. ASSUME NEW x \in Contexts, NEW y \in Contexts, NEW s \in InPicture(x)', s # NULL
        PROVE  s \notin cx'[y].references /\ (s \in InPicture(y)' => x = y)
    <3>1. x # c /\ s \in InPicture(x)
      BY <1>7, <2>2
    <3>2. s \notin InPicture(c) /\ \A z \in Contexts : s \notin cx[z].references /\ (s \in InPicture(z) => x = z)
      BY <2>2, <3>1 DEF Claims, PicturesOK
    <3>3. s \notin cx'[y].references
      BY <1>1, <1>2, <3>2
    <3> QED
      BY <1>7, <2>2, <3>1, <3>2, <3>3
  <2> QED
    BY <2>1, <2>2 DEF PicturesOK
<1> QED
  BY <1>1, <1>3, <1>4, <1>6, <1>7, <1>8, <1>9, <1>10

LEMMA EndFailClaims ==
    ASSUME Base, Claims, NEW c \in Contexts, EndFail(c)
    PROVE  Claims'
<1>1. EndStep(c, FALSE) /\ cx'[c].active = cx[c].active /\ SameWork(cx'[c], cx[c])
  BY EndFailStep
<1>2. cx[c].phase # "closed" /\ UNCHANGED <<pc, arg>>
  BY DEF EndFail
<1>3. cx[c].references \in SUBSET Surfaces /\ cx'[c].references = cx[c].references
      /\ cx'[c].jobs = cx[c].jobs
  BY <1>1, CxFields DEF Base, SameWork
<1>4. /\ SameBinding /\ OwnersAgree' /\ Unattached' /\ ArgsOK' /\ PicturesOK'
      /\ \A x \in Contexts : x # c => cx'[x] = cx[x]
      /\ \A x \in Contexts : \A t \in Surfaces : Found(x, t) => Found(x, t)'
      /\ InPicture(c)' = {NULL}
      /\ \A x \in Contexts : x # c => InPicture(x)' = InPicture(x)
      /\ \A t \in Surfaces : t \in InPicture(c) \/ surf'[t].resolving = surf[t].resolving
  BY <1>1, <1>2, <1>3, EndFrame
<1>5. cx'[c].phase = "closed" /\ cx'[c].state = cx[c].state /\ cx'[c].building = cx[c].building
      /\ cx'[c].owners = cx[c].owners
  BY <1>1 DEF EndStep, SameOwners
<1>6. JobsOK'
  <2>1. ASSUME NEW t \in Surfaces, ~NotQueued(t)
        PROVE  surf'[t].resolving = surf[t].resolving /\ \A x \in Contexts : t \notin InPicture(x)'
    <3>1. \A x \in Contexts : t \notin InPicture(x)
      BY <2>1, UnusedNotQueued
    <3> QED
      BY <1>4, <3>1, PictureIndexAssumption
  <2>2. \A x \in Contexts : cx'[x].owners = cx[x].owners /\ cx'[x].state = cx[x].state
                             /\ cx'[x].jobs = cx[x].jobs
    BY <1>3, <1>4, <1>5
  <2> QED
    BY <1>2, <2>1, <2>2, JobsFrame
<1>7. MasksOK'
  BY <1>1, <1>4, <1>5 DEF Claims, MasksOK
<1>8. RefsOK'
  <2>1. ASSUME NamesAll, NEW x \in Contexts, NEW t \in cx[x].references PROVE ReferenceOK(x, t)'
    <3>1. t \in Surfaces /\ ReferenceOK(x, t)
      BY <2>1, CxFields DEF Base, Claims, RefsOK
    <3>2. Found(x, t)' /\ surf'[t].pictureIdx = surf[t].pictureIdx
      BY <1>4, <3>1 DEF ReferenceOK, SameBinding
    <3> QED
      BY <1>1, <1>4, <1>5, <3>1, <3>2 DEF ReferenceOK
  <2> QED
    BY <1>3, <1>4, <1>5, <2>1 DEF Claims, RefsOK
<1> QED
  BY <1>4, <1>6, <1>7, <1>8 DEF Claims

\* JobOK in the next state.
JobNext(c, job) ==
    /\ job.pictureIdx # NONE /\ cx'[c].owners[job.pictureIdx] = job.surface
    /\ surf'[job.surface].resolving
    /\ \A a \in Actors : arg'[a] # job.surface
    /\ \A x \in Contexts : job.surface \notin InPicture(x)'

LEMMA JobsNext ==
    ASSUME \A x \in Contexts :
              /\ cx'[x].jobs # <<>> => cx'[x].state = "live"
              /\ \A n \in 1 .. Len(cx'[x].jobs) :
                  /\ JobNext(x, cx'[x].jobs[n])
                  /\ \A m \in 1 .. Len(cx'[x].jobs) :
                        cx'[x].jobs[m].surface = cx'[x].jobs[n].surface => m = n
    PROVE  JobsOK'
BY DEF JobsOK, JobOK, JobNext

LEMMA EndDecodeClaims ==
    ASSUME Base, Claims, NEW c \in Contexts, NEW ok \in BOOLEAN, NEW queued \in BOOLEAN,
           NEW kept \in SUBSET Surfaces, EndDecode(c, ok, queued, kept)
    PROVE  Claims'
<1> DEFINE t == cx[c].target
           d == cx[c].display
           new == [surface |-> d, pictureIdx |-> surf[d].pictureIdx]
<1>1. Decoded(c, ok, queued, kept)
  BY EndDecodeStep
<1>2. /\ EndStep(c, queued)
      /\ cx'[c].active = IF ok /\ c \notin AV1 THEN cx[c].building \cup {surf[t].pictureIdx}
                         ELSE cx[c].active
      /\ cx'[c].jobs = IF queued THEN Append(cx[c].jobs, new) ELSE cx[c].jobs
      /\ cx'[c].references = kept
  BY <1>1 DEF Decoded
<1>3. cx[c].phase = "rendered" /\ UNCHANGED <<pc, arg>>
      /\ kept \subseteq cx[c].references \cup (IF ok /\ queued THEN {t} ELSE {})
  BY DEF EndDecode
<1>4. kept \subseteq cx[c].references \cup {t}
  BY <1>3
<1>5. /\ SameBinding /\ OwnersAgree' /\ Unattached' /\ ArgsOK' /\ PicturesOK'
      /\ \A x \in Contexts : x # c => cx'[x] = cx[x]
      /\ \A x \in Contexts : \A s \in Surfaces : Found(x, s) => Found(x, s)'
      /\ InPicture(c)' = {NULL}
      /\ \A x \in Contexts : x # c => InPicture(x)' = InPicture(x)
      /\ Found(c, t) /\ Found(c, d)
      /\ \A s \in Surfaces : s \in InPicture(c) \/ surf'[s].resolving = surf[s].resolving
      /\ cx'[c].owners = cx[c].owners
  BY <1>2, <1>3, <1>4, EndFrame
<1>6. /\ cx'[c].phase = "closed" /\ cx'[c].state = cx[c].state /\ cx'[c].building = cx[c].building
      /\ surf'[d].resolving = queued
  BY <1>2, PictureSurfaces, <1>3 DEF EndStep, SameOwners
<1>7. t \in Surfaces /\ d \in Surfaces /\ cx[c].state = "live" /\ NULL \notin Surfaces
      /\ d \in InPicture(c) /\ t \in InPicture(c)
      /\ surf[t].pictureIdx \in Indices /\ surf[d].pictureIdx \in Indices
  BY <1>3, <1>5, PictureSurfaces, SurfFields, PictureIndexAssumption DEF InPicture, Found, Base
<1>8. JobsOK'
  \* The frames that were queued before.
  <2>1. ASSUME NEW x \in Contexts, NEW n \in 1 .. Len(cx[x].jobs)
        PROVE  JobNext(x, cx[x].jobs[n])
    <3> DEFINE job == cx[x].jobs[n]
    <3>1. job.surface \in Surfaces /\ JobOK(x, job)
      BY JobFields DEF Claims, JobsOK
    <3> HIDE DEF job
    <3>2. \A y \in Contexts : job.surface \notin InPicture(y)
      BY <3>1 DEF JobOK
    <3>3. surf'[job.surface].resolving /\ \A y \in Contexts : job.surface \notin InPicture(y)'
      BY <1>5, <1>7, <3>1, <3>2 DEF JobOK
    <3>4. cx'[x].owners = cx[x].owners
      BY <1>5
    <3>5. JobNext(x, job)
      BY <1>3, <3>1, <3>3, <3>4 DEF JobOK, JobNext
    <3> QED
      BY <3>5 DEF job
  \* The new one.
  <2>2. NotQueued(d)
    BY <1>7, UnusedNotQueued
  <2>3. ASSUME queued PROVE JobNext(c, new)
    <3>1. \A a \in Actors : arg[a] # d
      BY <1>7 DEF Claims, ArgsOK, InPicture
    <3>2. \A x \in Contexts : d \notin InPicture(x)'
      BY <1>5, <1>7 DEF Claims, PicturesOK
    <3>3. cx'[c].owners[surf[d].pictureIdx] = d /\ surf[d].pictureIdx # NONE
      BY <1>5 DEF Found
    <3>4. surf'[d].resolving
      BY <1>6, <2>3
    <3>5. new.surface = d /\ new.pictureIdx = surf[d].pictureIdx
      OBVIOUS
    <3> HIDE DEF new
    <3> QED
      BY <1>3, <3>1, <3>2, <3>3, <3>4, <3>5 DEF JobNext
  <2>4. \A x \in Contexts : x # c => cx'[x].jobs = cx[x].jobs /\ cx'[x].state = cx[x].state
    BY <1>5
  <2>5. cx[c].jobs \in Seq(Job) /\ new.surface = d
    BY CxFields DEF Base
  <2>6. ASSUME NEW x \in Contexts
        PROVE  /\ cx'[x].jobs # <<>> => cx'[x].state = "live"
               /\ \A n \in 1 .. Len(cx'[x].jobs) :
                   /\ JobNext(x, cx'[x].jobs[n])
                   /\ \A m \in 1 .. Len(cx'[x].jobs) :
                         cx'[x].jobs[m].surface = cx'[x].jobs[n].surface => m = n
    <3>0. \A n, m \in 1 .. Len(cx[x].jobs) : cx[x].jobs[m].surface = cx[x].jobs[n].surface => m = n
      BY DEF Claims, JobsOK
    <3>1. CASE cx'[x].jobs = cx[x].jobs
      BY <1>6, <1>7, <2>1, <2>4, <3>0, <3>1 DEF Claims, JobsOK
    <3>2. CASE x = c /\ queued
      <4> HIDE DEF new, d
      <4>1. cx'[c].jobs = Append(cx[c].jobs, new)
        BY <1>2, <3>2
      <4>2. /\ Len(cx'[c].jobs) = Len(cx[c].jobs) + 1 /\ Len(cx[c].jobs) \in Nat
            /\ \A n \in 1 .. Len(cx[c].jobs) : cx'[c].jobs[n] = cx[c].jobs[n]
            /\ cx'[c].jobs[Len(cx[c].jobs) + 1] = new
        BY <2>5, <4>1
      <4>3. \A n \in 1 .. Len(cx'[c].jobs) : n \in 1 .. Len(cx[c].jobs) \/ n = Len(cx[c].jobs) + 1
        BY <4>2
      <4>4. \A n \in 1 .. Len(cx'[c].jobs) : JobNext(c, cx'[c].jobs[n])
        BY <2>1, <2>3, <3>2, <4>2, <4>3
      <4>5. \A n \in 1 .. Len(cx[c].jobs) : cx[c].jobs[n].surface # new.surface
        BY <2>2, <2>5 DEF NotQueued
      <4>6. ASSUME NEW n \in 1 .. Len(cx'[c].jobs), NEW m \in 1 .. Len(cx'[c].jobs),
                   cx'[c].jobs[m].surface = cx'[c].jobs[n].surface
            PROVE  m = n
        BY <3>0, <3>2, <4>2, <4>3, <4>5, <4>6
      <4> QED
        BY <1>6, <1>7, <3>2, <4>4, <4>6
    <3> QED
      BY <1>2, <2>4, <3>1, <3>2
  <2> QED
    BY <2>6, JobsNext
<1>9. MasksOK'
  BY <1>2, <1>5, <1>6, <1>7 DEF Claims, MasksOK
<1>10. RefsOK'
  <2>1. ASSUME NamesAll, NEW x \in Contexts, NEW s \in cx'[x].references PROVE ReferenceOK(x, s)'
    <3>1. CASE x # c \/ s \in cx[c].references
      <4>1. s \in cx[x].references
        BY <1>5, <2>1, <3>1
      <4>2. s \in Surfaces /\ ReferenceOK(x, s)
        BY <2>1, <4>1, CxFields DEF Base, Claims, RefsOK
      <4>3. Found(x, s)' /\ surf'[s].pictureIdx = surf[s].pictureIdx
        BY <1>5, <4>2 DEF ReferenceOK, SameBinding
      <4>4. CASE x # c
        BY <1>5, <4>2, <4>3, <4>4 DEF ReferenceOK
      <4>5. CASE x = c
        BY <1>2, <1>3, <1>6, <4>2, <4>3, <4>5 DEF ReferenceOK
      <4> QED
        BY <4>4, <4>5
    <3>2. CASE x = c /\ s \notin cx[c].references
      <4>1. s = t /\ ok
        BY <1>2, <1>3, <2>1, <3>2
      <4>2. Found(x, s)' /\ surf'[s].pictureIdx = surf[s].pictureIdx
        BY <1>5, <1>7, <3>2, <4>1 DEF SameBinding
      <4> QED
        BY <1>2, <1>6, <3>2, <4>1, <4>2 DEF ReferenceOK
    <3> QED
      BY <3>1, <3>2
  <2>2. \A x \in Contexts : cx'[x].references # {} => cx'[x].state = "live"
    BY <1>5, <1>6, <1>7 DEF Claims, RefsOK
  <2> QED
    BY <2>1, <2>2 DEF RefsOK
<1> QED
  BY <1>5, <1>8, <1>9, <1>10 DEF Claims

LEMMA WorkerResolveClaims ==
    ASSUME Base, Claims, NEW c \in Contexts, WorkerResolve(c)
    PROVE  Claims'
<1> DEFINE h == Head(cx[c].jobs).surface
<1>1. WorkStep(c) /\ UNCHANGED <<pc, arg>>
  BY WorkerResolveStep DEF WorkerResolve
<1>2. cx[c].jobs \in Seq(Job) /\ cx[c].jobs # <<>>
  BY CxFields DEF Base, WorkerResolve
<1>3. 1 \in 1 .. Len(cx[c].jobs) /\ Head(cx[c].jobs) = cx[c].jobs[1]
  BY <1>2
<1>4. /\ h \in Surfaces /\ Flagged(h, FALSE)
      /\ \A x \in Contexts : x # c => cx'[x] = cx[x]
      /\ cx'[c].jobs = Tail(cx[c].jobs) /\ cx'[c].references = cx[c].references
      /\ cx'[c].state = cx[c].state /\ cx'[c].owners = cx[c].owners
      /\ SameMasks(cx'[c], cx[c]) /\ SamePicture(cx'[c], cx[c])
  BY <1>1 DEF WorkStep, CxOnly, SameOwners
<1>5. SameBinding /\ \A t \in Surfaces : t # h => surf'[t].resolving = surf[t].resolving
  BY <1>4 DEF Flagged, SurfOnly, SameBinding
<1> HIDE DEF h
<1>6. \A x \in Contexts : cx'[x].owners = cx[x].owners /\ cx'[x].state = cx[x].state
        /\ cx'[x].references = cx[x].references /\ InPicture(x)' = InPicture(x)
        /\ cx'[x].active = cx[x].active /\ cx'[x].building = cx[x].building
        /\ cx'[x].phase = cx[x].phase
  BY <1>4 DEF InPicture, SameMasks, SamePicture
<1>7. /\ OwnersAgree' /\ Unattached'
      /\ \A x \in Contexts : \A s \in Surfaces : Found(x, s) => Found(x, s)'
  BY <1>5, <1>6, BoundStep
<1>8. ArgsOK'
  BY <1>1, <1>5, <1>6, ArgsFrame DEF Claims, ArgsOK, InPicture
<1>9. PicturesOK'
  <2>1. \A x \in Contexts : cx[x].phase # "closed" => InPicture(x) \subseteq Surfaces
    BY PictureSurfaces DEF InPicture
  <2> QED
    BY <1>6, <1>7, <2>1 DEF Claims, PicturesOK
<1>10. JobsOK'
  <2>1. ASSUME NEW x \in Contexts, NEW n \in 1 .. Len(cx[x].jobs), cx[x].jobs[n].surface # h
        PROVE  JobNext(x, cx[x].jobs[n])
    <3> DEFINE job == cx[x].jobs[n]
    <3>1. job.surface \in Surfaces /\ JobOK(x, job)
      BY JobFields DEF Claims, JobsOK
    <3> HIDE DEF job
    <3>2. job.surface # h
      BY <2>1 DEF job
    <3>3. JobNext(x, job)
      BY <1>1, <1>5, <1>6, <3>1, <3>2 DEF JobOK, JobNext
    <3> QED
      BY <3>3 DEF job
  <2>2. ASSUME NEW x \in Contexts, x # c, NEW n \in 1 .. Len(cx[x].jobs)
        PROVE  cx[x].jobs[n].surface # h
    <3>1. surf[cx[x].jobs[n].surface].context = x /\ surf[h].context = c
      BY <1>3, JobOwner DEF h
    <3> QED
      BY <2>2, <3>1
  <2>3. ASSUME NEW n \in 1 .. Len(cx[c].jobs), n # 1 PROVE cx[c].jobs[n].surface # h
    BY <1>3, <2>3 DEF Claims, JobsOK, h
  <2>4. /\ Len(cx[c].jobs) \in Nat /\ Len(cx'[c].jobs) = Len(cx[c].jobs) - 1
        /\ \A n \in 1 .. Len(cx'[c].jobs) :
              n + 1 \in 1 .. Len(cx[c].jobs) /\ n + 1 # 1 /\ cx'[c].jobs[n] = cx[c].jobs[n + 1]
    BY <1>2, <1>4
  <2>5. ASSUME NEW x \in Contexts
        PROVE  /\ cx'[x].jobs # <<>> => cx'[x].state = "live"
               /\ \A n \in 1 .. Len(cx'[x].jobs) :
                   /\ JobNext(x, cx'[x].jobs[n])
                   /\ \A m \in 1 .. Len(cx'[x].jobs) :
                         cx'[x].jobs[m].surface = cx'[x].jobs[n].surface => m = n
    <3>0. \A n, m \in 1 .. Len(cx[x].jobs) : cx[x].jobs[m].surface = cx[x].jobs[n].surface => m = n
      BY DEF Claims, JobsOK
    <3>1. CASE x # c
      BY <1>4, <2>1, <2>2, <3>0, <3>1 DEF Claims, JobsOK
    <3>2. CASE x = c
      <4>1. \A n \in 1 .. Len(cx'[c].jobs) : JobNext(c, cx'[c].jobs[n])
        BY <2>1, <2>3, <2>4
      <4>2. ASSUME NEW n \in 1 .. Len(cx'[c].jobs), NEW m \in 1 .. Len(cx'[c].jobs),
                   cx'[c].jobs[m].surface = cx'[c].jobs[n].surface
            PROVE  m = n
        <5> DEFINE k == n + 1
                   l == m + 1
        <5>1. k \in 1 .. Len(cx[c].jobs) /\ l \in 1 .. Len(cx[c].jobs)
              /\ cx[c].jobs[l].surface = cx[c].jobs[k].surface
          BY <2>4, <4>2
        <5> HIDE DEF k, l
        <5>2. l = k
          BY <3>0, <3>2, <5>1
        <5> QED
          BY <5>2 DEF k, l
      <4>3. cx'[c].state = "live"
        BY <1>2, <1>6 DEF Claims, JobsOK
      <4> QED
        BY <3>2, <4>1, <4>2, <4>3
    <3> QED
      BY <3>1, <3>2
  <2> QED
    BY <2>5, JobsNext
<1>11. MasksOK' /\ RefsOK'
  <2>1. \A x \in Contexts : \A s \in Surfaces : ReferenceOK(x, s) => ReferenceOK(x, s)'
    BY <1>5, <1>6, <1>7 DEF ReferenceOK, SameBinding
  <2>2. \A x \in Contexts : cx[x].references \subseteq Surfaces
    BY CxFields DEF Base
  <2> QED
    BY <1>6, <2>1, <2>2 DEF Claims, MasksOK, RefsOK
<1> QED
  BY <1>7, <1>8, <1>9, <1>10, <1>11 DEF Claims

LEMMA NvCreateSurfaceClaims ==
    ASSUME Base, Claims, NEW s \in Surfaces, NvCreateSurface(s)
    PROVE  Claims'
<1>1. /\ \A t \in Surfaces : t # s => surf'[t] = surf[t]
      /\ ~surf[s].live
      /\ surf'[s].context = NULL /\ surf'[s].pictureIdx = NONE /\ surf'[s].live
      /\ UNCHANGED <<cx, pc, arg>>
  BY NvCreateSurfaceStep DEF Base, SurfOnly, NvCreateSurface
<1>2. NULL \notin Surfaces /\ NULL \notin Contexts
  BY PictureIndexAssumption
<1>3. \A x \in Contexts : \A t \in Surfaces : Found(x, t) => t # s /\ Found(x, t)'
  BY <1>1 DEF Found
<1>4. OwnersAgree' /\ Unattached'
  <2>1. \A x \in Contexts : \A j \in Indices : cx[x].owners[j] \in Surfaces \cup {NULL}
    BY CxFields DEF Base
  <2>2. \A x \in Contexts : cx[x].state = "live" => \A j \in Indices : cx[x].owners[j] # s
    BY <1>1, <1>2 DEF Claims, OwnersAgree
  <2> QED
    BY <1>1, <1>2, <2>1, <2>2 DEF Claims, OwnersAgree, Unattached
<1>5. ArgsOK'
  <2>1. \A a \in Actors : arg[a] \in Surfaces \cup {NULL}
    BY DEF Base, Typed
  <2>2. \A a \in Actors : arg[a] # NULL => arg[a] # s
    BY <1>1 DEF Claims, ArgsOK
  <2>3. \A c \in Contexts : Pending(c) => c \in Actors /\ arg[c] \in Surfaces
    BY CallSurface DEF Pending, Actors
  <2>4. \A c \in Contexts : Pending(c)' <=> Pending(c)
    BY <1>1 DEF Pending
  <2> QED
    BY <1>1, <1>2, <2>1, <2>2, <2>3, <2>4 DEF Claims, ArgsOK
<1>6. PicturesOK'
  <2>1. \A x \in Contexts : InPicture(x)' = InPicture(x)
        /\ (cx[x].phase # "closed" => InPicture(x) \subseteq Surfaces)
    BY <1>1, PictureSurfaces DEF InPicture
  <2> QED
    BY <1>1, <1>3, <2>1 DEF Claims, PicturesOK
<1>7. JobsOK'
  <2>1. ASSUME NEW x \in Contexts, NEW n \in 1 .. Len(cx[x].jobs)
        PROVE  JobNext(x, cx[x].jobs[n])
    <3> DEFINE job == cx[x].jobs[n]
    <3>1. job.surface \in Surfaces /\ JobOK(x, job) /\ job.surface # s
      BY <1>1, JobFields, JobOwner DEF Claims, JobsOK
    <3> HIDE DEF job
    <3>2. \A y \in Contexts : InPicture(y)' = InPicture(y)
      BY <1>1 DEF InPicture
    <3>3. JobNext(x, job)
      BY <1>1, <3>1, <3>2 DEF JobOK, JobNext
    <3> QED
      BY <3>3 DEF job
  <2> QED
    BY <1>1, <2>1, JobsNext DEF Claims, JobsOK
<1>8. MasksOK' /\ RefsOK'
  <2>1. \A x \in Contexts : \A t \in Surfaces : ReferenceOK(x, t) => ReferenceOK(x, t)'
    BY <1>1, <1>3 DEF ReferenceOK
  <2>2. \A x \in Contexts : cx[x].references \subseteq Surfaces
    BY CxFields DEF Base
  <2> QED
    BY <1>1, <2>1, <2>2 DEF Claims, MasksOK, RefsOK
<1> QED
  BY <1>4, <1>5, <1>6, <1>7, <1>8 DEF Claims

\* Steps that leave nothing of the context c: it was gone, or is detached.
LEMMA EmptyClaims ==
    ASSUME Base, Claims, NEW c \in Contexts, UNCHANGED <<pc, arg>>,
           \A x \in Contexts : x # c => cx'[x] = cx[x],
           \A i \in Indices : cx'[c].owners[i] = NULL,
           cx'[c].target = NULL, cx'[c].display = NULL, cx'[c].phase = "closed",
           cx'[c].jobs = <<>>, cx'[c].references = {}, cx'[c].active = {}, cx'[c].building = {},
           \A s \in Surfaces :
              /\ surf'[s].live = surf[s].live
              /\ surf'[s].context # c
              /\ surf[s].context # c => /\ surf'[s].context = surf[s].context
                                        /\ surf'[s].pictureIdx = surf[s].pictureIdx
                                        /\ surf'[s].resolving = surf[s].resolving
              /\ surf[s].context = c => surf'[s].context = NULL
              /\ surf'[s].pictureIdx \in {surf[s].pictureIdx, NONE}
              /\ surf'[s].context = NULL => surf'[s].pictureIdx = NONE
    PROVE  Claims'
<1>1. NULL \notin Surfaces /\ NULL \notin Contexts
  BY PictureIndexAssumption
<1>2. \A x \in Contexts : \A s \in Surfaces : x # c /\ Found(x, s) => Found(x, s)'
  BY DEF Found
<1>3. OwnersAgree' /\ Unattached'
  <2>1. \A x \in Contexts : \A j \in Indices : cx[x].owners[j] \in Surfaces \cup {NULL}
    BY CxFields DEF Base
  <2>2. ASSUME NEW x \in Contexts, cx'[x].state = "live", NEW j \in Indices, cx'[x].owners[j] # NULL
        PROVE  LET t == cx'[x].owners[j] IN
               surf'[t].live /\ surf'[t].context = x /\ surf'[t].pictureIdx = j
    <3>1. x # c /\ cx'[x] = cx[x] /\ cx[x].owners[j] \in Surfaces
      BY <2>1, <2>2
    <3> QED
      BY <2>2, <3>1 DEF Claims, OwnersAgree
  <2>3. ASSUME NEW x \in Contexts, cx'[x].state = "live", NEW t \in Surfaces,
               surf'[t].context = x, surf'[t].pictureIdx # NONE
        PROVE  cx'[x].owners[surf'[t].pictureIdx] = t
    <3>1. x # c /\ surf[t].context = x /\ surf'[t].pictureIdx = surf[t].pictureIdx
      BY <1>1, <2>3
    <3> QED
      BY <2>3, <3>1 DEF Claims, OwnersAgree
  <2>4. Unattached'
    BY DEF Unattached
  <2> QED
    BY <2>2, <2>3, <2>4 DEF OwnersAgree
<1>4. InPicture(c)' = {NULL} /\ \A x \in Contexts : x # c => InPicture(x)' = InPicture(x)
  BY DEF InPicture
<1>5. ArgsOK'
  <2>1. \A a \in Actors : arg[a] \in Surfaces \cup {NULL}
    BY DEF Base, Typed
  <2>2. \A x \in Contexts : Pending(x)' => Pending(x) /\ arg[x] \in Surfaces
    BY CallSurface DEF Pending, Actors
  <2>3. \A x \in Contexts : Pending(x)' => surf'[arg'[x]].pictureIdx = NONE
    BY <2>2 DEF Claims, ArgsOK
  <2>4. \A a \in Actors : arg'[a] # NULL =>
          /\ surf'[arg'[a]].live
          /\ \A b \in Actors : arg'[b] = arg'[a] => a = b
    BY <2>1 DEF Claims, ArgsOK
  <2>5. \A a \in Actors : arg'[a] # NULL =>
          \A x \in Contexts : arg'[a] \notin cx'[x].references \cup {cx'[x].target, cx'[x].display}
    BY DEF Claims, ArgsOK
  <2> QED
    BY <2>3, <2>4, <2>5 DEF ArgsOK
<1>6. PicturesOK'
  <2>1. ASSUME NEW x \in Contexts, cx'[x].phase # "closed", NEW t \in InPicture(x)'
        PROVE  Found(x, t)'
    <3>1. x # c /\ cx[x].phase # "closed" /\ t \in InPicture(x)
      BY <1>4, <2>1
    <3>2. t \in Surfaces /\ Found(x, t)
      BY <3>1, PictureSurfaces DEF Claims, PicturesOK, InPicture
    <3> QED
      BY <1>2, <3>1, <3>2
  <2>2. ASSUME NEW x \in Contexts, NEW y \in Contexts, NEW t \in InPicture(x)', t # NULL
        PROVE  t \notin cx'[y].references /\ (t \in InPicture(y)' => x = y)
    <3>1. x # c /\ t \in InPicture(x)
      BY <1>4, <2>2
    <3>2. \A z \in Contexts : t \notin cx[z].references /\ (t \in InPicture(z) => x = z)
      BY <2>2, <3>1 DEF Claims, PicturesOK
    <3> QED
      BY <1>4, <2>2, <3>1, <3>2
  <2> QED
    BY <2>1, <2>2 DEF PicturesOK
<1>7. JobsOK'
  <2>1. ASSUME NEW x \in Contexts, x # c, NEW n \in 1 .. Len(cx[x].jobs)
        PROVE  JobNext(x, cx[x].jobs[n])
    <3> DEFINE job == cx[x].jobs[n]
    <3>1. job.surface \in Surfaces /\ JobOK(x, job) /\ surf[job.surface].context = x
      BY JobFields, JobOwner DEF Claims, JobsOK
    <3> HIDE DEF job
    <3>2. surf'[job.surface].resolving /\ job.surface # NULL
      BY <1>1, <2>1, <3>1 DEF JobOK
    <3>3. JobNext(x, job)
      BY <1>4, <2>1, <3>1, <3>2 DEF JobOK, JobNext
    <3> QED
      BY <3>3 DEF job
  <2>2. Len(cx'[c].jobs) = 0
    OBVIOUS
  <2> QED
    BY <2>1, <2>2, JobsNext DEF Claims, JobsOK
<1>8. MasksOK' /\ RefsOK'
  <2>1. \A x \in Contexts : \A t \in Surfaces : x # c /\ ReferenceOK(x, t) => ReferenceOK(x, t)'
    <3> SUFFICES ASSUME NEW x \in Contexts, NEW t \in Surfaces, x # c, ReferenceOK(x, t)
                 PROVE  ReferenceOK(x, t)'
      OBVIOUS
    <3>1. Found(x, t) /\ Found(x, t)' /\ cx'[x] = cx[x]
      BY <1>2 DEF ReferenceOK
    <3>2. surf'[t].pictureIdx = surf[t].pictureIdx
      BY <3>1 DEF Found
    <3> QED
      BY <3>1, <3>2 DEF ReferenceOK
  <2>2. \A x \in Contexts : cx[x].references \subseteq Surfaces
    BY CxFields DEF Base
  <2>3. MasksOK'
    BY DEF Claims, MasksOK
  <2>4. RefsOK'
    BY <2>1, <2>2 DEF Claims, RefsOK
  <2> QED
    BY <2>3, <2>4
<1> QED
  BY <1>3, <1>5, <1>6, <1>7, <1>8 DEF Claims

LEMMA FreshFields ==
    \A r \in {FreshContext, [FreshContext EXCEPT !.state = "gone"]} :
        /\ \A i \in Indices : r.owners[i] = NULL
        /\ r.target = NULL /\ r.display = NULL /\ r.phase = "closed"
        /\ r.jobs = <<>> /\ r.references = {} /\ r.active = {} /\ r.building = {}
BY DEF FreshContext

LEMMA NvCreateContextClaims ==
    ASSUME Base, Claims, NEW c \in Contexts, NvCreateContext(c)
    PROVE  Claims'
<1>1. CxOnly(c) /\ cx'[c] = FreshContext /\ cx[c].state = "gone" /\ UNCHANGED <<surf, pc, arg>>
  BY NvCreateContextStep DEF Base, NvCreateContext
<1>2. \A s \in Surfaces : surf[s].context # c
  BY <1>1, PictureIndexAssumption DEF Base, NoStaleContext
<1>3. \A s \in Surfaces : surf[s].context = NULL => surf[s].pictureIdx = NONE
  BY DEF Claims, Unattached
<1>4. /\ \A i \in Indices : cx'[c].owners[i] = NULL
      /\ cx'[c].target = NULL /\ cx'[c].display = NULL /\ cx'[c].phase = "closed"
      /\ cx'[c].jobs = <<>> /\ cx'[c].references = {} /\ cx'[c].active = {} /\ cx'[c].building = {}
      /\ \A x \in Contexts : x # c => cx'[x] = cx[x]
  BY <1>1, FreshFields DEF CxOnly
<1> QED
  BY <1>1, <1>2, <1>3, <1>4, EmptyClaims

\* Frames of other contexts are of other surfaces.
LEMMA JobsApart ==
    ASSUME Base, Claims, NEW c \in Contexts, NEW s \in Surfaces, s \in JobSurfaces(c)
    PROVE  surf[s].context = c
<1>1. PICK n \in 1 .. Len(cx[c].jobs) : s = cx[c].jobs[n].surface
  BY DEF JobSurfaces
<1> QED
  BY <1>1, JobOwner

LEMMA NvDestroyContextClaims ==
    ASSUME Base, Claims, NEW c \in Contexts, NvDestroyContext(c)
    PROVE  Claims'
<1> DEFINE r == [FreshContext EXCEPT !.state = "gone"]
<1>1. DestroyStep(c) /\ UNCHANGED <<pc, arg>>
  BY NvDestroyContextStep DEF Base, NvDestroyContext
<1>2. /\ \A i \in Indices : r.owners[i] = NULL
      /\ r.target = NULL /\ r.display = NULL /\ r.phase = "closed"
      /\ r.jobs = <<>> /\ r.references = {} /\ r.active = {} /\ r.building = {}
  BY FreshFields
<1> HIDE DEF r
<1>3. cx'[c] = r /\ \A x \in Contexts : x # c => cx'[x] = cx[x]
  BY <1>1 DEF DestroyStep, CxOnly, r
<1>4. ASSUME NEW s \in Surfaces
      PROVE  /\ surf'[s].live = surf[s].live
             /\ surf'[s].context # c
             /\ surf[s].context # c => /\ surf'[s].context = surf[s].context
                                       /\ surf'[s].pictureIdx = surf[s].pictureIdx
                                       /\ surf'[s].resolving = surf[s].resolving
             /\ surf[s].context = c => surf'[s].context = NULL
             /\ surf'[s].pictureIdx \in {surf[s].pictureIdx, NONE}
             /\ surf'[s].context = NULL => surf'[s].pictureIdx = NONE
  <2>1. /\ surf'[s].live = surf[s].live
        /\ surf'[s].resolving = (surf[s].resolving /\ s \notin JobSurfaces(c))
        /\ surf[s].context = c => surf'[s].context = NULL /\ surf'[s].pictureIdx = NONE
        /\ surf[s].context # c =>
             surf'[s].context = surf[s].context /\ surf'[s].pictureIdx = surf[s].pictureIdx
    BY <1>1 DEF DestroyStep
  <2>2. surf[s].context # c => s \notin JobSurfaces(c)
    BY JobsApart
  <2>3. surf[s].context = NULL => surf[s].pictureIdx = NONE
    BY DEF Claims, Unattached
  <2>4. c # NULL /\ surf[s].resolving \in BOOLEAN
    BY PictureIndexAssumption, SurfFields DEF Base
  <2>5. surf[s].context # c => surf'[s].resolving = surf[s].resolving
    BY <2>1, <2>2, <2>4
  <2> QED
    BY <2>1, <2>3, <2>4, <2>5
<1> QED
  BY <1>1, <1>2, <1>3, <1>4, EmptyClaims

LEMMA NvDestroyContextFailClaims ==
    ASSUME Base, Claims, NEW c \in Contexts, NvDestroyContextFail(c)
    PROVE  Claims'
<1>1. DestroyFailStep(c) /\ UNCHANGED <<pc, arg>>
  BY NvDestroyContextFailStep DEF Base, NvDestroyContextFail
<1>2. /\ \A x \in Contexts : x # c => cx'[x] = cx[x]
      /\ cx'[c].state = "destroying" /\ cx'[c].jobs = <<>> /\ cx'[c].references = {}
      /\ cx'[c].owners = cx[c].owners
      /\ SameMasks(cx'[c], cx[c]) /\ SamePicture(cx'[c], cx[c])
  BY <1>1 DEF DestroyFailStep, CxOnly, SameOwners
<1>3. SameBinding
  BY <1>1 DEF DestroyFailStep, SameBinding
<1>4. ASSUME NEW s \in Surfaces, surf[s].context # c
      PROVE  surf'[s].resolving = surf[s].resolving
  <2>1. surf'[s].resolving = (surf[s].resolving /\ s \notin JobSurfaces(c)) /\ surf[s].resolving \in BOOLEAN
    BY <1>1, SurfFields DEF DestroyFailStep, Base
  <2>2. s \notin JobSurfaces(c)
    BY <1>4, JobsApart
  <2> QED
    BY <2>1, <2>2
<1>5. \A x \in Contexts : cx'[x].owners = cx[x].owners /\ (cx'[x].state = "live" => cx[x].state = "live")
        /\ InPicture(x)' = InPicture(x) /\ cx'[x].references \subseteq cx[x].references
        /\ cx'[x].active = cx[x].active /\ cx'[x].building = cx[x].building
        /\ cx'[x].phase = cx[x].phase
  BY <1>2 DEF InPicture, SameMasks, SamePicture
<1>6. /\ OwnersAgree' /\ Unattached'
      /\ \A x \in Contexts : \A s \in Surfaces : Found(x, s) => Found(x, s)'
  BY <1>3, <1>5, BoundStep
<1>7. ArgsOK'
  <2>1. \A a \in Actors : arg[a] # NULL =>
           \A x \in Contexts : arg[a] \notin cx'[x].references /\ arg[a] \notin InPicture(x)'
    BY <1>5 DEF Claims, ArgsOK, InPicture
  <2> QED
    BY <1>1, <1>3, <2>1, ArgsFrame
<1>8. PicturesOK'
  <2>1. \A x \in Contexts : cx[x].phase # "closed" => InPicture(x) \subseteq Surfaces
    BY PictureSurfaces DEF InPicture
  <2> QED
    BY <1>5, <1>6, <2>1 DEF Claims, PicturesOK
<1>9. JobsOK'
  <2>1. ASSUME NEW x \in Contexts, x # c, NEW n \in 1 .. Len(cx[x].jobs)
        PROVE  JobNext(x, cx[x].jobs[n])
    <3> DEFINE job == cx[x].jobs[n]
    <3>1. job.surface \in Surfaces /\ JobOK(x, job) /\ surf[job.surface].context = x
      BY JobFields, JobOwner DEF Claims, JobsOK
    <3> HIDE DEF job
    <3>2. surf'[job.surface].resolving
      BY <1>4, <2>1, <3>1 DEF JobOK
    <3>3. JobNext(x, job)
      BY <1>1, <1>5, <2>1, <3>1, <3>2 DEF JobOK, JobNext
    <3> QED
      BY <3>3 DEF job
  <2>2. Len(cx'[c].jobs) = 0
    BY <1>2
  <2> QED
    BY <1>2, <2>1, <2>2, JobsNext DEF Claims, JobsOK
<1>10. MasksOK' /\ RefsOK'
  <2>1. \A x \in Contexts : \A s \in Surfaces : ReferenceOK(x, s) => ReferenceOK(x, s)'
    BY <1>3, <1>5, <1>6 DEF ReferenceOK, SameBinding
  <2>2. \A x \in Contexts : cx[x].references \subseteq Surfaces
    BY CxFields DEF Base
  <2>3. \A x \in Contexts : cx'[x].references # {} => cx'[x].state = "live"
    BY <1>2 DEF Claims, RefsOK
  <2> QED
    BY <1>5, <2>1, <2>2, <2>3 DEF Claims, MasksOK, RefsOK
<1> QED
  BY <1>6, <1>7, <1>8, <1>9, <1>10 DEF Claims

-----------------------------------------------------------------------------
(* The theorems that need film grain output to stay in its context.        *)

LEMMA ClaimsInit == Init => Claims
<1> SUFFICES ASSUME Init PROVE Claims
  OBVIOUS
<1>1. /\ \A s \in Surfaces : surf[s].context = NULL /\ surf[s].pictureIdx = NONE
      /\ \A a \in Actors : pc[a] = "idle" /\ arg[a] = NULL
  BY DEF Init, FreshSurface
<1>2. \A c \in Contexts :
        /\ \A i \in Indices : cx[c].owners[i] = NULL
        /\ cx[c].target = NULL /\ cx[c].display = NULL /\ cx[c].phase = "closed"
        /\ cx[c].jobs = <<>> /\ Len(cx[c].jobs) = 0
        /\ cx[c].references = {} /\ cx[c].active = {} /\ cx[c].building = {}
  BY DEF Init, FreshContext
<1>3. OwnersAgree /\ Unattached
  BY <1>1, <1>2, PictureIndexAssumption DEF OwnersAgree, Unattached
<1>4. ArgsOK
  BY <1>1 DEF ArgsOK, Pending, Actors
<1>5. PicturesOK
  BY <1>2 DEF PicturesOK, InPicture
<1>6. JobsOK
  BY <1>2 DEF JobsOK
<1>7. MasksOK /\ RefsOK
  BY <1>2 DEF MasksOK, RefsOK
<1> QED
  BY <1>3, <1>4, <1>5, <1>6, <1>7 DEF Claims

LEMMA ClaimsNext ==
    ASSUME ~ForeignDisplay, Base, Claims, [Next]_vars
    PROVE  Claims'
<1>1. CASE UNCHANGED vars
  <2>1. UNCHANGED <<surf, cx, pc, arg>> /\ \A c \in Contexts : Pending(c)' => Pending(c)
    BY <1>1 DEF vars, Pending
  <2> QED
    BY <2>1, PcClaims
<1>2. ASSUME NEW a \in Actors, Proceed(a) PROVE Claims'
  <2>1. CASE ReleaseLock(a)
    BY <2>1, ReleaseLockClaims
  <2>2. CASE ReleaseIndex(a)
    BY <2>2, ReleaseIndexClaims
  <2>3. CASE a \in Contexts /\ AssignIndex(a)
    BY <2>3, AssignIndexClaims
  <2>4. CASE a \in Contexts /\ AssignWait(a)
    BY <2>4, AssignWaitClaims
  <2>5. CASE a \in Contexts /\ AssignFail(a)
    BY <2>5, AssignFailClaims
  <2>6. CASE VideoProcPublish
    BY <2>6, VideoProcPublishClaims
  <2> QED
    BY <1>2, <2>1, <2>2, <2>3, <2>4, <2>5, <2>6 DEF Proceed
<1>3. ASSUME NEW c \in Contexts, NEW s \in Surfaces, NvBeginPicture(c, s) \/ RenderFilmGrain(c, s)
      PROVE  Claims'
  BY <1>3, NvBeginPictureClaims, RenderFilmGrainClaims
<1>4. ASSUME NEW c \in Contexts, NEW named \in SUBSET Surfaces, RenderReferences(c, named)
      PROVE  Claims'
  BY <1>4, RenderReferencesClaims
<1>5. ASSUME NEW c \in Contexts, NEW ok \in BOOLEAN, NEW queued \in BOOLEAN,
             NEW kept \in SUBSET Surfaces, EndDecode(c, ok, queued, kept)
      PROVE  Claims'
  BY <1>5, EndDecodeClaims
<1>6. ASSUME NEW c \in Contexts,
             \/ EndFail(c) \/ WorkerResolve(c) \/ NvCreateContext(c)
             \/ NvDestroyContext(c) \/ NvDestroyContextFail(c)
      PROVE  Claims'
  BY <1>6, EndFailClaims, WorkerResolveClaims, NvCreateContextClaims, NvDestroyContextClaims,
     NvDestroyContextFailClaims
<1>7. ASSUME NEW s \in Surfaces, VideoProcBegin(s) \/ NvCreateSurface(s) \/ NvDestroySurface(s)
      PROVE  Claims'
  BY <1>7, VideoProcBeginClaims, NvCreateSurfaceClaims, NvDestroySurfaceClaims
<1>8. CASE VideoProcCopy \/ VideoProcEnd
  BY <1>8, VideoProcCopyClaims, VideoProcEndClaims
<1>9. CASE Next
  BY <1>2, <1>3, <1>4, <1>5, <1>6, <1>7, <1>8, <1>9 DEF Next
<1> QED
  BY <1>1, <1>9

LEMMA Inductive ==
    ASSUME ~ForeignDisplay
    PROVE  Spec => [](Base /\ Claims)
<1>1. Init => Base /\ Claims
  BY BaseInit, ClaimsInit
<1>2. Base /\ Claims /\ [Next]_vars => (Base /\ Claims)'
  BY BaseNext, ClaimsNext
<1> QED
  BY <1>1, <1>2, PTL DEF Spec

\* Every variable keeps its type.
THEOREM IndexTypeCorrect ==
    ASSUME ~ForeignDisplay
    PROVE  Spec => []TypeOK
<1>1. Base /\ Claims => TypeOK
  <2> SUFFICES ASSUME Base, Claims PROVE TypeOK
    OBVIOUS
  <2>1. surf \in [Surfaces -> [live : BOOLEAN, pictureIdx : Indices \cup {NONE},
                              context : Contexts \cup {NULL}, resolving : BOOLEAN]]
    BY DEF Base, Typed, SurfRecord
  <2>2. \A c \in Contexts :
          /\ cx[c].state \in {"live", "destroying", "gone"}
          /\ cx[c].cursor \in Indices /\ cx[c].phase \in {"closed", "open", "rendered"}
    BY DEF Base, Typed, CxRecord
  <2>3. \A c \in Contexts : cx[c].active \subseteq Indices /\ cx[c].building \subseteq Indices
    BY DEF Claims, MasksOK
  <2> QED
    BY <2>1, <2>2, <2>3, CxFields DEF TypeOK, Base, Typed
<1> QED
  BY <1>1, Inductive, PTL

\* The owner tables and the surfaces agree, through every interleaving of
\* begins, releases, recycling and destructions.
THEOREM OwnersCorrect ==
    ASSUME ~ForeignDisplay
    PROVE  Spec => []OwnersAgree
<1>1. Base /\ Claims => OwnersAgree
  BY DEF Claims
<1> QED
  BY <1>1, Inductive, PTL

\* The index of a frame that waits for the worker is neither recycled nor
\* released, however long the worker takes.
THEOREM QueuedIndexCorrect ==
    ASSUME ~ForeignDisplay
    PROVE  Spec => []QueuedIndexKept
<1>1. Base /\ Claims => QueuedIndexKept
  BY DEF Claims, JobsOK, JobOK, QueuedIndexKept
<1> QED
  BY <1>1, Inductive, PTL

\* A client whose pictures name every reference that it still needs keeps
\* them: recycling never takes the index of one.  For a client that does not,
\* the run lost_reference shows the loss.
THEOREM ReferencesCorrect ==
    ASSUME ~ForeignDisplay, NamesAll
    PROVE  Spec => []ReferencesKept
<1>1. Base /\ Claims => ReferencesKept
  BY DEF Claims, RefsOK, ReferenceOK, ReferencesKept
<1> QED
  BY <1>1, Inductive, PTL
=============================================================================
