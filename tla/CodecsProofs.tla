---------------------------- MODULE CodecsProofs ----------------------------
(***************************************************************************)
(* The AV1 handler's index of tiles (src/src/av1-interval-index.c, used by *)
(* src/src/av1.c) is a balanced search tree of disjoint ranges, whatever   *)
(* buffers a client sends and whichever allocation fails.                  *)
(*                                                                         *)
(* The nodes of a tree live in an array and refer to each other by         *)
(* number.  A shape S gives for each number the set of nodes below it, and *)
(* Sub says that these nodes are a balanced tree.  Rotations and           *)
(* rebalancing turn a shape into another of the same nodes; insert and the *)
(* walks that recurse along the tree are followed by the height of the     *)
(* subtree.  Then the handlers and the calls of the client.                *)
(***************************************************************************)
EXTENDS Codecs, NumberFacts

-----------------------------------------------------------------------------
(* Changes of one field of a node.                                         *)

Nodes == [start : Nat, end : Nat, left : Nat, right : Nat, height : Nat]
NodeLists(n) == [1 .. n -> Nodes]

WithHeight(ns, r, v) == [ns EXCEPT ![r].height = v]
WithLeft(ns, r, v) == [ns EXCEPT ![r].left = v]
WithRight(ns, r, v) == [ns EXCEPT ![r].right = v]

\* ms holds the ranges of ns, and differs from it at most in the nodes rs.
Touches(n, ns, ms, rs) ==
    /\ ms \in NodeLists(n)
    /\ \A x \in 1 .. n : ms[x].start = ns[x].start /\ ms[x].end = ns[x].end
    /\ \A x \in 1 .. n : x \notin rs => ms[x] = ns[x]

HeightSet(n, ns, ms, r, v) ==
    /\ Touches(n, ns, ms, {r})
    /\ ms[r].left = ns[r].left /\ ms[r].right = ns[r].right /\ ms[r].height = v
LeftSet(n, ns, ms, r, v) ==
    /\ Touches(n, ns, ms, {r})
    /\ ms[r].left = v /\ ms[r].right = ns[r].right /\ ms[r].height = ns[r].height
RightSet(n, ns, ms, r, v) ==
    /\ Touches(n, ns, ms, {r})
    /\ ms[r].right = v /\ ms[r].left = ns[r].left /\ ms[r].height = ns[r].height

\* A new height of one node.
LEMMA SetHeight ==
    ASSUME NEW n \in Nat, NEW ns \in NodeLists(n), NEW r \in 1 .. n, NEW v \in Nat,
           NEW ms, ms = WithHeight(ns, r, v)
    PROVE  HeightSet(n, ns, ms, r, v)
BY DEF NodeLists, Nodes, Touches, HeightSet, WithHeight

\* A new left subtree of one node.
LEMMA SetLeft ==
    ASSUME NEW n \in Nat, NEW ns \in NodeLists(n), NEW r \in 1 .. n, NEW v \in Nat,
           NEW ms, ms = WithLeft(ns, r, v)
    PROVE  LeftSet(n, ns, ms, r, v)
BY DEF NodeLists, Nodes, Touches, LeftSet, WithLeft

\* A new right subtree of one node.
LEMMA SetRight ==
    ASSUME NEW n \in Nat, NEW ns \in NodeLists(n), NEW r \in 1 .. n, NEW v \in Nat,
           NEW ms, ms = WithRight(ns, r, v)
    PROVE  RightSet(n, ns, ms, r, v)
BY DEF NodeLists, Nodes, Touches, RightSet, WithRight

\* Changes add up.
LEMMA TouchesTrans ==
    ASSUME NEW n \in Nat, NEW a, NEW b, NEW c, NEW p, NEW q,
           Touches(n, a, b, p), Touches(n, b, c, q)
    PROVE  Touches(n, a, c, p \cup q)
BY DEF Touches

\* A change within a larger set of nodes.
LEMMA TouchesMore ==
    ASSUME NEW n \in Nat, NEW a, NEW b, NEW p, NEW q, Touches(n, a, b, p), p \subseteq q
    PROVE  Touches(n, a, b, q)
BY DEF Touches

\* The height of a tree is a number.
LEMMA HeightType ==
    ASSUME NEW n \in Nat, NEW ns \in NodeLists(n), NEW x \in 0 .. n
    PROVE  Height(ns, x) \in Nat
BY DEF Height, NodeLists, Nodes

\* The height of a subtree whose root is not touched.
LEMMA HeightKept ==
    ASSUME NEW n \in Nat, NEW ns, NEW ms, NEW rs, Touches(n, ns, ms, rs),
           NEW x \in 0 .. n, x \notin rs
    PROVE  Height(ms, x) = Height(ns, x)
BY DEF Height, Touches

\* update_height: the node is one higher than the higher of its subtrees.
LEMMA UpdateHeightFacts ==
    ASSUME NEW n \in Nat, NEW ns \in NodeLists(n), NEW r \in 1 .. n,
           ns[r].left \in 0 .. n, ns[r].right \in 0 .. n,
           NEW ms, ms = UpdateHeight(ns, r)
    PROVE  HeightSet(n, ns, ms, r, 1 + Larger(Height(ns, ns[r].left), Height(ns, ns[r].right)))
<1> DEFINE h == 1 + Larger(Height(ns, ns[r].left), Height(ns, ns[r].right))
<1>1. h \in Nat
  BY HeightType DEF Larger
<1>2. ms = WithHeight(ns, r, h)
  BY DEF UpdateHeight, WithHeight
<1> HIDE DEF h
<1>3. HeightSet(n, ns, ms, r, h)
  BY <1>1, <1>2, SetHeight
<1> QED
  BY <1>3 DEF h

\* What rotate_left does to the links and heights.
RotatedLeft(n, ns, t, r, x) ==
    /\ t.root = x
    /\ Touches(n, ns, t.nodes, {r, x})
    /\ t.nodes[r].left = ns[r].left /\ t.nodes[r].right = ns[x].left
    /\ t.nodes[x].left = r /\ t.nodes[x].right = ns[x].right
    /\ t.nodes[r].height = 1 + Larger(Height(ns, ns[r].left), Height(ns, ns[x].left))
    /\ t.nodes[x].height = 1 + Larger(t.nodes[r].height, Height(ns, ns[x].right))

\* The three subtrees it moves do not contain the two nodes.
LEMMA RotateLeftFacts ==
    ASSUME NEW n \in Nat, NEW ns \in NodeLists(n), NEW r \in 1 .. n, NEW x \in 1 .. n,
           ns[r].right = x, x # r,
           ns[r].left \in 0 .. n, ns[x].left \in 0 .. n, ns[x].right \in 0 .. n,
           ns[r].left \notin {r, x}, ns[x].left \notin {r, x}, ns[x].right \notin {r, x},
           NEW t, t = RotateLeft(ns, r)
    PROVE  RotatedLeft(n, ns, t, r, x)
<1> DEFINE m1 == WithRight(ns, r, ns[x].left)
           m2 == WithLeft(m1, x, r)
           m3 == UpdateHeight(m2, r)
           m4 == UpdateHeight(m3, x)
<1>1. t.root = x /\ t.nodes = m4
  BY DEF RotateLeft, WithLeft, WithRight
<1>2. /\ m1 = WithRight(ns, r, ns[x].left) /\ m2 = WithLeft(m1, x, r)
      /\ m3 = UpdateHeight(m2, r) /\ m4 = UpdateHeight(m3, x)
  OBVIOUS
<1> HIDE DEF m1, m2, m3, m4
<1>3. RightSet(n, ns, m1, r, ns[x].left)
  BY <1>2, SetRight
<1>4. LeftSet(n, m1, m2, x, r)
  <2>1. m1 \in NodeLists(n) /\ r \in Nat
    BY <1>3 DEF RightSet, Touches
  <2> QED
    BY <1>2, <2>1, SetLeft
<1>5. m2 \in NodeLists(n) /\ Touches(n, ns, m2, {r, x})
  <2>1. Touches(n, ns, m1, {r}) /\ Touches(n, m1, m2, {x}) /\ {r} \cup {x} = {r, x}
    BY <1>3, <1>4 DEF RightSet, LeftSet
  <2> QED
    BY <2>1, TouchesTrans DEF Touches
<1>6. m2[r].left = ns[r].left /\ m2[r].right = ns[x].left /\ m2[x].left = r /\ m2[x].right = ns[x].right
  BY <1>3, <1>4 DEF RightSet, LeftSet, Touches
<1>7. Height(m2, ns[r].left) = Height(ns, ns[r].left) /\ Height(m2, ns[x].left) = Height(ns, ns[x].left)
  BY <1>5, HeightKept
<1>8. HeightSet(n, m2, m3, r, 1 + Larger(Height(ns, ns[r].left), Height(ns, ns[x].left)))
  <2>1. HeightSet(n, m2, m3, r, 1 + Larger(Height(m2, m2[r].left), Height(m2, m2[r].right)))
    BY <1>2, <1>5, <1>6, UpdateHeightFacts
  <2> QED
    BY <1>6, <1>7, <2>1
<1>9. m3 \in NodeLists(n) /\ Touches(n, ns, m3, {r, x})
  <2>1. Touches(n, m2, m3, {r}) /\ {r, x} \cup {r} = {r, x}
    BY <1>8 DEF HeightSet
  <2> QED
    BY <1>5, <2>1, TouchesTrans DEF Touches
<1>10. m3[r].left = ns[r].left /\ m3[r].right = ns[x].left /\ m3[x].left = r /\ m3[x].right = ns[x].right
  BY <1>6, <1>8 DEF HeightSet, Touches
<1>11. Height(m3, r) = m3[r].height /\ Height(m3, ns[x].right) = Height(ns, ns[x].right)
  BY <1>9, HeightKept DEF Height
<1>12. HeightSet(n, m3, m4, x, 1 + Larger(m3[r].height, Height(ns, ns[x].right)))
  <2>1. HeightSet(n, m3, m4, x, 1 + Larger(Height(m3, m3[x].left), Height(m3, m3[x].right)))
    BY <1>2, <1>9, <1>10, UpdateHeightFacts
  <2> QED
    BY <1>10, <1>11, <2>1
<1>13. Touches(n, ns, m4, {r, x})
  <2>1. Touches(n, m3, m4, {x}) /\ {r, x} \cup {x} = {r, x}
    BY <1>12 DEF HeightSet
  <2> QED
    BY <1>9, <2>1, TouchesTrans
<1>14. m4[r] = m3[r] /\ m4[x].left = r /\ m4[x].right = ns[x].right
       /\ m4[x].height = 1 + Larger(m3[r].height, Height(ns, ns[x].right))
  BY <1>10, <1>12 DEF HeightSet, Touches
<1>15. m4[r].left = ns[r].left /\ m4[r].right = ns[x].left
       /\ m4[r].height = 1 + Larger(Height(ns, ns[r].left), Height(ns, ns[x].left))
  BY <1>8, <1>10, <1>14 DEF HeightSet
<1> QED
  BY <1>1, <1>13, <1>14, <1>15 DEF RotatedLeft

\* What rotate_right does to the links and heights.
RotatedRight(n, ns, t, r, x) ==
    /\ t.root = x
    /\ Touches(n, ns, t.nodes, {r, x})
    /\ t.nodes[r].right = ns[r].right /\ t.nodes[r].left = ns[x].right
    /\ t.nodes[x].right = r /\ t.nodes[x].left = ns[x].left
    /\ t.nodes[r].height = 1 + Larger(Height(ns, ns[x].right), Height(ns, ns[r].right))
    /\ t.nodes[x].height = 1 + Larger(Height(ns, ns[x].left), t.nodes[r].height)

\* The three subtrees it moves do not contain the two nodes.
LEMMA RotateRightFacts ==
    ASSUME NEW n \in Nat, NEW ns \in NodeLists(n), NEW r \in 1 .. n, NEW x \in 1 .. n,
           ns[r].left = x, x # r,
           ns[r].right \in 0 .. n, ns[x].right \in 0 .. n, ns[x].left \in 0 .. n,
           ns[r].right \notin {r, x}, ns[x].right \notin {r, x}, ns[x].left \notin {r, x},
           NEW t, t = RotateRight(ns, r)
    PROVE  RotatedRight(n, ns, t, r, x)
<1> DEFINE m1 == WithLeft(ns, r, ns[x].right)
           m2 == WithRight(m1, x, r)
           m3 == UpdateHeight(m2, r)
           m4 == UpdateHeight(m3, x)
<1>1. t.root = x /\ t.nodes = m4
  BY DEF RotateRight, WithRight, WithLeft
<1>2. /\ m1 = WithLeft(ns, r, ns[x].right) /\ m2 = WithRight(m1, x, r)
      /\ m3 = UpdateHeight(m2, r) /\ m4 = UpdateHeight(m3, x)
  OBVIOUS
<1> HIDE DEF m1, m2, m3, m4
<1>3. LeftSet(n, ns, m1, r, ns[x].right)
  BY <1>2, SetLeft
<1>4. RightSet(n, m1, m2, x, r)
  <2>1. m1 \in NodeLists(n) /\ r \in Nat
    BY <1>3 DEF LeftSet, Touches
  <2> QED
    BY <1>2, <2>1, SetRight
<1>5. m2 \in NodeLists(n) /\ Touches(n, ns, m2, {r, x})
  <2>1. Touches(n, ns, m1, {r}) /\ Touches(n, m1, m2, {x}) /\ {r} \cup {x} = {r, x}
    BY <1>3, <1>4 DEF LeftSet, RightSet
  <2> QED
    BY <2>1, TouchesTrans DEF Touches
<1>6. m2[r].right = ns[r].right /\ m2[r].left = ns[x].right /\ m2[x].right = r /\ m2[x].left = ns[x].left
  BY <1>3, <1>4 DEF LeftSet, RightSet, Touches
<1>7. Height(m2, ns[r].right) = Height(ns, ns[r].right) /\ Height(m2, ns[x].right) = Height(ns, ns[x].right)
  BY <1>5, HeightKept
<1>8. HeightSet(n, m2, m3, r, 1 + Larger(Height(ns, ns[x].right), Height(ns, ns[r].right)))
  <2>1. HeightSet(n, m2, m3, r, 1 + Larger(Height(m2, m2[r].left), Height(m2, m2[r].right)))
    BY <1>2, <1>5, <1>6, UpdateHeightFacts
  <2> QED
    BY <1>6, <1>7, <2>1
<1>9. m3 \in NodeLists(n) /\ Touches(n, ns, m3, {r, x})
  <2>1. Touches(n, m2, m3, {r}) /\ {r, x} \cup {r} = {r, x}
    BY <1>8 DEF HeightSet
  <2> QED
    BY <1>5, <2>1, TouchesTrans DEF Touches
<1>10. m3[r].right = ns[r].right /\ m3[r].left = ns[x].right /\ m3[x].right = r /\ m3[x].left = ns[x].left
  BY <1>6, <1>8 DEF HeightSet, Touches
<1>11. Height(m3, r) = m3[r].height /\ Height(m3, ns[x].left) = Height(ns, ns[x].left)
  BY <1>9, HeightKept DEF Height
<1>12. HeightSet(n, m3, m4, x, 1 + Larger(Height(ns, ns[x].left), m3[r].height))
  <2>1. HeightSet(n, m3, m4, x, 1 + Larger(Height(m3, m3[x].left), Height(m3, m3[x].right)))
    BY <1>2, <1>9, <1>10, UpdateHeightFacts
  <2> QED
    BY <1>10, <1>11, <2>1
<1>13. Touches(n, ns, m4, {r, x})
  <2>1. Touches(n, m3, m4, {x}) /\ {r, x} \cup {x} = {r, x}
    BY <1>12 DEF HeightSet
  <2> QED
    BY <1>9, <2>1, TouchesTrans
<1>14. m4[r] = m3[r] /\ m4[x].right = r /\ m4[x].left = ns[x].left
       /\ m4[x].height = 1 + Larger(Height(ns, ns[x].left), m3[r].height)
  BY <1>10, <1>12 DEF HeightSet, Touches
<1>15. m4[r].right = ns[r].right /\ m4[r].left = ns[x].right
       /\ m4[r].height = 1 + Larger(Height(ns, ns[x].right), Height(ns, ns[r].right))
  BY <1>8, <1>10, <1>14 DEF HeightSet
<1> QED
  BY <1>1, <1>13, <1>14, <1>15 DEF RotatedRight

-----------------------------------------------------------------------------
(* Trees.  S[x] is the set of the nodes of the subtree at x.               *)

Shape(n, S) ==
    /\ S \in [0 .. n -> SUBSET (1 .. n)]
    /\ S[0] = {}
    /\ \A x \in 1 .. n : x \in S[x]

Keyed(n, ns) == ns \in NodeLists(n) /\ \A x \in 1 .. n : ns[x].start < ns[x].end

Before(ns, A, x) == \A y \in A : ns[y].end <= ns[x].start
After(ns, x, A) == \A y \in A : ns[x].end <= ns[y].start

Children(n, ns, x) == ns[x].left \in 0 .. n /\ ns[x].right \in 0 .. n

NodeOK(n, ns, S, x) ==
    /\ Children(n, ns, x)
    /\ S[x] = S[ns[x].left] \cup {x} \cup S[ns[x].right]
    /\ \A y \in S[x] : S[y] \subseteq S[x]
    /\ Before(ns, S[ns[x].left], x)
    /\ After(ns, x, S[ns[x].right])
    /\ Height(ns, ns[x].left) - Height(ns, ns[x].right) \in -1 .. 1
    /\ ns[x].height = 1 + Larger(Height(ns, ns[x].left), Height(ns, ns[x].right))

\* The subtree at r is a balanced search tree of the nodes S[r].
Sub(n, ns, S, r) == \A x \in S[r] : NodeOK(n, ns, S, x)

\* A subtree of a subtree.
LEMMA SubDown ==
    ASSUME NEW n \in Nat, NEW ns, NEW S, Shape(n, S), NEW r \in 0 .. n, Sub(n, ns, S, r),
           NEW x \in S[r]
    PROVE  x \in 1 .. n /\ S[x] \subseteq S[r] /\ Sub(n, ns, S, x) /\ NodeOK(n, ns, S, x)
<1>1. r # 0 /\ r \in 1 .. n /\ r \in S[r] /\ x \in 1 .. n
  BY DEF Shape
<1>2. NodeOK(n, ns, S, r) /\ NodeOK(n, ns, S, x)
  BY <1>1 DEF Sub
<1>3. S[x] \subseteq S[r]
  BY <1>2 DEF NodeOK
<1> QED
  BY <1>1, <1>2, <1>3 DEF Sub

\* The root of a subtree and its children.
LEMMA SubRoot ==
    ASSUME NEW n \in Nat, NEW ns, NEW S, Shape(n, S), NEW r \in 1 .. n, Sub(n, ns, S, r)
    PROVE  /\ NodeOK(n, ns, S, r)
           /\ Sub(n, ns, S, ns[r].left) /\ Sub(n, ns, S, ns[r].right)
<1>1. r \in S[r] /\ NodeOK(n, ns, S, r)
  BY DEF Shape, Sub
<1> QED
  BY <1>1 DEF NodeOK, Sub

\* Two assignments of sets agree outside T.
SameOff(n, S, S2, T) == \A y \in 0 .. n : y \notin T => S2[y] = S[y]

\* The subtree at a is the same, in nodes and shape.
Kept(n, ns, ms, S, S2, a) ==
    Sub(n, ms, S2, a) /\ S2[a] = S[a] /\ Height(ms, a) = Height(ns, a)

\* A subtree none of whose nodes are touched stays one.
LEMMA SubKept ==
    ASSUME NEW n \in Nat, NEW ns, NEW ms, NEW S, NEW S2, NEW a \in 0 .. n, NEW T,
           Shape(n, S), Shape(n, S2), Sub(n, ns, S, a),
           Touches(n, ns, ms, T), 0 \notin T, S[a] \cap T = {},
           SameOff(n, S, S2, T)
    PROVE  Kept(n, ns, ms, S, S2, a)
<1>0. \A y \in 0 .. n : y \notin T => S2[y] = S[y]
  BY DEF SameOff
<1>1. a \notin T
  BY DEF Shape
<1>2. S2[a] = S[a] /\ Height(ms, a) = Height(ns, a)
  BY <1>0, <1>1, HeightKept
<1>3. ASSUME NEW x \in S[a] PROVE NodeOK(n, ms, S2, x)
  <2>1. x \in 1 .. n /\ S[x] \subseteq S[a] /\ NodeOK(n, ns, S, x)
    BY SubDown
  <2> DEFINE l == ns[x].left
             q == ns[x].right
  <2>2. l \in 0 .. n /\ q \in 0 .. n /\ S[l] \subseteq S[x] /\ S[q] \subseteq S[x]
    BY <2>1 DEF NodeOK, Children
  <2>3. x \notin T /\ l \notin T /\ q \notin T
    BY <2>1, <2>2 DEF Shape
  <2>4. ms[x] = ns[x] /\ Height(ms, l) = Height(ns, l) /\ Height(ms, q) = Height(ns, q)
    <3>1. ms[x] = ns[x]
      BY <2>1, <2>3 DEF Touches
    <3> QED
      BY <2>2, <2>3, <3>1, HeightKept
  <2>5. S2[x] = S[x] /\ S2[l] = S[l] /\ S2[q] = S[q]
    BY <1>0, <2>1, <2>2, <2>3
  <2>6. \A y \in S[x] : S2[y] = S[y] /\ y \in 1 .. n
    <3>1. \A y \in S[x] : y \in 1 .. n /\ y \notin T
      BY <2>1 DEF Shape
    <3> QED
      BY <1>0, <3>1
  <2>7. Before(ms, S[l], x) /\ After(ms, x, S[q])
    <3>1. \A y \in S[x] : ms[y].start = ns[y].start /\ ms[y].end = ns[y].end
      BY <2>6 DEF Touches
    <3>2. Before(ns, S[l], x) /\ After(ns, x, S[q])
      BY <2>1 DEF NodeOK
    <3>3. ms[x].start = ns[x].start /\ ms[x].end = ns[x].end
      BY <2>4
    <3> HIDE DEF l, q
    <3> QED
      BY <2>2, <3>1, <3>2, <3>3 DEF Before, After
  <2>8. \A y \in S2[x] : S2[y] \subseteq S2[x]
    BY <2>1, <2>5, <2>6 DEF NodeOK
  <2> QED
    BY <2>1, <2>4, <2>5, <2>7, <2>8 DEF NodeOK, Children
<1> QED
  BY <1>2, <1>3 DEF Sub, Kept

\* Two trees and a node between them.
Between(n, ns, S, x) ==
    /\ x \in 1 .. n
    /\ Children(n, ns, x)
    /\ Sub(n, ns, S, ns[x].left) /\ Sub(n, ns, S, ns[x].right)
    /\ Before(ns, S[ns[x].left], x) /\ After(ns, x, S[ns[x].right])

\* They are a tree if their heights are close and the node's height is correct.
LEMMA Join ==
    ASSUME NEW n \in Nat, NEW ns, NEW S, Shape(n, S), NEW x,
           Between(n, ns, S, x),
           S[x] = S[ns[x].left] \cup {x} \cup S[ns[x].right],
           Height(ns, ns[x].left) - Height(ns, ns[x].right) \in -1 .. 1,
           ns[x].height = 1 + Larger(Height(ns, ns[x].left), Height(ns, ns[x].right))
    PROVE  Sub(n, ns, S, x)
<1> DEFINE l == ns[x].left
           q == ns[x].right
<1>1. l \in 0 .. n /\ q \in 0 .. n /\ Sub(n, ns, S, l) /\ Sub(n, ns, S, q)
  BY DEF Between, Children
<1>2. \A y \in S[l] : S[y] \subseteq S[l] /\ NodeOK(n, ns, S, y)
  <2> HIDE DEF l
  <2> QED
    BY <1>1, SubDown
<1>3. \A y \in S[q] : S[y] \subseteq S[q] /\ NodeOK(n, ns, S, y)
  <2> HIDE DEF q
  <2> QED
    BY <1>1, SubDown
<1>4. \A y \in S[x] : S[y] \subseteq S[x]
  BY <1>2, <1>3
<1>5. NodeOK(n, ns, S, x)
  BY <1>4 DEF NodeOK, Between
<1> QED
  BY <1>2, <1>3, <1>5 DEF Sub

\* The node and the two trees have no node in common.
LEMMA Disjoint ==
    ASSUME NEW n \in Nat, NEW ns, Keyed(n, ns), NEW S, Shape(n, S), NEW x, Between(n, ns, S, x)
    PROVE  /\ x \notin S[ns[x].left] /\ x \notin S[ns[x].right]
           /\ S[ns[x].left] \cap S[ns[x].right] = {}
           /\ ns[x].left # x /\ ns[x].right # x
           /\ ns[x].left = ns[x].right => ns[x].left = 0
<1> DEFINE l == ns[x].left
           q == ns[x].right
<1>1. x \in 1 .. n /\ l \in 0 .. n /\ q \in 0 .. n /\ S[l] \subseteq 1 .. n /\ S[q] \subseteq 1 .. n
  BY DEF Between, Children, Shape
<1>2. \A y \in 1 .. n : ns[y].start \in Nat /\ ns[y].end \in Nat /\ ns[y].start < ns[y].end
  BY DEF Keyed, NodeLists, Nodes
<1>3. (\A y \in S[l] : ns[y].end <= ns[x].start) /\ (\A y \in S[q] : ns[x].end <= ns[y].start)
  BY DEF Between, Before, After
<1> HIDE DEF l, q
<1>4. x \notin S[l] /\ x \notin S[q]
  BY <1>1, <1>2, <1>3
<1>5. ASSUME NEW y \in S[l], y \in S[q] PROVE FALSE
  <2>1. y \in 1 .. n /\ ns[y].end <= ns[x].start /\ ns[x].end <= ns[y].start
    BY <1>1, <1>3, <1>5
  <2> QED
    BY <1>1, <1>2, <2>1
<1>6. l # x /\ q # x
  BY <1>1, <1>4 DEF Shape
<1>7. l = q => l = 0
  BY <1>1, <1>5 DEF Shape
<1> QED
  BY <1>4, <1>5, <1>6, <1>7 DEF l, q

-----------------------------------------------------------------------------
(* Rotations.                                                              *)

\* The order of nodes depends on their ranges alone.
LEMMA OrderKept ==
    ASSUME NEW n \in Nat, NEW ns, NEW ms, NEW T, Touches(n, ns, ms, T),
           NEW A \in SUBSET (1 .. n), NEW x \in 1 .. n
    PROVE  /\ Before(ns, A, x) => Before(ms, A, x)
           /\ After(ns, x, A) => After(ms, x, A)
BY DEF Touches, Before, After

\* Nodes with the same ranges are still in order.
LEMMA KeyedKept ==
    ASSUME NEW n \in Nat, NEW ns, NEW ms, NEW T, Touches(n, ns, ms, T), Keyed(n, ns)
    PROVE  Keyed(n, ms)
BY DEF Touches, Keyed

\* A list is itself with no node touched.
LEMMA TouchesNone ==
    ASSUME NEW n \in Nat, NEW ns \in NodeLists(n), NEW T
    PROVE  Touches(n, ns, ns, T)
BY DEF Touches

Assign(S, r, A) == [S EXCEPT ![r] = A]

\* The set of one subtree is another one.
LEMMA ShapeWith ==
    ASSUME NEW n \in Nat, NEW S, Shape(n, S), NEW r \in 1 .. n, NEW A \in SUBSET (1 .. n), r \in A,
           NEW S1, S1 = Assign(S, r, A)
    PROVE  Shape(n, S1) /\ S1[r] = A /\ SameOff(n, S, S1, {r})
BY DEF Shape, Assign, SameOff

\* r, its right child x and the three subtrees below them, in order.
LeftTurn(n, ns, S, r, x) ==
    /\ r \in 1 .. n /\ x \in 1 .. n /\ ns[r].right = x
    /\ Children(n, ns, r) /\ Children(n, ns, x)
    /\ Sub(n, ns, S, ns[r].left) /\ Sub(n, ns, S, ns[x].left) /\ Sub(n, ns, S, ns[x].right)
    /\ \A y \in S[ns[r].left] : ns[y].end <= ns[r].start
    /\ \A y \in S[ns[x].left] : ns[r].end <= ns[y].start /\ ns[y].end <= ns[x].start
    /\ ns[r].end <= ns[x].start
    /\ \A y \in S[ns[x].right] : ns[r].end <= ns[y].start /\ ns[x].end <= ns[y].start

\* The lower node after rotate_left and what is below it.
LeftLow(ns, S, r, x) == S[ns[r].left] \cup {r} \cup S[ns[x].left]
LeftAll(ns, S, r, x) == LeftLow(ns, S, r, x) \cup {x} \cup S[ns[x].right]

\* The five parts are apart from each other.
LEMMA LeftTurnApart ==
    ASSUME NEW n \in Nat, NEW ns, Keyed(n, ns), NEW S, Shape(n, S), NEW r, NEW x,
           LeftTurn(n, ns, S, r, x)
    PROVE  /\ x # r
           /\ \A c \in {ns[r].left, ns[x].left, ns[x].right} :
                 c \in 0 .. n /\ c \notin {r, x} /\ S[c] \cap {r, x} = {} /\ S[c] \in SUBSET (1 .. n)
<1>1. \A y \in 1 .. n : ns[y].start \in Nat /\ ns[y].end \in Nat /\ ns[y].start < ns[y].end
  BY DEF Keyed, NodeLists, Nodes
<1>2. r \in 1 .. n /\ x \in 1 .. n /\ ns[r].end <= ns[x].start
  BY DEF LeftTurn
<1>3. x # r
  BY <1>1, <1>2
<1>4. ASSUME NEW c \in {ns[r].left, ns[x].left, ns[x].right}
      PROVE  c \in 0 .. n /\ S[c] \in SUBSET (1 .. n) /\ r \notin S[c] /\ x \notin S[c]
  <2>1. c \in 0 .. n /\ S[c] \in SUBSET (1 .. n)
    BY DEF LeftTurn, Children, Shape
  <2>2. CASE c = ns[r].left
    <3>1. \A y \in S[c] : ns[y].end <= ns[r].start
      BY <2>2 DEF LeftTurn
    <3> QED
      BY <1>1, <1>2, <2>1, <3>1
  <2>3. CASE c = ns[x].left
    <3>1. \A y \in S[c] : ns[r].end <= ns[y].start /\ ns[y].end <= ns[x].start
      BY <2>3 DEF LeftTurn
    <3> QED
      BY <1>1, <1>2, <2>1, <3>1
  <2>4. CASE c = ns[x].right
    <3>1. \A y \in S[c] : ns[r].end <= ns[y].start /\ ns[x].end <= ns[y].start
      BY <2>4 DEF LeftTurn
    <3> QED
      BY <1>1, <1>2, <2>1, <3>1
  <2> QED
    BY <2>1, <2>2, <2>3, <2>4
<1>5. \A c \in {ns[r].left, ns[x].left, ns[x].right} : c \notin {r, x}
  <2>1. \A c \in 1 .. n : c \in S[c]
    BY DEF Shape
  <2> QED
    BY <1>2, <1>4, <2>1
<1> QED
  BY <1>3, <1>4, <1>5

TurnedLeftLow(n, ns, S, S1, t, r, x) ==
    /\ RotatedLeft(n, ns, t, r, x)
    /\ Keyed(n, t.nodes) /\ Shape(n, S1)
    /\ S1[r] = LeftLow(ns, S, r, x) /\ x \notin S1[r]
    /\ SameOff(n, S, S1, {r})
    /\ Sub(n, t.nodes, S1, r) /\ Sub(n, t.nodes, S1, ns[x].right)

\* rotate_left makes a tree of the lower node.
LEMMA TurnLeftLow ==
    ASSUME NEW n \in Nat, NEW ns, Keyed(n, ns), NEW S, Shape(n, S), NEW r, NEW x,
           LeftTurn(n, ns, S, r, x),
           Height(ns, ns[r].left) - Height(ns, ns[x].left) \in -1 .. 1,
           NEW t, t = RotateLeft(ns, r),
           NEW S1, S1 = Assign(S, r, LeftLow(ns, S, r, x))
    PROVE  TurnedLeftLow(n, ns, S, S1, t, r, x)
<1> DEFINE a == ns[r].left
           b == ns[x].left
           c == ns[x].right
           ms == t.nodes
<1>1. r \in 1 .. n /\ x \in 1 .. n /\ ns \in NodeLists(n) /\ ns[r].right = x
  BY DEF LeftTurn, Keyed
<1>2. x # r /\ a \in 0 .. n /\ b \in 0 .. n /\ c \in 0 .. n
      /\ a \notin {r, x} /\ b \notin {r, x} /\ c \notin {r, x}
  BY LeftTurnApart
<1>3. /\ S[a] \in SUBSET (1 .. n) /\ S[b] \in SUBSET (1 .. n) /\ S[c] \in SUBSET (1 .. n)
      /\ S[a] \cap {r, x} = {} /\ S[b] \cap {r, x} = {} /\ S[c] \cap {r, x} = {}
  BY LeftTurnApart
<1>4. RotatedLeft(n, ns, t, r, x)
  BY <1>1, <1>2, RotateLeftFacts
<1>5. Touches(n, ns, ms, {r, x}) /\ Keyed(n, ms)
  BY <1>4, KeyedKept DEF RotatedLeft
<1>6. LeftLow(ns, S, r, x) = S[a] \cup {r} \cup S[b]
  BY DEF LeftLow
<1>7. Shape(n, S1) /\ S1[r] = S[a] \cup {r} \cup S[b] /\ SameOff(n, S, S1, {r})
  <2> DEFINE A == LeftLow(ns, S, r, x)
  <2>1. A \in SUBSET (1 .. n) /\ r \in A /\ S1 = Assign(S, r, A)
    BY <1>1, <1>3, <1>6
  <2>2. A = S[a] \cup {r} \cup S[b]
    BY <1>6
  <2> HIDE DEF A
  <2> QED
    BY <1>1, <2>1, <2>2, ShapeWith
<1>8. x \notin S1[r]
  BY <1>2, <1>3, <1>7
<1>9. Sub(n, ns, S, a) /\ Sub(n, ns, S, b) /\ Sub(n, ns, S, c)
  BY DEF LeftTurn
<1>10. /\ Before(ns, S[a], r) /\ After(ns, r, S[b])
  BY DEF LeftTurn, Before, After
<1>11. ms[r].left = a /\ ms[r].right = b /\ ms[r].height = 1 + Larger(Height(ns, a), Height(ns, b))
  BY <1>4 DEF RotatedLeft
<1> HIDE DEF a, b, c, ms
<1>12. 0 \notin {r, x} /\ SameOff(n, S, S1, {r, x})
  BY <1>1, <1>7 DEF SameOff
<1>13. Kept(n, ns, ms, S, S1, a)
  BY <1>2, <1>3, <1>5, <1>7, <1>9, <1>12, SubKept
<1>14. Kept(n, ns, ms, S, S1, b)
  BY <1>2, <1>3, <1>5, <1>7, <1>9, <1>12, SubKept
<1>15. Kept(n, ns, ms, S, S1, c)
  BY <1>2, <1>3, <1>5, <1>7, <1>9, <1>12, SubKept
<1>16. Before(ms, S[a], r) /\ After(ms, r, S[b])
  BY <1>1, <1>3, <1>5, <1>10, OrderKept
<1>17. Between(n, ms, S1, r)
  BY <1>1, <1>2, <1>11, <1>13, <1>14, <1>16 DEF Between, Children, Kept
<1>18. S1[r] = S1[ms[r].left] \cup {r} \cup S1[ms[r].right]
  BY <1>7, <1>11, <1>13, <1>14 DEF Kept
<1>19. /\ Height(ms, ms[r].left) - Height(ms, ms[r].right) \in -1 .. 1
       /\ ms[r].height = 1 + Larger(Height(ms, ms[r].left), Height(ms, ms[r].right))
  BY <1>11, <1>13, <1>14 DEF a, b, Kept
<1>20. Sub(n, ms, S1, r)
  BY <1>7, <1>17, <1>18, <1>19, Join
<1> QED
  BY <1>4, <1>5, <1>6, <1>7, <1>8, <1>15, <1>20 DEF a, b, c, ms, Kept, TurnedLeftLow

TurnedLeft(n, ns, S, S2, t, r, x) ==
    /\ Shape(n, S2) /\ S2[x] = LeftAll(ns, S, r, x) /\ SameOff(n, S, S2, {r, x})
    /\ Sub(n, t.nodes, S2, x)
    /\ t.root = x /\ Touches(n, ns, t.nodes, {r, x}) /\ Keyed(n, t.nodes)
    /\ t.nodes[x].height = 1 + Larger(1 + Larger(Height(ns, ns[r].left), Height(ns, ns[x].left)), Height(ns, ns[x].right))

\* rotate_left makes a tree of all of them, if their heights allow it.
LEMMA TurnLeft ==
    ASSUME NEW n \in Nat, NEW ns, Keyed(n, ns), NEW S, Shape(n, S), NEW r, NEW x,
           LeftTurn(n, ns, S, r, x),
           Height(ns, ns[r].left) - Height(ns, ns[x].left) \in -1 .. 1,
           (1 + Larger(Height(ns, ns[r].left), Height(ns, ns[x].left))) - Height(ns, ns[x].right) \in -1 .. 1,
           NEW t, t = RotateLeft(ns, r)
    PROVE  \E S2 : TurnedLeft(n, ns, S, S2, t, r, x)
<1> DEFINE S1 == Assign(S, r, LeftLow(ns, S, r, x))
           A == LeftAll(ns, S, r, x)
           S2 == Assign(S1, x, A)
           a == ns[r].left
           b == ns[x].left
           c == ns[x].right
           ms == t.nodes
           h == 1 + Larger(Height(ns, a), Height(ns, b))
<1>1. r \in 1 .. n /\ x \in 1 .. n /\ ns \in NodeLists(n)
  BY DEF LeftTurn, Keyed
<1>2. x # r /\ c \in 0 .. n /\ c \notin {r, x}
      /\ S[a] \in SUBSET (1 .. n) /\ S[b] \in SUBSET (1 .. n) /\ S[c] \in SUBSET (1 .. n) /\ S[c] \cap {r, x} = {}
  BY LeftTurnApart
<1>0. S1 = Assign(S, r, LeftLow(ns, S, r, x))
  OBVIOUS
<1>3. /\ RotatedLeft(n, ns, t, r, x)
      /\ Keyed(n, ms) /\ Shape(n, S1)
      /\ S1[r] = LeftLow(ns, S, r, x) /\ x \notin S1[r]
      /\ SameOff(n, S, S1, {r})
      /\ Sub(n, ms, S1, r) /\ Sub(n, ms, S1, c)
  <2>1. TurnedLeftLow(n, ns, S, S1, t, r, x)
    <3> HIDE DEF S1
    <3> QED
      BY <1>0, TurnLeftLow
  <2> QED
    BY <2>1 DEF TurnedLeftLow
<1>4. /\ t.root = x /\ Touches(n, ns, ms, {r, x})
      /\ ms[x].left = r /\ ms[x].right = c /\ ms[r].height = h
      /\ ms[x].height = 1 + Larger(ms[r].height, Height(ns, c))
  BY <1>3 DEF RotatedLeft
<1>5. LeftLow(ns, S, r, x) = S[a] \cup {r} \cup S[b] /\ A = S1[r] \cup {x} \cup S[c]
  BY <1>3 DEF LeftLow, LeftAll
<1>6. A \in SUBSET (1 .. n) /\ x \in A
  BY <1>1, <1>2, <1>3, <1>5
<1>7. h - Height(ns, c) \in -1 .. 1
  OBVIOUS
<1>8. /\ \A y \in S[a] : ns[y].end <= ns[r].start
      /\ \A y \in S[b] : ns[y].end <= ns[x].start
      /\ ns[r].end <= ns[x].start
      /\ \A y \in S[c] : ns[x].end <= ns[y].start
  BY DEF LeftTurn
<1>9. S2 = Assign(S1, x, A)
  OBVIOUS
<1> HIDE DEF a, b, c, h, ms, S1, S2, A
<1>10. Shape(n, S2) /\ S2[x] = A /\ SameOff(n, S1, S2, {x})
  BY <1>1, <1>3, <1>6, <1>9, ShapeWith
<1>11. Touches(n, ms, ms, {x}) /\ 0 \notin {x}
  BY <1>1, <1>3, <1>10, TouchesNone DEF Keyed
<1>12. Kept(n, ms, ms, S1, S2, r)
  <2>1. r \in 0 .. n /\ S1[r] \cap {x} = {}
    BY <1>1, <1>3
  <2> QED
    BY <1>3, <1>10, <1>11, <2>1, SubKept
<1>13. Kept(n, ms, ms, S1, S2, c) /\ S1[c] = S[c]
  <2>1. S1[c] = S[c] /\ S1[c] \cap {x} = {}
    BY <1>2, <1>3 DEF SameOff
  <2> QED
    BY <1>2, <1>3, <1>10, <1>11, <2>1, SubKept
<1>14. Height(ms, r) = h /\ Height(ms, c) = Height(ns, c)
  <2>1. Height(ms, r) = h
    BY <1>1, <1>4 DEF Height
  <2> QED
    BY <1>2, <1>4, <2>1, HeightKept
<1>15. Before(ms, S2[r], x) /\ After(ms, x, S2[c])
  <2>1. \A y \in 1 .. n : ns[y].start \in Nat /\ ns[y].end \in Nat /\ ns[y].start < ns[y].end
    BY DEF Keyed, NodeLists, Nodes
  <2>2. Before(ns, S[b], x) /\ After(ns, x, S[c])
    BY <1>8 DEF Before, After
  <2>3. \A y \in S[a] : ns[y].end <= ns[x].start
    BY <1>1, <1>2, <1>8, <2>1
  <2>4. Before(ns, S1[r], x)
    BY <1>3, <1>5, <1>8, <2>2, <2>3 DEF Before, After
  <2>5. S1[r] \in SUBSET (1 .. n)
    BY <1>1, <1>2, <1>3, <1>5
  <2> QED
    BY <1>1, <1>2, <1>4, <1>12, <1>13, <2>2, <2>4, <2>5, OrderKept DEF Kept
<1>16. Between(n, ms, S2, x)
  BY <1>1, <1>2, <1>4, <1>12, <1>13, <1>15 DEF Between, Children, Kept
<1>17. S2[x] = S2[ms[x].left] \cup {x} \cup S2[ms[x].right]
  BY <1>4, <1>5, <1>10, <1>12, <1>13 DEF Kept
<1>18. /\ Height(ms, ms[x].left) - Height(ms, ms[x].right) \in -1 .. 1
       /\ ms[x].height = 1 + Larger(Height(ms, ms[x].left), Height(ms, ms[x].right))
  BY <1>4, <1>7, <1>14
<1>19. Sub(n, ms, S2, x)
  BY <1>10, <1>16, <1>17, <1>18, Join
<1>20. SameOff(n, S, S2, {r, x})
  BY <1>3, <1>10 DEF SameOff
<1>21. ms[x].height = 1 + Larger(h, Height(ns, c))
  BY <1>4
<1> QED
  BY <1>3, <1>4, <1>10, <1>19, <1>20, <1>21 DEF a, b, c, h, ms, A, TurnedLeft

\* r, its left child x and the three subtrees below them, in order.
RightTurn(n, ns, S, r, x) ==
    /\ r \in 1 .. n /\ x \in 1 .. n /\ ns[r].left = x
    /\ Children(n, ns, r) /\ Children(n, ns, x)
    /\ Sub(n, ns, S, ns[r].right) /\ Sub(n, ns, S, ns[x].right) /\ Sub(n, ns, S, ns[x].left)
    /\ \A y \in S[ns[r].right] : ns[r].end <= ns[y].start
    /\ \A y \in S[ns[x].right] : ns[y].end <= ns[r].start /\ ns[x].end <= ns[y].start
    /\ ns[x].end <= ns[r].start
    /\ \A y \in S[ns[x].left] : ns[y].end <= ns[r].start /\ ns[y].end <= ns[x].start

\* The lower node after rotate_right and what is below it.
RightLow(ns, S, r, x) == S[ns[r].right] \cup {r} \cup S[ns[x].right]
RightAll(ns, S, r, x) == RightLow(ns, S, r, x) \cup {x} \cup S[ns[x].left]

\* The five parts are apart from each other.
LEMMA RightTurnApart ==
    ASSUME NEW n \in Nat, NEW ns, Keyed(n, ns), NEW S, Shape(n, S), NEW r, NEW x,
           RightTurn(n, ns, S, r, x)
    PROVE  /\ x # r
           /\ \A c \in {ns[r].right, ns[x].right, ns[x].left} :
                 c \in 0 .. n /\ c \notin {r, x} /\ S[c] \cap {r, x} = {} /\ S[c] \in SUBSET (1 .. n)
<1>1. \A y \in 1 .. n : ns[y].end \in Nat /\ ns[y].start \in Nat /\ ns[y].start < ns[y].end
  BY DEF Keyed, NodeLists, Nodes
<1>2. r \in 1 .. n /\ x \in 1 .. n /\ ns[x].end <= ns[r].start
  BY DEF RightTurn
<1>3. x # r
  BY <1>1, <1>2
<1>4. ASSUME NEW c \in {ns[r].right, ns[x].right, ns[x].left}
      PROVE  c \in 0 .. n /\ S[c] \in SUBSET (1 .. n) /\ r \notin S[c] /\ x \notin S[c]
  <2>1. c \in 0 .. n /\ S[c] \in SUBSET (1 .. n)
    BY DEF RightTurn, Children, Shape
  <2>2. CASE c = ns[r].right
    <3>1. \A y \in S[c] : ns[r].end <= ns[y].start
      BY <2>2 DEF RightTurn
    <3> QED
      BY <1>1, <1>2, <2>1, <3>1
  <2>3. CASE c = ns[x].right
    <3>1. \A y \in S[c] : ns[y].end <= ns[r].start /\ ns[x].end <= ns[y].start
      BY <2>3 DEF RightTurn
    <3> QED
      BY <1>1, <1>2, <2>1, <3>1
  <2>4. CASE c = ns[x].left
    <3>1. \A y \in S[c] : ns[y].end <= ns[r].start /\ ns[y].end <= ns[x].start
      BY <2>4 DEF RightTurn
    <3> QED
      BY <1>1, <1>2, <2>1, <3>1
  <2> QED
    BY <2>1, <2>2, <2>3, <2>4
<1>5. \A c \in {ns[r].right, ns[x].right, ns[x].left} : c \notin {r, x}
  <2>1. \A c \in 1 .. n : c \in S[c]
    BY DEF Shape
  <2> QED
    BY <1>2, <1>4, <2>1
<1> QED
  BY <1>3, <1>4, <1>5

TurnedRightLow(n, ns, S, S1, t, r, x) ==
    /\ RotatedRight(n, ns, t, r, x)
    /\ Keyed(n, t.nodes) /\ Shape(n, S1)
    /\ S1[r] = RightLow(ns, S, r, x) /\ x \notin S1[r]
    /\ SameOff(n, S, S1, {r})
    /\ Sub(n, t.nodes, S1, r) /\ Sub(n, t.nodes, S1, ns[x].left)

\* rotate_right makes a tree of the lower node.
LEMMA TurnRightLow ==
    ASSUME NEW n \in Nat, NEW ns, Keyed(n, ns), NEW S, Shape(n, S), NEW r, NEW x,
           RightTurn(n, ns, S, r, x),
           Height(ns, ns[x].right) - Height(ns, ns[r].right) \in -1 .. 1,
           NEW t, t = RotateRight(ns, r),
           NEW S1, S1 = Assign(S, r, RightLow(ns, S, r, x))
    PROVE  TurnedRightLow(n, ns, S, S1, t, r, x)
<1> DEFINE a == ns[r].right
           b == ns[x].right
           c == ns[x].left
           ms == t.nodes
<1>1. r \in 1 .. n /\ x \in 1 .. n /\ ns \in NodeLists(n) /\ ns[r].left = x
  BY DEF RightTurn, Keyed
<1>2. x # r /\ a \in 0 .. n /\ b \in 0 .. n /\ c \in 0 .. n
      /\ a \notin {r, x} /\ b \notin {r, x} /\ c \notin {r, x}
  BY RightTurnApart
<1>3. /\ S[a] \in SUBSET (1 .. n) /\ S[b] \in SUBSET (1 .. n) /\ S[c] \in SUBSET (1 .. n)
      /\ S[a] \cap {r, x} = {} /\ S[b] \cap {r, x} = {} /\ S[c] \cap {r, x} = {}
  BY RightTurnApart
<1>4. RotatedRight(n, ns, t, r, x)
  BY <1>1, <1>2, RotateRightFacts
<1>5. Touches(n, ns, ms, {r, x}) /\ Keyed(n, ms)
  BY <1>4, KeyedKept DEF RotatedRight
<1>6. RightLow(ns, S, r, x) = S[a] \cup {r} \cup S[b]
  BY DEF RightLow
<1>7. Shape(n, S1) /\ S1[r] = S[a] \cup {r} \cup S[b] /\ SameOff(n, S, S1, {r})
  <2> DEFINE A == RightLow(ns, S, r, x)
  <2>1. A \in SUBSET (1 .. n) /\ r \in A /\ S1 = Assign(S, r, A)
    BY <1>1, <1>3, <1>6
  <2>2. A = S[a] \cup {r} \cup S[b]
    BY <1>6
  <2> HIDE DEF A
  <2> QED
    BY <1>1, <2>1, <2>2, ShapeWith
<1>8. x \notin S1[r]
  BY <1>2, <1>3, <1>7
<1>9. Sub(n, ns, S, a) /\ Sub(n, ns, S, b) /\ Sub(n, ns, S, c)
  BY DEF RightTurn
<1>10. /\ After(ns, r, S[a]) /\ Before(ns, S[b], r)
  BY DEF RightTurn, Before, After
<1>11. ms[r].right = a /\ ms[r].left = b /\ ms[r].height = 1 + Larger(Height(ns, b), Height(ns, a))
  BY <1>4 DEF RotatedRight
<1> HIDE DEF a, b, c, ms
<1>12. 0 \notin {r, x} /\ SameOff(n, S, S1, {r, x})
  BY <1>1, <1>7 DEF SameOff
<1>13. Kept(n, ns, ms, S, S1, a)
  BY <1>2, <1>3, <1>5, <1>7, <1>9, <1>12, SubKept
<1>14. Kept(n, ns, ms, S, S1, b)
  BY <1>2, <1>3, <1>5, <1>7, <1>9, <1>12, SubKept
<1>15. Kept(n, ns, ms, S, S1, c)
  BY <1>2, <1>3, <1>5, <1>7, <1>9, <1>12, SubKept
<1>16. After(ms, r, S[a]) /\ Before(ms, S[b], r)
  BY <1>1, <1>3, <1>5, <1>10, OrderKept
<1>17. Between(n, ms, S1, r)
  BY <1>1, <1>2, <1>11, <1>13, <1>14, <1>16 DEF Between, Children, Kept
<1>18. S1[r] = S1[ms[r].right] \cup {r} \cup S1[ms[r].left]
  BY <1>7, <1>11, <1>13, <1>14 DEF Kept
<1>19. /\ Height(ms, ms[r].left) - Height(ms, ms[r].right) \in -1 .. 1
       /\ ms[r].height = 1 + Larger(Height(ms, ms[r].left), Height(ms, ms[r].right))
  BY <1>11, <1>13, <1>14 DEF a, b, Kept
<1>20. Sub(n, ms, S1, r)
  BY <1>7, <1>17, <1>18, <1>19, Join
<1> QED
  BY <1>4, <1>5, <1>6, <1>7, <1>8, <1>15, <1>20 DEF a, b, c, ms, Kept, TurnedRightLow

TurnedRight(n, ns, S, S2, t, r, x) ==
    /\ Shape(n, S2) /\ S2[x] = RightAll(ns, S, r, x) /\ SameOff(n, S, S2, {r, x})
    /\ Sub(n, t.nodes, S2, x)
    /\ t.root = x /\ Touches(n, ns, t.nodes, {r, x}) /\ Keyed(n, t.nodes)
    /\ t.nodes[x].height = 1 + Larger(Height(ns, ns[x].left), 1 + Larger(Height(ns, ns[x].right), Height(ns, ns[r].right)))

\* rotate_right makes a tree of all of them, if their heights allow it.
LEMMA TurnRight ==
    ASSUME NEW n \in Nat, NEW ns, Keyed(n, ns), NEW S, Shape(n, S), NEW r, NEW x,
           RightTurn(n, ns, S, r, x),
           Height(ns, ns[x].right) - Height(ns, ns[r].right) \in -1 .. 1,
           Height(ns, ns[x].left) - (1 + Larger(Height(ns, ns[x].right), Height(ns, ns[r].right))) \in -1 .. 1,
           NEW t, t = RotateRight(ns, r)
    PROVE  \E S2 : TurnedRight(n, ns, S, S2, t, r, x)
<1> DEFINE S1 == Assign(S, r, RightLow(ns, S, r, x))
           A == RightAll(ns, S, r, x)
           S2 == Assign(S1, x, A)
           a == ns[r].right
           b == ns[x].right
           c == ns[x].left
           ms == t.nodes
           h == 1 + Larger(Height(ns, b), Height(ns, a))
<1>1. r \in 1 .. n /\ x \in 1 .. n /\ ns \in NodeLists(n)
  BY DEF RightTurn, Keyed
<1>2. x # r /\ c \in 0 .. n /\ c \notin {r, x}
      /\ S[a] \in SUBSET (1 .. n) /\ S[b] \in SUBSET (1 .. n) /\ S[c] \in SUBSET (1 .. n) /\ S[c] \cap {r, x} = {}
  BY RightTurnApart
<1>0. S1 = Assign(S, r, RightLow(ns, S, r, x))
  OBVIOUS
<1>3. /\ RotatedRight(n, ns, t, r, x)
      /\ Keyed(n, ms) /\ Shape(n, S1)
      /\ S1[r] = RightLow(ns, S, r, x) /\ x \notin S1[r]
      /\ SameOff(n, S, S1, {r})
      /\ Sub(n, ms, S1, r) /\ Sub(n, ms, S1, c)
  <2>1. TurnedRightLow(n, ns, S, S1, t, r, x)
    <3> HIDE DEF S1
    <3> QED
      BY <1>0, TurnRightLow
  <2> QED
    BY <2>1 DEF TurnedRightLow
<1>4. /\ t.root = x /\ Touches(n, ns, ms, {r, x})
      /\ ms[x].right = r /\ ms[x].left = c /\ ms[r].height = h
      /\ ms[x].height = 1 + Larger(Height(ns, c), ms[r].height)
  BY <1>3 DEF RotatedRight
<1>5. RightLow(ns, S, r, x) = S[a] \cup {r} \cup S[b] /\ A = S1[r] \cup {x} \cup S[c]
  BY <1>3 DEF RightLow, RightAll
<1>6. A \in SUBSET (1 .. n) /\ x \in A
  BY <1>1, <1>2, <1>3, <1>5
<1>7. Height(ns, c) - h \in -1 .. 1
  OBVIOUS
<1>8. /\ \A y \in S[a] : ns[r].end <= ns[y].start
      /\ \A y \in S[b] : ns[x].end <= ns[y].start
      /\ ns[x].end <= ns[r].start
      /\ \A y \in S[c] : ns[y].end <= ns[x].start
  BY DEF RightTurn
<1>9. S2 = Assign(S1, x, A)
  OBVIOUS
<1> HIDE DEF a, b, c, h, ms, S1, S2, A
<1>10. Shape(n, S2) /\ S2[x] = A /\ SameOff(n, S1, S2, {x})
  BY <1>1, <1>3, <1>6, <1>9, ShapeWith
<1>11. Touches(n, ms, ms, {x}) /\ 0 \notin {x}
  BY <1>1, <1>3, <1>10, TouchesNone DEF Keyed
<1>12. Kept(n, ms, ms, S1, S2, r)
  <2>1. r \in 0 .. n /\ S1[r] \cap {x} = {}
    BY <1>1, <1>3
  <2> QED
    BY <1>3, <1>10, <1>11, <2>1, SubKept
<1>13. Kept(n, ms, ms, S1, S2, c) /\ S1[c] = S[c]
  <2>1. S1[c] = S[c] /\ S1[c] \cap {x} = {}
    BY <1>2, <1>3 DEF SameOff
  <2> QED
    BY <1>2, <1>3, <1>10, <1>11, <2>1, SubKept
<1>14. Height(ms, r) = h /\ Height(ms, c) = Height(ns, c)
  <2>1. Height(ms, r) = h
    BY <1>1, <1>4 DEF Height
  <2> QED
    BY <1>2, <1>4, <2>1, HeightKept
<1>15. After(ms, x, S2[r]) /\ Before(ms, S2[c], x)
  <2>1. \A y \in 1 .. n : ns[y].end \in Nat /\ ns[y].start \in Nat /\ ns[y].start < ns[y].end
    BY DEF Keyed, NodeLists, Nodes
  <2>2. After(ns, x, S[b]) /\ Before(ns, S[c], x)
    BY <1>8 DEF Before, After
  <2>3. \A y \in S[a] : ns[x].end <= ns[y].start
    BY <1>1, <1>2, <1>8, <2>1
  <2>4. After(ns, x, S1[r])
    BY <1>3, <1>5, <1>8, <2>2, <2>3 DEF Before, After
  <2>5. S1[r] \in SUBSET (1 .. n)
    BY <1>1, <1>2, <1>3, <1>5
  <2> QED
    BY <1>1, <1>2, <1>4, <1>12, <1>13, <2>2, <2>4, <2>5, OrderKept DEF Kept
<1>16. Between(n, ms, S2, x)
  BY <1>1, <1>2, <1>4, <1>12, <1>13, <1>15 DEF Between, Children, Kept
<1>17. S2[x] = S2[ms[x].right] \cup {x} \cup S2[ms[x].left]
  BY <1>4, <1>5, <1>10, <1>12, <1>13 DEF Kept
<1>18. /\ Height(ms, ms[x].left) - Height(ms, ms[x].right) \in -1 .. 1
       /\ ms[x].height = 1 + Larger(Height(ms, ms[x].left), Height(ms, ms[x].right))
  BY <1>4, <1>7, <1>14
<1>19. Sub(n, ms, S2, x)
  BY <1>10, <1>16, <1>17, <1>18, Join
<1>20. SameOff(n, S, S2, {r, x})
  BY <1>3, <1>10 DEF SameOff
<1>21. ms[x].height = 1 + Larger(Height(ns, c), h)
  BY <1>4
<1> QED
  BY <1>3, <1>4, <1>10, <1>19, <1>20, <1>21 DEF a, b, c, h, ms, A, TurnedRight

-----------------------------------------------------------------------------
(* Rebalancing a node whose subtrees differ in height by two.              *)

Leftward(ns, y, start) == start < ns[y].start
Rightward(ns, y, start) == start > ns[y].start

\* A node between two trees, and what is there in all.
Loose(n, ns, S, r) == Keyed(n, ns) /\ Shape(n, S) /\ Between(n, ns, S, r)
All(ns, S, r) == S[ns[r].left] \cup {r} \cup S[ns[r].right]

\* t is a tree of all that was at r.
Rebuilt(n, ns, S, S2, t, r) ==
    /\ Shape(n, S2) /\ t.root \in 1 .. n
    /\ S2[t.root] = All(ns, S, r) /\ SameOff(n, S, S2, All(ns, S, r))
    /\ Touches(n, ns, t.nodes, All(ns, S, r)) /\ Keyed(n, t.nodes)
    /\ Sub(n, t.nodes, S2, t.root)

\* The order of the parts at a node and its left child.
LEMMA LooseFacts ==
    ASSUME NEW n \in Nat, NEW ns, NEW S, NEW r, Loose(n, ns, S, r)
    PROVE  /\ r \in 1 .. n /\ ns[r].left \in 0 .. n /\ ns[r].right \in 0 .. n
           /\ S[ns[r].left] \in SUBSET (1 .. n) /\ S[ns[r].right] \in SUBSET (1 .. n)
           /\ r \notin S[ns[r].left] /\ r \notin S[ns[r].right]
           /\ S[ns[r].left] \cap S[ns[r].right] = {}
           /\ ns[r].left # r /\ ns[r].right # r
           /\ Sub(n, ns, S, ns[r].left) /\ Sub(n, ns, S, ns[r].right)
           /\ Height(ns, ns[r].left) \in Nat /\ Height(ns, ns[r].right) \in Nat
           /\ (\A y \in S[ns[r].left] : ns[y].end <= ns[r].start)
           /\ (\A y \in S[ns[r].right] : ns[r].end <= ns[y].start)
<1>1. r \in 1 .. n /\ ns[r].left \in 0 .. n /\ ns[r].right \in 0 .. n
  BY DEF Loose, Between, Children
<1>2. S[ns[r].left] \in SUBSET (1 .. n) /\ S[ns[r].right] \in SUBSET (1 .. n)
  BY <1>1 DEF Loose, Shape
<1>3. /\ r \notin S[ns[r].left] /\ r \notin S[ns[r].right]
      /\ S[ns[r].left] \cap S[ns[r].right] = {}
      /\ ns[r].left # r /\ ns[r].right # r
  BY Disjoint DEF Loose
<1>4. Height(ns, ns[r].left) \in Nat /\ Height(ns, ns[r].right) \in Nat
  BY <1>1, HeightType DEF Loose, Keyed
<1>5. Sub(n, ns, S, ns[r].left) /\ Sub(n, ns, S, ns[r].right)
  BY DEF Loose, Between
<1>6. /\ \A y \in S[ns[r].left] : ns[y].end <= ns[r].start
      /\ \A y \in S[ns[r].right] : ns[r].end <= ns[y].start
  BY DEF Loose, Between, Before, After
<1> QED
  BY <1>1, <1>2, <1>3, <1>4, <1>5, <1>6

\* The child of a node that is too high has children of its own.
RightChildOf(n, ns, S, r, x) ==
    /\ x \in 1 .. n /\ x # r /\ x \in S[ns[r].right] /\ S[x] = S[ns[r].right]
    /\ Children(n, ns, x)
    /\ S[x] = S[ns[x].left] \cup {x} \cup S[ns[x].right]
    /\ Sub(n, ns, S, ns[x].left) /\ Sub(n, ns, S, ns[x].right)
    /\ \A y \in S[ns[x].left] : ns[y].end <= ns[x].start
    /\ \A y \in S[ns[x].right] : ns[x].end <= ns[y].start
    /\ Height(ns, ns[x].left) \in Nat /\ Height(ns, ns[x].right) \in Nat
    /\ ns[x].height = 1 + Larger(Height(ns, ns[x].left), Height(ns, ns[x].right))
    /\ Height(ns, ns[x].left) - Height(ns, ns[x].right) \in -1 .. 1

\* The right child has these parts.
LEMMA RightChild ==
    ASSUME NEW n \in Nat, NEW ns, NEW S, NEW r, Loose(n, ns, S, r), ns[r].right # 0
    PROVE  RightChildOf(n, ns, S, r, ns[r].right)
<1> DEFINE x == ns[r].right
<1>1. x \in 1 .. n /\ x # r /\ Sub(n, ns, S, x) /\ Shape(n, S) /\ ns \in NodeLists(n)
  <2>1. x \in 0 .. n /\ x # r /\ Sub(n, ns, S, x)
    BY LooseFacts
  <2> QED
    BY <2>1 DEF Loose, Keyed
<1> HIDE DEF x
<1>2. NodeOK(n, ns, S, x) /\ Sub(n, ns, S, ns[x].left) /\ Sub(n, ns, S, ns[x].right)
  BY <1>1, SubRoot
<1>3. x \in S[x] /\ Children(n, ns, x)
  BY <1>1, <1>2 DEF Shape, NodeOK
<1>4. Height(ns, ns[x].left) \in Nat /\ Height(ns, ns[x].right) \in Nat
  BY <1>1, <1>3, HeightType DEF Children
<1>5. /\ \A y \in S[ns[x].left] : ns[y].end <= ns[x].start
      /\ \A y \in S[ns[x].right] : ns[x].end <= ns[y].start
  BY <1>2 DEF NodeOK, Before, After
<1>6. RightChildOf(n, ns, S, r, x)
  <2>1. S[x] = S[ns[r].right]
    BY DEF x
  <2> QED
    BY <1>1, <1>2, <1>3, <1>4, <1>5, <2>1 DEF RightChildOf, NodeOK
<1> QED
  BY <1>6 DEF x

\* The child of a node that is too high has children of its own.
LeftChildOf(n, ns, S, r, x) ==
    /\ x \in 1 .. n /\ x # r /\ x \in S[ns[r].left] /\ S[x] = S[ns[r].left]
    /\ Children(n, ns, x)
    /\ S[x] = S[ns[x].right] \cup {x} \cup S[ns[x].left]
    /\ Sub(n, ns, S, ns[x].right) /\ Sub(n, ns, S, ns[x].left)
    /\ \A y \in S[ns[x].right] : ns[x].end <= ns[y].start
    /\ \A y \in S[ns[x].left] : ns[y].end <= ns[x].start
    /\ Height(ns, ns[x].right) \in Nat /\ Height(ns, ns[x].left) \in Nat
    /\ ns[x].height = 1 + Larger(Height(ns, ns[x].left), Height(ns, ns[x].right))
    /\ Height(ns, ns[x].left) - Height(ns, ns[x].right) \in -1 .. 1

\* The left child has these parts.
LEMMA LeftChild ==
    ASSUME NEW n \in Nat, NEW ns, NEW S, NEW r, Loose(n, ns, S, r), ns[r].left # 0
    PROVE  LeftChildOf(n, ns, S, r, ns[r].left)
<1> DEFINE x == ns[r].left
<1>1. x \in 1 .. n /\ x # r /\ Sub(n, ns, S, x) /\ Shape(n, S) /\ ns \in NodeLists(n)
  <2>1. x \in 0 .. n /\ x # r /\ Sub(n, ns, S, x)
    BY LooseFacts
  <2> QED
    BY <2>1 DEF Loose, Keyed
<1> HIDE DEF x
<1>2. NodeOK(n, ns, S, x) /\ Sub(n, ns, S, ns[x].right) /\ Sub(n, ns, S, ns[x].left)
  BY <1>1, SubRoot
<1>3. x \in S[x] /\ Children(n, ns, x)
  BY <1>1, <1>2 DEF Shape, NodeOK
<1>4. Height(ns, ns[x].right) \in Nat /\ Height(ns, ns[x].left) \in Nat
  BY <1>1, <1>3, HeightType DEF Children
<1>5. /\ \A y \in S[ns[x].right] : ns[x].end <= ns[y].start
      /\ \A y \in S[ns[x].left] : ns[y].end <= ns[x].start
  BY <1>2 DEF NodeOK, Before, After
<1>6. LeftChildOf(n, ns, S, r, x)
  <2>1. S[x] = S[ns[r].left]
    BY DEF x
  <2> QED
    BY <1>1, <1>2, <1>3, <1>4, <1>5, <2>1 DEF LeftChildOf, NodeOK
<1> QED
  BY <1>6 DEF x

\* Heights of the subtrees of the higher child.
LEMMA HigherChild ==
    ASSUME NEW h \in Nat, NEW b \in Nat, NEW c \in Nat, NEW m,
           m = 1 + Larger(b, c) \/ m = 1 + Larger(c, b), m = h + 2, c = b + 1
    PROVE  c = h + 1 /\ b = h
BY DEF Larger

\* One rotation suffices when the outer subtree is the higher one.
LEMMA SingleLeft ==
    ASSUME NEW n \in Nat, NEW ns, NEW S, NEW r, Loose(n, ns, S, r),
           Height(ns, ns[r].right) = Height(ns, ns[r].left) + 2,
           NEW x, x = ns[r].right,
           Height(ns, ns[x].right) = Height(ns, ns[x].left) + 1,
           NEW v, Touches(n, ns, v, {r}), v[r].left = ns[r].left, v[r].right = x,
           NEW t, t = RotateLeft(v, r)
    PROVE  \E S2 : /\ Rebuilt(n, ns, S, S2, t, r)
                   /\ t.nodes[t.root].height = Height(ns, ns[r].right)
<1> DEFINE a == ns[r].left
           b == ns[x].left
           c == ns[x].right
           h == Height(ns, a)
<1>1. /\ r \in 1 .. n /\ a \in 0 .. n /\ S[a] \in SUBSET (1 .. n) /\ S[x] \in SUBSET (1 .. n)
      /\ r \notin S[a] /\ r \notin S[x] /\ a # r
      /\ Sub(n, ns, S, a) /\ Height(ns, a) \in Nat
      /\ (\A y \in S[a] : ns[y].end <= ns[r].start)
      /\ (\A y \in S[x] : ns[r].end <= ns[y].start)
  BY LooseFacts
<1>2. Keyed(n, ns) /\ Shape(n, S) /\ Keyed(n, v)
  BY KeyedKept DEF Loose
<1>3. x # 0
  BY <1>1 DEF Height
<1>4. RightChildOf(n, ns, S, r, x)
  BY <1>3, RightChild
<1>5. /\ x \in 1 .. n /\ x # r /\ x \in S[x]
      /\ b \in 0 .. n /\ c \in 0 .. n
      /\ S[x] = S[b] \cup {x} \cup S[c]
      /\ Sub(n, ns, S, b) /\ Sub(n, ns, S, c)
      /\ (\A y \in S[b] : ns[y].end <= ns[x].start)
      /\ (\A y \in S[c] : ns[x].end <= ns[y].start)
      /\ Height(ns, b) \in Nat /\ Height(ns, c) \in Nat
      /\ ns[x].height = 1 + Larger(Height(ns, b), Height(ns, c))
  BY <1>4 DEF RightChildOf, Children
<1>6. Height(ns, c) = h + 1 /\ Height(ns, b) = h /\ Height(ns, x) = h + 2
  <2>1. Height(ns, x) = ns[x].height
    BY <1>3 DEF Height
  <2>2. Height(ns, x) = h + 2 /\ Height(ns, c) = Height(ns, b) + 1 /\ h \in Nat
    BY <1>1
  <2>3. Height(ns, b) \in Nat /\ Height(ns, c) \in Nat
        /\ Height(ns, x) = 1 + Larger(Height(ns, b), Height(ns, c))
    BY <1>5, <2>1
  <2> HIDE DEF b, c, h
  <2> QED
    BY <2>2, <2>3, HigherChild
<1>7. v[x] = ns[x]
  BY <1>5 DEF Touches
<1>8. v[x].left = b /\ v[x].right = c /\ v[r].left = a
  BY <1>7
<1> HIDE DEF a, b, c, h
<1>9. 0 \notin {r} /\ SameOff(n, S, S, {r})
  BY <1>1 DEF SameOff
<1>10. Kept(n, ns, v, S, S, a)
  <2>1. S[a] \cap {r} = {}
    BY <1>1
  <2> QED
    BY <1>1, <1>2, <1>9, <2>1, SubKept
<1>11. Kept(n, ns, v, S, S, b)
  <2>1. S[b] \cap {r} = {}
    BY <1>1, <1>5
  <2> QED
    BY <1>2, <1>5, <1>9, <2>1, SubKept
<1>12. Kept(n, ns, v, S, S, c)
  <2>1. S[c] \cap {r} = {}
    BY <1>1, <1>5
  <2> QED
    BY <1>2, <1>5, <1>9, <2>1, SubKept
<1>13. LeftTurn(n, v, S, r, x)
  <2>1. \A y \in 1 .. n : v[y].start = ns[y].start /\ v[y].end = ns[y].end
    BY DEF Touches
  <2>2. S[b] \subseteq S[x] /\ S[c] \subseteq S[x] /\ S[b] \subseteq 1 .. n /\ S[c] \subseteq 1 .. n
    BY <1>1, <1>5
  <2>3. \A y \in S[a] : v[y].end <= v[r].start
    BY <1>1, <2>1
  <2>4. \A y \in S[b] : v[r].end <= v[y].start /\ v[y].end <= v[x].start
    BY <1>1, <1>5, <2>1, <2>2
  <2>5. v[r].end <= v[x].start
    BY <1>1, <1>5, <2>1
  <2>6. \A y \in S[c] : v[r].end <= v[y].start /\ v[x].end <= v[y].start
    BY <1>1, <1>5, <2>1, <2>2
  <2>7. Children(n, v, r) /\ Children(n, v, x)
    BY <1>1, <1>5, <1>8 DEF Children
  <2>8. Sub(n, v, S, a) /\ Sub(n, v, S, b) /\ Sub(n, v, S, c)
    BY <1>10, <1>11, <1>12 DEF Kept
  <2> QED
    BY <1>1, <1>5, <1>8, <2>3, <2>4, <2>5, <2>6, <2>7, <2>8 DEF LeftTurn
<1>14. Height(v, a) = h /\ Height(v, b) = h /\ Height(v, c) = h + 1 /\ h \in Nat
  BY <1>1, <1>6, <1>10, <1>11, <1>12 DEF Kept, h
<1>15. PICK S2 : TurnedLeft(n, v, S, S2, t, r, x)
  <2>1. Height(v, v[r].left) - Height(v, v[x].left) \in -1 .. 1
    BY <1>8, <1>14
  <2>2. (1 + Larger(Height(v, v[r].left), Height(v, v[x].left))) - Height(v, v[x].right) \in -1 .. 1
    BY <1>8, <1>14 DEF Larger
  <2> QED
    BY <1>2, <1>13, <2>1, <2>2, TurnLeft
<1> DEFINE A == All(ns, S, r)
<1>16. A = S[a] \cup {r} \cup S[x] /\ {r} \subseteq A /\ {r, x} \subseteq A
  BY <1>5 DEF All, a
<1>17. /\ Shape(n, S2) /\ S2[x] = LeftAll(v, S, r, x) /\ SameOff(n, S, S2, {r, x})
       /\ Sub(n, t.nodes, S2, x)
       /\ t.root = x /\ Touches(n, v, t.nodes, {r, x}) /\ Keyed(n, t.nodes)
       /\ t.nodes[x].height = 1 + Larger(1 + Larger(Height(v, a), Height(v, b)), Height(v, c))
  BY <1>8, <1>15 DEF TurnedLeft
<1>18. S2[t.root] = A
  BY <1>5, <1>8, <1>16, <1>17 DEF LeftAll, LeftLow
<1>19. t.nodes[t.root].height = Height(ns, x)
  BY <1>6, <1>14, <1>17 DEF Larger
<1>20. SameOff(n, S, S2, A) /\ Touches(n, ns, t.nodes, A)
  <2>1. {r} \cup {r, x} \subseteq A /\ {r, x} \subseteq A
    BY <1>16
  <2> HIDE DEF A
  <2>2. Touches(n, ns, t.nodes, {r} \cup {r, x})
    BY <1>17, TouchesTrans
  <2>3. SameOff(n, S, S2, A)
    BY <1>17, <2>1 DEF SameOff
  <2> QED
    BY <2>1, <2>2, <2>3, TouchesMore
<1>21. Rebuilt(n, ns, S, S2, t, r)
  BY <1>5, <1>17, <1>18, <1>20 DEF Rebuilt
<1> QED
  BY <1>19, <1>21

\* One rotation suffices when the outer subtree is the higher one.
LEMMA SingleRight ==
    ASSUME NEW n \in Nat, NEW ns, NEW S, NEW r, Loose(n, ns, S, r),
           Height(ns, ns[r].left) = Height(ns, ns[r].right) + 2,
           NEW x, x = ns[r].left,
           Height(ns, ns[x].left) = Height(ns, ns[x].right) + 1,
           NEW v, Touches(n, ns, v, {r}), v[r].right = ns[r].right, v[r].left = x,
           NEW t, t = RotateRight(v, r)
    PROVE  \E S2 : /\ Rebuilt(n, ns, S, S2, t, r)
                   /\ t.nodes[t.root].height = Height(ns, ns[r].left)
<1> DEFINE a == ns[r].right
           b == ns[x].right
           c == ns[x].left
           h == Height(ns, a)
<1>1. /\ r \in 1 .. n /\ a \in 0 .. n /\ S[a] \in SUBSET (1 .. n) /\ S[x] \in SUBSET (1 .. n)
      /\ r \notin S[a] /\ r \notin S[x] /\ a # r
      /\ Sub(n, ns, S, a) /\ Height(ns, a) \in Nat
      /\ (\A y \in S[a] : ns[r].end <= ns[y].start)
      /\ (\A y \in S[x] : ns[y].end <= ns[r].start)
  BY LooseFacts
<1>2. Keyed(n, ns) /\ Shape(n, S) /\ Keyed(n, v)
  BY KeyedKept DEF Loose
<1>3. x # 0
  BY <1>1 DEF Height
<1>4. LeftChildOf(n, ns, S, r, x)
  BY <1>3, LeftChild
<1>5. /\ x \in 1 .. n /\ x # r /\ x \in S[x]
      /\ b \in 0 .. n /\ c \in 0 .. n
      /\ S[x] = S[b] \cup {x} \cup S[c]
      /\ Sub(n, ns, S, b) /\ Sub(n, ns, S, c)
      /\ (\A y \in S[b] : ns[x].end <= ns[y].start)
      /\ (\A y \in S[c] : ns[y].end <= ns[x].start)
      /\ Height(ns, b) \in Nat /\ Height(ns, c) \in Nat
      /\ ns[x].height = 1 + Larger(Height(ns, c), Height(ns, b))
  BY <1>4 DEF LeftChildOf, Children
<1>6. Height(ns, c) = h + 1 /\ Height(ns, b) = h /\ Height(ns, x) = h + 2
  <2>1. Height(ns, x) = ns[x].height
    BY <1>3 DEF Height
  <2>2. Height(ns, x) = h + 2 /\ Height(ns, c) = Height(ns, b) + 1 /\ h \in Nat
    BY <1>1
  <2>3. Height(ns, b) \in Nat /\ Height(ns, c) \in Nat
        /\ Height(ns, x) = 1 + Larger(Height(ns, c), Height(ns, b))
    BY <1>5, <2>1
  <2> HIDE DEF b, c, h
  <2> QED
    BY <2>2, <2>3, HigherChild
<1>7. v[x] = ns[x]
  BY <1>5 DEF Touches
<1>8. v[x].right = b /\ v[x].left = c /\ v[r].right = a
  BY <1>7
<1> HIDE DEF a, b, c, h
<1>9. 0 \notin {r} /\ SameOff(n, S, S, {r})
  BY <1>1 DEF SameOff
<1>10. Kept(n, ns, v, S, S, a)
  <2>1. S[a] \cap {r} = {}
    BY <1>1
  <2> QED
    BY <1>1, <1>2, <1>9, <2>1, SubKept
<1>11. Kept(n, ns, v, S, S, b)
  <2>1. S[b] \cap {r} = {}
    BY <1>1, <1>5
  <2> QED
    BY <1>2, <1>5, <1>9, <2>1, SubKept
<1>12. Kept(n, ns, v, S, S, c)
  <2>1. S[c] \cap {r} = {}
    BY <1>1, <1>5
  <2> QED
    BY <1>2, <1>5, <1>9, <2>1, SubKept
<1>13. RightTurn(n, v, S, r, x)
  <2>1. \A y \in 1 .. n : v[y].end = ns[y].end /\ v[y].start = ns[y].start
    BY DEF Touches
  <2>2. S[b] \subseteq S[x] /\ S[c] \subseteq S[x] /\ S[b] \subseteq 1 .. n /\ S[c] \subseteq 1 .. n
    BY <1>1, <1>5
  <2>3. \A y \in S[a] : v[r].end <= v[y].start
    BY <1>1, <2>1
  <2>4. \A y \in S[b] : v[y].end <= v[r].start /\ v[x].end <= v[y].start
    BY <1>1, <1>5, <2>1, <2>2
  <2>5. v[x].end <= v[r].start
    BY <1>1, <1>5, <2>1
  <2>6. \A y \in S[c] : v[y].end <= v[r].start /\ v[y].end <= v[x].start
    BY <1>1, <1>5, <2>1, <2>2
  <2>7. Children(n, v, r) /\ Children(n, v, x)
    BY <1>1, <1>5, <1>8 DEF Children
  <2>8. Sub(n, v, S, a) /\ Sub(n, v, S, b) /\ Sub(n, v, S, c)
    BY <1>10, <1>11, <1>12 DEF Kept
  <2> QED
    BY <1>1, <1>5, <1>8, <2>3, <2>4, <2>5, <2>6, <2>7, <2>8 DEF RightTurn
<1>14. Height(v, a) = h /\ Height(v, b) = h /\ Height(v, c) = h + 1 /\ h \in Nat
  BY <1>1, <1>6, <1>10, <1>11, <1>12 DEF Kept, h
<1>15. PICK S2 : TurnedRight(n, v, S, S2, t, r, x)
  <2>1. Height(v, v[x].right) - Height(v, v[r].right) \in -1 .. 1
    BY <1>8, <1>14
  <2>2. Height(v, v[x].left) - (1 + Larger(Height(v, v[x].right), Height(v, v[r].right))) \in -1 .. 1
    BY <1>8, <1>14 DEF Larger
  <2> QED
    BY <1>2, <1>13, <2>1, <2>2, TurnRight
<1> DEFINE A == All(ns, S, r)
<1>16. A = S[a] \cup {r} \cup S[x] /\ {r} \subseteq A /\ {r, x} \subseteq A
  BY <1>5 DEF All, a
<1>17. /\ Shape(n, S2) /\ S2[x] = RightAll(v, S, r, x) /\ SameOff(n, S, S2, {r, x})
       /\ Sub(n, t.nodes, S2, x)
       /\ t.root = x /\ Touches(n, v, t.nodes, {r, x}) /\ Keyed(n, t.nodes)
       /\ t.nodes[x].height = 1 + Larger(Height(v, c), 1 + Larger(Height(v, b), Height(v, a)))
  BY <1>8, <1>15 DEF TurnedRight
<1>18. S2[t.root] = A
  BY <1>5, <1>8, <1>16, <1>17 DEF RightAll, RightLow
<1>19. t.nodes[t.root].height = Height(ns, x)
  BY <1>6, <1>14, <1>17 DEF Larger
<1>20. SameOff(n, S, S2, A) /\ Touches(n, ns, t.nodes, A)
  <2>1. {r} \cup {r, x} \subseteq A /\ {r, x} \subseteq A
    BY <1>16
  <2> HIDE DEF A
  <2>2. Touches(n, ns, t.nodes, {r} \cup {r, x})
    BY <1>17, TouchesTrans
  <2>3. SameOff(n, S, S2, A)
    BY <1>17, <2>1 DEF SameOff
  <2> QED
    BY <2>1, <2>2, <2>3, TouchesMore
<1>21. Rebuilt(n, ns, S, S2, t, r)
  BY <1>5, <1>17, <1>18, <1>20 DEF Rebuilt
<1> QED
  BY <1>19, <1>21

\* Heights of the subtrees of the higher inner grandchild.
LEMMA HigherGrandchild ==
    ASSUME NEW h \in Nat, NEW b \in Nat, NEW c \in Nat, NEW m,
           m = 1 + Larger(b, c), m = h + 1, b - c \in -1 .. 1
    PROVE  b \in {h, h - 1} /\ c \in {h, h - 1}
BY DEF Larger

\* Two rotations are needed when the inner subtree is the higher one.
LEMMA DoubleLeft ==
    ASSUME NEW n \in Nat, NEW ns, NEW S, NEW r, Loose(n, ns, S, r),
           Height(ns, ns[r].right) = Height(ns, ns[r].left) + 2,
           NEW x, x = ns[r].right,
           Height(ns, ns[x].left) = Height(ns, ns[x].right) + 1,
           NEW i, i = RotateRight(ns, x),
           NEW v, RightSet(n, i.nodes, v, r, i.root),
           NEW t, t = RotateLeft(v, r)
    PROVE  \E S2 : /\ Rebuilt(n, ns, S, S2, t, r)
                   /\ t.nodes[t.root].height = Height(ns, ns[r].right)
<1> DEFINE a == ns[r].left
           c == ns[x].right
           y == ns[x].left
           p == ns[y].left
           q == ns[y].right
           h == Height(ns, a)
<1>1. /\ r \in 1 .. n /\ a \in 0 .. n /\ S[a] \in SUBSET (1 .. n) /\ S[x] \in SUBSET (1 .. n)
      /\ r \notin S[a] /\ r \notin S[x] /\ a # r /\ S[a] \cap S[x] = {}
      /\ Sub(n, ns, S, a) /\ Height(ns, a) \in Nat
      /\ (\A z \in S[a] : ns[z].end <= ns[r].start)
      /\ (\A z \in S[x] : ns[r].end <= ns[z].start)
  BY LooseFacts
<1>2. Keyed(n, ns) /\ Shape(n, S)
  BY DEF Loose
<1>3. x # 0
  BY <1>1 DEF Height
<1>4. RightChildOf(n, ns, S, r, x)
  BY <1>3, RightChild
<1>5. /\ x \in 1 .. n /\ x # r /\ x \in S[x]
      /\ y \in 0 .. n /\ c \in 0 .. n
      /\ S[x] = S[y] \cup {x} \cup S[c]
      /\ Sub(n, ns, S, y) /\ Sub(n, ns, S, c)
      /\ (\A z \in S[y] : ns[z].end <= ns[x].start)
      /\ (\A z \in S[c] : ns[x].end <= ns[z].start)
      /\ Height(ns, y) \in Nat /\ Height(ns, c) \in Nat
      /\ ns[x].height = 1 + Larger(Height(ns, y), Height(ns, c))
  BY <1>4 DEF RightChildOf, Children
<1>6. Height(ns, y) = h + 1 /\ Height(ns, c) = h /\ Height(ns, x) = h + 2 /\ h \in Nat
  <2>1. Height(ns, x) = ns[x].height
    BY <1>3 DEF Height
  <2>2. Height(ns, x) = h + 2 /\ Height(ns, y) = Height(ns, c) + 1 /\ h \in Nat
    BY <1>1
  <2>3. Height(ns, y) \in Nat /\ Height(ns, c) \in Nat
        /\ Height(ns, x) = 1 + Larger(Height(ns, y), Height(ns, c))
    BY <1>5, <2>1
  <2> HIDE DEF y, c, h
  <2> QED
    BY <2>2, <2>3, HigherChild
<1>7. y # 0 /\ Loose(n, ns, S, x)
  <2>1. y # 0
    BY <1>6 DEF Height
  <2>2. Between(n, ns, S, x)
    BY <1>5 DEF Between, Children, Before, After
  <2> QED
    BY <1>2, <2>1, <2>2 DEF Loose
<1>8. LeftChildOf(n, ns, S, x, y)
  BY <1>7, LeftChild
<1>9. /\ y \in 1 .. n /\ y # x /\ y \in S[y]
      /\ p \in 0 .. n /\ q \in 0 .. n
      /\ S[y] = S[p] \cup {y} \cup S[q]
      /\ Sub(n, ns, S, p) /\ Sub(n, ns, S, q)
      /\ (\A z \in S[p] : ns[z].end <= ns[y].start)
      /\ (\A z \in S[q] : ns[y].end <= ns[z].start)
      /\ Height(ns, p) \in Nat /\ Height(ns, q) \in Nat
      /\ Height(ns, p) - Height(ns, q) \in -1 .. 1
      /\ ns[y].height = 1 + Larger(Height(ns, p), Height(ns, q))
  BY <1>8 DEF LeftChildOf, Children
<1>10. Height(ns, p) \in {h, h - 1} /\ Height(ns, q) \in {h, h - 1}
  <2>1. ns[y].height = h + 1
    BY <1>6, <1>7 DEF Height
  <2> HIDE DEF y, p, q, h
  <2> QED
    BY <1>6, <1>9, <2>1, HigherGrandchild
<1>11. ns[r].right = x /\ ns[x].left = y /\ ns[x].right = c /\ ns[y].left = p /\ ns[y].right = q
       /\ ns[r].left = a
  OBVIOUS
<1> HIDE DEF a, c, y, p, q, h
<1>12. S[y] \subseteq S[x] /\ S[c] \subseteq S[x] /\ S[p] \subseteq S[y] /\ S[q] \subseteq S[y]
       /\ S[x] \subseteq 1 .. n
  BY <1>1, <1>5, <1>9
<1>13. RightTurn(n, ns, S, x, y)
  <2>1. \A z \in S[q] : ns[z].end <= ns[x].start /\ ns[y].end <= ns[z].start
    BY <1>5, <1>9, <1>12
  <2>2. ns[y].end <= ns[x].start
    BY <1>5, <1>9
  <2>3. \A z \in S[p] : ns[z].end <= ns[x].start /\ ns[z].end <= ns[y].start
    BY <1>5, <1>9, <1>12
  <2> QED
    BY <1>5, <1>9, <1>11, <2>1, <2>2, <2>3 DEF RightTurn, Children
<1> DEFINE S1 == Assign(S, x, RightLow(ns, S, x, y))
           ms == i.nodes
<1>14. TurnedRightLow(n, ns, S, S1, i, x, y)
  <2>1. Height(ns, ns[y].right) - Height(ns, ns[x].right) \in -1 .. 1
    BY <1>6, <1>10, <1>11
  <2>2. S1 = Assign(S, x, RightLow(ns, S, x, y))
    OBVIOUS
  <2> HIDE DEF S1
  <2> QED
    BY <1>2, <1>13, <2>1, <2>2, TurnRightLow
<1>15. /\ Keyed(n, ms) /\ Shape(n, S1)
       /\ S1[x] = S[c] \cup {x} \cup S[q] /\ y \notin S1[x]
       /\ SameOff(n, S, S1, {x})
       /\ Sub(n, ms, S1, x) /\ Sub(n, ms, S1, p)
  <2> HIDE DEF S1
  <2> QED
    BY <1>11, <1>14 DEF TurnedRightLow, RightLow
<1>16. /\ i.root = y /\ Touches(n, ns, ms, {x, y})
       /\ ms[y].left = p /\ ms[y].right = x
       /\ ms[x].height = 1 + Larger(Height(ns, q), Height(ns, c))
  <2> HIDE DEF S1
  <2> QED
    BY <1>11, <1>14 DEF TurnedRightLow, RotatedRight
<1> HIDE DEF S1, ms
<1>17. r \notin {x, y} /\ r \notin S[y] /\ a \notin {x, y}
  <2>1. a # 0 => a \in S[a]
    BY <1>1, <1>2 DEF Shape
  <2> QED
    BY <1>1, <1>5, <1>7, <1>9, <1>12, <2>1
<1>18. RightSet(n, ms, v, r, y) /\ Touches(n, ms, v, {r}) /\ Keyed(n, v)
  BY <1>15, <1>16, KeyedKept DEF RightSet, ms
<1>19. v[r].right = y /\ v[r].left = a /\ v[y] = ms[y] /\ v[x] = ms[x]
  <2>1. ms[r] = ns[r]
    BY <1>1, <1>16, <1>17 DEF Touches
  <2> QED
    BY <1>5, <1>9, <1>11, <1>17, <1>18, <2>1 DEF RightSet, Touches
<1>20. 0 \notin {r} /\ SameOff(n, S1, S1, {r})
  BY <1>1 DEF SameOff
<1>21. Kept(n, ms, v, S1, S1, x)
  <2>1. S1[x] \cap {r} = {} /\ x \in 0 .. n
    BY <1>1, <1>5, <1>12, <1>15
  <2> QED
    BY <1>15, <1>18, <1>20, <2>1, SubKept
<1>22. S1[p] = S[p] /\ p # x /\ p # y
  <2>1. p # 0 => p \in S[p]
    BY <1>2, <1>9 DEF Shape
  <2>2. x \notin S[y] /\ y \notin S[p]
    <3>1. ns[x].left = y /\ ns[y].left = p
      BY <1>11
    <3>2. Between(n, ns, S, y)
      BY <1>9, <1>11 DEF Between, Children, Before, After
    <3> QED
      BY <1>2, <1>7, <3>1, <3>2, Disjoint DEF Loose
  <2>3. p # x /\ p # y
    BY <1>5, <1>9, <1>12, <2>1, <2>2
  <2> QED
    BY <1>9, <1>15, <2>3 DEF SameOff
<1>23. Kept(n, ms, v, S1, S1, p)
  <2>1. S1[p] \cap {r} = {}
    BY <1>12, <1>17, <1>22
  <2> QED
    BY <1>9, <1>15, <1>18, <1>20, <2>1, SubKept
<1>24. Kept(n, ns, v, S, S1, a)
  <2>1. Touches(n, ns, v, {x, y, r}) /\ 0 \notin {x, y, r}
    <3>1. {x, y} \cup {r} = {x, y, r}
      OBVIOUS
    <3> QED
      BY <1>1, <1>5, <1>9, <1>16, <1>18, <3>1, TouchesTrans
  <2>2. S[a] \cap {x, y, r} = {}
    BY <1>1, <1>5, <1>9, <1>12
  <2>3. SameOff(n, S, S1, {x, y, r})
    BY <1>15 DEF SameOff
  <2> QED
    BY <1>1, <1>2, <1>15, <2>1, <2>2, <2>3, SubKept
<1>25. LeftTurn(n, v, S1, r, y)
  <2>1. \A z \in 1 .. n : v[z].start = ns[z].start /\ v[z].end = ns[z].end
    BY <1>16, <1>18 DEF Touches
  <2>2. \A z \in 1 .. n : ns[z].start \in Nat /\ ns[z].end \in Nat /\ ns[z].start < ns[z].end
    BY <1>2 DEF Keyed, NodeLists, Nodes
  <2>3. \A z \in S1[a] : v[z].end <= v[r].start
    BY <1>1, <1>24, <2>1 DEF Kept
  <2>4. \A z \in S1[p] : v[r].end <= v[z].start /\ v[z].end <= v[y].start
    BY <1>1, <1>9, <1>12, <1>22, <2>1
  <2>5. v[r].end <= v[y].start
    BY <1>1, <1>9, <1>12, <2>1
  <2>6. \A z \in S1[x] : v[r].end <= v[z].start /\ v[y].end <= v[z].start
    <3>1. ns[y].end <= ns[x].start
      BY <1>5, <1>9
    <3>2. \A z \in S[c] : ns[y].end <= ns[z].start
      BY <1>5, <1>9, <1>12, <2>2, <3>1
    <3>3. \A z \in S1[x] : ns[y].end <= ns[z].start
      BY <1>9, <1>15, <3>1, <3>2
    <3>4. \A z \in S1[x] : z \in S[x] /\ z \in 1 .. n
      BY <1>5, <1>12, <1>15
    <3> QED
      BY <1>1, <1>9, <2>1, <3>3, <3>4
  <2>7. v[y].left = p /\ v[y].right = x /\ v[r].left = a /\ v[r].right = y
    BY <1>16, <1>19
  <2>8. Sub(n, v, S1, a) /\ Sub(n, v, S1, p) /\ Sub(n, v, S1, x)
    BY <1>21, <1>23, <1>24 DEF Kept
  <2>9. Children(n, v, r) /\ Children(n, v, y)
    BY <1>1, <1>5, <1>9, <2>7 DEF Children
  <2> QED
    BY <1>1, <1>9, <2>3, <2>4, <2>5, <2>6, <2>7, <2>8, <2>9 DEF LeftTurn
<1>26. Height(v, a) = h /\ Height(v, p) = Height(ns, p) /\ Height(v, x) = h + 1
  <2>1. Height(v, a) = h
    BY <1>24 DEF Kept, h
  <2>2. Height(ms, p) = Height(ns, p)
    BY <1>9, <1>16, <1>22, HeightKept
  <2>3. Height(v, p) = Height(ms, p)
    BY <1>23 DEF Kept
  <2>4. Height(v, x) = ms[x].height
    BY <1>3, <1>19 DEF Height
  <2>5. 1 + Larger(Height(ns, q), Height(ns, c)) = h + 1
    <3> DEFINE hq == Height(ns, q)
    <3>1. hq \in {h, h - 1} /\ Height(ns, c) = h
      BY <1>6, <1>10
    <3> HIDE DEF hq
    <3>2. 1 + Larger(hq, h) = h + 1
      BY <1>6, <3>1 DEF Larger
    <3> QED
      BY <3>1, <3>2 DEF hq
  <2> QED
    BY <1>16, <2>1, <2>2, <2>3, <2>4, <2>5
<1>27. v[r].left = a /\ v[y].left = p /\ v[y].right = x
  BY <1>16, <1>19
<1>28. 1 + Larger(Height(v, a), Height(v, p)) = h + 1 /\ Height(v, a) - Height(v, p) \in -1 .. 1
  <2> DEFINE hp == Height(v, p)
  <2>1. hp \in {h, h - 1} /\ Height(v, a) = h
    BY <1>10, <1>26
  <2> HIDE DEF hp
  <2>2. 1 + Larger(h, hp) = h + 1 /\ h - hp \in -1 .. 1 /\ hp - h \in -1 .. 1
    BY <1>6, <2>1 DEF Larger
  <2> QED
    BY <2>1, <2>2 DEF hp
<1>29. PICK S2 : TurnedLeft(n, v, S1, S2, t, r, y)
  <2>1. Height(v, v[r].left) - Height(v, v[y].left) \in -1 .. 1
    BY <1>27, <1>28
  <2>2. (1 + Larger(Height(v, v[r].left), Height(v, v[y].left))) - Height(v, v[y].right) \in -1 .. 1
    BY <1>6, <1>26, <1>27, <1>28
  <2> QED
    BY <1>15, <1>18, <1>25, <2>1, <2>2, TurnLeft
<1> DEFINE A == All(ns, S, r)
<1>30. A = S[a] \cup {r} \cup S[x] /\ {r, x, y} \subseteq A
  BY <1>5, <1>9, <1>11, <1>12 DEF All
<1>31. /\ Shape(n, S2) /\ S2[y] = LeftAll(v, S1, r, y) /\ SameOff(n, S1, S2, {r, y})
       /\ Sub(n, t.nodes, S2, y)
       /\ t.root = y /\ Touches(n, v, t.nodes, {r, y}) /\ Keyed(n, t.nodes)
       /\ t.nodes[y].height = 1 + Larger(1 + Larger(Height(v, a), Height(v, p)), Height(v, x))
  BY <1>27, <1>29 DEF TurnedLeft
<1>32. S2[t.root] = A
  <2>1. LeftAll(v, S1, r, y) = S1[a] \cup {r} \cup S1[p] \cup {y} \cup S1[x]
    BY <1>27 DEF LeftAll, LeftLow
  <2>2. S1[a] = S[a] /\ S1[p] = S[p] /\ S1[x] = S[c] \cup {x} \cup S[q]
    BY <1>15, <1>22, <1>24 DEF Kept
  <2> HIDE DEF A
  <2> QED
    BY <1>5, <1>9, <1>30, <1>31, <2>1, <2>2
<1>33. t.nodes[t.root].height = Height(ns, x)
  <2>1. t.nodes[y].height = 1 + Larger(h + 1, h + 1)
    BY <1>26, <1>28, <1>31
  <2> QED
    BY <1>6, <1>31, <2>1 DEF Larger
<1>34. SameOff(n, S, S2, A) /\ Touches(n, ns, t.nodes, A)
  <2> HIDE DEF A
  <2>1. SameOff(n, S, S2, A)
    BY <1>15, <1>30, <1>31 DEF SameOff
  <2>2. Touches(n, ns, v, {x, y} \cup {r})
    BY <1>16, <1>18, TouchesTrans
  <2>3. Touches(n, ns, t.nodes, ({x, y} \cup {r}) \cup {r, y})
    BY <1>31, <2>2, TouchesTrans
  <2>4. ({x, y} \cup {r}) \cup {r, y} \subseteq A
    BY <1>30
  <2> QED
    BY <2>1, <2>3, <2>4, TouchesMore
<1>35. Rebuilt(n, ns, S, S2, t, r)
  BY <1>9, <1>31, <1>32, <1>34 DEF Rebuilt
<1> QED
  BY <1>11, <1>33, <1>35

\* Two rotations are needed when the inner subtree is the higher one.
LEMMA DoubleRight ==
    ASSUME NEW n \in Nat, NEW ns, NEW S, NEW r, Loose(n, ns, S, r),
           Height(ns, ns[r].left) = Height(ns, ns[r].right) + 2,
           NEW x, x = ns[r].left,
           Height(ns, ns[x].right) = Height(ns, ns[x].left) + 1,
           NEW i, i = RotateLeft(ns, x),
           NEW v, LeftSet(n, i.nodes, v, r, i.root),
           NEW t, t = RotateRight(v, r)
    PROVE  \E S2 : /\ Rebuilt(n, ns, S, S2, t, r)
                   /\ t.nodes[t.root].height = Height(ns, ns[r].left)
<1> DEFINE a == ns[r].right
           c == ns[x].left
           y == ns[x].right
           p == ns[y].right
           q == ns[y].left
           h == Height(ns, a)
<1>1. /\ r \in 1 .. n /\ a \in 0 .. n /\ S[a] \in SUBSET (1 .. n) /\ S[x] \in SUBSET (1 .. n)
      /\ r \notin S[a] /\ r \notin S[x] /\ a # r /\ S[a] \cap S[x] = {}
      /\ Sub(n, ns, S, a) /\ Height(ns, a) \in Nat
      /\ (\A z \in S[a] : ns[r].end <= ns[z].start)
      /\ (\A z \in S[x] : ns[z].end <= ns[r].start)
  BY LooseFacts
<1>2. Keyed(n, ns) /\ Shape(n, S)
  BY DEF Loose
<1>3. x # 0
  BY <1>1 DEF Height
<1>4. LeftChildOf(n, ns, S, r, x)
  BY <1>3, LeftChild
<1>5. /\ x \in 1 .. n /\ x # r /\ x \in S[x]
      /\ y \in 0 .. n /\ c \in 0 .. n
      /\ S[x] = S[y] \cup {x} \cup S[c]
      /\ Sub(n, ns, S, y) /\ Sub(n, ns, S, c)
      /\ (\A z \in S[y] : ns[x].end <= ns[z].start)
      /\ (\A z \in S[c] : ns[z].end <= ns[x].start)
      /\ Height(ns, y) \in Nat /\ Height(ns, c) \in Nat
      /\ ns[x].height = 1 + Larger(Height(ns, c), Height(ns, y))
  BY <1>4 DEF LeftChildOf, Children
<1>6. Height(ns, y) = h + 1 /\ Height(ns, c) = h /\ Height(ns, x) = h + 2 /\ h \in Nat
  <2>1. Height(ns, x) = ns[x].height
    BY <1>3 DEF Height
  <2>2. Height(ns, x) = h + 2 /\ Height(ns, y) = Height(ns, c) + 1 /\ h \in Nat
    BY <1>1
  <2>3. Height(ns, y) \in Nat /\ Height(ns, c) \in Nat
        /\ Height(ns, x) = 1 + Larger(Height(ns, c), Height(ns, y))
    BY <1>5, <2>1
  <2> HIDE DEF y, c, h
  <2> QED
    BY <2>2, <2>3, HigherChild
<1>7. y # 0 /\ Loose(n, ns, S, x)
  <2>1. y # 0
    BY <1>6 DEF Height
  <2>2. Between(n, ns, S, x)
    BY <1>5 DEF Between, Children, Before, After
  <2> QED
    BY <1>2, <2>1, <2>2 DEF Loose
<1>8. RightChildOf(n, ns, S, x, y)
  BY <1>7, RightChild
<1>9. /\ y \in 1 .. n /\ y # x /\ y \in S[y]
      /\ p \in 0 .. n /\ q \in 0 .. n
      /\ S[y] = S[p] \cup {y} \cup S[q]
      /\ Sub(n, ns, S, p) /\ Sub(n, ns, S, q)
      /\ (\A z \in S[p] : ns[y].end <= ns[z].start)
      /\ (\A z \in S[q] : ns[z].end <= ns[y].start)
      /\ Height(ns, p) \in Nat /\ Height(ns, q) \in Nat
      /\ Height(ns, q) - Height(ns, p) \in -1 .. 1
      /\ ns[y].height = 1 + Larger(Height(ns, q), Height(ns, p))
  BY <1>8 DEF RightChildOf, Children
<1>10. Height(ns, p) \in {h, h - 1} /\ Height(ns, q) \in {h, h - 1}
  <2>1. ns[y].height = h + 1
    BY <1>6, <1>7 DEF Height
  <2> HIDE DEF y, p, q, h
  <2> QED
    BY <1>6, <1>9, <2>1, HigherGrandchild
<1>11. ns[r].left = x /\ ns[x].right = y /\ ns[x].left = c /\ ns[y].right = p /\ ns[y].left = q
       /\ ns[r].right = a
  OBVIOUS
<1> HIDE DEF a, c, y, p, q, h
<1>12. S[y] \subseteq S[x] /\ S[c] \subseteq S[x] /\ S[p] \subseteq S[y] /\ S[q] \subseteq S[y]
       /\ S[x] \subseteq 1 .. n
  BY <1>1, <1>5, <1>9
<1>13. LeftTurn(n, ns, S, x, y)
  <2>1. \A z \in S[q] : ns[x].end <= ns[z].start /\ ns[z].end <= ns[y].start
    BY <1>5, <1>9, <1>12
  <2>2. ns[x].end <= ns[y].start
    BY <1>5, <1>9
  <2>3. \A z \in S[p] : ns[x].end <= ns[z].start /\ ns[y].end <= ns[z].start
    BY <1>5, <1>9, <1>12
  <2> QED
    BY <1>5, <1>9, <1>11, <2>1, <2>2, <2>3 DEF LeftTurn, Children
<1> DEFINE S1 == Assign(S, x, LeftLow(ns, S, x, y))
           ms == i.nodes
<1>14. TurnedLeftLow(n, ns, S, S1, i, x, y)
  <2>1. Height(ns, ns[x].left) - Height(ns, ns[y].left) \in -1 .. 1
    BY <1>6, <1>10, <1>11
  <2>2. S1 = Assign(S, x, LeftLow(ns, S, x, y))
    OBVIOUS
  <2> HIDE DEF S1
  <2> QED
    BY <1>2, <1>13, <2>1, <2>2, TurnLeftLow
<1>15. /\ Keyed(n, ms) /\ Shape(n, S1)
       /\ S1[x] = S[c] \cup {x} \cup S[q] /\ y \notin S1[x]
       /\ SameOff(n, S, S1, {x})
       /\ Sub(n, ms, S1, x) /\ Sub(n, ms, S1, p)
  <2> HIDE DEF S1
  <2> QED
    BY <1>11, <1>14 DEF TurnedLeftLow, LeftLow
<1>16. /\ i.root = y /\ Touches(n, ns, ms, {x, y})
       /\ ms[y].right = p /\ ms[y].left = x
       /\ ms[x].height = 1 + Larger(Height(ns, c), Height(ns, q))
  <2> HIDE DEF S1
  <2> QED
    BY <1>11, <1>14 DEF TurnedLeftLow, RotatedLeft
<1> HIDE DEF S1, ms
<1>17. r \notin {x, y} /\ r \notin S[y] /\ a \notin {x, y}
  <2>1. a # 0 => a \in S[a]
    BY <1>1, <1>2 DEF Shape
  <2> QED
    BY <1>1, <1>5, <1>7, <1>9, <1>12, <2>1
<1>18. LeftSet(n, ms, v, r, y) /\ Touches(n, ms, v, {r}) /\ Keyed(n, v)
  BY <1>15, <1>16, KeyedKept DEF LeftSet, ms
<1>19. v[r].left = y /\ v[r].right = a /\ v[y] = ms[y] /\ v[x] = ms[x]
  <2>1. ms[r] = ns[r]
    BY <1>1, <1>16, <1>17 DEF Touches
  <2> QED
    BY <1>5, <1>9, <1>11, <1>17, <1>18, <2>1 DEF LeftSet, Touches
<1>20. 0 \notin {r} /\ SameOff(n, S1, S1, {r})
  BY <1>1 DEF SameOff
<1>21. Kept(n, ms, v, S1, S1, x)
  <2>1. S1[x] \cap {r} = {} /\ x \in 0 .. n
    BY <1>1, <1>5, <1>12, <1>15
  <2> QED
    BY <1>15, <1>18, <1>20, <2>1, SubKept
<1>22. S1[p] = S[p] /\ p # x /\ p # y
  <2>1. p # 0 => p \in S[p]
    BY <1>2, <1>9 DEF Shape
  <2>2. x \notin S[y] /\ y \notin S[p]
    <3>1. ns[x].right = y /\ ns[y].right = p
      BY <1>11
    <3>2. Between(n, ns, S, y)
      BY <1>9, <1>11 DEF Between, Children, Before, After
    <3> QED
      BY <1>2, <1>7, <3>1, <3>2, Disjoint DEF Loose
  <2>3. p # x /\ p # y
    BY <1>5, <1>9, <1>12, <2>1, <2>2
  <2> QED
    BY <1>9, <1>15, <2>3 DEF SameOff
<1>23. Kept(n, ms, v, S1, S1, p)
  <2>1. S1[p] \cap {r} = {}
    BY <1>12, <1>17, <1>22
  <2> QED
    BY <1>9, <1>15, <1>18, <1>20, <2>1, SubKept
<1>24. Kept(n, ns, v, S, S1, a)
  <2>1. Touches(n, ns, v, {x, y, r}) /\ 0 \notin {x, y, r}
    <3>1. {x, y} \cup {r} = {x, y, r}
      OBVIOUS
    <3> QED
      BY <1>1, <1>5, <1>9, <1>16, <1>18, <3>1, TouchesTrans
  <2>2. S[a] \cap {x, y, r} = {}
    BY <1>1, <1>5, <1>9, <1>12
  <2>3. SameOff(n, S, S1, {x, y, r})
    BY <1>15 DEF SameOff
  <2> QED
    BY <1>1, <1>2, <1>15, <2>1, <2>2, <2>3, SubKept
<1>25. RightTurn(n, v, S1, r, y)
  <2>1. \A z \in 1 .. n : v[z].end = ns[z].end /\ v[z].start = ns[z].start
    BY <1>16, <1>18 DEF Touches
  <2>2. \A z \in 1 .. n : ns[z].end \in Nat /\ ns[z].start \in Nat /\ ns[z].start < ns[z].end
    BY <1>2 DEF Keyed, NodeLists, Nodes
  <2>3. \A z \in S1[a] : v[r].end <= v[z].start
    BY <1>1, <1>24, <2>1 DEF Kept
  <2>4. \A z \in S1[p] : v[z].end <= v[r].start /\ v[y].end <= v[z].start
    BY <1>1, <1>9, <1>12, <1>22, <2>1
  <2>5. v[y].end <= v[r].start
    BY <1>1, <1>9, <1>12, <2>1
  <2>6. \A z \in S1[x] : v[z].end <= v[r].start /\ v[z].end <= v[y].start
    <3>1. ns[x].end <= ns[y].start
      BY <1>5, <1>9
    <3>2. \A z \in S[c] : ns[z].end <= ns[y].start
      BY <1>5, <1>9, <1>12, <2>2, <3>1
    <3>3. \A z \in S1[x] : ns[z].end <= ns[y].start
      BY <1>9, <1>15, <3>1, <3>2
    <3>4. \A z \in S1[x] : z \in S[x] /\ z \in 1 .. n
      BY <1>5, <1>12, <1>15
    <3> QED
      BY <1>1, <1>9, <2>1, <3>3, <3>4
  <2>7. v[y].right = p /\ v[y].left = x /\ v[r].right = a /\ v[r].left = y
    BY <1>16, <1>19
  <2>8. Sub(n, v, S1, a) /\ Sub(n, v, S1, p) /\ Sub(n, v, S1, x)
    BY <1>21, <1>23, <1>24 DEF Kept
  <2>9. Children(n, v, r) /\ Children(n, v, y)
    BY <1>1, <1>5, <1>9, <2>7 DEF Children
  <2> QED
    BY <1>1, <1>9, <2>3, <2>4, <2>5, <2>6, <2>7, <2>8, <2>9 DEF RightTurn
<1>26. Height(v, a) = h /\ Height(v, p) = Height(ns, p) /\ Height(v, x) = h + 1
  <2>1. Height(v, a) = h
    BY <1>24 DEF Kept, h
  <2>2. Height(ms, p) = Height(ns, p)
    BY <1>9, <1>16, <1>22, HeightKept
  <2>3. Height(v, p) = Height(ms, p)
    BY <1>23 DEF Kept
  <2>4. Height(v, x) = ms[x].height
    BY <1>3, <1>19 DEF Height
  <2>5. 1 + Larger(Height(ns, c), Height(ns, q)) = h + 1
    <3> DEFINE hq == Height(ns, q)
    <3>1. hq \in {h, h - 1} /\ Height(ns, c) = h
      BY <1>6, <1>10
    <3> HIDE DEF hq
    <3>2. 1 + Larger(h, hq) = h + 1
      BY <1>6, <3>1 DEF Larger
    <3> QED
      BY <3>1, <3>2 DEF hq
  <2> QED
    BY <1>16, <2>1, <2>2, <2>3, <2>4, <2>5
<1>27. v[r].right = a /\ v[y].right = p /\ v[y].left = x
  BY <1>16, <1>19
<1>28. 1 + Larger(Height(v, p), Height(v, a)) = h + 1 /\ Height(v, p) - Height(v, a) \in -1 .. 1
  <2> DEFINE hp == Height(v, p)
  <2>1. hp \in {h, h - 1} /\ Height(v, a) = h
    BY <1>10, <1>26
  <2> HIDE DEF hp
  <2>2. 1 + Larger(hp, h) = h + 1 /\ h - hp \in -1 .. 1 /\ hp - h \in -1 .. 1
    BY <1>6, <2>1 DEF Larger
  <2> QED
    BY <2>1, <2>2 DEF hp
<1>29. PICK S2 : TurnedRight(n, v, S1, S2, t, r, y)
  <2>1. Height(v, v[y].right) - Height(v, v[r].right) \in -1 .. 1
    BY <1>27, <1>28
  <2>2. Height(v, v[y].left) - (1 + Larger(Height(v, v[y].right), Height(v, v[r].right))) \in -1 .. 1
    BY <1>6, <1>26, <1>27, <1>28
  <2> QED
    BY <1>15, <1>18, <1>25, <2>1, <2>2, TurnRight
<1> DEFINE A == All(ns, S, r)
<1>30. A = S[a] \cup {r} \cup S[x] /\ {r, x, y} \subseteq A
  BY <1>5, <1>9, <1>11, <1>12 DEF All
<1>31. /\ Shape(n, S2) /\ S2[y] = RightAll(v, S1, r, y) /\ SameOff(n, S1, S2, {r, y})
       /\ Sub(n, t.nodes, S2, y)
       /\ t.root = y /\ Touches(n, v, t.nodes, {r, y}) /\ Keyed(n, t.nodes)
       /\ t.nodes[y].height = 1 + Larger(Height(v, x), 1 + Larger(Height(v, p), Height(v, a)))
  BY <1>27, <1>29 DEF TurnedRight
<1>32. S2[t.root] = A
  <2>1. RightAll(v, S1, r, y) = S1[a] \cup {r} \cup S1[p] \cup {y} \cup S1[x]
    BY <1>27 DEF RightAll, RightLow
  <2>2. S1[a] = S[a] /\ S1[p] = S[p] /\ S1[x] = S[c] \cup {x} \cup S[q]
    BY <1>15, <1>22, <1>24 DEF Kept
  <2> HIDE DEF A
  <2> QED
    BY <1>5, <1>9, <1>30, <1>31, <2>1, <2>2
<1>33. t.nodes[t.root].height = Height(ns, x)
  <2>1. t.nodes[y].height = 1 + Larger(h + 1, h + 1)
    BY <1>26, <1>28, <1>31
  <2> QED
    BY <1>6, <1>31, <2>1 DEF Larger
<1>34. SameOff(n, S, S2, A) /\ Touches(n, ns, t.nodes, A)
  <2> HIDE DEF A
  <2>1. SameOff(n, S, S2, A)
    BY <1>15, <1>30, <1>31 DEF SameOff
  <2>2. Touches(n, ns, v, {x, y} \cup {r})
    BY <1>16, <1>18, TouchesTrans
  <2>3. Touches(n, ns, t.nodes, ({x, y} \cup {r}) \cup {r, y})
    BY <1>31, <2>2, TouchesTrans
  <2>4. ({x, y} \cup {r}) \cup {r, y} \subseteq A
    BY <1>30
  <2> QED
    BY <2>1, <2>3, <2>4, TouchesMore
<1>35. Rebuilt(n, ns, S, S2, t, r)
  BY <1>9, <1>31, <1>32, <1>34 DEF Rebuilt
<1> QED
  BY <1>11, <1>33, <1>35

\* The subtree that received a node is one higher on that node's side.
Lean(ns, y, start) ==
    \/ Leftward(ns, y, start) /\ Height(ns, ns[y].left) = Height(ns, ns[y].right) + 1
    \/ Rightward(ns, y, start) /\ Height(ns, ns[y].right) = Height(ns, ns[y].left) + 1

\* Either nothing was turned, or the height is the one before the insertion.
Settled(ns, t, r) ==
    LET l == Height(ns, ns[r].left)
        q == Height(ns, ns[r].right)
    IN  \/ /\ l - q \in -1 .. 1 /\ t.root = r
           /\ t.nodes[r].left = ns[r].left /\ t.nodes[r].right = ns[r].right
           /\ t.nodes[r].height = 1 + Larger(l, q)
           /\ Height(t.nodes, ns[r].left) = l /\ Height(t.nodes, ns[r].right) = q
        \/ l = q + 2 /\ t.nodes[t.root].height = l
        \/ q = l + 2 /\ t.nodes[t.root].height = q

\* The five ways through the code.
LEMMA RebalancedForms ==
    ASSUME NEW ns, NEW r, NEW start, NEW u, u = UpdateHeight(ns, r),
           NEW l, NEW q, l = u[r].left, q = u[r].right,
           Height(u, l) \in Nat, Height(u, q) \in Nat
    PROVE  /\ Height(u, l) - Height(u, q) \in -1 .. 1 =>
                 Rebalanced(ns, r, start) = [nodes |-> u, root |-> r]
           /\ Height(u, l) = Height(u, q) + 2 /\ ~Rightward(u, l, start) =>
                 Rebalanced(ns, r, start) = RotateRight(WithLeft(u, r, l), r)
           /\ Height(u, l) = Height(u, q) + 2 /\ Rightward(u, l, start) =>
                 Rebalanced(ns, r, start) =
                    RotateRight(WithLeft(RotateLeft(u, l).nodes, r, RotateLeft(u, l).root), r)
           /\ Height(u, q) = Height(u, l) + 2 /\ ~Leftward(u, q, start) =>
                 Rebalanced(ns, r, start) = RotateLeft(WithRight(u, r, q), r)
           /\ Height(u, q) = Height(u, l) + 2 /\ Leftward(u, q, start) =>
                 Rebalanced(ns, r, start) =
                    RotateLeft(WithRight(RotateRight(u, q).nodes, r, RotateRight(u, q).root), r)
<1> DEFINE hl == Height(u, l)
           hq == Height(u, q)
           inner == IF hl > hq
                    THEN IF start > u[l].start THEN RotateLeft(u, l) ELSE [nodes |-> u, root |-> l]
                    ELSE IF start < u[q].start THEN RotateRight(u, q) ELSE [nodes |-> u, root |-> q]
<1>1. Rebalanced(ns, r, start) =
        CASE hl - hq > 1 -> RotateRight(WithLeft(inner.nodes, r, inner.root), r)
          [] hl - hq < -1 -> RotateLeft(WithRight(inner.nodes, r, inner.root), r)
          [] OTHER -> [nodes |-> u, root |-> r]
  BY Zenon DEF Rebalanced, WithLeft, WithRight
<1>2. hl \in Nat /\ hq \in Nat
  OBVIOUS
<1>3. inner = IF hl > hq
              THEN IF Rightward(u, l, start) THEN RotateLeft(u, l) ELSE [nodes |-> u, root |-> l]
              ELSE IF Leftward(u, q, start) THEN RotateRight(u, q) ELSE [nodes |-> u, root |-> q]
  BY Zenon DEF Leftward, Rightward
<1> HIDE DEF inner, hl, hq
<1>4. hl - hq \in -1 .. 1 => ~(hl - hq > 1) /\ ~(hl - hq < -1)
  BY <1>2
<1>5. hl = hq + 2 => hl > hq /\ hl - hq > 1 /\ ~(hl - hq < -1)
  BY <1>2
<1>6. hq = hl + 2 => ~(hl > hq) /\ hl - hq < -1 /\ ~(hl - hq > 1)
  BY <1>2
<1>7. [nodes |-> u, root |-> l].nodes = u /\ [nodes |-> u, root |-> l].root = l
      /\ [nodes |-> u, root |-> q].nodes = u /\ [nodes |-> u, root |-> q].root = q
  OBVIOUS
<1>8. hl - hq \in -1 .. 1 => Rebalanced(ns, r, start) = [nodes |-> u, root |-> r]
  BY <1>1, <1>4
<1>9. hl = hq + 2 => Rebalanced(ns, r, start) = RotateRight(WithLeft(inner.nodes, r, inner.root), r)
  BY <1>1, <1>5
<1>10. hq = hl + 2 => Rebalanced(ns, r, start) = RotateLeft(WithRight(inner.nodes, r, inner.root), r)
  BY <1>1, <1>6
<1>11. hl = hq + 2 /\ ~Rightward(u, l, start) => inner = [nodes |-> u, root |-> l]
  BY <1>3, <1>5
<1>12. hl = hq + 2 /\ Rightward(u, l, start) => inner = RotateLeft(u, l)
  BY <1>3, <1>5
<1>13. hq = hl + 2 /\ ~Leftward(u, q, start) => inner = [nodes |-> u, root |-> q]
  BY <1>3, <1>6
<1>14. hq = hl + 2 /\ Leftward(u, q, start) => inner = RotateRight(u, q)
  BY <1>3, <1>6
<1>15. hl = hq + 2 /\ ~Rightward(u, l, start) =>
         Rebalanced(ns, r, start) = RotateRight(WithLeft(u, r, l), r)
  BY <1>7, <1>9, <1>11
<1>16. hq = hl + 2 /\ ~Leftward(u, q, start) =>
         Rebalanced(ns, r, start) = RotateLeft(WithRight(u, r, q), r)
  BY <1>7, <1>10, <1>13
<1>17. hl = hq + 2 /\ Rightward(u, l, start) =>
         Rebalanced(ns, r, start) = RotateRight(WithLeft(RotateLeft(u, l).nodes, r, RotateLeft(u, l).root), r)
  BY <1>9, <1>12
<1>18. hq = hl + 2 /\ Leftward(u, q, start) =>
         Rebalanced(ns, r, start) = RotateLeft(WithRight(RotateRight(u, q).nodes, r, RotateRight(u, q).root), r)
  BY <1>10, <1>14
<1> QED
  BY <1>8, <1>15, <1>16, <1>17, <1>18 DEF hl, hq

\* A new height of the node in between leaves the two trees alone.
LEMMA LooseRaised ==
    ASSUME NEW n \in Nat, NEW ns, NEW S, NEW r, Loose(n, ns, S, r),
           NEW u, Touches(n, ns, u, {r}), u[r].left = ns[r].left, u[r].right = ns[r].right
    PROVE  /\ Loose(n, u, S, r) /\ All(u, S, r) = All(ns, S, r)
           /\ Height(u, ns[r].left) = Height(ns, ns[r].left)
           /\ Height(u, ns[r].right) = Height(ns, ns[r].right)
<1> DEFINE l == ns[r].left
           q == ns[r].right
<1>1. /\ r \in 1 .. n /\ l \in 0 .. n /\ q \in 0 .. n
      /\ S[l] \in SUBSET (1 .. n) /\ S[q] \in SUBSET (1 .. n)
      /\ r \notin S[l] /\ r \notin S[q]
      /\ Sub(n, ns, S, l) /\ Sub(n, ns, S, q)
  BY LooseFacts
<1>2. Keyed(n, ns) /\ Shape(n, S) /\ Before(ns, S[l], r) /\ After(ns, r, S[q])
  BY DEF Loose, Between
<1>3. All(u, S, r) = All(ns, S, r)
  BY DEF All
<1> HIDE DEF l, q
<1>4. 0 \notin {r} /\ SameOff(n, S, S, {r}) /\ S[l] \cap {r} = {} /\ S[q] \cap {r} = {}
  BY <1>1 DEF SameOff
<1>5. Kept(n, ns, u, S, S, l)
  BY <1>1, <1>2, <1>4, SubKept
<1>6. Kept(n, ns, u, S, S, q)
  BY <1>1, <1>2, <1>4, SubKept
<1>7. Keyed(n, u) /\ Before(u, S[l], r) /\ After(u, r, S[q])
  BY <1>1, <1>2, KeyedKept, OrderKept
<1>8. Sub(n, u, S, l) /\ Sub(n, u, S, q) /\ Height(u, l) = Height(ns, l) /\ Height(u, q) = Height(ns, q)
  BY <1>5, <1>6 DEF Kept
<1>9. Between(n, u, S, r)
  BY <1>1, <1>7, <1>8 DEF Between, Children, l, q
<1> QED
  BY <1>2, <1>3, <1>7, <1>8, <1>9 DEF Loose, l, q

\* What is rebuilt after a change of the node itself is rebuilt.
LEMMA RebuiltRaised ==
    ASSUME NEW n \in Nat, NEW ns, NEW S, NEW r, NEW S2, NEW t,
           NEW u, Touches(n, ns, u, {r}), All(u, S, r) = All(ns, S, r),
           Rebuilt(n, u, S, S2, t, r)
    PROVE  Rebuilt(n, ns, S, S2, t, r)
<1>1. {r} \cup All(ns, S, r) = All(ns, S, r)
  BY DEF All
<1>2. Touches(n, ns, t.nodes, {r} \cup All(ns, S, r))
  BY TouchesTrans DEF Rebuilt
<1> QED
  BY <1>1, <1>2 DEF Rebuilt

\* No turn is needed: the node and its new height.
LEMMA NoTurn ==
    ASSUME NEW n \in Nat, NEW ns, NEW S, NEW r, Loose(n, ns, S, r),
           Height(ns, ns[r].left) - Height(ns, ns[r].right) \in -1 .. 1,
           ns[r].height = 1 + Larger(Height(ns, ns[r].left), Height(ns, ns[r].right)),
           NEW t, t = [nodes |-> ns, root |-> r]
    PROVE  \E S2 : Rebuilt(n, ns, S, S2, t, r)
<1> DEFINE A == All(ns, S, r)
           S2 == Assign(S, r, A)
           l == ns[r].left
           q == ns[r].right
<1>1. /\ r \in 1 .. n /\ l \in 0 .. n /\ q \in 0 .. n
      /\ S[l] \in SUBSET (1 .. n) /\ S[q] \in SUBSET (1 .. n)
      /\ r \notin S[l] /\ r \notin S[q] /\ l # r /\ q # r
      /\ Sub(n, ns, S, l) /\ Sub(n, ns, S, q)
  BY LooseFacts
<1>2. Keyed(n, ns) /\ ns \in NodeLists(n) /\ Shape(n, S) /\ Before(ns, S[l], r) /\ After(ns, r, S[q])
  BY DEF Loose, Between, Keyed
<1>3. A = S[l] \cup {r} \cup S[q] /\ A \in SUBSET (1 .. n) /\ r \in A
  BY <1>1 DEF All
<1>4. S2 = Assign(S, r, A)
  OBVIOUS
<1>5. Height(ns, l) - Height(ns, q) \in -1 .. 1 /\ ns[r].height = 1 + Larger(Height(ns, l), Height(ns, q))
  OBVIOUS
<1> HIDE DEF A, S2, l, q
<1>6. Shape(n, S2) /\ S2[r] = A /\ SameOff(n, S, S2, {r})
  <2>1. A \in SUBSET (1 .. n) /\ r \in A /\ r \in 1 .. n /\ Shape(n, S)
    BY <1>1, <1>2, <1>3
  <2> QED
    BY <1>4, <2>1, ShapeWith
<1>7. Touches(n, ns, ns, {r}) /\ 0 \notin {r} /\ S[l] \cap {r} = {} /\ S[q] \cap {r} = {}
  BY <1>1, <1>2, TouchesNone
<1>8. Kept(n, ns, ns, S, S2, l)
  BY <1>1, <1>2, <1>6, <1>7, SubKept
<1>9. Kept(n, ns, ns, S, S2, q)
  BY <1>1, <1>2, <1>6, <1>7, SubKept
<1>10. S2[l] = S[l] /\ S2[q] = S[q] /\ Sub(n, ns, S2, l) /\ Sub(n, ns, S2, q)
  BY <1>8, <1>9 DEF Kept
<1>11. ns[r].left = l /\ ns[r].right = q
  BY DEF l, q
<1>12. Between(n, ns, S2, r)
  BY <1>1, <1>2, <1>10, <1>11 DEF Between, Children
<1>13. S2[r] = S2[ns[r].left] \cup {r} \cup S2[ns[r].right]
  BY <1>3, <1>6, <1>10, <1>11
<1>14. Sub(n, ns, S2, r)
  BY <1>6, <1>12, <1>13, Join
<1>15. t.root = r /\ t.nodes = ns
  OBVIOUS
<1>16. SameOff(n, S, S2, A) /\ Touches(n, ns, ns, A)
  BY <1>2, <1>3, <1>6, TouchesNone DEF SameOff
<1> QED
  BY <1>1, <1>2, <1>6, <1>14, <1>15, <1>16 DEF Rebuilt, A

\* A direction excludes the other.
LEMMA OneSide ==
    ASSUME NEW n \in Nat, NEW ns \in NodeLists(n), NEW y \in 1 .. n, NEW start \in Nat
    PROVE  ~(Leftward(ns, y, start) /\ Rightward(ns, y, start))
BY DEF Leftward, Rightward, NodeLists, Nodes

\* Rebalancing a node whose right subtree is two higher than the left one.
LEMMA RebalanceLeft ==
    ASSUME NEW n \in Nat, NEW ns, NEW S, NEW r, Loose(n, ns, S, r), NEW start \in Nat,
           Height(ns, ns[r].right) = Height(ns, ns[r].left) + 2,
           Lean(ns, ns[r].right, start),
           NEW t, t = Rebalanced(ns, r, start)
    PROVE  \E S2 : /\ Rebuilt(n, ns, S, S2, t, r)
                   /\ t.nodes[t.root].height = Height(ns, ns[r].right)
<1> DEFINE u == UpdateHeight(ns, r)
           a == ns[r].left
           x == ns[r].right
<1>1. /\ r \in 1 .. n /\ a \in 0 .. n /\ x \in 0 .. n /\ x # r
      /\ Height(ns, a) \in Nat /\ Height(ns, x) \in Nat /\ ns \in NodeLists(n)
      /\ S[x] \in SUBSET (1 .. n) /\ r \notin S[x]
  BY LooseFacts DEF Loose, Keyed
<1>2. u = UpdateHeight(ns, r)
  OBVIOUS
<1> HIDE DEF u
<1>3. Touches(n, ns, u, {r}) /\ u[r].left = a /\ u[r].right = x
  BY <1>1, <1>2, UpdateHeightFacts DEF HeightSet
<1>4. /\ Loose(n, u, S, r) /\ All(u, S, r) = All(ns, S, r)
      /\ Height(u, a) = Height(ns, a) /\ Height(u, x) = Height(ns, x)
  BY <1>3, LooseRaised
<1>5. x # 0 /\ x \in 1 .. n /\ u[x] = ns[x]
  <2>1. x # 0
    BY <1>1 DEF Height
  <2> QED
    BY <1>1, <1>3, <2>1 DEF Touches
<1>6. Lean(ns, x, start)
  OBVIOUS
<1> HIDE DEF a, x
<1>7. RightChildOf(n, ns, S, r, x)
  BY <1>5, RightChild DEF x
<1>8. ns[x].left \in 0 .. n /\ ns[x].right \in 0 .. n /\ ns[x].left # r /\ ns[x].right # r
  <2>1. Children(n, ns, x) /\ S[x] = S[ns[x].left] \cup {x} \cup S[ns[x].right]
    BY <1>7 DEF RightChildOf
  <2>2. \A y \in 1 .. n : y \in S[y]
    BY DEF Loose, Shape
  <2> QED
    BY <1>1, <2>1, <2>2 DEF Children
<1>9. /\ Height(u, u[x].left) = Height(ns, ns[x].left)
      /\ Height(u, u[x].right) = Height(ns, ns[x].right)
  BY <1>3, <1>5, <1>8, HeightKept
<1>10. u \in NodeLists(n)
  BY <1>4 DEF Loose, Keyed
<1>11. (Leftward(u, x, start) <=> Leftward(ns, x, start)) /\ (Rightward(u, x, start) <=> Rightward(ns, x, start))
  BY <1>5 DEF Leftward, Rightward
<1>12. Height(u, x) = Height(u, a) + 2 /\ Height(u, x) \in Nat /\ Height(u, a) \in Nat
  BY <1>1, <1>4 DEF a, x
<1>13. CASE ~Leftward(u, x, start)
  <2>1. Height(u, u[x].right) = Height(u, u[x].left) + 1
    BY <1>6, <1>9, <1>11, <1>13 DEF Lean
  <2> DEFINE v == WithRight(u, r, x)
  <2>2. t = RotateLeft(v, r)
    BY <1>2, <1>3, <1>12, <1>13, RebalancedForms
  <2>3. v = WithRight(u, r, x)
    OBVIOUS
  <2> HIDE DEF v
  <2>4. RightSet(n, u, v, r, x)
    BY <1>1, <1>10, <2>3, SetRight
  <2>5. Touches(n, u, v, {r}) /\ v[r].left = u[r].left /\ v[r].right = x
    BY <2>4 DEF RightSet
  <2>6. Height(u, u[r].right) = Height(u, u[r].left) + 2 /\ x = u[r].right
    BY <1>3, <1>12
  <2>7. \E S2 : Rebuilt(n, u, S, S2, t, r) /\ t.nodes[t.root].height = Height(u, u[r].right)
    BY <1>4, <2>1, <2>2, <2>5, <2>6, SingleLeft
  <2> QED
    BY <1>3, <1>4, <2>6, <2>7, RebuiltRaised DEF x
<1>14. CASE Leftward(u, x, start)
  <2>1. Height(u, u[x].left) = Height(u, u[x].right) + 1
    BY <1>1, <1>5, <1>6, <1>9, <1>11, <1>14, OneSide DEF Lean
  <2> DEFINE i == RotateRight(u, x)
             v == WithRight(i.nodes, r, i.root)
  <2>2. t = RotateLeft(v, r)
    BY <1>2, <1>3, <1>12, <1>14, RebalancedForms
  <2>3. v = WithRight(i.nodes, r, i.root) /\ i = RotateRight(u, x)
    OBVIOUS
  <2> HIDE DEF v, i
  <2>4. i.nodes \in NodeLists(n) /\ i.root \in Nat
    <3>1. Loose(n, u, S, r) /\ u[r].right # 0 /\ u[r].right = x
      BY <1>3, <1>4, <1>5
    <3>2. RightChildOf(n, u, S, r, x)
      BY <3>1, RightChild
    <3>3. Loose(n, u, S, x)
      BY <1>4, <3>2 DEF RightChildOf, Loose, Between, Before, After
    <3>4. u[x].left # 0
      <4>1. Height(u, u[x].right) \in Nat
        BY <3>2 DEF RightChildOf
      <4> QED
        BY <2>1, <4>1 DEF Height
    <3> DEFINE y == u[x].left
    <3>5. LeftChildOf(n, u, S, x, y)
      BY <3>3, <3>4, LeftChild
    <3>6. /\ y \in 1 .. n /\ y # x /\ S[y] = S[u[y].left] \cup {y} \cup S[u[y].right]
          /\ Children(n, u, y) /\ Children(n, u, x)
          /\ S[y] = S[u[x].left]
      BY <3>2, <3>5 DEF LeftChildOf, RightChildOf
    <3>7. /\ x \notin S[u[x].left] /\ x \notin S[u[x].right]
          /\ S[u[x].left] \cap S[u[x].right] = {} /\ u[x].right # x
      BY <3>3, LooseFacts
    <3>8. /\ y \notin S[u[y].left] /\ y \notin S[u[y].right] /\ u[y].left # y /\ u[y].right # y
      <4>1. Loose(n, u, S, y)
        BY <1>4, <3>5 DEF LeftChildOf, Loose, Between, Before, After
      <4> QED
        BY <4>1, LooseFacts
    <3>9. \A z \in 1 .. n : z \in S[z]
      BY DEF Loose, Shape
    <3>10. u[y].left # x /\ u[y].right # x /\ u[x].right # y
      <4> HIDE DEF y
      <4>1. x \notin S[y] /\ S[y] \cap S[u[x].right] = {}
        BY <3>6, <3>7
      <4> QED
        BY <1>5, <3>6, <3>9, <4>1 DEF Children
    <3>11. RotatedRight(n, u, i, x, y)
      <4>1. u[x].left = y
        OBVIOUS
      <4>2. u[x].right \in 0 .. n /\ u[y].left \in 0 .. n /\ u[y].right \in 0 .. n
        BY <3>6 DEF Children
      <4> HIDE DEF y
      <4> QED
        BY <1>5, <1>10, <2>3, <3>6, <3>7, <3>8, <3>10, <4>1, <4>2, RotateRightFacts
    <3> QED
      BY <3>6, <3>11 DEF RotatedRight, Touches
  <2>5. RightSet(n, i.nodes, v, r, i.root)
    BY <1>1, <2>3, <2>4, SetRight
  <2>6. Height(u, u[r].right) = Height(u, u[r].left) + 2 /\ x = u[r].right
    BY <1>3, <1>12
  <2>7. \E S2 : Rebuilt(n, u, S, S2, t, r) /\ t.nodes[t.root].height = Height(u, u[r].right)
    <3>1. Loose(n, u, S, r) /\ i = RotateRight(u, x)
      BY <1>4, <2>3
    <3> QED
      BY <2>1, <2>2, <2>5, <2>6, <3>1, DoubleLeft
  <2> QED
    BY <1>3, <1>4, <2>6, <2>7, RebuiltRaised DEF x
<1> QED
  BY <1>13, <1>14

\* Rebalancing a node whose left subtree is two higher than the right one.
LEMMA RebalanceRight ==
    ASSUME NEW n \in Nat, NEW ns, NEW S, NEW r, Loose(n, ns, S, r), NEW start \in Nat,
           Height(ns, ns[r].left) = Height(ns, ns[r].right) + 2,
           Lean(ns, ns[r].left, start),
           NEW t, t = Rebalanced(ns, r, start)
    PROVE  \E S2 : /\ Rebuilt(n, ns, S, S2, t, r)
                   /\ t.nodes[t.root].height = Height(ns, ns[r].left)
<1> DEFINE u == UpdateHeight(ns, r)
           a == ns[r].right
           x == ns[r].left
<1>1. /\ r \in 1 .. n /\ a \in 0 .. n /\ x \in 0 .. n /\ x # r
      /\ Height(ns, a) \in Nat /\ Height(ns, x) \in Nat /\ ns \in NodeLists(n)
      /\ S[x] \in SUBSET (1 .. n) /\ r \notin S[x]
  BY LooseFacts DEF Loose, Keyed
<1>2. u = UpdateHeight(ns, r)
  OBVIOUS
<1> HIDE DEF u
<1>3. Touches(n, ns, u, {r}) /\ u[r].right = a /\ u[r].left = x
  BY <1>1, <1>2, UpdateHeightFacts DEF HeightSet
<1>4. /\ Loose(n, u, S, r) /\ All(u, S, r) = All(ns, S, r)
      /\ Height(u, a) = Height(ns, a) /\ Height(u, x) = Height(ns, x)
  BY <1>3, LooseRaised
<1>5. x # 0 /\ x \in 1 .. n /\ u[x] = ns[x]
  <2>1. x # 0
    BY <1>1 DEF Height
  <2> QED
    BY <1>1, <1>3, <2>1 DEF Touches
<1>6. Lean(ns, x, start)
  OBVIOUS
<1> HIDE DEF a, x
<1>7. LeftChildOf(n, ns, S, r, x)
  BY <1>5, LeftChild DEF x
<1>8. ns[x].right \in 0 .. n /\ ns[x].left \in 0 .. n /\ ns[x].right # r /\ ns[x].left # r
  <2>1. Children(n, ns, x) /\ S[x] = S[ns[x].right] \cup {x} \cup S[ns[x].left]
    BY <1>7 DEF LeftChildOf
  <2>2. \A y \in 1 .. n : y \in S[y]
    BY DEF Loose, Shape
  <2> QED
    BY <1>1, <2>1, <2>2 DEF Children
<1>9. /\ Height(u, u[x].right) = Height(ns, ns[x].right)
      /\ Height(u, u[x].left) = Height(ns, ns[x].left)
  BY <1>3, <1>5, <1>8, HeightKept
<1>10. u \in NodeLists(n)
  BY <1>4 DEF Loose, Keyed
<1>11. (Rightward(u, x, start) <=> Rightward(ns, x, start)) /\ (Leftward(u, x, start) <=> Leftward(ns, x, start))
  BY <1>5 DEF Rightward, Leftward
<1>12. Height(u, x) = Height(u, a) + 2 /\ Height(u, x) \in Nat /\ Height(u, a) \in Nat
  BY <1>1, <1>4 DEF a, x
<1>13. CASE ~Rightward(u, x, start)
  <2>1. Height(u, u[x].left) = Height(u, u[x].right) + 1
    BY <1>6, <1>9, <1>11, <1>13 DEF Lean
  <2> DEFINE v == WithLeft(u, r, x)
  <2>2. t = RotateRight(v, r)
    BY <1>2, <1>3, <1>12, <1>13, RebalancedForms
  <2>3. v = WithLeft(u, r, x)
    OBVIOUS
  <2> HIDE DEF v
  <2>4. LeftSet(n, u, v, r, x)
    BY <1>1, <1>10, <2>3, SetLeft
  <2>5. Touches(n, u, v, {r}) /\ v[r].right = u[r].right /\ v[r].left = x
    BY <2>4 DEF LeftSet
  <2>6. Height(u, u[r].left) = Height(u, u[r].right) + 2 /\ x = u[r].left
    BY <1>3, <1>12
  <2>7. \E S2 : Rebuilt(n, u, S, S2, t, r) /\ t.nodes[t.root].height = Height(u, u[r].left)
    BY <1>4, <2>1, <2>2, <2>5, <2>6, SingleRight
  <2> QED
    BY <1>3, <1>4, <2>6, <2>7, RebuiltRaised DEF x
<1>14. CASE Rightward(u, x, start)
  <2>1. Height(u, u[x].right) = Height(u, u[x].left) + 1
    BY <1>1, <1>5, <1>6, <1>9, <1>11, <1>14, OneSide DEF Lean
  <2> DEFINE i == RotateLeft(u, x)
             v == WithLeft(i.nodes, r, i.root)
  <2>2. t = RotateRight(v, r)
    BY <1>2, <1>3, <1>12, <1>14, RebalancedForms
  <2>3. v = WithLeft(i.nodes, r, i.root) /\ i = RotateLeft(u, x)
    OBVIOUS
  <2> HIDE DEF v, i
  <2>4. i.nodes \in NodeLists(n) /\ i.root \in Nat
    <3>1. Loose(n, u, S, r) /\ u[r].left # 0 /\ u[r].left = x
      BY <1>3, <1>4, <1>5
    <3>2. LeftChildOf(n, u, S, r, x)
      BY <3>1, LeftChild
    <3>3. Loose(n, u, S, x)
      BY <1>4, <3>2 DEF LeftChildOf, Loose, Between, Before, After
    <3>4. u[x].right # 0
      <4>1. Height(u, u[x].left) \in Nat
        BY <3>2 DEF LeftChildOf
      <4> QED
        BY <2>1, <4>1 DEF Height
    <3> DEFINE y == u[x].right
    <3>5. RightChildOf(n, u, S, x, y)
      BY <3>3, <3>4, RightChild
    <3>6. /\ y \in 1 .. n /\ y # x /\ S[y] = S[u[y].right] \cup {y} \cup S[u[y].left]
          /\ Children(n, u, y) /\ Children(n, u, x)
          /\ S[y] = S[u[x].right]
      BY <3>2, <3>5 DEF RightChildOf, LeftChildOf
    <3>7. /\ x \notin S[u[x].right] /\ x \notin S[u[x].left]
          /\ S[u[x].right] \cap S[u[x].left] = {} /\ u[x].left # x
      BY <3>3, LooseFacts
    <3>8. /\ y \notin S[u[y].right] /\ y \notin S[u[y].left] /\ u[y].right # y /\ u[y].left # y
      <4>1. Loose(n, u, S, y)
        BY <1>4, <3>5 DEF RightChildOf, Loose, Between, Before, After
      <4> QED
        BY <4>1, LooseFacts
    <3>9. \A z \in 1 .. n : z \in S[z]
      BY DEF Loose, Shape
    <3>10. u[y].right # x /\ u[y].left # x /\ u[x].left # y
      <4> HIDE DEF y
      <4>1. x \notin S[y] /\ S[y] \cap S[u[x].left] = {}
        BY <3>6, <3>7
      <4> QED
        BY <1>5, <3>6, <3>9, <4>1 DEF Children
    <3>11. RotatedLeft(n, u, i, x, y)
      <4>1. u[x].right = y
        OBVIOUS
      <4>2. u[x].left \in 0 .. n /\ u[y].right \in 0 .. n /\ u[y].left \in 0 .. n
        BY <3>6 DEF Children
      <4> HIDE DEF y
      <4> QED
        BY <1>5, <1>10, <2>3, <3>6, <3>7, <3>8, <3>10, <4>1, <4>2, RotateLeftFacts
    <3> QED
      BY <3>6, <3>11 DEF RotatedLeft, Touches
  <2>5. LeftSet(n, i.nodes, v, r, i.root)
    BY <1>1, <2>3, <2>4, SetLeft
  <2>6. Height(u, u[r].left) = Height(u, u[r].right) + 2 /\ x = u[r].left
    BY <1>3, <1>12
  <2>7. \E S2 : Rebuilt(n, u, S, S2, t, r) /\ t.nodes[t.root].height = Height(u, u[r].left)
    <3>1. Loose(n, u, S, r) /\ i = RotateLeft(u, x)
      BY <1>4, <2>3
    <3> QED
      BY <2>1, <2>2, <2>5, <2>6, <3>1, DoubleRight
  <2> QED
    BY <1>3, <1>4, <2>6, <2>7, RebuiltRaised DEF x
<1> QED
  BY <1>13, <1>14

\* insert, on the way back: whichever way it goes, the result is a tree.
LEMMA Rebalance ==
    ASSUME NEW n \in Nat, NEW ns, NEW S, NEW r, Loose(n, ns, S, r), NEW start \in Nat,
           Height(ns, ns[r].left) - Height(ns, ns[r].right) \in -2 .. 2,
           Height(ns, ns[r].left) = Height(ns, ns[r].right) + 2 => Lean(ns, ns[r].left, start),
           Height(ns, ns[r].right) = Height(ns, ns[r].left) + 2 => Lean(ns, ns[r].right, start),
           NEW t, t = Rebalanced(ns, r, start)
    PROVE  \E S2 : Rebuilt(n, ns, S, S2, t, r) /\ Settled(ns, t, r)
<1> DEFINE l == ns[r].left
           q == ns[r].right
           hl == Height(ns, l)
           hq == Height(ns, q)
<1>1. /\ r \in 1 .. n /\ l \in 0 .. n /\ q \in 0 .. n /\ hl \in Nat /\ hq \in Nat /\ ns \in NodeLists(n)
  BY LooseFacts DEF Loose, Keyed
<1>2. CASE hl = hq + 2
  BY <1>2, RebalanceRight DEF Settled
<1>3. CASE hq = hl + 2
  BY <1>3, RebalanceLeft DEF Settled
<1>4. CASE hl - hq \in -1 .. 1
  <2> DEFINE u == UpdateHeight(ns, r)
  <2>1. u = UpdateHeight(ns, r)
    OBVIOUS
  <2> HIDE DEF u
  <2>2. HeightSet(n, ns, u, r, 1 + Larger(hl, hq))
    BY <1>1, <2>1, UpdateHeightFacts
  <2>3. Touches(n, ns, u, {r}) /\ u[r].left = l /\ u[r].right = q /\ u[r].height = 1 + Larger(hl, hq)
    BY <2>2 DEF HeightSet
  <2>4. /\ Loose(n, u, S, r) /\ All(u, S, r) = All(ns, S, r)
        /\ Height(u, l) = hl /\ Height(u, q) = hq
    BY <2>3, LooseRaised
  <2> HIDE DEF l, q, hl, hq
  <2>5. t = [nodes |-> u, root |-> r]
    BY <1>1, <1>4, <2>1, <2>3, <2>4, RebalancedForms
  <2>6. \E S2 : Rebuilt(n, u, S, S2, t, r)
    <3>1. Height(u, u[r].left) - Height(u, u[r].right) \in -1 .. 1
          /\ u[r].height = 1 + Larger(Height(u, u[r].left), Height(u, u[r].right))
      BY <1>4, <2>3, <2>4
    <3> QED
      BY <2>4, <2>5, <3>1, NoTurn
  <2>7. \E S2 : Rebuilt(n, ns, S, S2, t, r)
    BY <2>3, <2>4, <2>6, RebuiltRaised
  <2>8. Settled(ns, t, r)
    <3>1. t.nodes = u /\ t.root = r
      BY <2>5
    <3> QED
      BY <1>4, <2>3, <2>4, <3>1 DEF Settled, l, q, hl, hq
  <2> QED
    BY <2>7, <2>8
<1>5. hl - hq \in -2 .. 2
  OBVIOUS
<1>6. hl = hq + 2 \/ hq = hl + 2 \/ hl - hq \in -1 .. 1
  <2> HIDE DEF hl, hq
  <2> QED
    BY <1>1, <1>5
<1> QED
  BY <1>2, <1>3, <1>4, <1>6

-----------------------------------------------------------------------------
(* The recursive functions of the tree are defined: the subtrees of a node *)
(* are lower than the node.                                                *)

Ranked(n, ns) ==
    \A r \in 1 .. n : /\ Children(n, ns, r)
                      /\ Height(ns, ns[r].left) < ns[r].height
                      /\ Height(ns, ns[r].right) < ns[r].height

\* The nodes of a list are at most so high.
LEMMA HeightsBounded ==
    ASSUME NEW n \in Nat, NEW ns \in NodeLists(n)
    PROVE  \E k \in Nat : \A r \in 0 .. n : Height(ns, r) <= k
<1> DEFINE Bounded(m) == \E k \in Nat : \A r \in 0 .. m : Height(ns, r) <= k
           T == {m \in 0 .. n : ~Bounded(m)}
<1>1. \A r \in 0 .. n : Height(ns, r) \in Nat
  BY HeightType
<1>2. T = {}
  <2> SUFFICES ASSUME T # {} PROVE FALSE
    OBVIOUS
  <2>1. PICK m \in T : \A y \in T : m <= y
    <3>1. T \in SUBSET Nat
      OBVIOUS
    <3> HIDE DEF T
    <3> QED
      BY <3>1, LeastNat
  <2>2. CASE m = 0
    <3>1. Bounded(0)
      <4>1. \A r \in 0 .. 0 : Height(ns, r) <= Height(ns, 0)
        BY <1>1
      <4> QED
        BY <1>1, <4>1
    <3> QED
      BY <2>2, <3>1
  <2>3. CASE m # 0
    <3>1. m - 1 \in 0 .. n /\ m - 1 \notin T /\ m \in 0 .. n
      <4> HIDE DEF Bounded
      <4>1. m \in 0 .. n /\ m - 1 \in 0 .. n /\ ~(m <= m - 1)
        BY <2>3
      <4> HIDE DEF T
      <4> QED
        BY <2>1, <4>1
    <3>2. PICK k \in Nat : \A r \in 0 .. m - 1 : Height(ns, r) <= k
      BY <3>1
    <3> DEFINE h == Height(ns, m)
               j == IF h > k THEN h ELSE k
    <3>3. h \in Nat /\ j \in Nat /\ k <= j /\ h <= j
      BY <1>1, <3>1
    <3>4. \A r \in 0 .. m : Height(ns, r) <= j
      <4> HIDE DEF j
      <4> SUFFICES ASSUME NEW r \in 0 .. m PROVE Height(ns, r) <= j
        OBVIOUS
      <4>1. CASE r = m
        BY <3>3, <4>1
      <4>2. CASE r # m
        <5>1. r \in 0 .. m - 1 /\ r \in 0 .. n
          BY <3>1, <4>2
        <5>2. Height(ns, r) \in Nat /\ Height(ns, r) <= k
          BY <1>1, <3>2, <5>1
        <5> HIDE DEF h
        <5> QED
          BY <3>3, <5>2
      <4> QED
        BY <4>1, <4>2
    <3>5. Bounded(m)
      <4> HIDE DEF j
      <4> QED
        BY <3>3, <3>4
    <3> QED
      BY <3>5
  <2> QED
    BY <2>2, <2>3
<1>3. Bounded(n)
  <2>1. n \in 0 .. n
    OBVIOUS
  <2> HIDE DEF Bounded
  <2> QED
    BY <1>2, <2>1
<1> QED
  BY <1>3


\* One level of insert, of the search for an overlap and of the traversal.
InsertStep(ns, f, r) ==
    IF r = 0 THEN [nodes |-> ns, root |-> Len(ns)]
    ELSE IF ns[Len(ns)].start < ns[r].start
         THEN Rebalanced(WithLeft(f[ns[r].left].nodes, r, f[ns[r].left].root), r, ns[Len(ns)].start)
         ELSE Rebalanced(WithRight(f[ns[r].right].nodes, r, f[ns[r].right].root), r, ns[Len(ns)].start)
FreeStep(ns, start, end, f, r) ==
    IF r = 0 THEN TRUE
    ELSE IF end <= ns[r].start THEN f[ns[r].left]
    ELSE IF start >= ns[r].end THEN f[ns[r].right]
    ELSE FALSE
OrderStep(ns, f, r) ==
    IF r = 0 THEN <<>> ELSE f[ns[r].left] \o <<r>> \o f[ns[r].right]

\* The three of them as one, and the function that each defines.
WalkStep(w, ns, f, r) ==
    IF w.kind = "insert" THEN InsertStep(ns, f, r)
    ELSE IF w.kind = "order" THEN OrderStep(ns, f, r)
    ELSE FreeStep(ns, w.start, w.end, f, r)
Walk(w, n, ns, f) == f = [r \in 0 .. n |-> WalkStep(w, ns, f, r)]

\* A level uses the levels of the two subtrees only.
LEMMA WalkStepLocal ==
    ASSUME NEW w, NEW ns, NEW f, NEW g, NEW r,
           r # 0 => f[ns[r].left] = g[ns[r].left] /\ f[ns[r].right] = g[ns[r].right]
    PROVE  WalkStep(w, ns, f, r) = WalkStep(w, ns, g, r)
<1>1. InsertStep(ns, f, r) = InsertStep(ns, g, r)
  BY DEF InsertStep
<1>2. OrderStep(ns, f, r) = OrderStep(ns, g, r)
  BY DEF OrderStep
<1>3. FreeStep(ns, w.start, w.end, f, r) = FreeStep(ns, w.start, w.end, g, r)
  BY DEF FreeStep
<1> QED
  BY <1>1, <1>2, <1>3 DEF WalkStep

\* By the height of the subtree, the function exists.
LEMMA WalkDefined ==
    ASSUME NEW w, NEW n \in Nat, NEW ns \in NodeLists(n), Ranked(n, ns)
    PROVE  \E f : Walk(w, n, ns, f)
<1> DEFINE Step(f, r) == WalkStep(w, ns, f, r)
           P(k) == \E f : /\ DOMAIN f = 0 .. n /\ f = [r \in DOMAIN f |-> f[r]]
                          /\ \A r \in 0 .. n : Height(ns, r) <= k => f[r] = Step(f, r)
           T == {k \in Nat : ~P(k)}
<1>1. \A r \in 0 .. n : Height(ns, r) \in Nat
  BY HeightType
<1>2. \A r \in 1 .. n : /\ ns[r].left \in 0 .. n /\ ns[r].right \in 0 .. n
                        /\ Height(ns, ns[r].left) < Height(ns, r)
                        /\ Height(ns, ns[r].right) < Height(ns, r)
  BY DEF Ranked, Children, Height
<1>3. P(0)
  <2> DEFINE f == [r \in 0 .. n |-> Step([z \in {} |-> 0], 0)]
  <2>1. DOMAIN f = 0 .. n /\ f = [r \in DOMAIN f |-> f[r]]
    OBVIOUS
  <2>2. ASSUME NEW r \in 0 .. n, Height(ns, r) <= 0 PROVE f[r] = Step(f, r)
    <3>1. r = 0
      <4> SUFFICES ASSUME r \in 1 .. n PROVE FALSE
        OBVIOUS
      <4>1. Height(ns, ns[r].left) \in Nat /\ Height(ns, r) \in Nat /\ Height(ns, ns[r].left) < Height(ns, r)
        BY <1>1, <1>2
      <4> QED
        BY <2>2, <4>1
    <3>2. Step([z \in {} |-> 0], 0) = Step(f, 0)
      <4> DEFINE e == [z \in {} |-> 0]
      <4> HIDE DEF e, f
      <4>1. Step(e, 0) = Step(f, 0)
        BY WalkStepLocal
      <4> QED
        BY <4>1 DEF e
    <3>3. f[0] = Step([z \in {} |-> 0], 0)
      BY <1>1
    <3> HIDE DEF f, Step
    <3> QED
      BY <3>1, <3>2, <3>3
  <2> HIDE DEF f, Step
  <2> QED
    BY <2>1, <2>2
<1>4. ASSUME NEW k \in Nat, P(k) PROVE P(k + 1)
  <2>1. PICK f : /\ DOMAIN f = 0 .. n /\ f = [r \in DOMAIN f |-> f[r]]
                 /\ \A r \in 0 .. n : Height(ns, r) <= k => f[r] = Step(f, r)
    BY <1>4
  <2> DEFINE g == [r \in 0 .. n |-> IF Height(ns, r) <= k THEN f[r] ELSE Step(f, r)]
  <2>2. \A r \in 0 .. n : Height(ns, r) <= k => g[r] = f[r]
    OBVIOUS
  <2>3. \A r \in 0 .. n : g[r] = Step(f, r)
    <3> HIDE DEF Step
    <3> QED
      BY <2>1
  <2>4. DOMAIN g = 0 .. n /\ g = [r \in DOMAIN g |-> g[r]]
    OBVIOUS
  <2> HIDE DEF g
  <2>5. ASSUME NEW r \in 0 .. n, Height(ns, r) <= k + 1 PROVE g[r] = Step(g, r)
    <3>1. r # 0 => f[ns[r].left] = g[ns[r].left] /\ f[ns[r].right] = g[ns[r].right]
      <4> SUFFICES ASSUME r \in 1 .. n PROVE f[ns[r].left] = g[ns[r].left] /\ f[ns[r].right] = g[ns[r].right]
        OBVIOUS
      <4> DEFINE l == ns[r].left
                 q == ns[r].right
      <4>1. l \in 0 .. n /\ q \in 0 .. n /\ Height(ns, l) < Height(ns, r) /\ Height(ns, q) < Height(ns, r)
        BY <1>2
      <4> HIDE DEF l, q
      <4>2. Height(ns, l) <= k /\ Height(ns, q) <= k
        BY <1>1, <2>5, <4>1
      <4>3. f[l] = g[l] /\ f[q] = g[q]
        BY <2>2, <4>1, <4>2
      <4> QED
        BY <4>3 DEF l, q
    <3>2. Step(f, r) = Step(g, r)
      BY <3>1, WalkStepLocal
    <3> HIDE DEF Step
    <3> QED
      BY <2>3, <3>2
  <2> HIDE DEF Step
  <2> QED
    BY <2>4, <2>5
<1>5. T = {}
  <2> SUFFICES ASSUME T # {} PROVE FALSE
    OBVIOUS
  <2> HIDE DEF P
  <2>1. PICK k \in T : \A y \in T : k <= y
    <3>1. T \in SUBSET Nat
      OBVIOUS
    <3> HIDE DEF T
    <3> QED
      BY <3>1, LeastNat
  <2>2. CASE k = 0
    BY <1>3, <2>2
  <2>3. CASE k # 0
    <3>1. k - 1 \in Nat /\ k - 1 \notin T /\ k = (k - 1) + 1
      BY <2>1, <2>3
    <3>2. P(k - 1)
      BY <3>1
    <3> DEFINE j == k - 1
    <3>3. j \in Nat /\ P(j) /\ k = j + 1
      BY <3>1, <3>2
    <3> HIDE DEF j
    <3>4. P(k)
      BY <1>4, <3>3
    <3> QED
      BY <3>4
  <2> QED
    BY <2>2, <2>3
<1>6. PICK m \in Nat : \A r \in 0 .. n : Height(ns, r) <= m
  BY HeightsBounded
<1>7. P(m)
  <2> HIDE DEF P
  <2> QED
    BY <1>5
<1>8. PICK f : /\ DOMAIN f = 0 .. n /\ f = [r \in DOMAIN f |-> f[r]]
               /\ \A r \in 0 .. n : Height(ns, r) <= m => f[r] = Step(f, r)
  BY <1>7
<1>9. \A r \in 0 .. n : f[r] = Step(f, r)
  <2> HIDE DEF Step
  <2> QED
    BY <1>6, <1>8
<1>10. f = [r \in 0 .. n |-> Step(f, r)]
  <2> HIDE DEF Step
  <2> QED
    BY <1>8, <1>9, Zenon
<1> QED
  BY <1>10 DEF Walk

-----------------------------------------------------------------------------
(* Insertion into a subtree.                                               *)

\* The start of the range that a node stands for.
Key(ns, n) == ns[n].start

\* A tree to which the last node of the list is to be added.
Pending(n, ns, S) ==
    /\ n \in Nat \ {0} /\ Keyed(n, ns) /\ Shape(n, S) /\ Len(ns) = n
    /\ S[n] = {n} /\ ns[n].left = 0 /\ ns[n].right = 0 /\ ns[n].height = 1
    /\ \A x \in 1 .. n - 1 : /\ S[x] \subseteq 1 .. n - 1
                             /\ ns[x].end <= ns[n].start \/ ns[n].end <= ns[x].start

\* t is the subtree at r with the last node added; if it is higher than
\* before, then on the side of that node.
Grown(n, ns, S, S2, r, t) ==
    /\ Shape(n, S2) /\ t.root \in 1 .. n
    /\ S2[t.root] = S[r] \cup {n} /\ SameOff(n, S, S2, S[r] \cup {n})
    /\ Touches(n, ns, t.nodes, S[r] \cup {n}) /\ Keyed(n, t.nodes)
    /\ Sub(n, t.nodes, S2, t.root)
    /\ \/ Height(t.nodes, t.root) = Height(ns, r)
       \/ /\ Height(t.nodes, t.root) = Height(ns, r) + 1
          /\ r = 0 \/ Lean(t.nodes, t.root, Key(ns, n))
Inserted(n, ns, S, r, t) == \E S2 : Grown(n, ns, S, S2, r, t)

\* Changes of the shape add up.
LEMMA SameOffTrans ==
    ASSUME NEW n \in Nat, NEW a, NEW b, NEW c, NEW p, NEW q,
           SameOff(n, a, b, p), SameOff(n, b, c, q)
    PROVE  SameOff(n, a, c, p \cup q)
BY DEF SameOff

\* An empty subtree becomes the new node.
LEMMA InsertNone ==
    ASSUME NEW n, NEW ns, NEW S, Pending(n, ns, S), NEW t, t = [nodes |-> ns, root |-> n]
    PROVE  Inserted(n, ns, S, 0, t)
<1>1. n \in Nat /\ n \in 1 .. n /\ n # 0 /\ Keyed(n, ns) /\ ns \in NodeLists(n) /\ Shape(n, S) /\ S[n] = {n} /\ S[0] = {}
  BY DEF Pending, Keyed, Shape
<1>2. t.nodes = ns /\ t.root = n
  OBVIOUS
<1>3. ns[n].left = 0 /\ ns[n].right = 0 /\ ns[n].height = 1
  BY DEF Pending
<1>4. Height(ns, 0) = 0 /\ Height(ns, n) = 1
  BY <1>1, <1>3 DEF Height
<1>5. Sub(n, ns, S, n)
  <2>1. NodeOK(n, ns, S, n)
    <3>1. S[n] = S[0] \cup {n} \cup S[0] /\ \A y \in S[n] : S[y] \subseteq S[n]
      BY <1>1
    <3>2. Before(ns, S[0], n) /\ After(ns, n, S[0])
      BY <1>1 DEF Before, After
    <3>3. Height(ns, 0) - Height(ns, 0) \in -1 .. 1 /\ 1 + Larger(Height(ns, 0), Height(ns, 0)) = 1
      BY <1>4 DEF Larger
    <3>4. 0 \in 0 .. n
      BY <1>1
    <3> QED
      BY <1>3, <3>1, <3>2, <3>3, <3>4 DEF NodeOK, Children
  <2> QED
    BY <1>1, <2>1 DEF Sub
<1>6. Grown(n, ns, S, S, 0, t)
  <2>1. S[0] \cup {n} = {n} /\ SameOff(n, S, S, {n}) /\ Touches(n, ns, ns, {n})
    BY <1>1, TouchesNone DEF SameOff
  <2> QED
    BY <1>1, <1>2, <1>4, <1>5, <2>1 DEF Grown
<1> QED
  BY <1>6 DEF Inserted

\* Heights before and after, below and at a node.
LEMMA GrowthHeights ==
    ASSUME NEW old \in Nat, NEW new \in Nat, NEW other \in Nat, new \in {old, old + 1},
           old - other \in -1 .. 1
    PROVE  /\ new - other \in -2 .. 2 /\ other - new \in -2 .. 2 /\ other # new + 2
           /\ new = other + 2 => new = old + 1 /\ old # 0 /\ new = 1 + Larger(old, other) /\ new = 1 + Larger(other, old)
           /\ new - other \in -1 .. 1 =>
                \/ 1 + Larger(new, other) = 1 + Larger(old, other) /\ 1 + Larger(other, new) = 1 + Larger(other, old)
                \/ /\ 1 + Larger(new, other) = (1 + Larger(old, other)) + 1 /\ new = other + 1
                   /\ 1 + Larger(other, new) = (1 + Larger(other, old)) + 1
BY DEF Larger

\* Insertion into the left subtree of a node.
LEMMA InsertLeft ==
    ASSUME NEW n, NEW ns, NEW S, Pending(n, ns, S),
           NEW r \in 1 .. n - 1, Sub(n, ns, S, r),
           Leftward(ns, r, Key(ns, n)),
           NEW sub, Inserted(n, ns, S, ns[r].left, sub),
           NEW ms, ms = WithLeft(sub.nodes, r, sub.root),
           NEW t, t = Rebalanced(ms, r, Key(ns, n))
    PROVE  Inserted(n, ns, S, r, t)
<1> DEFINE l == ns[r].left
           q == ns[r].right
           k == sub.root
           ss == sub.nodes
           B == S[l] \cup {n}
<1>1. n \in Nat /\ r \in 1 .. n /\ n \in 1 .. n /\ r # n /\ Keyed(n, ns) /\ ns \in NodeLists(n) /\ Shape(n, S)
  BY DEF Pending, Keyed
<1>2. NodeOK(n, ns, S, r) /\ Sub(n, ns, S, l) /\ Sub(n, ns, S, q)
  BY <1>1, SubRoot
<1>3. /\ l \in 0 .. n /\ q \in 0 .. n /\ S[r] = S[l] \cup {r} \cup S[q]
      /\ Before(ns, S[l], r) /\ After(ns, r, S[q])
      /\ Height(ns, l) - Height(ns, q) \in -1 .. 1
      /\ ns[r].height = 1 + Larger(Height(ns, l), Height(ns, q))
  BY <1>2 DEF NodeOK, Children
<1>4. S[r] \subseteq 1 .. n - 1 /\ n \notin S[l] /\ n \notin S[q] /\ S[l] \subseteq 1 .. n /\ S[q] \subseteq 1 .. n
  <2>1. S[r] \subseteq 1 .. n - 1
    BY DEF Pending
  <2> QED
    BY <1>1, <1>3, <2>1
<1>5. r \notin S[l] /\ r \notin S[q] /\ S[l] \cap S[q] = {} /\ l # r /\ q # r
  <2>1. Between(n, ns, S, r)
    BY <1>1, <1>2, <1>3 DEF Between, Children
  <2> QED
    BY <1>1, <2>1, Disjoint
<1>6. Height(ns, l) \in Nat /\ Height(ns, q) \in Nat
  BY <1>1, <1>3, HeightType
<1>7. PICK S1 : Grown(n, ns, S, S1, l, sub)
  BY DEF Inserted
<1>8. /\ Shape(n, S1) /\ k \in 1 .. n /\ S1[k] = B /\ SameOff(n, S, S1, B)
      /\ Touches(n, ns, ss, B) /\ Keyed(n, ss) /\ ss \in NodeLists(n)
      /\ Sub(n, ss, S1, k)
  BY <1>7 DEF Grown, Keyed
<1>9. \/ Height(ss, k) = Height(ns, l)
      \/ Height(ss, k) = Height(ns, l) + 1 /\ (l = 0 \/ Lean(ss, k, Key(ns, n)))
  BY <1>7 DEF Grown
<1>10. B = S[l] \cup {n} /\ r \notin B /\ B \subseteq 1 .. n /\ S[q] \cap B = {}
  BY <1>1, <1>4, <1>5
<1>11. ns[r].left = l /\ ns[r].right = q /\ ms = WithLeft(ss, r, k) /\ t = Rebalanced(ms, r, Key(ns, n))
  OBVIOUS
<1>12. r \in S[r] /\ Key(ns, n) \in Nat
  BY <1>1 DEF Shape, NodeLists, Nodes, Key
<1>13. Inserted(n, ns, S, r, t) <=> \E S2 : Grown(n, ns, S, S2, r, t)
  BY DEF Inserted
<1> HIDE DEF l, q, k, ss, B
<1>14. LeftSet(n, ss, ms, r, k)
  <2>1. k \in Nat
    BY <1>8
  <2> QED
    BY <1>1, <1>8, <1>11, <2>1, SetLeft
<1>15. ss[r] = ns[r]
  BY <1>1, <1>8, <1>10 DEF Touches
<1>16. Touches(n, ss, ms, {r}) /\ ms[r].left = k /\ ms[r].right = q /\ Keyed(n, ms)
  <2>1. Touches(n, ss, ms, {r}) /\ ms[r].left = k /\ ms[r].right = ss[r].right
    BY <1>14 DEF LeftSet
  <2> QED
    BY <1>1, <1>8, <1>11, <1>15, <2>1, KeyedKept
<1>17. Touches(n, ns, ms, B \cup {r})
  BY <1>1, <1>8, <1>16, TouchesTrans
<1>18. 0 \notin {r} /\ 0 \notin B \cup {r} /\ S[q] \cap (B \cup {r}) = {} /\ S1[k] \cap {r} = {}
  BY <1>1, <1>5, <1>8, <1>10
<1>19. Kept(n, ss, ms, S1, S1, k)
  <2>1. SameOff(n, S1, S1, {r}) /\ k \in 0 .. n
    BY <1>8 DEF SameOff
  <2> QED
    BY <1>1, <1>8, <1>16, <1>18, <2>1, SubKept
<1>20. Kept(n, ns, ms, S, S1, q)
  <2>1. SameOff(n, S, S1, B \cup {r})
    BY <1>8 DEF SameOff
  <2> QED
    BY <1>1, <1>2, <1>3, <1>8, <1>17, <1>18, <2>1, SubKept
<1>21. /\ Sub(n, ms, S1, k) /\ Height(ms, k) = Height(ss, k)
       /\ Sub(n, ms, S1, q) /\ S1[q] = S[q] /\ Height(ms, q) = Height(ns, q)
  BY <1>19, <1>20 DEF Kept
<1>22. Before(ms, S1[k], r) /\ After(ms, r, S1[q])
  <2>1. ns[n].end <= ns[r].start
    <3>1. ns[r].end <= ns[n].start \/ ns[n].end <= ns[r].start
      BY DEF Pending
    <3>2. /\ ns[r].start \in Nat /\ ns[r].end \in Nat /\ ns[r].start < ns[r].end
          /\ ns[n].start \in Nat /\ ns[n].end \in Nat /\ ns[n].start < ns[n].end
      BY <1>1 DEF Keyed, NodeLists, Nodes
    <3>3. ~(ns[r].end <= ns[n].start)
      BY <3>2 DEF Leftward, Rightward, Key
    <3> QED
      BY <3>1, <3>3
  <2>2. Before(ns, B, r)
    BY <1>3, <1>10, <2>1 DEF Before, After
  <2> QED
    BY <1>1, <1>3, <1>4, <1>8, <1>10, <1>17, <1>21, <2>2, OrderKept
<1>23. Loose(n, ms, S1, r)
  <2>1. k \in 0 .. n
    BY <1>1, <1>8
  <2> QED
    BY <1>1, <1>3, <1>8, <1>16, <1>21, <1>22, <2>1 DEF Loose, Between, Children
<1> DEFINE old == Height(ns, l)
           new == Height(ms, k)
           other == Height(ns, q)
<1>24. old \in Nat /\ other \in Nat /\ new \in Nat /\ new \in {old, old + 1}
  <2>1. new \in Nat
    <3>1. ms \in NodeLists(n) /\ k \in 0 .. n
      BY <1>8, <1>16 DEF Keyed
    <3> QED
      BY <1>1, <3>1, HeightType
  <2> QED
    BY <1>6, <1>9, <1>21, <2>1
<1>25. Height(ms, ms[r].left) = new /\ Height(ms, ms[r].right) = other
  BY <1>16, <1>21
<1>26. (old - other \in -1 .. 1 \/ other - old \in -1 .. 1) /\ ns[r].height = 1 + Larger(old, other)
  BY <1>3
<1>27. old # 0 => l # 0
  BY DEF Height
<1> HIDE DEF old, new, other
<1>28. /\ new - other \in -2 .. 2 /\ other - new \in -2 .. 2 /\ other # new + 2
       /\ new = other + 2 => new = old + 1 /\ old # 0 /\ new = 1 + Larger(old, other)
       /\ new - other \in -1 .. 1 =>
            \/ 1 + Larger(new, other) = 1 + Larger(old, other)
            \/ 1 + Larger(new, other) = (1 + Larger(old, other)) + 1 /\ new = other + 1
  <2>1. old - other \in -1 .. 1
    BY <1>24, <1>26
  <2> QED
    BY <1>24, <2>1, GrowthHeights
<1>29. new = other + 2 => Lean(ms, k, Key(ns, n))
  <2> SUFFICES ASSUME new = other + 2 PROVE Lean(ms, k, Key(ns, n))
    OBVIOUS
  <2>1. new = old + 1 /\ l # 0
    BY <1>27, <1>28
  <2>2. Lean(ss, k, Key(ns, n))
    <3>1. Height(ss, k) # Height(ns, l)
      BY <1>21, <1>24, <2>1 DEF new, old
    <3> QED
      BY <1>9, <2>1, <3>1
  <2>3. ms[k] = ss[k]
    BY <1>8, <1>10, <1>16, <1>18 DEF Touches, Shape
  <2>4. ss[k].left \in 0 .. n /\ ss[k].right \in 0 .. n /\ ss[k].left # r /\ ss[k].right # r
    <3>1. NodeOK(n, ss, S1, k)
      BY <1>1, <1>8, SubRoot
    <3>2. \A z \in 1 .. n : z \in S1[z]
      BY <1>8 DEF Shape
    <3> QED
      BY <1>1, <1>8, <1>10, <3>1, <3>2 DEF NodeOK, Children
  <2>5. /\ Height(ms, ms[k].left) = Height(ss, ss[k].left)
        /\ Height(ms, ms[k].right) = Height(ss, ss[k].right)
    BY <1>1, <1>16, <2>3, <2>4, HeightKept
  <2> QED
    BY <2>2, <2>3, <2>5 DEF Lean, Leftward, Rightward
<1>30. PICK S2 : Rebuilt(n, ms, S1, S2, t, r) /\ Settled(ms, t, r)
  <2>1. Height(ms, ms[r].left) - Height(ms, ms[r].right) \in -2 .. 2
    BY <1>25, <1>28
  <2>2. Height(ms, ms[r].left) = Height(ms, ms[r].right) + 2 => Lean(ms, ms[r].left, Key(ns, n))
    BY <1>16, <1>25, <1>28, <1>29
  <2>3. Height(ms, ms[r].right) = Height(ms, ms[r].left) + 2 => Lean(ms, ms[r].right, Key(ns, n))
    BY <1>16, <1>25, <1>28, <1>29
  <2> QED
    BY <1>1, <1>11, <1>12, <1>23, <2>1, <2>2, <2>3, Rebalance
<1> DEFINE A == S[r] \cup {n}
<1>31. All(ms, S1, r) = A /\ B \subseteq A /\ {r} \subseteq A
  BY <1>3, <1>8, <1>10, <1>12, <1>16, <1>21 DEF All
<1>32. /\ Shape(n, S2) /\ t.root \in 1 .. n /\ S2[t.root] = A /\ SameOff(n, S1, S2, A)
       /\ Touches(n, ms, t.nodes, A) /\ Keyed(n, t.nodes) /\ Sub(n, t.nodes, S2, t.root)
  BY <1>30, <1>31 DEF Rebuilt
<1>33. SameOff(n, S, S2, A) /\ Touches(n, ns, t.nodes, A)
  <2>1. B \cup A = A /\ (B \cup {r}) \cup A = A
    BY <1>31
  <2> HIDE DEF A
  <2>2. SameOff(n, S, S2, B \cup A)
    BY <1>1, <1>8, <1>32, SameOffTrans
  <2>3. Touches(n, ns, t.nodes, (B \cup {r}) \cup A)
    BY <1>1, <1>17, <1>32, TouchesTrans
  <2> QED
    BY <2>1, <2>2, <2>3
<1>34. Height(ns, r) = 1 + Larger(old, other) /\ Height(t.nodes, t.root) = t.nodes[t.root].height
  BY <1>1, <1>26, <1>32 DEF Height
<1>35. \/ Height(t.nodes, t.root) = Height(ns, r)
       \/ Height(t.nodes, t.root) = Height(ns, r) + 1 /\ Lean(t.nodes, t.root, Key(ns, n))
  <2>1. CASE new = other + 2 /\ t.nodes[t.root].height = new
    BY <1>28, <1>34, <2>1
  <2>2. CASE /\ new - other \in -1 .. 1 \/ other - new \in -1 .. 1
             /\ t.root = r
             /\ t.nodes[r].left = ms[r].left /\ t.nodes[r].right = ms[r].right
             /\ t.nodes[r].height = 1 + Larger(new, other)
             /\ Height(t.nodes, ms[r].left) = new /\ Height(t.nodes, ms[r].right) = other
    <3>1. CASE 1 + Larger(new, other) = 1 + Larger(old, other)
      BY <1>34, <2>2, <3>1
    <3>2. CASE 1 + Larger(new, other) = (1 + Larger(old, other)) + 1 /\ new = other + 1
      <4>1. t.nodes[r].start = ns[r].start /\ t.nodes[r].end = ns[r].end
        BY <1>1, <1>33 DEF Touches
      <4>2. Leftward(t.nodes, r, Key(ns, n))
        BY <4>1 DEF Leftward, Rightward
      <4>3. Lean(t.nodes, r, Key(ns, n))
        BY <2>2, <3>2, <4>2 DEF Lean
      <4> QED
        BY <1>34, <2>2, <3>2, <4>3
    <3>3. new - other \in -1 .. 1
      BY <1>24, <2>2
    <3> QED
      BY <1>28, <3>1, <3>2, <3>3
  <2>3. CASE other = new + 2
    BY <1>28, <2>3
  <2>4. Settled(ms, t, r)
    BY <1>30
  <2> QED
    BY <1>16, <1>25, <2>1, <2>2, <2>3, <2>4 DEF Settled
<1>36. Grown(n, ns, S, S2, r, t)
  BY <1>32, <1>33, <1>35 DEF Grown
<1> QED
  BY <1>13, <1>36

\* Insertion into the right subtree of a node.
LEMMA InsertRight ==
    ASSUME NEW n, NEW ns, NEW S, Pending(n, ns, S),
           NEW r \in 1 .. n - 1, Sub(n, ns, S, r),
           Rightward(ns, r, Key(ns, n)),
           NEW sub, Inserted(n, ns, S, ns[r].right, sub),
           NEW ms, ms = WithRight(sub.nodes, r, sub.root),
           NEW t, t = Rebalanced(ms, r, Key(ns, n))
    PROVE  Inserted(n, ns, S, r, t)
<1> DEFINE l == ns[r].right
           q == ns[r].left
           k == sub.root
           ss == sub.nodes
           B == S[l] \cup {n}
<1>1. n \in Nat /\ r \in 1 .. n /\ n \in 1 .. n /\ r # n /\ Keyed(n, ns) /\ ns \in NodeLists(n) /\ Shape(n, S)
  BY DEF Pending, Keyed
<1>2. NodeOK(n, ns, S, r) /\ Sub(n, ns, S, l) /\ Sub(n, ns, S, q)
  BY <1>1, SubRoot
<1>3. /\ l \in 0 .. n /\ q \in 0 .. n /\ S[r] = S[l] \cup {r} \cup S[q]
      /\ After(ns, r, S[l]) /\ Before(ns, S[q], r)
      /\ Height(ns, q) - Height(ns, l) \in -1 .. 1
      /\ ns[r].height = 1 + Larger(Height(ns, q), Height(ns, l))
  BY <1>2 DEF NodeOK, Children
<1>4. S[r] \subseteq 1 .. n - 1 /\ n \notin S[l] /\ n \notin S[q] /\ S[l] \subseteq 1 .. n /\ S[q] \subseteq 1 .. n
  <2>1. S[r] \subseteq 1 .. n - 1
    BY DEF Pending
  <2> QED
    BY <1>1, <1>3, <2>1
<1>5. r \notin S[l] /\ r \notin S[q] /\ S[l] \cap S[q] = {} /\ l # r /\ q # r
  <2>1. Between(n, ns, S, r)
    BY <1>1, <1>2, <1>3 DEF Between, Children
  <2> QED
    BY <1>1, <2>1, Disjoint
<1>6. Height(ns, l) \in Nat /\ Height(ns, q) \in Nat
  BY <1>1, <1>3, HeightType
<1>7. PICK S1 : Grown(n, ns, S, S1, l, sub)
  BY DEF Inserted
<1>8. /\ Shape(n, S1) /\ k \in 1 .. n /\ S1[k] = B /\ SameOff(n, S, S1, B)
      /\ Touches(n, ns, ss, B) /\ Keyed(n, ss) /\ ss \in NodeLists(n)
      /\ Sub(n, ss, S1, k)
  BY <1>7 DEF Grown, Keyed
<1>9. \/ Height(ss, k) = Height(ns, l)
      \/ Height(ss, k) = Height(ns, l) + 1 /\ (l = 0 \/ Lean(ss, k, Key(ns, n)))
  BY <1>7 DEF Grown
<1>10. B = S[l] \cup {n} /\ r \notin B /\ B \subseteq 1 .. n /\ S[q] \cap B = {}
  BY <1>1, <1>4, <1>5
<1>11. ns[r].right = l /\ ns[r].left = q /\ ms = WithRight(ss, r, k) /\ t = Rebalanced(ms, r, Key(ns, n))
  OBVIOUS
<1>12. r \in S[r] /\ Key(ns, n) \in Nat
  BY <1>1 DEF Shape, NodeLists, Nodes, Key
<1>13. Inserted(n, ns, S, r, t) <=> \E S2 : Grown(n, ns, S, S2, r, t)
  BY DEF Inserted
<1> HIDE DEF l, q, k, ss, B
<1>14. RightSet(n, ss, ms, r, k)
  <2>1. k \in Nat
    BY <1>8
  <2> QED
    BY <1>1, <1>8, <1>11, <2>1, SetRight
<1>15. ss[r] = ns[r]
  BY <1>1, <1>8, <1>10 DEF Touches
<1>16. Touches(n, ss, ms, {r}) /\ ms[r].right = k /\ ms[r].left = q /\ Keyed(n, ms)
  <2>1. Touches(n, ss, ms, {r}) /\ ms[r].right = k /\ ms[r].left = ss[r].left
    BY <1>14 DEF RightSet
  <2> QED
    BY <1>1, <1>8, <1>11, <1>15, <2>1, KeyedKept
<1>17. Touches(n, ns, ms, B \cup {r})
  BY <1>1, <1>8, <1>16, TouchesTrans
<1>18. 0 \notin {r} /\ 0 \notin B \cup {r} /\ S[q] \cap (B \cup {r}) = {} /\ S1[k] \cap {r} = {}
  BY <1>1, <1>5, <1>8, <1>10
<1>19. Kept(n, ss, ms, S1, S1, k)
  <2>1. SameOff(n, S1, S1, {r}) /\ k \in 0 .. n
    BY <1>8 DEF SameOff
  <2> QED
    BY <1>1, <1>8, <1>16, <1>18, <2>1, SubKept
<1>20. Kept(n, ns, ms, S, S1, q)
  <2>1. SameOff(n, S, S1, B \cup {r})
    BY <1>8 DEF SameOff
  <2> QED
    BY <1>1, <1>2, <1>3, <1>8, <1>17, <1>18, <2>1, SubKept
<1>21. /\ Sub(n, ms, S1, k) /\ Height(ms, k) = Height(ss, k)
       /\ Sub(n, ms, S1, q) /\ S1[q] = S[q] /\ Height(ms, q) = Height(ns, q)
  BY <1>19, <1>20 DEF Kept
<1>22. After(ms, r, S1[k]) /\ Before(ms, S1[q], r)
  <2>1. ns[r].end <= ns[n].start
    <3>1. ns[n].end <= ns[r].start \/ ns[r].end <= ns[n].start
      BY DEF Pending
    <3>2. /\ ns[r].end \in Nat /\ ns[r].start \in Nat /\ ns[r].start < ns[r].end
          /\ ns[n].end \in Nat /\ ns[n].start \in Nat /\ ns[n].start < ns[n].end
      BY <1>1 DEF Keyed, NodeLists, Nodes
    <3>3. ~(ns[n].end <= ns[r].start)
      BY <3>2 DEF Rightward, Leftward, Key
    <3> QED
      BY <3>1, <3>3
  <2>2. After(ns, r, B)
    BY <1>3, <1>10, <2>1 DEF Before, After
  <2> QED
    BY <1>1, <1>3, <1>4, <1>8, <1>10, <1>17, <1>21, <2>2, OrderKept
<1>23. Loose(n, ms, S1, r)
  <2>1. k \in 0 .. n
    BY <1>1, <1>8
  <2> QED
    BY <1>1, <1>3, <1>8, <1>16, <1>21, <1>22, <2>1 DEF Loose, Between, Children
<1> DEFINE old == Height(ns, l)
           new == Height(ms, k)
           other == Height(ns, q)
<1>24. old \in Nat /\ other \in Nat /\ new \in Nat /\ new \in {old, old + 1}
  <2>1. new \in Nat
    <3>1. ms \in NodeLists(n) /\ k \in 0 .. n
      BY <1>8, <1>16 DEF Keyed
    <3> QED
      BY <1>1, <3>1, HeightType
  <2> QED
    BY <1>6, <1>9, <1>21, <2>1
<1>25. Height(ms, ms[r].right) = new /\ Height(ms, ms[r].left) = other
  BY <1>16, <1>21
<1>26. (old - other \in -1 .. 1 \/ other - old \in -1 .. 1) /\ ns[r].height = 1 + Larger(other, old)
  BY <1>3
<1>27. old # 0 => l # 0
  BY DEF Height
<1> HIDE DEF old, new, other
<1>28. /\ new - other \in -2 .. 2 /\ other - new \in -2 .. 2 /\ other # new + 2
       /\ new = other + 2 => new = old + 1 /\ old # 0 /\ new = 1 + Larger(other, old)
       /\ new - other \in -1 .. 1 =>
            \/ 1 + Larger(other, new) = 1 + Larger(other, old)
            \/ 1 + Larger(other, new) = (1 + Larger(other, old)) + 1 /\ new = other + 1
  <2>1. old - other \in -1 .. 1
    BY <1>24, <1>26
  <2> QED
    BY <1>24, <2>1, GrowthHeights
<1>29. new = other + 2 => Lean(ms, k, Key(ns, n))
  <2> SUFFICES ASSUME new = other + 2 PROVE Lean(ms, k, Key(ns, n))
    OBVIOUS
  <2>1. new = old + 1 /\ l # 0
    BY <1>27, <1>28
  <2>2. Lean(ss, k, Key(ns, n))
    <3>1. Height(ss, k) # Height(ns, l)
      BY <1>21, <1>24, <2>1 DEF new, old
    <3> QED
      BY <1>9, <2>1, <3>1
  <2>3. ms[k] = ss[k]
    BY <1>8, <1>10, <1>16, <1>18 DEF Touches, Shape
  <2>4. ss[k].right \in 0 .. n /\ ss[k].left \in 0 .. n /\ ss[k].right # r /\ ss[k].left # r
    <3>1. NodeOK(n, ss, S1, k)
      BY <1>1, <1>8, SubRoot
    <3>2. \A z \in 1 .. n : z \in S1[z]
      BY <1>8 DEF Shape
    <3> QED
      BY <1>1, <1>8, <1>10, <3>1, <3>2 DEF NodeOK, Children
  <2>5. /\ Height(ms, ms[k].right) = Height(ss, ss[k].right)
        /\ Height(ms, ms[k].left) = Height(ss, ss[k].left)
    BY <1>1, <1>16, <2>3, <2>4, HeightKept
  <2> QED
    BY <2>2, <2>3, <2>5 DEF Lean, Rightward, Leftward
<1>30. PICK S2 : Rebuilt(n, ms, S1, S2, t, r) /\ Settled(ms, t, r)
  <2>1. Height(ms, ms[r].left) - Height(ms, ms[r].right) \in -2 .. 2
    BY <1>25, <1>28
  <2>2. Height(ms, ms[r].right) = Height(ms, ms[r].left) + 2 => Lean(ms, ms[r].right, Key(ns, n))
    BY <1>16, <1>25, <1>28, <1>29
  <2>3. Height(ms, ms[r].left) = Height(ms, ms[r].right) + 2 => Lean(ms, ms[r].left, Key(ns, n))
    BY <1>16, <1>25, <1>28, <1>29
  <2> QED
    BY <1>1, <1>11, <1>12, <1>23, <2>1, <2>2, <2>3, Rebalance
<1> DEFINE A == S[r] \cup {n}
<1>31. All(ms, S1, r) = A /\ B \subseteq A /\ {r} \subseteq A
  BY <1>3, <1>8, <1>10, <1>12, <1>16, <1>21 DEF All
<1>32. /\ Shape(n, S2) /\ t.root \in 1 .. n /\ S2[t.root] = A /\ SameOff(n, S1, S2, A)
       /\ Touches(n, ms, t.nodes, A) /\ Keyed(n, t.nodes) /\ Sub(n, t.nodes, S2, t.root)
  BY <1>30, <1>31 DEF Rebuilt
<1>33. SameOff(n, S, S2, A) /\ Touches(n, ns, t.nodes, A)
  <2>1. B \cup A = A /\ (B \cup {r}) \cup A = A
    BY <1>31
  <2> HIDE DEF A
  <2>2. SameOff(n, S, S2, B \cup A)
    BY <1>1, <1>8, <1>32, SameOffTrans
  <2>3. Touches(n, ns, t.nodes, (B \cup {r}) \cup A)
    BY <1>1, <1>17, <1>32, TouchesTrans
  <2> QED
    BY <2>1, <2>2, <2>3
<1>34. Height(ns, r) = 1 + Larger(other, old) /\ Height(t.nodes, t.root) = t.nodes[t.root].height
  BY <1>1, <1>26, <1>32 DEF Height
<1>35. \/ Height(t.nodes, t.root) = Height(ns, r)
       \/ Height(t.nodes, t.root) = Height(ns, r) + 1 /\ Lean(t.nodes, t.root, Key(ns, n))
  <2>1. CASE new = other + 2 /\ t.nodes[t.root].height = new
    BY <1>28, <1>34, <2>1
  <2>2. CASE /\ new - other \in -1 .. 1 \/ other - new \in -1 .. 1
             /\ t.root = r
             /\ t.nodes[r].right = ms[r].right /\ t.nodes[r].left = ms[r].left
             /\ t.nodes[r].height = 1 + Larger(other, new)
             /\ Height(t.nodes, ms[r].right) = new /\ Height(t.nodes, ms[r].left) = other
    <3>1. CASE 1 + Larger(other, new) = 1 + Larger(other, old)
      BY <1>34, <2>2, <3>1
    <3>2. CASE 1 + Larger(other, new) = (1 + Larger(other, old)) + 1 /\ new = other + 1
      <4>1. t.nodes[r].end = ns[r].end /\ t.nodes[r].start = ns[r].start
        BY <1>1, <1>33 DEF Touches
      <4>2. Rightward(t.nodes, r, Key(ns, n))
        BY <4>1 DEF Rightward, Leftward
      <4>3. Lean(t.nodes, r, Key(ns, n))
        BY <2>2, <3>2, <4>2 DEF Lean
      <4> QED
        BY <1>34, <2>2, <3>2, <4>3
    <3>3. new - other \in -1 .. 1
      BY <1>24, <2>2
    <3> QED
      BY <1>28, <3>1, <3>2, <3>3
  <2>3. CASE other = new + 2
    BY <1>28, <2>3
  <2>4. Settled(ms, t, r)
    BY <1>30
  <2> QED
    BY <1>16, <1>25, <2>1, <2>2, <2>3, <2>4 DEF Settled
<1>36. Grown(n, ns, S, S2, r, t)
  BY <1>32, <1>33, <1>35 DEF Grown
<1> QED
  BY <1>13, <1>36

-----------------------------------------------------------------------------
(* Insertion into the tree.                                                *)

\* Among some nodes there is a lowest one.
LEMMA LowestNode ==
    ASSUME NEW n \in Nat, NEW ns \in NodeLists(n), NEW B \in SUBSET (0 .. n), B # {}
    PROVE  \E r \in B : \A y \in B : Height(ns, r) <= Height(ns, y)
<1> DEFINE T == {Height(ns, r) : r \in B}
<1>1. T \in SUBSET Nat /\ T # {}
  BY HeightType
<1>2. PICK h \in T : \A k \in T : h <= k
  <2> HIDE DEF T
  <2> QED
    BY <1>1, LeastNat
<1>3. PICK r \in B : h = Height(ns, r)
  OBVIOUS
<1>4. \A y \in B : Height(ns, y) \in T
  OBVIOUS
<1> HIDE DEF T
<1> QED
  BY <1>2, <1>3, <1>4

\* The subtrees of a node are lower than it.
LEMMA LowerChildren ==
    ASSUME NEW n \in Nat, NEW ns \in NodeLists(n), NEW S, NEW r \in 1 .. n, NodeOK(n, ns, S, r)
    PROVE  /\ ns[r].left \in 0 .. n /\ ns[r].right \in 0 .. n
           /\ Height(ns, ns[r].left) < ns[r].height /\ Height(ns, ns[r].right) < ns[r].height
           /\ ns[r].height \in Nat /\ Height(ns, r) = ns[r].height
           /\ ~(Height(ns, r) <= Height(ns, ns[r].left)) /\ ~(Height(ns, r) <= Height(ns, ns[r].right))
<1>1. /\ ns[r].left \in 0 .. n /\ ns[r].right \in 0 .. n
      /\ ns[r].height = 1 + Larger(Height(ns, ns[r].left), Height(ns, ns[r].right))
  BY DEF NodeOK, Children
<1>2. Height(ns, ns[r].left) \in Nat /\ Height(ns, ns[r].right) \in Nat
  BY <1>1, HeightType
<1>3. Height(ns, r) = ns[r].height
  BY DEF Height
<1> QED
  BY <1>1, <1>2, <1>3 DEF Larger

\* A tree to which a node is to be added is one whose functions are defined.
LEMMA PendingRanked ==
    ASSUME NEW n, NEW ns, NEW S, Pending(n, ns, S), NEW top \in 0 .. n, S[top] = 1 .. n - 1, Sub(n, ns, S, top)
    PROVE  Ranked(n, ns)
<1>1. n \in Nat \ {0} /\ ns \in NodeLists(n) /\ ns[n].left = 0 /\ ns[n].right = 0 /\ ns[n].height = 1
  BY DEF Pending, Keyed
<1>2. ASSUME NEW r \in 1 .. n - 1
      PROVE  Children(n, ns, r) /\ Height(ns, ns[r].left) < ns[r].height /\ Height(ns, ns[r].right) < ns[r].height
  <2>1. NodeOK(n, ns, S, r) /\ r \in 1 .. n
    BY <1>1 DEF Sub
  <2> QED
    BY <1>1, <2>1, LowerChildren DEF Children
<1>3. Children(n, ns, n) /\ Height(ns, ns[n].left) < ns[n].height /\ Height(ns, ns[n].right) < ns[n].height
  BY <1>1 DEF Children, Height
<1>4. \A r \in 1 .. n : r \in 1 .. n - 1 \/ r = n
  BY <1>1
<1> QED
  BY <1>2, <1>3, <1>4 DEF Ranked

\* One level of insert.
LEMMA InsertLevel ==
    ASSUME NEW n, NEW ns, NEW S, Pending(n, ns, S), NEW r \in 1 .. n - 1, Sub(n, ns, S, r), NEW f,
           Inserted(n, ns, S, ns[r].left, f[ns[r].left]), Inserted(n, ns, S, ns[r].right, f[ns[r].right])
    PROVE  Inserted(n, ns, S, r, InsertStep(ns, f, r))
<1>1. n \in Nat /\ r # 0 /\ r \in 1 .. n /\ n \in 1 .. n /\ Len(ns) = n
  BY DEF Pending
<1>2. InsertStep(ns, f, r) =
         IF Key(ns, n) < ns[r].start
         THEN Rebalanced(WithLeft(f[ns[r].left].nodes, r, f[ns[r].left].root), r, Key(ns, n))
         ELSE Rebalanced(WithRight(f[ns[r].right].nodes, r, f[ns[r].right].root), r, Key(ns, n))
  BY <1>1 DEF InsertStep, Key
<1>3. CASE Leftward(ns, r, Key(ns, n))
  <2> DEFINE sub == f[ns[r].left]
             ms == WithLeft(sub.nodes, r, sub.root)
             t == Rebalanced(ms, r, Key(ns, n))
  <2>1. InsertStep(ns, f, r) = t
    BY <1>2, <1>3 DEF Leftward
  <2>2. Inserted(n, ns, S, ns[r].left, sub) /\ ms = WithLeft(sub.nodes, r, sub.root) /\ t = Rebalanced(ms, r, Key(ns, n))
    OBVIOUS
  <2> HIDE DEF sub, ms, t
  <2>3. Inserted(n, ns, S, r, t)
    BY <1>3, <2>2, InsertLeft
  <2> QED
    BY <2>1, <2>3
<1>4. CASE ~Leftward(ns, r, Key(ns, n))
  <2> DEFINE sub == f[ns[r].right]
             ms == WithRight(sub.nodes, r, sub.root)
             t == Rebalanced(ms, r, Key(ns, n))
  <2>1. InsertStep(ns, f, r) = t
    BY <1>2, <1>4 DEF Leftward
  <2>2. Rightward(ns, r, Key(ns, n))
    <3>1. ns[r].end <= ns[n].start \/ ns[n].end <= ns[r].start
      BY DEF Pending
    <3>2. /\ ns[r].start \in Nat /\ ns[r].end \in Nat /\ ns[r].start < ns[r].end
          /\ ns[n].start \in Nat /\ ns[n].end \in Nat /\ ns[n].start < ns[n].end
      BY <1>1 DEF Pending, Keyed, NodeLists, Nodes
    <3> QED
      BY <1>4, <3>1, <3>2 DEF Leftward, Rightward, Key
  <2>3. Inserted(n, ns, S, ns[r].right, sub) /\ ms = WithRight(sub.nodes, r, sub.root) /\ t = Rebalanced(ms, r, Key(ns, n))
    OBVIOUS
  <2> HIDE DEF sub, ms, t
  <2>4. Inserted(n, ns, S, r, t)
    BY <2>2, <2>3, InsertRight
  <2> QED
    BY <2>1, <2>4
<1> QED
  BY <1>3, <1>4

\* The children of a node of the tree are nodes of the tree.
LEMMA ChildrenInTree ==
    ASSUME NEW n, NEW ns, NEW S, Pending(n, ns, S), NEW r \in 1 .. n - 1, Sub(n, ns, S, r)
    PROVE  /\ ns[r].left \in 0 .. n - 1 /\ Sub(n, ns, S, ns[r].left)
           /\ ns[r].right \in 0 .. n - 1 /\ Sub(n, ns, S, ns[r].right)
<1>1. n \in Nat /\ r \in 1 .. n /\ Shape(n, S) /\ S[r] \subseteq 1 .. n - 1
  BY DEF Pending
<1>2. NodeOK(n, ns, S, r) /\ Sub(n, ns, S, ns[r].left) /\ Sub(n, ns, S, ns[r].right)
  BY <1>1, SubRoot
<1>3. ASSUME NEW c \in 0 .. n, S[c] \subseteq S[r] PROVE c \in 0 .. n - 1
  <2>1. c = 0 \/ c \in S[c]
    BY <1>1 DEF Shape
  <2> QED
    BY <1>1, <1>3, <2>1
<1> QED
  BY <1>2, <1>3 DEF NodeOK, Children

\* insert adds the last node to the tree.
LEMMA InsertTree ==
    ASSUME NEW n, NEW ns, NEW S, Pending(n, ns, S),
           NEW top \in 0 .. n - 1, S[top] = 1 .. n - 1, Sub(n, ns, S, top)
    PROVE  Inserted(n, ns, S, top, Insert(ns, top))
<1>1. n \in Nat /\ Len(ns) = n /\ ns \in NodeLists(n) /\ Shape(n, S) /\ top \in 0 .. n
  BY DEF Pending, Keyed
<1> DEFINE f == CHOOSE f : f = [r \in 0 .. n |-> InsertStep(ns, f, r)]
           B == {r \in 0 .. n - 1 : Sub(n, ns, S, r) /\ ~Inserted(n, ns, S, r, f[r])}
<1>2. f = [r \in 0 .. n |-> InsertStep(ns, f, r)]
  <2>1. Ranked(n, ns)
    BY <1>1, PendingRanked
  <2> HIDE DEF f, B
  <2> DEFINE w == [kind |-> "insert"]
  <2>2. PICK g : Walk(w, n, ns, g)
    <3> HIDE DEF w
    <3> QED
      BY <1>1, <2>1, WalkDefined
  <2>3. g = [r \in 0 .. n |-> InsertStep(ns, g, r)]
    <3>1. w.kind = "insert"
      OBVIOUS
    <3> HIDE DEF w
    <3> QED
      BY <2>2, <3>1 DEF Walk, WalkStep
  <2> QED
    BY <2>3 DEF f
<1>3. Insert(ns, top) = f[top]
  BY <1>1 DEF Insert, InsertStep, WithLeft, WithRight
<1>4. \A r \in 0 .. n : f[r] = InsertStep(ns, f, r)
  BY <1>2
<1> HIDE DEF f
<1>5. B = {}
  <2> SUFFICES ASSUME B # {} PROVE FALSE
    OBVIOUS
  <2>1. PICK r \in B : \A y \in B : Height(ns, r) <= Height(ns, y)
    <3>1. B \in SUBSET (0 .. n)
      BY <1>1
    <3> HIDE DEF B
    <3> QED
      BY <1>1, <3>1, LowestNode
  <2>2. r \in 0 .. n - 1 /\ r \in 0 .. n /\ Sub(n, ns, S, r) /\ ~Inserted(n, ns, S, r, f[r])
    BY <1>1
  <2>3. CASE r = 0
    <3>1. f[0] = [nodes |-> ns, root |-> n]
      BY <1>1, <1>4 DEF InsertStep
    <3> QED
      BY <2>2, <2>3, <3>1, InsertNone
  <2>4. CASE r # 0
    <3>1. r \in 1 .. n - 1 /\ r \in 1 .. n
      BY <1>1, <2>2, <2>4
    <3>2. /\ ns[r].left \in 0 .. n - 1 /\ Sub(n, ns, S, ns[r].left)
          /\ ns[r].right \in 0 .. n - 1 /\ Sub(n, ns, S, ns[r].right)
      BY <2>2, <3>1, ChildrenInTree
    <3>3. NodeOK(n, ns, S, r)
      BY <1>1, <2>2, <3>1, SubRoot
    <3>4. ~(Height(ns, r) <= Height(ns, ns[r].left)) /\ ~(Height(ns, r) <= Height(ns, ns[r].right))
      BY <1>1, <3>1, <3>3, LowerChildren
    <3>5. ns[r].left \notin B /\ ns[r].right \notin B
      <4> HIDE DEF B
      <4> QED
        BY <2>1, <3>4
    <3>6. Inserted(n, ns, S, ns[r].left, f[ns[r].left]) /\ Inserted(n, ns, S, ns[r].right, f[ns[r].right])
      BY <3>2, <3>5
    <3>7. Inserted(n, ns, S, r, InsertStep(ns, f, r))
      BY <2>2, <3>1, <3>6, InsertLevel
    <3> QED
      BY <1>4, <2>2, <3>7
  <2> QED
    BY <2>3, <2>4
<1> QED
  BY <1>3, <1>5

-----------------------------------------------------------------------------
(* The tree of an index.                                                   *)

\* The nodes ns form one balanced search tree with the root top.
Tree(n, ns, S, top) ==
    /\ n \in Nat /\ Keyed(n, ns) /\ Shape(n, S) /\ top \in 0 .. n
    /\ S[top] = 1 .. n /\ Sub(n, ns, S, top)

\* The nodes of a tree have lower subtrees.
LEMMA TreeRanked ==
    ASSUME NEW n, NEW ns, NEW S, NEW top, Tree(n, ns, S, top)
    PROVE  Ranked(n, ns)
<1>1. n \in Nat /\ ns \in NodeLists(n)
  BY DEF Tree, Keyed
<1>2. ASSUME NEW r \in 1 .. n
      PROVE  Children(n, ns, r) /\ Height(ns, ns[r].left) < ns[r].height /\ Height(ns, ns[r].right) < ns[r].height
  <2>1. NodeOK(n, ns, S, r)
    BY DEF Tree, Sub
  <2> QED
    BY <1>1, <2>1, LowerChildren DEF Children
<1> QED
  BY <1>2 DEF Ranked

\* None of the nodes A overlaps the range.
Clear(ns, A, start, end) == \A x \in A : end <= ns[x].start \/ ns[x].end <= start

\* One level of the search for an overlap.
LEMMA FreeLevel ==
    ASSUME NEW n \in Nat, NEW ns, Keyed(n, ns), NEW S, Shape(n, S), NEW r \in 1 .. n, Sub(n, ns, S, r),
           NEW start \in Nat, NEW end \in Nat, start < end, NEW f,
           f[ns[r].left] = Clear(ns, S[ns[r].left], start, end),
           f[ns[r].right] = Clear(ns, S[ns[r].right], start, end)
    PROVE  FreeStep(ns, start, end, f, r) = Clear(ns, S[r], start, end)
<1> DEFINE l == ns[r].left
           q == ns[r].right
<1>1. NodeOK(n, ns, S, r)
  BY SubRoot
<1>2. /\ l \in 0 .. n /\ q \in 0 .. n /\ S[r] = S[l] \cup {r} \cup S[q]
      /\ \A y \in S[l] : ns[y].end <= ns[r].start
      /\ \A y \in S[q] : ns[r].end <= ns[y].start
  BY <1>1 DEF NodeOK, Children, Before, After
<1>3. S[l] \subseteq 1 .. n /\ S[q] \subseteq 1 .. n
  BY <1>2 DEF Shape
<1>4. \A x \in 1 .. n : ns[x].start \in Nat /\ ns[x].end \in Nat /\ ns[x].start < ns[x].end
  BY DEF Keyed, NodeLists, Nodes
<1>5. FreeStep(ns, start, end, f, r) =
         IF end <= ns[r].start THEN Clear(ns, S[l], start, end)
         ELSE IF start >= ns[r].end THEN Clear(ns, S[q], start, end) ELSE FALSE
  <2>1. r # 0
    OBVIOUS
  <2> QED
    BY <2>1, Zenon DEF FreeStep
<1> HIDE DEF l, q
<1>6. Clear(ns, S[r], start, end) <=>
         /\ Clear(ns, S[l], start, end) /\ Clear(ns, S[q], start, end)
         /\ end <= ns[r].start \/ ns[r].end <= start
  BY <1>2 DEF Clear
<1>7. CASE end <= ns[r].start
  <2>1. Clear(ns, S[q], start, end)
    <3> SUFFICES ASSUME NEW x \in S[q] PROVE end <= ns[x].start
      BY DEF Clear
    <3> QED
      BY <1>2, <1>3, <1>4, <1>7
  <2> QED
    BY <1>5, <1>6, <1>7, <2>1 DEF Clear
<1>8. CASE ~(end <= ns[r].start) /\ start >= ns[r].end
  <2>1. Clear(ns, S[l], start, end)
    <3> SUFFICES ASSUME NEW x \in S[l] PROVE ns[x].end <= start
      BY DEF Clear
    <3> QED
      BY <1>2, <1>3, <1>4, <1>8
  <2>2. ns[r].end <= start
    BY <1>4, <1>8
  <2> QED
    BY <1>5, <1>6, <1>8, <2>1, <2>2 DEF Clear
<1>9. CASE ~(end <= ns[r].start) /\ ~(start >= ns[r].end)
  <2>1. ~(ns[r].end <= start)
    BY <1>4, <1>9
  <2>2. FreeStep(ns, start, end, f, r) = FALSE
    BY <1>5, <1>9
  <2>3. ~Clear(ns, S[r], start, end)
    BY <1>6, <1>9, <2>1
  <2> QED
    BY <2>2, <2>3 DEF Clear
<1> QED
  BY <1>7, <1>8, <1>9

\* nvdIntervalIndexInsert refuses a range if and only if it overlaps one of
\* the tree.
THEOREM FreeExact ==
    ASSUME NEW ix, NEW S, Tree(ix.storage.size, ix.storage.cells, S, ix.root),
           NEW start \in Nat, NEW end \in Nat, start < end,
           ix.maxEnd \in Nat, \A x \in 1 .. ix.storage.size : ix.storage.cells[x].end <= ix.maxEnd
    PROVE  IsFree(ix, start, end) <=> Clear(ix.storage.cells, 1 .. ix.storage.size, start, end)
<1> DEFINE n == ix.storage.size
           ns == ix.storage.cells
           f == CHOOSE f : f = [r \in 0 .. n |-> FreeStep(ns, start, end, f, r)]
           B == {r \in 0 .. n : Sub(n, ns, S, r) /\ f[r] # Clear(ns, S[r], start, end)}
<1>1. n \in Nat /\ ns \in NodeLists(n) /\ Shape(n, S) /\ Keyed(n, ns) /\ ix.root \in 0 .. n
      /\ S[ix.root] = 1 .. n /\ Sub(n, ns, S, ix.root)
  BY DEF Tree, Keyed
<1>2. f = [r \in 0 .. n |-> FreeStep(ns, start, end, f, r)]
  <2>1. Ranked(n, ns)
    BY TreeRanked
  <2> HIDE DEF n, ns, f, B
  <2>2. n \in Nat /\ ns \in NodeLists(n)
    BY <1>1
  <2> DEFINE w == [kind |-> "free", start |-> start, end |-> end]
  <2>3. PICK g : Walk(w, n, ns, g)
    <3> HIDE DEF w
    <3> QED
      BY <2>1, <2>2, WalkDefined
  <2>4. g = [r \in 0 .. n |-> FreeStep(ns, start, end, g, r)]
    <3>1. w.kind = "free" /\ w.start = start /\ w.end = end
      OBVIOUS
    <3> HIDE DEF w
    <3> QED
      BY <2>3, <3>1 DEF Walk, WalkStep
  <2> QED
    BY <2>4 DEF f
<1>3. IsFree(ix, start, end) <=> start >= ix.maxEnd \/ f[ix.root]
  BY DEF IsFree, FreeStep
<1>4. start >= ix.maxEnd => Clear(ns, 1 .. n, start, end)
  <2> SUFFICES ASSUME start >= ix.maxEnd, NEW x \in 1 .. n PROVE ns[x].end <= start
    BY DEF Clear
  <2>1. ns[x].end \in Nat /\ ns[x].end <= ix.maxEnd
    BY <1>1 DEF NodeLists, Nodes
  <2> QED
    BY <2>1
<1> HIDE DEF n, ns
<1>5. \A r \in 0 .. n : f[r] = FreeStep(ns, start, end, f, r)
  BY <1>2
<1> HIDE DEF f
<1>6. B = {}
  <2> SUFFICES ASSUME B # {} PROVE FALSE
    OBVIOUS
  <2>1. PICK r \in B : \A y \in B : Height(ns, r) <= Height(ns, y)
    <3>1. B \in SUBSET (0 .. n)
      BY <1>1
    <3> HIDE DEF B
    <3> QED
      BY <1>1, <3>1, LowestNode
  <2>2. r \in 0 .. n /\ Sub(n, ns, S, r) /\ f[r] # Clear(ns, S[r], start, end)
    OBVIOUS
  <2>3. CASE r = 0
    <3>1. f[0] = TRUE
      <4>1. FreeStep(ns, start, end, f, 0) = TRUE
        BY DEF FreeStep
      <4> QED
        BY <1>5, <2>2, <2>3, <4>1
    <3>2. S[0] = {}
      BY <1>1 DEF Shape
    <3> QED
      BY <2>2, <2>3, <3>1, <3>2 DEF Clear
  <2>4. CASE r # 0
    <3>1. r \in 1 .. n
      BY <1>1, <2>2, <2>4
    <3>2. NodeOK(n, ns, S, r) /\ Sub(n, ns, S, ns[r].left) /\ Sub(n, ns, S, ns[r].right)
      BY <1>1, <2>2, <3>1, SubRoot
    <3>3. /\ ns[r].left \in 0 .. n /\ ns[r].right \in 0 .. n
          /\ ~(Height(ns, r) <= Height(ns, ns[r].left)) /\ ~(Height(ns, r) <= Height(ns, ns[r].right))
      BY <1>1, <3>1, <3>2, LowerChildren
    <3>4. ns[r].left \notin B /\ ns[r].right \notin B
      <4> HIDE DEF B
      <4> QED
        BY <2>1, <3>3
    <3>5. /\ f[ns[r].left] = Clear(ns, S[ns[r].left], start, end)
          /\ f[ns[r].right] = Clear(ns, S[ns[r].right], start, end)
      BY <3>2, <3>3, <3>4
    <3>6. FreeStep(ns, start, end, f, r) = Clear(ns, S[r], start, end)
      BY <1>1, <2>2, <3>1, <3>5, FreeLevel
    <3> QED
      BY <1>5, <2>2, <3>6
  <2> QED
    BY <2>3, <2>4
<1>7. f[ix.root] = Clear(ns, 1 .. n, start, end)
  BY <1>1, <1>6
<1> QED
  BY <1>3, <1>4, <1>7 DEF n, ns

\* s lists the nodes A in the order of their ranges.
Ordered(n, ns, A, s) ==
    /\ s \in Seq(1 .. n) /\ Len(s) = Cardinality(A)
    /\ \A i \in 1 .. Len(s) : s[i] \in A
    /\ \A i, j \in 1 .. Len(s) : i < j => ns[s[i]].end <= ns[s[j]].start

\* Two lists with a member between them.
Joined(X, a, r, b, s) ==
    /\ s \in Seq(X) /\ Len(s) = Len(a) + 1 + Len(b)
    /\ \A i \in 1 .. Len(s) : \/ i \in 1 .. Len(a) /\ s[i] = a[i]
                              \/ i = Len(a) + 1 /\ s[i] = r
                              \/ /\ i > Len(a) + 1 /\ i - (Len(a) + 1) \in 1 .. Len(b)
                                 /\ s[i] = b[i - (Len(a) + 1)]

\* The list is all of them in order.
LEMMA JoinedLists ==
    ASSUME NEW X, NEW a \in Seq(X), NEW b \in Seq(X), NEW r \in X, NEW s, s = a \o <<r>> \o b
    PROVE  Joined(X, a, r, b, s)
<1> DEFINE c == a \o <<r>>
<1>1. c \in Seq(X) /\ Len(c) = Len(a) + 1 /\ Len(a) \in Nat /\ Len(b) \in Nat
  OBVIOUS
<1>2. \A i \in 1 .. Len(c) : c[i] = IF i <= Len(a) THEN a[i] ELSE r
  OBVIOUS
<1>3. s = c \o b
  OBVIOUS
<1> HIDE DEF c
<1>4. s \in Seq(X) /\ Len(s) = Len(c) + Len(b)
  BY <1>1, <1>3
<1>5. \A i \in 1 .. Len(s) : s[i] = IF i <= Len(c) THEN c[i] ELSE b[i - Len(c)]
  BY <1>1, <1>3
<1>6. ASSUME NEW i \in 1 .. Len(s)
      PROVE  \/ i \in 1 .. Len(a) /\ s[i] = a[i]
             \/ i = Len(a) + 1 /\ s[i] = r
             \/ /\ i > Len(a) + 1 /\ i - (Len(a) + 1) \in 1 .. Len(b)
                /\ s[i] = b[i - (Len(a) + 1)]
  <2>1. CASE i <= Len(a)
    <3>1. i \in 1 .. Len(c) /\ i <= Len(c) /\ i \in 1 .. Len(a)
      BY <1>1, <2>1
    <3> QED
      BY <1>2, <1>5, <2>1, <3>1
  <2>2. CASE i = Len(a) + 1
    <3>1. i \in 1 .. Len(c) /\ i <= Len(c) /\ ~(i <= Len(a))
      BY <1>1, <2>2
    <3> QED
      BY <1>2, <1>5, <2>2, <3>1
  <2>3. CASE i > Len(a) + 1
    <3>1. ~(i <= Len(c)) /\ i - Len(c) = i - (Len(a) + 1) /\ i - (Len(a) + 1) \in 1 .. Len(b)
      BY <1>1, <1>4, <2>3
    <3> QED
      BY <1>5, <2>3, <3>1
  <2> QED
    BY <1>1, <1>4, <2>1, <2>2, <2>3
<1> QED
  BY <1>1, <1>4, <1>6 DEF Joined

\* One level of the traversal.
LEMMA OrderLevel ==
    ASSUME NEW n \in Nat, NEW ns, Keyed(n, ns), NEW S, Shape(n, S), NEW r \in 1 .. n, Sub(n, ns, S, r), NEW f,
           Ordered(n, ns, S[ns[r].left], f[ns[r].left]), Ordered(n, ns, S[ns[r].right], f[ns[r].right])
    PROVE  Ordered(n, ns, S[r], OrderStep(ns, f, r))
<1> DEFINE l == ns[r].left
           q == ns[r].right
           a == f[l]
           b == f[q]
           s == OrderStep(ns, f, r)
<1>1. NodeOK(n, ns, S, r)
  BY SubRoot
<1>2. /\ l \in 0 .. n /\ q \in 0 .. n /\ S[r] = S[l] \cup {r} \cup S[q]
      /\ \A y \in S[l] : ns[y].end <= ns[r].start
      /\ \A y \in S[q] : ns[r].end <= ns[y].start
  BY <1>1 DEF NodeOK, Children, Before, After
<1>3. S[l] \in SUBSET (1 .. n) /\ S[q] \in SUBSET (1 .. n)
  BY <1>2 DEF Shape
<1>4. \A x \in 1 .. n : ns[x].start \in Nat /\ ns[x].end \in Nat /\ ns[x].start < ns[x].end
  BY DEF Keyed, NodeLists, Nodes
<1>5. r \notin S[l] /\ r \notin S[q] /\ S[l] \cap S[q] = {}
  <2>1. Between(n, ns, S, r)
    BY <1>1, SubRoot DEF Between, NodeOK
  <2> QED
    BY <2>1, Disjoint
<1>6. Ordered(n, ns, S[l], a) /\ Ordered(n, ns, S[q], b)
  OBVIOUS
<1>7. s = a \o <<r>> \o b
  <2>1. r # 0
    OBVIOUS
  <2> QED
    BY <2>1, Zenon DEF OrderStep
<1> HIDE DEF l, q, a, b, s
<1>8. a \in Seq(1 .. n) /\ b \in Seq(1 .. n) /\ Len(a) = Cardinality(S[l]) /\ Len(b) = Cardinality(S[q])
  BY <1>6 DEF Ordered
<1>9. /\ s \in Seq(1 .. n) /\ Len(s) = Len(a) + 1 + Len(b)
      /\ \A i \in 1 .. Len(s) : \/ i \in 1 .. Len(a) /\ s[i] = a[i]
                                \/ i = Len(a) + 1 /\ s[i] = r
                                \/ /\ i > Len(a) + 1 /\ i - (Len(a) + 1) \in 1 .. Len(b)
                                   /\ s[i] = b[i - (Len(a) + 1)]
  <2> DEFINE X == 1 .. n
  <2>1. a \in Seq(X) /\ b \in Seq(X) /\ r \in X
    BY <1>8
  <2> HIDE DEF X
  <2>2. Joined(X, a, r, b, s)
    BY <1>7, <2>1, JoinedLists
  <2> QED
    BY <2>2 DEF Joined, X
<1>10. Cardinality(S[r]) = Cardinality(S[l]) + 1 + Cardinality(S[q])
  <2> DEFINE A == S[l] \cup {r}
             B == S[q]
  <2>1. IsFiniteSet(1 .. n)
    BY FS_Interval
  <2>2. IsFiniteSet(S[l]) /\ IsFiniteSet(S[q])
    BY <1>3, <2>1, FS_Subset
  <2>3. IsFiniteSet(A) /\ Cardinality(A) = Cardinality(S[l]) + 1
    BY <1>5, <2>2, FS_AddElement
  <2>4. A \cap B = {} /\ S[r] = A \cup B
    BY <1>2, <1>5
  <2>5. Cardinality(S[l]) \in Nat /\ Cardinality(A) \in Nat /\ Cardinality(B) \in Nat /\ Cardinality({}) = 0
    BY <2>2, <2>3, FS_CardinalityType, FS_EmptySet
  <2>6. IsFiniteSet(A) /\ IsFiniteSet(B)
    BY <2>2, <2>3
  <2> HIDE DEF A, B
  <2>7. Cardinality(A \cup B) = Cardinality(A) + Cardinality(B) - Cardinality(A \cap B)
    BY <2>6, FS_Union
  <2>8. Cardinality(S[r]) = Cardinality(A \cup B) /\ Cardinality(A \cap B) = 0 /\ Cardinality(B) = Cardinality(S[q])
    <3>1. Cardinality(A \cup B) = Cardinality(S[r])
      BY <2>4, Zenon
    <3>2. Cardinality(A \cap B) = 0
      BY <2>4, <2>5, Zenon
    <3> QED
      BY <3>1, <3>2 DEF B
  <2> DEFINE ca == Cardinality(A)
             cb == Cardinality(B)
             cu == Cardinality(A \cup B)
             ci == Cardinality(A \cap B)
             cl == Cardinality(S[l])
  <2>9. ca \in Nat /\ cb \in Nat /\ cl \in Nat /\ ca = cl + 1 /\ cu = ca + cb - ci /\ ci = 0
    BY <2>3, <2>5, <2>7, <2>8
  <2>10. cu = cl + 1 + cb
    <3> HIDE DEF ca, cb, cu, ci, cl
    <3> QED
      BY <2>9
  <2> QED
    BY <2>8, <2>10
<1>11. \A i \in 1 .. Len(s) : \/ i \in 1 .. Len(a) /\ s[i] \in S[l]
                              \/ i = Len(a) + 1 /\ s[i] = r
                              \/ i > Len(a) + 1 /\ s[i] \in S[q]
  BY <1>6, <1>9 DEF Ordered
<1>12. \A i \in 1 .. Len(s) : s[i] \in S[r]
  BY <1>2, <1>11
<1>13. ASSUME NEW i \in 1 .. Len(s), NEW j \in 1 .. Len(s), i < j PROVE ns[s[i]].end <= ns[s[j]].start
  <2>0. Len(a) \in Nat /\ Len(b) \in Nat /\ i \in Nat /\ j \in Nat /\ s[i] \in 1 .. n /\ s[j] \in 1 .. n
    <3>1. s[i] \in 1 .. n /\ s[j] \in 1 .. n
      BY <1>2, <1>3, <1>12
    <3>2. Len(a) \in Nat /\ Len(b) \in Nat /\ Len(s) \in Nat
      BY <1>8, <1>9
    <3> QED
      BY <3>1, <3>2
  <2>1. CASE j \in 1 .. Len(a)
    <3>1. i \in 1 .. Len(a) /\ ~(i = Len(a) + 1) /\ ~(i > Len(a) + 1) /\ ~(j = Len(a) + 1) /\ ~(j > Len(a) + 1)
      BY <1>13, <2>0, <2>1
    <3>2. s[i] = a[i] /\ s[j] = a[j]
      BY <1>9, <3>1
    <3> QED
      BY <1>6, <1>13, <2>1, <3>1, <3>2 DEF Ordered
  <2>2. CASE i > Len(a) + 1
    <3>1. j > Len(a) + 1 /\ ~(i \in 1 .. Len(a)) /\ ~(j \in 1 .. Len(a)) /\ ~(j = Len(a) + 1) /\ ~(i = Len(a) + 1)
      BY <1>13, <2>0, <2>2
    <3> DEFINE u == i - (Len(a) + 1)
               v == j - (Len(a) + 1)
    <3>2. s[i] = b[u] /\ s[j] = b[v] /\ u \in 1 .. Len(b) /\ v \in 1 .. Len(b)
      BY <1>9, <3>1
    <3>3. u < v
      BY <1>13, <2>0
    <3> HIDE DEF u, v
    <3> QED
      BY <1>6, <3>2, <3>3 DEF Ordered
  <2>3. CASE i \in 1 .. Len(a) /\ j = Len(a) + 1
    <3>1. s[i] \in S[l] /\ s[j] = r
      BY <1>11, <2>0, <2>3
    <3> QED
      BY <1>2, <3>1
  <2>4. CASE i \in 1 .. Len(a) /\ j > Len(a) + 1
    <3>1. s[i] \in S[l] /\ s[j] \in S[q]
      BY <1>11, <2>0, <2>4
    <3> QED
      <4> DEFINE y == s[i]
                 z == s[j]
      <4>1. ns[y].end <= ns[r].start /\ ns[r].end <= ns[z].start
        BY <1>2, <3>1
      <4>2. y \in 1 .. n /\ z \in 1 .. n
        BY <2>0
      <4> HIDE DEF y, z
      <4>3. ns[y].end <= ns[z].start
        BY <1>4, <4>1, <4>2
      <4> QED
        BY <4>3 DEF y, z
  <2>5. CASE i = Len(a) + 1 /\ j > Len(a) + 1
    <3>1. s[i] = r /\ s[j] \in S[q]
      BY <1>11, <2>0, <2>5
    <3> QED
      BY <1>2, <3>1
  <2> QED
    BY <1>13, <2>0, <2>1, <2>2, <2>3, <2>4, <2>5
<1>14. Ordered(n, ns, S[r], s)
  BY <1>8, <1>9, <1>10, <1>12, <1>13 DEF Ordered
<1> QED
  BY <1>14 DEF s

\* A tree in the sense of these proofs is one in the sense of the model.
LEMMA TreeBalanced ==
    ASSUME NEW ix, NEW S, Tree(ix.storage.size, ix.storage.cells, S, ix.root)
    PROVE  IsBalancedTree(ix)
<1> DEFINE n == ix.storage.size
           ns == ix.storage.cells
           f == CHOOSE f : f = [r \in 0 .. n |-> OrderStep(ns, f, r)]
           B == {r \in 0 .. n : Sub(n, ns, S, r) /\ ~Ordered(n, ns, S[r], f[r])}
<1>1. n \in Nat /\ ns \in NodeLists(n) /\ Shape(n, S) /\ Keyed(n, ns) /\ ix.root \in 0 .. n
      /\ S[ix.root] = 1 .. n /\ Sub(n, ns, S, ix.root)
  BY DEF Tree, Keyed
<1>2. f = [r \in 0 .. n |-> OrderStep(ns, f, r)]
  <2>1. Ranked(n, ns)
    BY TreeRanked
  <2> HIDE DEF n, ns, f, B
  <2>2. n \in Nat /\ ns \in NodeLists(n)
    BY <1>1
  <2> DEFINE w == [kind |-> "order"]
  <2>3. PICK g : Walk(w, n, ns, g)
    <3> HIDE DEF w
    <3> QED
      BY <2>1, <2>2, WalkDefined
  <2>4. g = [r \in 0 .. n |-> OrderStep(ns, g, r)]
    <3>1. w.kind = "order"
      OBVIOUS
    <3> HIDE DEF w
    <3> QED
      BY <2>3, <3>1 DEF Walk, WalkStep
  <2> QED
    BY <2>4 DEF f
<1>3. /\ Len(f[ix.root]) = n
      /\ \A i, j \in 1 .. Len(f[ix.root]) : i < j => ns[f[ix.root][i]].end <= ns[f[ix.root][j]].start
      /\ \A r \in 1 .. n : /\ Height(ns, ns[r].left) - Height(ns, ns[r].right) \in -1 .. 1
                           /\ ns[r].height = 1 + Larger(Height(ns, ns[r].left), Height(ns, ns[r].right))
      => IsBalancedTree(ix)
  BY DEF IsBalancedTree, OrderStep
<1> HIDE DEF n, ns
<1>4. \A r \in 0 .. n : f[r] = OrderStep(ns, f, r)
  BY <1>2
<1> HIDE DEF f
<1>5. B = {}
  <2> SUFFICES ASSUME B # {} PROVE FALSE
    OBVIOUS
  <2>1. PICK r \in B : \A y \in B : Height(ns, r) <= Height(ns, y)
    <3>1. B \in SUBSET (0 .. n)
      BY <1>1
    <3> HIDE DEF B
    <3> QED
      BY <1>1, <3>1, LowestNode
  <2>2. r \in 0 .. n /\ Sub(n, ns, S, r) /\ ~Ordered(n, ns, S[r], f[r])
    OBVIOUS
  <2>3. CASE r = 0
    <3>1. f[0] = << >>
      <4>1. OrderStep(ns, f, 0) = << >>
        BY DEF OrderStep
      <4> QED
        BY <1>4, <2>2, <2>3, <4>1
    <3>2. S[0] = {} /\ Cardinality({}) = 0
      BY <1>1, FS_EmptySet DEF Shape
    <3>3. Ordered(n, ns, {}, << >>)
      BY <3>2 DEF Ordered
    <3> QED
      BY <2>2, <2>3, <3>1, <3>2, <3>3
  <2>4. CASE r # 0
    <3>1. r \in 1 .. n
      BY <1>1, <2>2, <2>4
    <3>2. NodeOK(n, ns, S, r) /\ Sub(n, ns, S, ns[r].left) /\ Sub(n, ns, S, ns[r].right)
      BY <1>1, <2>2, <3>1, SubRoot
    <3>3. /\ ns[r].left \in 0 .. n /\ ns[r].right \in 0 .. n
          /\ ~(Height(ns, r) <= Height(ns, ns[r].left)) /\ ~(Height(ns, r) <= Height(ns, ns[r].right))
      BY <1>1, <3>1, <3>2, LowerChildren
    <3>4. ns[r].left \notin B /\ ns[r].right \notin B
      <4> HIDE DEF B
      <4> QED
        BY <2>1, <3>3
    <3>5. /\ Ordered(n, ns, S[ns[r].left], f[ns[r].left])
          /\ Ordered(n, ns, S[ns[r].right], f[ns[r].right])
      BY <3>2, <3>3, <3>4
    <3>6. Ordered(n, ns, S[r], OrderStep(ns, f, r))
      BY <1>1, <2>2, <3>1, <3>5, OrderLevel
    <3> QED
      BY <1>4, <2>2, <3>6
  <2> QED
    BY <2>3, <2>4
<1>6. Ordered(n, ns, 1 .. n, f[ix.root])
  BY <1>1, <1>5
<1>7. Cardinality(1 .. n) = n
  <2>1. Cardinality(1 .. n) = IF 1 > n THEN 0 ELSE n - 1 + 1
    BY <1>1, FS_Interval
  <2> QED
    BY <1>1, <2>1
<1>8. \A r \in 1 .. n : /\ Height(ns, ns[r].left) - Height(ns, ns[r].right) \in -1 .. 1
                        /\ ns[r].height = 1 + Larger(Height(ns, ns[r].left), Height(ns, ns[r].right))
  BY <1>1 DEF Sub, NodeOK
<1>9. /\ Len(f[ix.root]) = n
      /\ \A i, j \in 1 .. Len(f[ix.root]) : i < j => ns[f[ix.root][i]].end <= ns[f[ix.root][j]].start
  BY <1>6, <1>7 DEF Ordered
<1> QED
  BY <1>3, <1>8, <1>9

-----------------------------------------------------------------------------
(* The index.                                                              *)

BufferFields == {"cells", "size", "allocated", "failed"}

\* The invariant of an index: its nodes are one tree, and none of them ends
\* behind maxEnd.
IndexOK(ix) ==
    /\ {"storage", "root", "maxEnd"} \subseteq DOMAIN ix
    /\ BufferFields \subseteq DOMAIN ix.storage
    /\ ix.storage.cells \in Seq(Nodes) /\ Len(ix.storage.cells) = ix.storage.size
    /\ ix.maxEnd \in Nat
    /\ \A x \in 1 .. ix.storage.size : ix.storage.cells[x].end <= ix.maxEnd
    /\ \E S : Tree(ix.storage.size, ix.storage.cells, S, ix.root)

\* An index without nodes.
LEMMA NoNodes ==
    ASSUME NEW ix, {"storage", "root", "maxEnd"} \subseteq DOMAIN ix, BufferFields \subseteq DOMAIN ix.storage,
           ix.storage.cells = << >>, ix.storage.size = 0, ix.root = 0, ix.maxEnd = 0
    PROVE  IndexOK(ix) /\ Ranges(ix) = {}
<1>1. << >> \in Seq(Nodes) /\ Len(<< >>) = 0
  OBVIOUS
<1> DEFINE S == [x \in 0 .. 0 |-> {}]
<1>2. << >> \in NodeLists(0)
  BY DEF NodeLists
<1>3. Keyed(0, << >>)
  BY <1>2 DEF Keyed
<1>4. Shape(0, S) /\ S[0] = 1 .. 0 /\ S[0] = {}
  BY DEF Shape
<1>5. Tree(0, << >>, S, 0)
  <2>1. 0 \in Nat /\ 0 \in 0 .. 0
    OBVIOUS
  <2> HIDE DEF S
  <2> QED
    BY <1>3, <1>4, <2>1 DEF Tree, Sub
<1>6. Ranges(ix) = {}
  BY DEF Ranges
<1>7. \E T : Tree(0, << >>, T, 0)
  BY <1>5
<1>8. \A x \in 1 .. 0 : << >>[x].end <= 0
  OBVIOUS
<1> QED
  BY <1>1, <1>6, <1>7, <1>8 DEF IndexOK

\* The index of a new context and that of a new picture.
LEMMA EmptyIndexOK ==
    IndexOK(EmptyIndex) /\ Ranges(EmptyIndex) = {}
<1>1. /\ {"storage", "root", "maxEnd"} \subseteq DOMAIN EmptyIndex
      /\ BufferFields \subseteq DOMAIN EmptyIndex.storage
      /\ EmptyIndex.storage.cells = << >> /\ EmptyIndex.storage.size = 0
      /\ EmptyIndex.root = 0 /\ EmptyIndex.maxEnd = 0
  BY DEF EmptyIndex, EmptyBuffer, BufferFields
<1> QED
  BY <1>1, NoNodes

\* nvdIntervalIndexReset leaves an index without ranges.
LEMMA ResetIndexOK ==
    ASSUME NEW ix, IndexOK(ix)
    PROVE  IndexOK(ResetIndex(ix)) /\ Ranges(ResetIndex(ix)) = {}
<1> DEFINE jx == ResetIndex(ix)
<1>1. {"storage", "root", "maxEnd"} \subseteq DOMAIN ix /\ {"cells", "size", "allocated", "failed"} \subseteq DOMAIN ix.storage
  BY DEF IndexOK, BufferFields
<1>2. /\ {"storage", "root", "maxEnd"} \subseteq DOMAIN jx
      /\ {"cells", "size", "allocated", "failed"} \subseteq DOMAIN jx.storage
      /\ jx.storage.cells = << >> /\ jx.storage.size = 0
      /\ jx.root = 0 /\ jx.maxEnd = 0
  BY <1>1 DEF ResetIndex
<1>3. BufferFields \subseteq DOMAIN jx.storage
  BY <1>2 DEF BufferFields
<1> HIDE DEF jx
<1>4. IndexOK(jx) /\ Ranges(jx) = {}
  BY <1>2, <1>3, NoNodes
<1> QED
  BY <1>4 DEF jx

\* What reserving memory does to a full buffer: nothing that its user sees.
Held(b, r) == r.cells = b.cells /\ r.size = b.size /\ DOMAIN r = DOMAIN b

\* Memory is reserved without a change of what is in the buffer.
LEMMA ReserveKeeps ==
    ASSUME NEW X, NEW b, BufferFields \subseteq DOMAIN b, b.cells \in Seq(X), Len(b.cells) = b.size,
           NEW k, NEW mem
    PROVE  Held(b, ReserveAdditional(b, k, mem))
<1>1. Contents(b) = b.cells
  BY DEF Contents
<1>2. {"cells", "size", "allocated", "failed"} \subseteq DOMAIN b
  BY DEF BufferFields
<1> DEFINE G == GrownCapacity(b.allocated, b.size + k)
           C == Contents(b)
           bf == [b EXCEPT !.failed = TRUE]
           bg == [b EXCEPT !.allocated = G, !.cells = C]
<1>3. ReserveAdditional(b, k, mem) \in {b, bf, bg}
  BY DEF ReserveAdditional, ReserveBuffer
<1> HIDE DEF G, C
<1>4. Held(b, b) /\ Held(b, bf)
  BY <1>2 DEF Held
<1>5. Held(b, bg)
  BY <1>1, <1>2 DEF Held, C
<1> QED
  BY <1>3, <1>4, <1>5

\* The cell that is written behind a full buffer.
LEMMA OverwriteEnd ==
    ASSUME NEW X, NEW s \in Seq(X), NEW x \in X
    PROVE  Overwrite(s, Len(s), <<x>>) = Append(s, x)
<1>1. Len(s) \in Nat /\ Len(<<x>>) = 1
  OBVIOUS
<1>2. SubSeq(s, 1, Len(s)) = s
  OBVIOUS
<1>3. SubSeq(s, Len(s) + 1 + 1, Len(s)) = << >>
  BY <1>1
<1>4. Overwrite(s, Len(s), <<x>>) = s \o <<x>> \o << >>
  BY <1>1, <1>2, <1>3 DEF Overwrite
<1>5. s \o <<x>> = Append(s, x) /\ s \o <<x>> \in Seq(X)
  OBVIOUS
<1> QED
  BY <1>4, <1>5

\* A new node at the end of the storage, or nothing new.
LEMMA AppendNode ==
    ASSUME NEW b, BufferFields \subseteq DOMAIN b, b.cells \in Seq(Nodes), Len(b.cells) = b.size,
           NEW node \in Nodes, NEW mem
    PROVE  /\ BufferFields \subseteq DOMAIN AppendBuffer(b, <<node>>, mem)
           /\ CanReserve(b, 1, mem) => /\ AppendBuffer(b, <<node>>, mem).cells = Append(b.cells, node)
                                       /\ AppendBuffer(b, <<node>>, mem).size = b.size + 1
           /\ ~CanReserve(b, 1, mem) => /\ AppendBuffer(b, <<node>>, mem).cells = b.cells
                                        /\ AppendBuffer(b, <<node>>, mem).size = b.size
<1> DEFINE r == ReserveAdditional(b, 1, mem)
           a == AppendBuffer(b, <<node>>, mem)
           o == Overwrite(r.cells, b.size, <<node>>)
<1>1. Len(<<node>>) = 1
  OBVIOUS
<1>2. a = IF ~CanReserve(b, 1, mem) THEN r ELSE [r EXCEPT !.cells = o, !.size = b.size + 1]
  BY <1>1 DEF AppendBuffer
<1>3. r.cells = b.cells /\ r.size = b.size /\ DOMAIN r = DOMAIN b
  BY ReserveKeeps DEF Held
<1>4. o = Append(b.cells, node)
  BY <1>3, OverwriteEnd
<1>5. {"cells", "size", "allocated", "failed"} \subseteq DOMAIN r
  BY <1>3 DEF BufferFields
<1> HIDE DEF r, a, o
<1>6. CASE CanReserve(b, 1, mem)
  <2>1. a.cells = o /\ a.size = b.size + 1 /\ DOMAIN a = DOMAIN r
    BY <1>2, <1>5, <1>6
  <2> QED
    BY <1>3, <1>4, <1>6, <2>1 DEF a
<1>7. CASE ~CanReserve(b, 1, mem)
  BY <1>2, <1>3, <1>7 DEF a
<1> QED
  BY <1>6, <1>7

\* The shape of a tree and one more node beside it.
Extended(n, S) == [x \in 0 .. n |-> IF x = n THEN {n} ELSE S[x]]

\* Two lists agree in the first m nodes.
SameFirst(m, ns, ms) == \A y \in 1 .. m : ms[y] = ns[y]

\* A node of the tree is one of the longer list.
LEMMA NodeOKExtended ==
    ASSUME NEW m \in Nat, NEW ns, NEW ms, NEW S, Shape(m, S), NEW n, n = m + 1, NEW S1, S1 = Extended(n, S),
           SameFirst(m, ns, ms),
           NEW x \in 1 .. m, NodeOK(m, ns, S, x)
    PROVE  NodeOK(n, ms, S1, x)
<1> DEFINE l == ns[x].left
           q == ns[x].right
<1>1. /\ l \in 0 .. m /\ q \in 0 .. m /\ S[x] = S[l] \cup {x} \cup S[q]
      /\ (\A y \in S[x] : S[y] \subseteq S[x])
      /\ Before(ns, S[l], x) /\ After(ns, x, S[q])
      /\ Height(ns, l) - Height(ns, q) \in -1 .. 1
      /\ ns[x].height = 1 + Larger(Height(ns, l), Height(ns, q))
  BY DEF NodeOK, Children
<1>2. ms[x] = ns[x] /\ ms[x].left = l /\ ms[x].right = q
  BY DEF SameFirst
<1> HIDE DEF l, q
<1>3. \A y \in 0 .. m : S1[y] = S[y] /\ y \in 0 .. n
  BY DEF Extended
<1>4. \A y \in 0 .. m : S[y] \subseteq 1 .. m
  BY DEF Shape
<1>5. Height(ms, l) = Height(ns, l) /\ Height(ms, q) = Height(ns, q)
  BY <1>1 DEF Height, SameFirst
<1>6. S1[x] = S[x] /\ S1[l] = S[l] /\ S1[q] = S[q] /\ S[l] \subseteq 1 .. m /\ S[q] \subseteq 1 .. m /\ S[x] \subseteq 1 .. m
  BY <1>1, <1>3, <1>4
<1>7. Before(ms, S1[l], x) /\ After(ms, x, S1[q])
  BY <1>1, <1>6 DEF Before, After, SameFirst
<1>8. \A y \in S1[x] : S1[y] \subseteq S1[x]
  <2> SUFFICES ASSUME NEW y \in S[x] PROVE S1[y] \subseteq S[x]
    BY <1>6
  <2>1. y \in 0 .. m
    BY <1>6
  <2> QED
    BY <1>1, <1>3, <2>1
<1>9. l \in 0 .. n /\ q \in 0 .. n
  BY <1>1, <1>3
<1> QED
  BY <1>1, <1>2, <1>5, <1>6, <1>7, <1>8, <1>9 DEF NodeOK, Children

\* The node of a new range.
NewNode(start, end) == [start |-> start, end |-> end, left |-> 0, right |-> 0, height |-> 1]

\* The list ns is cs and a node for the range; the latter is ready to be added.
Ready(m, cs, ns, S1, top, start, end) ==
    /\ Pending(m + 1, ns, S1) /\ S1[top] = 1 .. m /\ Sub(m + 1, ns, S1, top) /\ top \in 0 .. m
    /\ SameFirst(m, cs, ns)
    /\ ns[m + 1].start = start /\ ns[m + 1].end = end

\* A sequence of nodes is a list of nodes.
LEMMA ListOfNodes ==
    ASSUME NEW ns \in Seq(Nodes), NEW n, Len(ns) = n
    PROVE  ns \in NodeLists(n)
BY DEF NodeLists

\* The new node is ready to be added.
LEMMA NewNodePending ==
    ASSUME NEW m, NEW cs, NEW S, NEW top, Tree(m, cs, S, top), cs \in Seq(Nodes), Len(cs) = m,
           NEW start \in Nat, NEW end \in Nat, start < end, Clear(cs, 1 .. m, start, end),
           NEW ns, ns = Append(cs, NewNode(start, end)),
           NEW n, n = m + 1, NEW S1, S1 = Extended(n, S)
    PROVE  Ready(m, cs, ns, S1, top, start, end)
<1> DEFINE node == NewNode(start, end)
<1>1. node \in Nodes /\ node.start = start /\ node.end = end /\ node.left = 0 /\ node.right = 0 /\ node.height = 1
  BY DEF Nodes, NewNode
<1>2. ns = Append(cs, node)
  OBVIOUS
<1> HIDE DEF node
<1>3. m \in Nat /\ Keyed(m, cs) /\ Shape(m, S) /\ top \in 0 .. m /\ S[top] = 1 .. m /\ Sub(m, cs, S, top)
  BY DEF Tree
<1>4. n \in Nat \ {0} /\ n \in 1 .. n /\ n - 1 = m /\ n \notin 0 .. m /\ n = m + 1
  BY <1>3
<1>5. /\ ns \in Seq(Nodes) /\ Len(ns) = n /\ ns[n] = node
      /\ \A y \in 1 .. m : ns[y] = cs[y]
      /\ SameFirst(m, cs, ns)
  <2>1. ns \in Seq(Nodes) /\ Len(ns) = Len(cs) + 1 /\ ns[Len(cs) + 1] = node
    BY <1>1, <1>2
  <2>2. \A y \in 1 .. Len(cs) : ns[y] = cs[y]
    BY <1>1, <1>2
  <2> QED
    BY <1>4, <2>1, <2>2 DEF SameFirst
<1>6. ns \in NodeLists(n)
  <2>1. ns \in Seq(Nodes) /\ Len(ns) = n
    BY <1>5
  <2> QED
    BY <2>1, ListOfNodes
<1>7. ns[n].start = start /\ ns[n].end = end /\ ns[n].left = 0 /\ ns[n].right = 0 /\ ns[n].height = 1
  BY <1>1, <1>5
<1>8. \A x \in 1 .. n : x \in 1 .. m \/ x = n
  BY <1>3, <1>4
<1>9. Keyed(n, ns)
  <2>1. \A x \in 1 .. m : cs[x].start < cs[x].end
    BY <1>3 DEF Keyed
  <2> QED
    BY <1>5, <1>6, <1>7, <1>8, <2>1 DEF Keyed
<1>10. /\ S1[n] = {n}
       /\ \A x \in 0 .. m : S1[x] = S[x] /\ S[x] \in SUBSET (1 .. m)
  BY <1>3, <1>4 DEF Extended, Shape
<1>11. Shape(n, S1)
  <2>1. S1 \in [0 .. n -> SUBSET (1 .. n)]
    <3>1. \A x \in 0 .. n : (IF x = n THEN {n} ELSE S[x]) \in SUBSET (1 .. n)
      <4> SUFFICES ASSUME NEW x \in 0 .. n PROVE (IF x = n THEN {n} ELSE S[x]) \in SUBSET (1 .. n)
        OBVIOUS
      <4>1. CASE x = n
        BY <1>4, <4>1
      <4>2. CASE x # n
        <5>1. x \in 0 .. m /\ 1 .. m \subseteq 1 .. n
          BY <1>3, <1>4, <4>2
        <5> QED
          BY <1>10, <4>2, <5>1
      <4> QED
        BY <4>1, <4>2
    <3> QED
      BY <3>1 DEF Extended
  <2>2. S1[0] = {}
    BY <1>3, <1>10 DEF Shape
  <2>3. \A x \in 1 .. n : x \in S1[x]
    <3>1. \A x \in 1 .. m : x \in S[x]
      BY <1>3 DEF Shape
    <3> QED
      BY <1>8, <1>10, <3>1
  <2> QED
    BY <2>1, <2>2, <2>3 DEF Shape
<1>12. Pending(n, ns, S1)
  <2>1. ASSUME NEW x \in 1 .. n - 1
        PROVE  S1[x] \subseteq 1 .. n - 1 /\ (ns[x].end <= ns[n].start \/ ns[n].end <= ns[x].start)
    <3>1. x \in 1 .. m /\ x \in 0 .. m
      BY <1>4
    <3>2. S1[x] \subseteq 1 .. m /\ ns[x] = cs[x]
      BY <1>5, <1>10, <3>1
    <3>3. end <= cs[x].start \/ cs[x].end <= start
      BY <3>1 DEF Clear
    <3> QED
      BY <1>4, <1>7, <3>2, <3>3
  <2> QED
    BY <1>4, <1>5, <1>7, <1>9, <1>10, <1>11, <2>1 DEF Pending
<1>13. S1[top] = 1 .. n - 1 /\ top \in 0 .. n - 1
  BY <1>3, <1>4, <1>10
<1>14. Sub(n, ns, S1, top)
  <2> SUFFICES ASSUME NEW x \in S1[top] PROVE NodeOK(n, ns, S1, x)
    BY DEF Sub
  <2>1. x \in 1 .. m /\ NodeOK(m, cs, S, x)
    BY <1>3, <1>10 DEF Sub
  <2> QED
    BY <1>3, <1>4, <1>5, <2>1, NodeOKExtended
<1> QED
  BY <1>4, <1>5, <1>7, <1>12, <1>13, <1>14 DEF Ready

\* The ranges of the nodes of a list.
RangesOf(n, ns) == {<<ns[x].start, ns[x].end>> : x \in 1 .. n}

\* The ranges of an index are those of its nodes.
LEMMA RangesAre ==
    ASSUME NEW ix PROVE Ranges(ix) = RangesOf(ix.storage.size, ix.storage.cells)
BY DEF Ranges, RangesOf

\* t is a tree of the nodes cs and one for the range.
Added(m, cs, t, start, end) ==
    /\ \E S2 : Tree(m + 1, t.nodes, S2, t.root)
    /\ t.nodes \in Seq(Nodes) /\ Len(t.nodes) = m + 1
    /\ RangesOf(m + 1, t.nodes) = RangesOf(m, cs) \cup {<<start, end>>}
    /\ \A x \in 1 .. m + 1 : t.nodes[x].end = end \/ \E y \in 1 .. m : t.nodes[x].end = cs[y].end

\* The tree after insert holds the old ranges and the new one.
LEMMA InsertedTree ==
    ASSUME NEW m, NEW cs, NEW S, NEW top, Tree(m, cs, S, top), cs \in Seq(Nodes), Len(cs) = m,
           NEW start \in Nat, NEW end \in Nat, start < end, Clear(cs, 1 .. m, start, end),
           NEW ns, ns = Append(cs, NewNode(start, end)),
           NEW t, t = Insert(ns, top)
    PROVE  Added(m, cs, t, start, end)
<1> DEFINE n == m + 1
           S1 == Extended(n, S)
<1>1. m \in Nat /\ n = m + 1 /\ S1 = Extended(n, S) /\ n \in Nat
  BY DEF Tree
<1>2. \A x \in 1 .. n : x \in 1 .. m \/ x = n
  BY <1>1
<1>3. n - 1 = m /\ n \in 1 .. n /\ 1 .. m \subseteq 1 .. n /\ (1 .. m) \cup {n} = 1 .. n
  BY <1>1
<1> HIDE DEF n, S1
<1>4. /\ Pending(n, ns, S1) /\ S1[top] = 1 .. n - 1 /\ Sub(n, ns, S1, top) /\ top \in 0 .. n - 1
      /\ \A y \in 1 .. m : ns[y] = cs[y]
      /\ ns[n].start = start /\ ns[n].end = end
  <2>1. Ready(m, cs, ns, S1, top, start, end)
    BY <1>1, NewNodePending
  <2> QED
    BY <1>1, <1>3, <2>1 DEF Ready, SameFirst
<1>5. Inserted(n, ns, S1, top, t)
  BY <1>4, InsertTree
<1>6. PICK S2 : Grown(n, ns, S1, S2, top, t)
  BY <1>5 DEF Inserted
<1>7. /\ Shape(n, S2) /\ t.root \in 1 .. n /\ S2[t.root] = S1[top] \cup {n}
      /\ Touches(n, ns, t.nodes, S1[top] \cup {n}) /\ Keyed(n, t.nodes) /\ Sub(n, t.nodes, S2, t.root)
  BY <1>6 DEF Grown
<1>8. S2[t.root] = 1 .. n /\ t.root \in 0 .. n
  BY <1>1, <1>3, <1>4, <1>7
<1>9. Tree(n, t.nodes, S2, t.root)
  BY <1>1, <1>7, <1>8 DEF Tree
<1>10. t.nodes \in NodeLists(n) /\ \A x \in 1 .. n : t.nodes[x].start = ns[x].start /\ t.nodes[x].end = ns[x].end
  BY <1>7 DEF Touches
<1>11. t.nodes \in Seq(Nodes) /\ Len(t.nodes) = n
  BY <1>1, <1>10 DEF NodeLists
<1>12. RangesOf(n, t.nodes) = RangesOf(m, cs) \cup {<<start, end>>}
  <2>1. \A x \in 1 .. m : x \in 1 .. n /\ t.nodes[x].start = cs[x].start /\ t.nodes[x].end = cs[x].end
    BY <1>3, <1>4, <1>10
  <2>2. n \in 1 .. n /\ t.nodes[n].start = start /\ t.nodes[n].end = end
    BY <1>3, <1>4, <1>10
  <2>3. ASSUME NEW z \in RangesOf(n, t.nodes) PROVE z \in RangesOf(m, cs) \cup {<<start, end>>}
    <3>1. PICK x \in 1 .. n : z = <<t.nodes[x].start, t.nodes[x].end>>
      BY DEF RangesOf
    <3> QED
      BY <1>2, <2>1, <2>2, <3>1 DEF RangesOf
  <2>4. ASSUME NEW z \in RangesOf(m, cs) \cup {<<start, end>>} PROVE z \in RangesOf(n, t.nodes)
    <3>1. CASE z = <<start, end>>
      BY <2>2, <3>1 DEF RangesOf
    <3>2. CASE z \in RangesOf(m, cs)
      <4>1. PICK x \in 1 .. m : z = <<cs[x].start, cs[x].end>>
        BY <3>2 DEF RangesOf
      <4>2. x \in 1 .. n /\ z = <<t.nodes[x].start, t.nodes[x].end>>
        BY <2>1, <4>1
      <4> QED
        BY <4>2 DEF RangesOf
    <3> QED
      BY <3>1, <3>2
  <2> QED
    BY <2>3, <2>4
<1>13. \A x \in 1 .. n : t.nodes[x].end = end \/ \E y \in 1 .. m : t.nodes[x].end = cs[y].end
  BY <1>2, <1>4, <1>10
<1>14. \E T : Tree(n, t.nodes, T, t.root)
  BY <1>9
<1> QED
  BY <1>11, <1>12, <1>13, <1>14 DEF n, Added

\* The ranges of an index, and those it holds none of.
LEMMA IndexFacts ==
    ASSUME NEW ix, IndexOK(ix)
    PROVE  /\ IsBalancedTree(ix) /\ IsFiniteSet(Ranges(ix))
           /\ Ranges(ix) = RangesOf(ix.storage.size, ix.storage.cells)
<1>1. PICK S : Tree(ix.storage.size, ix.storage.cells, S, ix.root)
  BY DEF IndexOK
<1>2. IsBalancedTree(ix)
  BY <1>1, TreeBalanced
<1>3. Ranges(ix) = RangesOf(ix.storage.size, ix.storage.cells)
  BY RangesAre
<1> DEFINE n == ix.storage.size
           ns == ix.storage.cells
           f == [x \in 1 .. n |-> <<ns[x].start, ns[x].end>>]
           D == 1 .. n
<1>4. n \in Nat
  BY <1>1 DEF Tree
<1>5. IsFiniteSet(D)
  BY <1>4, FS_Interval
<1>6. RangesOf(n, ns) = {f[x] : x \in D}
  BY DEF RangesOf
<1>7. f \in Surjection(D, {f[x] : x \in D})
  BY DEF Surjection
<1> HIDE DEF D, f
<1>8. IsFiniteSet({f[x] : x \in D})
  BY <1>5, <1>7, FS_Surjection
<1> QED
  BY <1>2, <1>3, <1>6, <1>8

\* A range that overlaps no node is not the range of one.
LEMMA ClearIsNew ==
    ASSUME NEW n \in Nat, NEW ns, Keyed(n, ns), NEW start \in Nat, NEW end \in Nat, start < end,
           Clear(ns, 1 .. n, start, end)
    PROVE  <<start, end>> \notin RangesOf(n, ns)
<1> SUFFICES ASSUME NEW x \in 1 .. n, <<start, end>> = <<ns[x].start, ns[x].end>> PROVE FALSE
  BY DEF RangesOf
<1>1. start = ns[x].start /\ end = ns[x].end
  OBVIOUS
<1>2. end <= ns[x].start \/ ns[x].end <= start
  BY DEF Clear
<1> QED
  BY <1>1, <1>2

\* What an insertion leaves.
WithRange(ix, jx, start, end, mem) ==
    /\ IndexOK(jx)
    /\ <<start, end>> \notin Ranges(ix)
    /\ Ranges(jx) = IF CanReserve(ix.storage, 1, mem) THEN Ranges(ix) \cup {<<start, end>>} ELSE Ranges(ix)

\* nvdIntervalIndexInsert of a range that overlaps none: without memory for
\* a node the tree is as it was, otherwise it has the range too.
THEOREM IndexInserted ==
    ASSUME NEW ix, IndexOK(ix), NEW start \in Nat, NEW end \in Nat, Insertable(ix, start, end), NEW mem,
           NEW jx, jx = IndexInsert(ix, start, end, mem)
    PROVE  WithRange(ix, jx, start, end, mem)
<1> DEFINE b == ix.storage
           cs == b.cells
           m == b.size
           node == NewNode(start, end)
           a == AppendBuffer(b, <<node>>, mem)
           t == Insert(a.cells, ix.root)
           me == Larger(ix.maxEnd, end)
<1>1. start < end /\ IsFree(ix, start, end)
  BY DEF Insertable
<1>2. PICK S : Tree(m, cs, S, ix.root)
  BY DEF IndexOK
<1>3. /\ {"storage", "root", "maxEnd"} \subseteq DOMAIN ix /\ BufferFields \subseteq DOMAIN b
      /\ cs \in Seq(Nodes) /\ Len(cs) = m /\ ix.maxEnd \in Nat
      /\ \A x \in 1 .. m : cs[x].end <= ix.maxEnd
  BY DEF IndexOK
<1>4. m \in Nat /\ Keyed(m, cs)
  BY <1>2 DEF Tree
<1>5. Clear(cs, 1 .. m, start, end)
  BY <1>1, <1>2, <1>3, FreeExact
<1>6. Ranges(ix) = RangesOf(m, cs)
  BY RangesAre
<1>7. <<start, end>> \notin Ranges(ix)
  BY <1>1, <1>4, <1>5, <1>6, ClearIsNew
<1>8. node \in Nodes
  BY DEF NewNode, Nodes
<1>9. jx = IF ~CanReserve(b, 1, mem) THEN [ix EXCEPT !.storage = a]
           ELSE [storage |-> [a EXCEPT !.cells = t.nodes], root |-> t.root, maxEnd |-> me]
  BY DEF IndexInsert, NewNode
<1>10. b = ix.storage /\ cs = b.cells /\ m = b.size /\ t = Insert(a.cells, ix.root)
  OBVIOUS
<1>11. me \in Nat /\ end <= me /\ ix.maxEnd <= me
  BY <1>3 DEF Larger
<1> HIDE DEF cs, m, node, t, me
<1>12. /\ BufferFields \subseteq DOMAIN a
       /\ CanReserve(b, 1, mem) => a.cells = Append(cs, node) /\ a.size = m + 1
       /\ ~CanReserve(b, 1, mem) => a.cells = cs /\ a.size = m
  BY <1>3, <1>8, <1>10, AppendNode
<1> HIDE DEF a, b
<1>13. CASE ~CanReserve(b, 1, mem)
  <2>1. jx = [ix EXCEPT !.storage = a]
    BY <1>9, <1>13
  <2>2. jx.storage = a /\ jx.root = ix.root /\ jx.maxEnd = ix.maxEnd /\ DOMAIN jx = DOMAIN ix
    BY <1>3, <2>1
  <2>3. jx.storage.cells = cs /\ jx.storage.size = m
    BY <1>12, <1>13, <2>2
  <2>4. IndexOK(jx)
    BY <1>2, <1>3, <1>12, <2>2, <2>3 DEF IndexOK
  <2>5. Ranges(jx) = Ranges(ix)
    <3>1. Ranges(jx) = RangesOf(jx.storage.size, jx.storage.cells)
      BY RangesAre
    <3> QED
      BY <1>6, <2>3, <3>1
  <2> QED
    BY <1>7, <1>10, <1>13, <2>4, <2>5 DEF WithRange
<1>14. CASE CanReserve(b, 1, mem)
  <2>1. a.cells = Append(cs, node) /\ a.size = m + 1
    BY <1>12, <1>14
  <2> DEFINE ns == Append(cs, node)
             top == ix.root
             n == m + 1
  <2>2. ns = Append(cs, NewNode(start, end)) /\ t = Insert(ns, top) /\ Tree(m, cs, S, top)
    BY <1>2, <1>10, <2>1 DEF node
  <2>3. n = m + 1
    OBVIOUS
  <2> HIDE DEF ns, top, n
  <2>4. /\ \E S2 : Tree(n, t.nodes, S2, t.root)
        /\ t.nodes \in Seq(Nodes) /\ Len(t.nodes) = n
        /\ RangesOf(n, t.nodes) = RangesOf(m, cs) \cup {<<start, end>>}
        /\ \A x \in 1 .. n : t.nodes[x].end = end \/ \E y \in 1 .. m : t.nodes[x].end = cs[y].end
    <3>1. Added(m, cs, t, start, end)
      BY <1>1, <1>3, <1>5, <2>2, InsertedTree
    <3> QED
      BY <2>3, <3>1 DEF Added
  <2>5. jx = [storage |-> [a EXCEPT !.cells = t.nodes], root |-> t.root, maxEnd |-> me]
    BY <1>9, <1>14
  <2>6. {"cells", "size", "allocated", "failed"} \subseteq DOMAIN a
    BY <1>12 DEF BufferFields
  <2>7. /\ jx.storage.cells = t.nodes /\ jx.storage.size = n /\ jx.root = t.root /\ jx.maxEnd = me
        /\ DOMAIN jx.storage = DOMAIN a /\ {"storage", "root", "maxEnd"} \subseteq DOMAIN jx
    BY <2>1, <2>3, <2>5, <2>6
  <2>8. \A x \in 1 .. n : t.nodes[x].end <= me
    <3> SUFFICES ASSUME NEW x \in 1 .. n PROVE t.nodes[x].end <= me
      OBVIOUS
    <3>1. CASE t.nodes[x].end = end
      BY <1>11, <3>1
    <3>2. CASE \E y \in 1 .. m : t.nodes[x].end = cs[y].end
      <4>1. PICK y \in 1 .. m : t.nodes[x].end = cs[y].end
        BY <3>2
      <4>2. cs[y].end \in Nat /\ cs[y].end <= ix.maxEnd
        BY <1>3, <1>4 DEF Keyed, NodeLists, Nodes
      <4> QED
        BY <1>3, <1>11, <4>1, <4>2
    <3> QED
      BY <2>4, <3>1, <3>2
  <2>9. IndexOK(jx)
    BY <1>11, <1>12, <2>4, <2>7, <2>8 DEF IndexOK
  <2>10. Ranges(jx) = Ranges(ix) \cup {<<start, end>>}
    <3>1. Ranges(jx) = RangesOf(jx.storage.size, jx.storage.cells)
      BY RangesAre
    <3> QED
      BY <1>6, <2>4, <2>7, <3>1
  <2> QED
    BY <1>7, <1>10, <1>14, <2>9, <2>10 DEF WithRange
<1> QED
  BY <1>13, <1>14

-----------------------------------------------------------------------------
(* The invariant of the AV1 handler.                                       *)

ContextFields == {"bitstream", "offsets", "params", "sliceCount", "invalid", "dataOffset", "picture",
                  "intra", "matrix", "numSlices", "dataLen", "jpegPicture", "quant", "huffman",
                  "codecData", "av1", "underuse"}
TileFields == {"seen", "intervals", "min", "maxEnd", "compacted"}
ClientFields == {"order", "picture", "matrix", "groups", "pending", "sent", "quant", "huffman",
                 "unusable", "lost", "layout"}
TileParams == [offset : Nat, size : Nat, row : Nat, col : Nat]

\* The context and its buffers have their fields.
Records(c) ==
    /\ ContextFields \subseteq DOMAIN c
    /\ BufferFields \subseteq DOMAIN c.bitstream
    /\ BufferFields \subseteq DOMAIN c.offsets
    /\ BufferFields \subseteq DOMAIN c.params
    /\ TileFields \subseteq DOMAIN c.av1

\* The index has a range for each tile seen.
Counted(c) ==
    /\ c.av1.compacted \in BOOLEAN
    /\ IndexOK(c.av1.intervals) /\ IsFiniteSet(c.av1.seen)
    /\ Cardinality(Ranges(c.av1.intervals)) = Cardinality(c.av1.seen)

\* The start and end of the tiles ts.
Pairs(cells, ts) == {<<cells[2 * t + 1], cells[2 * t + 2]>> : t \in ts}
Paired(c) ==
    ~c.av1.compacted /\ c.offsets.size # 0 =>
        Ranges(c.av1.intervals) = Pairs(c.offsets.cells, c.av1.seen)

\* Nothing of a picture is in the context.
Blank(c) ==
    /\ c.offsets.cells = << >> /\ c.offsets.size = 0 /\ c.bitstream.size = 0
    /\ c.params.cells = << >> /\ c.sliceCount = 0

\* A picture is being built.  Until its data is compacted the offsets are
\* those of the tiles seen; then all tiles have been.
Working(c) ==
    /\ c.picture.cols \in Nat /\ c.numSlices \in Nat
    /\ c.av1.seen \subseteq 0 .. c.numSlices - 1
    /\ c.params.cells \in Seq(TileParams) /\ c.sliceCount \in 0 .. Len(c.params.cells)
    /\ IF c.av1.compacted THEN c.av1.seen = 0 .. c.numSlices - 1 /\ c.numSlices # 0
       ELSE /\ c.bitstream.size \in Nat
            /\ c.offsets.cells \in Seq(Nat) /\ c.offsets.size \in 0 .. Len(c.offsets.cells)
            /\ c.av1.seen # {} => c.offsets.size = 2 * c.numSlices

TilesInv(c) == Records(c) /\ Counted(c) /\ Paired(c)

\* What the client has sent are groups of AV1.
ClientInv(k) ==
    /\ ClientFields \subseteq DOMAIN k
    /\ k.groups \in Seq(Groups["AV1"]) /\ k.sent \in Nat
    /\ k.pending = NONE \/ k.pending \in Groups["AV1"]

StageInv ==
    /\ pictureState = "idle" => Blank(ctx)
    /\ pictureState = "building" /\ ~IsSet(client.picture) => Blank(ctx) /\ client.groups = << >> /\ client.pending = NONE
    /\ pictureState = "building" /\ IsSet(client.picture) => Working(ctx)

CodecInv ==
    /\ codec \in CodecNames
    /\ codec # "AV1" => ContextFields \subseteq DOMAIN ctx /\ ctx.av1 = NoTiles
    /\ codec = "AV1" => TilesInv(ctx) /\ ClientInv(client) /\ StageInv

-----------------------------------------------------------------------------
(* The handlers of the other codecs do not touch the tiles.                *)

Whole(c) == ContextFields \subseteq DOMAIN c
Same(c, d) == DOMAIN d = DOMAIN c /\ d.av1 = c.av1

\* Steps add up.
LEMMA SameTrans ==
    ASSUME NEW a, NEW b, NEW c, Whole(a), Same(a, b), Same(b, c)
    PROVE  Same(a, c) /\ Whole(b) /\ Whole(c)
BY DEF Same, Whole

\* What a refusal, a commit and a count change.
LEMMA SmallSteps ==
    ASSUME NEW c, Whole(c), NEW n
    PROVE  Same(c, c) /\ Same(c, Invalid(c)) /\ Same(c, Commit(c)) /\ Same(c, RememberSlices(c)) /\ Same(c, AddSlices(c, n))
<1>1. "av1" \in DOMAIN c /\ "invalid" # "av1" /\ "dataLen" # "av1" /\ "sliceCount" # "av1" /\ "numSlices" # "av1"
  BY DEF Whole, ContextFields
<1>2. Same(c, c) /\ Same(c, Invalid(c))
  BY <1>1 DEF Same, Invalid
<1>3. Same(c, Commit(c))
  BY <1>1 DEF Same, Commit
<1>4. Same(c, RememberSlices(c))
  BY <1>1 DEF Same, RememberSlices
<1>5. Same(c, AddSlices(c, n))
  <2> DEFINE k == c.numSlices + n
             d == [c EXCEPT !.numSlices = k]
  <2>1. AddSlices(c, n) \in {Invalid(c), d}
    BY DEF AddSlices
  <2> HIDE DEF k
  <2>2. Same(c, d)
    BY <1>1 DEF Same
  <2> QED
    BY <1>2, <2>1, <2>2
<1> QED
  BY <1>2, <1>3, <1>4, <1>5

\* The buffers and the verdict of a picture.
LEMMA BufferStep ==
    ASSUME NEW c, Whole(c), NEW o, NEW b, NEW i
    PROVE  /\ Same(c, [c EXCEPT !.offsets = o]) /\ Same(c, [c EXCEPT !.offsets = o, !.bitstream = b])
           /\ Same(c, [c EXCEPT !.offsets = o, !.bitstream = b, !.invalid = i])
           /\ Same(c, [c EXCEPT !.bitstream = b])
<1>1. "av1" \in DOMAIN c
  BY DEF Whole, ContextFields
<1> QED
  BY <1>1 DEF Same

\* Slices of H.264, HEVC, MPEG-2, MPEG-4, VC-1 and VP9.
LEMMA SameCopySlices ==
    ASSUME NEW c, Whole(c), NEW data, NEW header, NEW mem
    PROVE  Same(c, CopySlices(c, data, header, mem))
<1> DEFINE slices == Slices(c)
           o == ReserveAdditional(c.offsets, Len(slices), mem)
           bytes == SumSizes(slices, Len(header))
           b == ReserveAdditional(c.bitstream, bytes, mem)
           Put(a, s) == PutSlice(a, header, Part(data, s), mem)
           all == FoldLeft(Put, c, slices)
           x == all.offsets
           y == all.bitstream
           e == [c EXCEPT !.offsets = x, !.bitstream = y]
<1>1. CopySlices(c, data, header, mem) \in
         {Invalid(c), [c EXCEPT !.offsets = o], [c EXCEPT !.offsets = o, !.bitstream = b], Commit(e)}
  BY DEF CopySlices
<1> HIDE DEF o, b, x, y
<1>2. Same(c, e) /\ Same(c, [c EXCEPT !.offsets = o]) /\ Same(c, [c EXCEPT !.offsets = o, !.bitstream = b])
  BY BufferStep
<1>3. Same(c, Invalid(c))
  BY SmallSteps
<1> HIDE DEF e
<1>4. Same(c, Commit(e))
  <2>1. Whole(e)
    BY <1>2 DEF Whole, Same
  <2>2. Same(e, Commit(e))
    BY <2>1, SmallSteps
  <2> QED
    BY <1>2, <2>2, SameTrans
<1> QED
  BY <1>1, <1>2, <1>3, <1>4

\* Counting the slices of a parameter buffer.
LEMMA SameCount ==
    ASSUME NEW c, Whole(c)
    PROVE  Same(c, CountSlices(c))
<1> DEFINE d == RememberSlices(c)
           n == c.params.size
<1>1. CountSlices(c) = AddSlices(d, n)
  BY DEF CountSlices
<1>2. Same(c, d)
  BY SmallSteps
<1> HIDE DEF d, n
<1>3. Whole(d)
  BY <1>2 DEF Whole, Same
<1>4. Same(d, AddSlices(d, n))
  BY <1>3, SmallSteps
<1> QED
  BY <1>1, <1>2, <1>4, SameTrans

\* Slice parameters.
LEMMA SameSliceParam ==
    ASSUME codec \in CodecNames, codec # "AV1", NEW c, Whole(c), NEW mem
    PROVE  Same(c, SliceParam(c, mem))
<1> DEFINE i == c.intra /\ c.params.cells[1].intra
           d == [c EXCEPT !.intra = i]
<1>1. Same(c, CountSlices(c)) /\ Same(c, RememberSlices(c))
  BY SameCount, SmallSteps
<1>2. CopyH264SliceParam(c) = CountSlices(d)
  BY DEF CopyH264SliceParam
<1>3. Same(c, d)
  <2> HIDE DEF i
  <2> QED
    BY DEF Same, Whole, ContextFields
<1> HIDE DEF d
<1>4. Same(c, CountSlices(d))
  <2>1. Whole(d)
    BY <1>3 DEF Whole, Same
  <2>2. Same(d, CountSlices(d))
    BY <2>1, SameCount
  <2> QED
    BY <1>3, <2>2, SameTrans
<1>5. codec \in {"H264", "HEVC", "MPEG2", "MPEG4", "VC1", "VP8", "VP9", "JPEG"}
  BY CodecAssumption
<1>6. SliceParam(c, mem) \in {CountSlices(c), RememberSlices(c), CountSlices(d)}
  BY <1>2, <1>5, Zenon DEF SliceParam, CopyHEVCSliceParam, CopyMPEG2SliceParam, CopyMPEG4SliceParam, CopyVC1SliceParam,
     CopyVP8SliceParam, CopyVP9SliceParam, CopyJPEGSliceParam
<1> QED
  BY <1>1, <1>4, <1>6

\* Slice data of all but JPEG.
LEMMA SameVP8 ==
    ASSUME NEW c, Whole(c), NEW data, NEW mem
    PROVE  Same(c, CopyVP8SliceData(c, data, mem))
<1> DEFINE header == FrameHeader(c.picture)
           Put(a, s) ==
               IF a.invalid THEN a
               ELSE IF \/ ~InRange(s, Len(data))
                       \/ header = << >>
                       \/ ~CanAppend(a, Len(header) + s.size) THEN Invalid(a)
               ELSE PutSlice(a, header, Part(data, s), mem)
           all == FoldLeft(Put, c, Slices(c))
           x == all.offsets
           y == all.bitstream
           i == all.invalid
           e == [c EXCEPT !.offsets = x, !.bitstream = y, !.invalid = i]
<1>1. CopyVP8SliceData(c, data, mem) \in {e, Commit(e)}
  BY DEF CopyVP8SliceData
<1> HIDE DEF x, y, i
<1>2. Same(c, e)
  BY BufferStep
<1> HIDE DEF e
<1>3. Same(c, Commit(e))
  <2>1. Whole(e)
    BY <1>2 DEF Whole, Same
  <2>2. Same(e, Commit(e))
    BY <2>1, SmallSteps
  <2> QED
    BY <1>2, <2>2, SameTrans
<1> QED
  BY <1>1, <1>2, <1>3

\* The slice data of VP9, with the parser of its frame header.
LEMMA SameVP9 ==
    ASSUME NEW c, Whole(c), NEW data, NEW parses, NEW mem
    PROVE  Same(c, CopyVP9SliceData(c, data, parses, mem))
<1> DEFINE r == CopySlices(c, data, << >>, mem)
           p == Invalid(r)
           e1 == [p EXCEPT !.bitstream.failed = TRUE]
           e2 == [r EXCEPT !.codecData = TRUE, !.invalid = @ \/ ~parses]
<1>1. CopyVP9SliceData(c, data, parses, mem) \in {r, e1, e2}
  BY DEF CopyVP9SliceData, ParseExtraInfo
<1>2. Same(c, r)
  BY SameCopySlices
<1> HIDE DEF r
<1>3. Whole(r)
  BY <1>2 DEF Whole, Same
<1>4. Same(r, e1)
  <2>1. Same(r, p) /\ Whole(p)
    <3>1. Same(r, p)
      BY <1>3, SmallSteps
    <3> QED
      BY <1>3, <3>1 DEF Whole, Same
  <2> HIDE DEF p
  <2> DEFINE b == [p.bitstream EXCEPT !.failed = TRUE]
  <2>2. e1 = [p EXCEPT !.bitstream = b]
    OBVIOUS
  <2> HIDE DEF b
  <2>3. Same(p, [p EXCEPT !.bitstream = b])
    BY <2>1, BufferStep
  <2> QED
    BY <1>3, <2>1, <2>2, <2>3, SameTrans
<1>5. Same(r, e2)
  BY <1>3 DEF Same, Whole, ContextFields
<1> HIDE DEF e1, e2
<1> QED
  BY <1>1, <1>2, <1>4, <1>5, SameTrans

\* The slice data of whichever of these codecs.
LEMMA SameSliceData ==
    ASSUME codec \in CodecNames, codec \notin {"JPEG", "AV1"}, NEW c, Whole(c), NEW g, NEW data, NEW mem
    PROVE  Same(c, SliceData(c, g, data, mem))
<1>1. codec \in {"H264", "HEVC", "MPEG2", "MPEG4", "VC1", "VP8", "VP9"}
  BY CodecAssumption
<1>2. SliceData(c, g, data, mem) \in
         {CopySlices(c, data, StartCode, mem), CopySlices(c, data, << >>, mem), CopyVP8SliceData(c, data, mem),
          CopyVP9SliceData(c, data, g.parses, mem)}
  BY <1>1, Zenon DEF SliceData, CopyH264SliceData, CopyHEVCSliceData, CopyMPEG2SliceData, CopyMPEG4SliceData, CopyVC1SliceData
<1> DEFINE sc == StartCode
           z == << >>
           gp == g.parses
<1>3. Same(c, CopySlices(c, data, sc, mem)) /\ Same(c, CopySlices(c, data, z, mem))
  <2> HIDE DEF sc, z
  <2> QED
    BY SameCopySlices
<1>4. Same(c, CopyVP8SliceData(c, data, mem)) /\ Same(c, CopyVP9SliceData(c, data, gp, mem))
  <2> HIDE DEF gp
  <2> QED
    BY SameVP8, SameVP9
<1> QED
  BY <1>2, <1>3, <1>4

\* Changes of fields that are not the tiles.
LEMMA FieldStep ==
    ASSUME NEW c, Whole(c), NEW p, NEW i
    PROVE  /\ Same(c, [c EXCEPT !.picture = p, !.intra = i]) /\ Same(c, [c EXCEPT !.picture = p])
           /\ Same(c, [c EXCEPT !.matrix = p]) /\ Same(c, [c EXCEPT !.codecData = TRUE])
           /\ Same(c, [c EXCEPT !.quant = p]) /\ Same(c, [c EXCEPT !.huffman = p])
           /\ Same(c, [c EXCEPT !.params = p])
<1>1. "av1" \in DOMAIN c
  BY DEF Whole, ContextFields
<1> QED
  BY <1>1 DEF Same

\* getJPEGContext.
LEMMA SameJPEGContext ==
    ASSUME NEW c, Whole(c), NEW mem
    PROVE  Same(c, WithJPEGContext(c, mem)) /\ Whole(WithJPEGContext(c, mem))
<1> DEFINE b == [c.bitstream EXCEPT !.failed = TRUE]
           w == WithJPEGContext(c, mem)
<1>1. w \in {[c EXCEPT !.bitstream = b], [c EXCEPT !.codecData = TRUE]}
  BY DEF WithJPEGContext
<1> HIDE DEF b
<1>2. Same(c, [c EXCEPT !.bitstream = b]) /\ Same(c, [c EXCEPT !.codecData = TRUE])
  BY BufferStep, FieldStep
<1> HIDE DEF w
<1>3. Same(c, w)
  BY <1>1, <1>2
<1>4. Whole(w)
  BY <1>3 DEF Whole, Same
<1> QED
  BY <1>3, <1>4 DEF w

\* Picture parameters.
LEMMA SamePicParam ==
    ASSUME codec \in CodecNames, codec # "AV1", NEW c, Whole(c), NEW p, NEW mem
    PROVE  Same(c, PicParam(c, p, mem))
<1>1. codec \in {"H264", "HEVC", "MPEG2", "MPEG4", "VC1", "VP8", "VP9", "JPEG"}
  BY CodecAssumption
<1> DEFINE r == WithJPEGContext(c, mem)
           j == IF r.codecData /\ p.usable THEN p ELSE NONE
           e == [r EXCEPT !.picture = p, !.intra = TRUE, !.jpegPicture = j]
           i == p.intra
<1>2. PicParam(c, p, mem) \in
         {[c EXCEPT !.picture = p, !.intra = TRUE], [c EXCEPT !.picture = p, !.intra = i], Invalid(c),
          [c EXCEPT !.picture = p], e}
  BY <1>1, Zenon DEF PicParam, CopyH264PicParam, CopyHEVCPicParam, CopyMPEG2PicParam, CopyMPEG4PicParam, CopyVC1PicParam,
     CopyVP8PicParam, CopyVP9PicParam, CopyJPEGPicParam
<1>3. Same(c, r) /\ Whole(r)
  BY SameJPEGContext
<1> HIDE DEF r, j, i
<1>4. Same(r, e)
  BY <1>3 DEF Same, Whole, ContextFields
<1>5. Same(c, [c EXCEPT !.picture = p, !.intra = TRUE]) /\ Same(c, [c EXCEPT !.picture = p, !.intra = i])
      /\ Same(c, [c EXCEPT !.picture = p])
  BY FieldStep
<1>6. Same(c, Invalid(c))
  BY SmallSteps
<1> HIDE DEF e
<1>7. Same(c, e)
  BY <1>3, <1>4, SameTrans
<1> QED
  BY <1>2, <1>5, <1>6, <1>7

\* Quantisation matrices.
LEMMA SameIQMatrix ==
    ASSUME codec \in {"H264", "HEVC", "MPEG2", "MPEG4"}, NEW c, Whole(c), NEW q
    PROVE  Same(c, IQMatrix(c, q))
<1> DEFINE m == [i \in 1 .. 2 |-> IF q[i] = 0 THEN -1 ELSE q[i]]
<1>1. IQMatrix(c, q) \in {[c EXCEPT !.matrix = q], [c EXCEPT !.matrix = m]}
  BY Zenon DEF IQMatrix, CopyH264IQMatrix, CopyHEVCIQMatrix, CopyMPEG2IQMatrix, CopyMPEG4IQMatrix
<1> HIDE DEF m
<1>2. Same(c, [c EXCEPT !.matrix = q]) /\ Same(c, [c EXCEPT !.matrix = m])
  BY FieldStep
<1> QED
  BY <1>1, <1>2

\* JPEG tables.
LEMMA SameTables ==
    ASSUME NEW c, Whole(c), NEW q, NEW mem
    PROVE  Same(c, CopyJPEGIQMatrix(c, q, mem)) /\ Same(c, CopyJPEGHuffmanTable(c, q, mem))
<1> DEFINE r == WithJPEGContext(c, mem)
           a == Loaded(r.quant, q)
           b == Loaded(r.huffman, q)
           d == [r EXCEPT !.quant = a]
           e == [r EXCEPT !.huffman = b]
<1>1. CopyJPEGIQMatrix(c, q, mem) \in {r, d} /\ CopyJPEGHuffmanTable(c, q, mem) \in {r, e}
  BY DEF CopyJPEGIQMatrix, CopyJPEGHuffmanTable
<1>2. Same(c, r) /\ Whole(r)
  BY SameJPEGContext
<1> HIDE DEF r, a, b
<1>3. Same(r, d) /\ Same(r, e)
  BY <1>2, FieldStep
<1> HIDE DEF d, e
<1>4. Same(c, d) /\ Same(c, e)
  BY <1>2, <1>3, SameTrans
<1> QED
  BY <1>1, <1>2, <1>4

\* JPEG scans.
LEMMA SameScanData ==
    ASSUME NEW c, Whole(c), NEW data, NEW mem
    PROVE  Same(c, CopyJPEGSliceData(c, data, mem))
<1> DEFINE slices == Slices(c)
           o == AppendBuffer(c.offsets, <<c.bitstream.size>>, mem)
           r == [c EXCEPT !.offsets = o]
           b == ReserveAdditional(c.bitstream, JPEGFrameBound(slices), mem)
           rb == [r EXCEPT !.bitstream = b]
           back(x) == [x EXCEPT !.offsets.size = c.offsets.size, !.invalid = ~x.bitstream.failed]
           frame == ReconstructJPEG(c, slices, data)
           f == AppendBuffer(b, frame, mem)
           e == [r EXCEPT !.bitstream = f, !.numSlices = 1]
<1>1. CopyJPEGSliceData(c, data, mem) \in {Invalid(c), r, back(r), back(rb), Commit(e)}
  BY Zenon DEF CopyJPEGSliceData
<1>2. ASSUME NEW x, Whole(x) PROVE Same(x, back(x))
  <2> DEFINE u == [x.offsets EXCEPT !.size = c.offsets.size]
             v == ~x.bitstream.failed
  <2>1. back(x) = [x EXCEPT !.offsets = u, !.invalid = v]
    OBVIOUS
  <2> HIDE DEF u, v
  <2>2. Same(x, [x EXCEPT !.offsets = u, !.invalid = v])
    BY <1>2 DEF Same, Whole, ContextFields
  <2> HIDE DEF back
  <2> QED
    BY <2>1, <2>2
<1> HIDE DEF o, b, f, back
<1>3. Same(c, r) /\ Same(c, Invalid(c)) /\ Whole(r)
  <2>1. Same(c, r) /\ Same(c, Invalid(c))
    BY BufferStep, SmallSteps
  <2> QED
    BY <2>1 DEF Whole, Same
<1> HIDE DEF r
<1>4. Same(r, rb) /\ Same(r, e) /\ Whole(rb) /\ Whole(e)
  BY <1>3 DEF Same, Whole, ContextFields
<1> HIDE DEF rb, e
<1>5. Same(c, back(r)) /\ Same(c, rb) /\ Same(c, e)
  BY <1>2, <1>3, <1>4, SameTrans
<1>6. Same(rb, back(rb)) /\ Same(e, Commit(e))
  BY <1>2, <1>4, SmallSteps
<1>7. Same(c, back(rb)) /\ Same(c, Commit(e))
  BY <1>5, <1>6, SameTrans
<1> QED
  BY <1>1, <1>3, <1>5, <1>7

\* The end of a picture.
LEMMA SameReset ==
    ASSUME NEW c, Whole(c)
    PROVE  Same(c, ResetPictureBuild(c)) /\ Same(c, ResetJPEGPictureState(c))
<1> DEFINE b == [c.bitstream EXCEPT !.size = 0, !.cells = << >>, !.failed = FALSE]
           o == [c.offsets EXCEPT !.size = 0, !.cells = << >>, !.failed = FALSE]
           p == [c.params EXCEPT !.size = 0, !.cells = << >>, !.failed = FALSE]
           d == [c EXCEPT !.bitstream = b, !.offsets = o, !.params = p, !.sliceCount = 0, !.invalid = FALSE]
<1>1. ResetPictureBuild(c) = d
  BY DEF ResetPictureBuild
<1> HIDE DEF b, o, p
<1>2. Same(c, d)
  BY DEF Same, Whole, ContextFields
<1>3. Same(c, ResetJPEGPictureState(c))
  BY DEF Same, Whole, ContextFields, ResetJPEGPictureState
<1> QED
  BY <1>1, <1>2, <1>3

\* maybeTrimContextHostBuffers.
LEMMA SameTrim ==
    ASSUME NEW c, Whole(c), NEW was, NEW mem
    PROVE  Same(c, MaybeTrim(c, was, mem))
<1> DEFINE idle(b, w) == Underused(b, w.size, TrimThreshold)
           trimmed(b, w) == IF idle(b, w) THEN TrimBuffer(b, TrimTarget(w.size, TrimThreshold), mem) ELSE b
           x == trimmed(c.bitstream, was.bitstream)
           y == trimmed(c.offsets, was.offsets)
           z == trimmed(c.params, was.params)
           k == c.underuse + 1
           e1 == [c EXCEPT !.underuse = 0]
           e2 == [c EXCEPT !.underuse = k]
           e3 == [c EXCEPT !.bitstream = x, !.offsets = y, !.params = z, !.underuse = 0]
<1>1. MaybeTrim(c, was, mem) \in {e1, e2, e3}
  BY Zenon DEF MaybeTrim
<1> HIDE DEF x, y, z, k
<1>2. Same(c, e1) /\ Same(c, e2) /\ Same(c, e3)
  BY DEF Same, Whole, ContextFields
<1> HIDE DEF e1, e2, e3
<1> QED
  BY <1>1, <1>2

-----------------------------------------------------------------------------
(* The tiles of AV1.                                                       *)

\* The offsets have room for all tiles.
Sized(c) == ~c.av1.compacted => c.offsets.size = 2 * c.numSlices

\* A function on 1 .. m is a sequence.
LEMMA AsSequence ==
    ASSUME NEW m \in Nat, NEW X, NEW s \in [1 .. m -> X]
    PROVE  s \in Seq(X) /\ Len(s) = m
OBVIOUS

\* The cells that EnsureOffsets keeps and adds.
ZeroedCells(cs, k, z) == [i \in 1 .. Larger(k, Len(cs)) |-> IF i <= z \/ i > k THEN cs[i] ELSE 0]
CellsFit(nc, k, z, cs) == nc \in Seq(Nat) /\ k \in 0 .. Len(nc) /\ \A i \in 1 .. z : nc[i] = cs[i]
LEMMA CellsZeroed ==
    ASSUME NEW cs \in Seq(Nat), NEW k \in Nat, NEW z \in 0 .. Len(cs), NEW nc, nc = ZeroedCells(cs, k, z)
    PROVE  CellsFit(nc, k, z, cs)
<1> DEFINE m == Larger(k, Len(cs))
<1>1. m \in Nat /\ k <= m /\ Len(cs) <= m /\ (m = k \/ m = Len(cs)) /\ Len(cs) \in Nat
  BY DEF Larger
<1>2. nc = [i \in 1 .. m |-> IF i <= z \/ i > k THEN cs[i] ELSE 0]
  BY DEF ZeroedCells
<1> HIDE DEF m
<1>3. \A i \in 1 .. m : (IF i <= z \/ i > k THEN cs[i] ELSE 0) \in Nat
  <2> SUFFICES ASSUME NEW i \in 1 .. m, i <= z \/ i > k PROVE cs[i] \in Nat
    OBVIOUS
  <2>1. i \in 1 .. Len(cs)
    BY <1>1
  <2> QED
    BY <2>1
<1>4. nc \in [1 .. m -> Nat]
  BY <1>2, <1>3
<1>5. nc \in Seq(Nat) /\ Len(nc) = m
  BY <1>1, <1>4, AsSequence
<1>6. \A i \in 1 .. z : i \in 1 .. m /\ i <= z
  BY <1>1
<1>7. \A i \in 1 .. z : nc[i] = cs[i]
  BY <1>2, <1>6
<1>8. k \in 0 .. Len(nc)
  BY <1>1, <1>5
<1> QED
  BY <1>5, <1>7, <1>8 DEF CellsFit

\* The pairs of tiles whose cells are the same.
LEMMA PairsSame ==
    ASSUME NEW n \in Nat, NEW ts \in SUBSET (0 .. n - 1), NEW a, NEW b, \A i \in 1 .. 2 * n : b[i] = a[i]
    PROVE  Pairs(b, ts) = Pairs(a, ts)
<1>1. \A t \in ts : 2 * t + 1 \in 1 .. 2 * n /\ 2 * t + 2 \in 1 .. 2 * n
  OBVIOUS
<1>2. \A t \in ts : b[2 * t + 1] = a[2 * t + 1] /\ b[2 * t + 2] = a[2 * t + 2]
  BY <1>1
<1> QED
  BY <1>2 DEF Pairs

\* One more tile with its pair.
WithPair(a, t, from, to) == [a EXCEPT ![2 * t + 1] = from, ![2 * t + 2] = to]
OnePairMore(a, b, ts, t, from, to) ==
    /\ b \in Seq(Nat) /\ Len(b) = Len(a)
    /\ Pairs(b, ts \cup {t}) = Pairs(a, ts) \cup {<<from, to>>}
LEMMA PairsMore ==
    ASSUME NEW n \in Nat, NEW ts \in SUBSET (0 .. n - 1), NEW t \in 0 .. n - 1, t \notin ts,
           NEW a \in Seq(Nat), 2 * n <= Len(a), NEW from \in Nat, NEW to \in Nat,
           NEW b, b = WithPair(a, t, from, to)
    PROVE  OnePairMore(a, b, ts, t, from, to)
<1>1. 2 * t + 1 \in 1 .. Len(a) /\ 2 * t + 2 \in 1 .. Len(a) /\ 2 * t + 1 # 2 * t + 2
  OBVIOUS
<1>2. b \in Seq(Nat) /\ Len(b) = Len(a)
  BY <1>1 DEF WithPair
<1>3. b[2 * t + 1] = from /\ b[2 * t + 2] = to
  BY <1>1 DEF WithPair
<1>4. ASSUME NEW u \in ts PROVE b[2 * u + 1] = a[2 * u + 1] /\ b[2 * u + 2] = a[2 * u + 2]
  <2>1. /\ u \in Nat /\ t \in Nat /\ u # t /\ 2 * u + 1 \in 1 .. Len(a) /\ 2 * u + 2 \in 1 .. Len(a)
    OBVIOUS
  <2>2. /\ 2 * u + 1 # 2 * t + 1 /\ 2 * u + 1 # 2 * t + 2
        /\ 2 * u + 2 # 2 * t + 1 /\ 2 * u + 2 # 2 * t + 2
    BY <2>1
  <2> QED
    BY <2>1, <2>2 DEF WithPair
<1>5. Pairs(b, ts \cup {t}) = Pairs(a, ts) \cup {<<from, to>>}
  <2> DEFINE P(u) == <<b[2 * u + 1], b[2 * u + 2]>>
             Q(u) == <<a[2 * u + 1], a[2 * u + 2]>>
  <2>1. P(t) = <<from, to>>
    BY <1>3
  <2>2. \A u \in ts : P(u) = Q(u)
    BY <1>4
  <2>3. Pairs(b, ts \cup {t}) = {P(u) : u \in ts \cup {t}} /\ Pairs(a, ts) = {Q(u) : u \in ts}
    BY DEF Pairs
  <2> HIDE DEF P, Q
  <2> QED
    BY <2>1, <2>2, <2>3
<1> QED
  BY <1>2, <1>5 DEF OnePairMore

\* Reserving memory for the offsets keeps what is in them.
Reserved(b, o) ==
    /\ DOMAIN o = DOMAIN b /\ o.size = b.size
    /\ b.cells \in Seq(Nat) /\ b.size \in 0 .. Len(b.cells) => CellsFit(o.cells, b.size, b.size, b.cells)
LEMMA ReservedCells ==
    ASSUME NEW b, BufferFields \subseteq DOMAIN b, NEW k, NEW mem, NEW o, o = ReserveBuffer(b, k, mem)
    PROVE  Reserved(b, o)
<1>1. {"cells", "size", "allocated", "failed"} \subseteq DOMAIN b
  BY DEF BufferFields
<1> DEFINE G == GrownCapacity(b.allocated, k)
           C == Contents(b)
           bf == [b EXCEPT !.failed = TRUE]
           bg == [b EXCEPT !.allocated = G, !.cells = C]
<1>2. o \in {b, bf, bg}
  BY DEF ReserveBuffer
<1>3. b.cells \in Seq(Nat) /\ b.size \in 0 .. Len(b.cells) =>
         C \in Seq(Nat) /\ Len(C) = b.size /\ \A i \in 1 .. b.size : C[i] = b.cells[i]
  BY DEF Contents
<1> HIDE DEF G, C
<1>4. bf.cells = b.cells /\ bf.size = b.size /\ DOMAIN bf = DOMAIN b
  BY <1>1
<1>5. bg.cells = C /\ bg.size = b.size /\ DOMAIN bg = DOMAIN b
  BY <1>1
<1> HIDE DEF bf, bg
<1>6. o.cells \in {b.cells, C} /\ o.size = b.size /\ DOMAIN o = DOMAIN b
  BY <1>2, <1>4, <1>5
<1> SUFFICES ASSUME b.cells \in Seq(Nat), b.size \in 0 .. Len(b.cells)
             PROVE  /\ o.cells \in Seq(Nat) /\ b.size \in 0 .. Len(o.cells)
                    /\ \A i \in 1 .. b.size : o.cells[i] = b.cells[i]
  BY <1>6 DEF Reserved, CellsFit
<1>7. CASE o.cells = b.cells
  BY <1>7
<1>8. CASE o.cells = C
  BY <1>3, <1>8
<1> QED
  BY <1>6, <1>7, <1>8

\* Without a tile there is no range.
LEMMA NoTileNoRange ==
    ASSUME NEW c, Counted(c), c.av1.seen = {}
    PROVE  Ranges(c.av1.intervals) = {}
<1>1. IsFiniteSet(Ranges(c.av1.intervals))
  BY IndexFacts DEF Counted
<1>2. Cardinality(Ranges(c.av1.intervals)) = 0
  BY FS_EmptySet DEF Counted
<1> QED
  BY <1>1, <1>2, FS_EmptySet

\* A context with other offsets and another number of tiles.
Resized(c, d, n, w) ==
    /\ DOMAIN d = DOMAIN c /\ d.numSlices = n /\ d.offsets = w
    /\ d.av1 = c.av1 /\ d.picture = c.picture /\ d.bitstream = c.bitstream /\ d.params = c.params
    /\ d.sliceCount = c.sliceCount /\ d.invalid = c.invalid

\* The three outcomes of ensureAV1SliceOffsetStorage.
LEMMA EnsureForms ==
    ASSUME NEW c, Records(c), NEW n, NEW mem, NEW d, d = EnsureOffsets([c EXCEPT !.numSlices = n], n, mem),
           NEW o, o = ReserveBuffer(c.offsets, 2 * n, mem)
    PROVE  \/ n = 0 /\ Resized(c, d, n, [c.offsets EXCEPT !.size = 0])
           \/ Resized(c, d, n, [o EXCEPT !.failed = TRUE, !.size = 0])
           \/ n # 0 /\ Resized(c, d, n, [o EXCEPT !.size = 2 * n, !.cells = ZeroedCells(o.cells, 2 * n, c.offsets.size)])
<1> DEFINE e == [c EXCEPT !.numSlices = n]
           k == 2 * n
           x == [c.offsets EXCEPT !.size = 0]
           y == [o EXCEPT !.failed = TRUE, !.size = 0]
           z == [o EXCEPT !.size = k, !.cells = ZeroedCells(o.cells, k, c.offsets.size)]
<1>1. ContextFields \subseteq DOMAIN c
  BY DEF Records
<1>2. /\ e.offsets = c.offsets /\ DOMAIN e = DOMAIN c /\ e.numSlices = n /\ e.av1 = c.av1 /\ e.picture = c.picture
      /\ e.bitstream = c.bitstream /\ e.params = c.params /\ e.sliceCount = c.sliceCount /\ e.invalid = c.invalid
  BY <1>1 DEF ContextFields
<1>3. d = EnsureOffsets(e, n, mem)
  OBVIOUS
<1> HIDE DEF e
<1>4. d = IF n = 0 THEN [e EXCEPT !.offsets = x]
          ELSE IF k > o.allocated THEN [e EXCEPT !.offsets = y]
          ELSE [e EXCEPT !.offsets = z]
  BY <1>2, <1>3, Zenon DEF EnsureOffsets, ZeroedCells
<1> HIDE DEF x, y, z
<1>5. ASSUME NEW w PROVE Resized(c, [e EXCEPT !.offsets = w], n, w)
  <2>1. {"bitstream", "offsets", "params", "sliceCount", "invalid", "picture", "numSlices", "av1"} \subseteq DOMAIN e
    BY <1>1, <1>2 DEF ContextFields
  <2> DEFINE v == [e EXCEPT !.offsets = w]
  <2>2. /\ v.offsets = w /\ DOMAIN v = DOMAIN e /\ v.numSlices = e.numSlices /\ v.av1 = e.av1 /\ v.picture = e.picture
        /\ v.bitstream = e.bitstream /\ v.params = e.params /\ v.sliceCount = e.sliceCount /\ v.invalid = e.invalid
    BY <2>1
  <2> HIDE DEF v
  <2>3. Resized(c, v, n, w)
    BY <1>2, <2>2 DEF Resized
  <2> QED
    BY <2>3 DEF v
<1>6. CASE n = 0
  BY <1>4, <1>5, <1>6 DEF x
<1>7. CASE n # 0 /\ k > o.allocated
  BY <1>4, <1>5, <1>7 DEF y
<1>8. CASE n # 0 /\ ~(k > o.allocated)
  BY <1>4, <1>5, <1>8 DEF z
<1> QED
  BY <1>6, <1>7, <1>8

\* The invariant depends on few fields.
LEMMA ResizedInv ==
    ASSUME NEW c, TilesInv(c), NEW d, NEW n, NEW w, Resized(c, d, n, w), BufferFields \subseteq DOMAIN w
    PROVE  Records(d) /\ Counted(d)
BY DEF TilesInv, Records, Counted, Resized

\* The offsets are ready for the tiles, or there is no memory for them.
TileCount(c, slices) == IF c.numSlices # 0 THEN c.numSlices ELSE Len(slices)
WithTiles(c, n, mem) == EnsureOffsets([c EXCEPT !.numSlices = n], n, mem)
LEMMA OffsetsReady ==
    ASSUME NEW c, TilesInv(c), Working(c), NEW slices \in Seq(TileParams), NEW n,
           n = TileCount(c, slices), NEW mem, NEW d, d = WithTiles(c, n, mem)
    PROVE  /\ TilesInv(d) /\ d.av1 = c.av1
           /\ d.offsets.failed \/ (Working(d) /\ Sized(d))
<1> DEFINE b == c.offsets
           o == ReserveBuffer(b, 2 * n, mem)
           x == [b EXCEPT !.size = 0]
           y == [o EXCEPT !.failed = TRUE, !.size = 0]
           z == [o EXCEPT !.size = 2 * n, !.cells = ZeroedCells(o.cells, 2 * n, b.size)]
<1>1. Records(c) /\ Counted(c) /\ Paired(c) /\ BufferFields \subseteq DOMAIN b /\ c.av1.compacted \in BOOLEAN
  BY DEF TilesInv, Records, Counted
<1>2. o = ReserveBuffer(b, 2 * n, mem) /\ b = c.offsets
  OBVIOUS
<1>3. /\ c.picture.cols \in Nat /\ c.numSlices \in Nat /\ c.av1.seen \subseteq 0 .. c.numSlices - 1
      /\ c.params.cells \in Seq(TileParams) /\ c.sliceCount \in 0 .. Len(c.params.cells)
      /\ c.av1.compacted => c.av1.seen = 0 .. c.numSlices - 1 /\ c.numSlices # 0
      /\ ~c.av1.compacted =>
            /\ c.bitstream.size \in Nat /\ b.cells \in Seq(Nat) /\ b.size \in 0 .. Len(b.cells)
            /\ c.av1.seen # {} => b.size = 2 * c.numSlices
  BY DEF Working
<1>4. Len(slices) \in Nat
  OBVIOUS
<1>5. /\ n \in Nat /\ 2 * n \in Nat /\ (c.numSlices # 0 => n = c.numSlices)
      /\ (c.av1.seen # {} => n = c.numSlices /\ n # 0) /\ c.av1.seen \subseteq 0 .. n - 1
      /\ (n = 0 => c.av1.seen = {})
  <2>1. n \in Nat /\ (c.numSlices # 0 => n = c.numSlices) /\ 2 * n \in Nat
    BY <1>3, <1>4 DEF TileCount
  <2>2. c.numSlices = 0 => c.av1.seen = {}
    BY <1>3
  <2> QED
    BY <1>3, <2>1, <2>2
<1>6. \/ n = 0 /\ Resized(c, d, n, x)
      \/ Resized(c, d, n, y)
      \/ n # 0 /\ Resized(c, d, n, z)
  <2>1. d = EnsureOffsets([c EXCEPT !.numSlices = n], n, mem)
    BY DEF WithTiles
  <2> QED
    BY <1>1, <2>1, EnsureForms
<1> HIDE DEF o, b
<1>7. /\ DOMAIN o = DOMAIN b /\ o.size = b.size
      /\ b.cells \in Seq(Nat) /\ b.size \in 0 .. Len(b.cells) =>
           /\ o.cells \in Seq(Nat) /\ b.size \in 0 .. Len(o.cells)
           /\ \A i \in 1 .. b.size : o.cells[i] = b.cells[i]
  <2>1. Reserved(b, o)
    BY <1>1, <1>2, ReservedCells
  <2> QED
    BY <2>1 DEF Reserved, CellsFit
<1> DEFINE C == ZeroedCells(o.cells, 2 * n, b.size)
<1>8. {"cells", "size", "allocated", "failed"} \subseteq DOMAIN b /\ {"cells", "size", "allocated", "failed"} \subseteq DOMAIN o
  BY <1>1, <1>7 DEF BufferFields
<1>9. /\ DOMAIN x = DOMAIN b /\ x.size = 0 /\ x.cells = b.cells
      /\ DOMAIN y = DOMAIN b /\ y.size = 0 /\ y.failed = TRUE
      /\ DOMAIN z = DOMAIN b /\ z.size = 2 * n /\ z.cells = C
  BY <1>7, <1>8
<1> HIDE DEF x, y, z, C
<1>10. ASSUME NEW w, Resized(c, d, n, w), DOMAIN w = DOMAIN b
       PROVE  Records(d) /\ Counted(d) /\ d.av1 = c.av1 /\ d.offsets = w /\ d.numSlices = n
  <2>1. BufferFields \subseteq DOMAIN w
    BY <1>1, <1>10
  <2> QED
    BY <1>10, <2>1, ResizedInv DEF Resized
<1>11. ASSUME NEW w, Resized(c, d, n, w)
       PROVE  /\ d.picture.cols \in Nat /\ d.numSlices \in Nat /\ d.av1.seen \subseteq 0 .. d.numSlices - 1
              /\ d.params.cells \in Seq(TileParams) /\ d.sliceCount \in 0 .. Len(d.params.cells)
              /\ d.av1.compacted => d.av1.seen = 0 .. d.numSlices - 1 /\ d.numSlices # 0
              /\ ~d.av1.compacted => d.bitstream.size \in Nat
  BY <1>3, <1>5, <1>11 DEF Resized
<1>12. CASE n = 0 /\ Resized(c, d, n, x)
  <2>1. Records(d) /\ Counted(d) /\ d.av1 = c.av1 /\ d.offsets = x /\ d.numSlices = n
    BY <1>9, <1>10, <1>12
  <2>2. Paired(d)
    BY <1>9, <2>1 DEF Paired
  <2>3. Sized(d)
    BY <1>9, <1>12, <2>1 DEF Sized
  <2>4. Working(d)
    <3>1. ~d.av1.compacted => d.offsets.cells \in Seq(Nat) /\ d.offsets.size \in 0 .. Len(d.offsets.cells)
      BY <1>3, <1>9, <2>1
    <3>2. d.av1.seen = {}
      BY <1>5, <1>12, <2>1
    <3> QED
      BY <1>11, <1>12, <3>1, <3>2 DEF Working
  <2> QED
    BY <2>1, <2>2, <2>3, <2>4 DEF TilesInv
<1>13. CASE Resized(c, d, n, y)
  <2>1. Records(d) /\ Counted(d) /\ d.av1 = c.av1 /\ d.offsets = y
    BY <1>9, <1>10, <1>13
  <2>2. Paired(d) /\ d.offsets.failed
    BY <1>9, <2>1 DEF Paired
  <2> QED
    BY <2>1, <2>2 DEF TilesInv
<1>14. CASE n # 0 /\ Resized(c, d, n, z)
  <2>1. Records(d) /\ Counted(d) /\ d.av1 = c.av1 /\ d.offsets = z /\ d.numSlices = n
    BY <1>9, <1>10, <1>14
  <2>2. Sized(d)
    BY <1>9, <2>1 DEF Sized
  <2>3. ~c.av1.compacted => C \in Seq(Nat) /\ 2 * n \in 0 .. Len(C) /\ \A i \in 1 .. b.size : C[i] = b.cells[i]
    <3> SUFFICES ASSUME ~c.av1.compacted
                 PROVE  C \in Seq(Nat) /\ 2 * n \in 0 .. Len(C) /\ \A i \in 1 .. b.size : C[i] = b.cells[i]
      OBVIOUS
    <3>1. o.cells \in Seq(Nat) /\ b.size \in 0 .. Len(o.cells) /\ \A i \in 1 .. b.size : o.cells[i] = b.cells[i]
      BY <1>3, <1>7
    <3> DEFINE cs == o.cells
               k == 2 * n
               s == b.size
    <3>2. cs \in Seq(Nat) /\ k \in Nat /\ s \in 0 .. Len(cs) /\ C = ZeroedCells(cs, k, s)
      BY <1>5, <3>1 DEF C
    <3> HIDE DEF cs, k, s
    <3>3. C \in Seq(Nat) /\ k \in 0 .. Len(C) /\ \A i \in 1 .. s : C[i] = cs[i]
      <4>1. CellsFit(C, k, s, cs)
        BY <3>2, CellsZeroed
      <4> QED
        BY <4>1 DEF CellsFit
    <3> QED
      BY <3>1, <3>3 DEF cs, k, s
  <2>4. Paired(d)
    <3> SUFFICES ASSUME ~c.av1.compacted PROVE Ranges(c.av1.intervals) = Pairs(C, c.av1.seen)
      BY <1>9, <2>1 DEF Paired
    <3>1. CASE c.av1.seen = {}
      <4>1. Ranges(c.av1.intervals) = {}
        BY <1>1, <3>1, NoTileNoRange
      <4> QED
        BY <3>1, <4>1 DEF Pairs
    <3>2. CASE c.av1.seen # {}
      <4>1. b.size = 2 * n /\ b.size # 0
        <5>1. b.size = 2 * c.numSlices
          BY <1>3, <3>2
        <5>2. n = c.numSlices /\ n # 0 /\ n \in Nat
          BY <1>5, <3>2
        <5> QED
          BY <5>1, <5>2
      <4>2. Ranges(c.av1.intervals) = Pairs(b.cells, c.av1.seen)
        BY <1>1, <1>2, <4>1 DEF Paired
      <4>3. Pairs(C, c.av1.seen) = Pairs(b.cells, c.av1.seen)
        <5> DEFINE ts == c.av1.seen
                   a == b.cells
        <5>1. ts \in SUBSET (0 .. n - 1) /\ \A i \in 1 .. 2 * n : C[i] = a[i]
          BY <1>5, <2>3, <4>1
        <5> HIDE DEF ts, a
        <5>2. Pairs(C, ts) = Pairs(a, ts)
          BY <1>5, <5>1, PairsSame
        <5> QED
          BY <5>2 DEF ts, a
      <4> QED
        BY <4>2, <4>3
    <3> QED
      BY <3>1, <3>2
  <2>5. Working(d)
    <3>1. ~d.av1.compacted => /\ d.offsets.cells \in Seq(Nat) /\ d.offsets.size \in 0 .. Len(d.offsets.cells)
                              /\ d.offsets.size = 2 * d.numSlices
      BY <1>9, <2>1, <2>3
    <3> QED
      BY <1>11, <1>14, <3>1 DEF Working
  <2> QED
    BY <2>1, <2>2, <2>4, <2>5 DEF TilesInv
<1> QED
  BY <1>6, <1>12, <1>13, <1>14

-----------------------------------------------------------------------------
(* Placing a tile.                                                         *)

Failing(c) == c.invalid \/ OutOfMemory(c)

\* What holds of the context while the tiles of a buffer are placed.
Placeable(a, adjust) ==
    /\ TilesInv(a.c)
    /\ a.stop => Failing(a.c)
    /\ ~a.stop => Working(a.c) /\ Sized(a.c) /\ (~a.c.av1.compacted => adjust \in Nat)

\* A refusal.
LEMMA RefusedInv ==
    ASSUME NEW c, TilesInv(c)
    PROVE  TilesInv(Invalid(c)) /\ Failing(Invalid(c)) /\ Invalid(c).av1 = c.av1
<1> DEFINE d == Invalid(c)
<1>1. ContextFields \subseteq DOMAIN c
  BY DEF TilesInv, Records
<1>2. /\ DOMAIN d = DOMAIN c /\ d.av1 = c.av1 /\ d.offsets = c.offsets /\ d.bitstream = c.bitstream
      /\ d.params = c.params /\ d.invalid = TRUE
  BY <1>1 DEF Invalid, ContextFields
<1> HIDE DEF d
<1>3. TilesInv(d) /\ Failing(d) /\ d.av1 = c.av1
  BY <1>2 DEF TilesInv, Records, Counted, Paired, Failing
<1> QED
  BY <1>3 DEF d

\* No memory for a node.
LEMMA NoRoomInv ==
    ASSUME NEW c, TilesInv(c), NEW jx, IndexOK(jx), Ranges(jx) = Ranges(c.av1.intervals),
           NEW d, d = [c EXCEPT !.av1.intervals = jx, !.offsets.failed = TRUE]
    PROVE  TilesInv(d) /\ Failing(d)
<1>1. /\ ContextFields \subseteq DOMAIN c /\ {"seen", "intervals", "min", "maxEnd", "compacted"} \subseteq DOMAIN c.av1
      /\ {"cells", "size", "allocated", "failed"} \subseteq DOMAIN c.offsets
  BY DEF TilesInv, Records, TileFields, BufferFields
<1>2. {"bitstream", "offsets", "params", "av1"} \subseteq DOMAIN c
  BY <1>1 DEF ContextFields
<1> DEFINE v == [c.av1 EXCEPT !.intervals = jx]
           o == [c.offsets EXCEPT !.failed = TRUE]
<1>3. d = [c EXCEPT !.av1 = v, !.offsets = o]
  BY <1>2
<1>4. DOMAIN v = DOMAIN c.av1 /\ v.intervals = jx /\ v.seen = c.av1.seen /\ v.compacted = c.av1.compacted
  BY <1>1
<1>5. DOMAIN o = DOMAIN c.offsets /\ o.failed = TRUE /\ o.size = c.offsets.size /\ o.cells = c.offsets.cells
  BY <1>1
<1> HIDE DEF v, o
<1>6. /\ DOMAIN d = DOMAIN c /\ d.av1 = v /\ d.offsets = o /\ d.bitstream = c.bitstream
      /\ d.params = c.params
  BY <1>2, <1>3
<1>7. Records(d)
  BY <1>4, <1>5, <1>6 DEF TilesInv, Records
<1>8. Counted(d) /\ Paired(d)
  BY <1>4, <1>5, <1>6 DEF TilesInv, Counted, Paired
<1>9. Failing(d)
  BY <1>5, <1>6 DEF Failing, OutOfMemory
<1> QED
  BY <1>7, <1>8, <1>9 DEF TilesInv

\* A context with one more tile.
Placed(c, d, t, from, to, jx) ==
    /\ DOMAIN d = DOMAIN c /\ d.bitstream = c.bitstream /\ d.params = c.params
    /\ d.sliceCount = c.sliceCount /\ d.picture = c.picture /\ d.numSlices = c.numSlices
    /\ DOMAIN d.av1 = DOMAIN c.av1 /\ d.av1.intervals = jx /\ d.av1.seen = c.av1.seen \cup {t}
    /\ d.av1.compacted = c.av1.compacted
    /\ DOMAIN d.offsets = DOMAIN c.offsets /\ d.offsets.size = c.offsets.size
    /\ d.offsets.cells = WithPair(c.offsets.cells, t, from, to)

\* The last branch of setAV1SliceOffsetsImpl leaves such a context.
LEMMA PlacedForm ==
    ASSUME NEW c, TilesInv(c), NEW t, NEW from, NEW to, NEW jx, NEW lo, NEW hi,
           NEW d, d = [c EXCEPT !.offsets.cells = [@ EXCEPT ![2 * t + 1] = from, ![2 * t + 2] = to],
                                !.av1 = [c.av1 EXCEPT !.seen = @ \union {t}, !.intervals = jx, !.min = lo, !.maxEnd = hi]]
    PROVE  Placed(c, d, t, from, to, jx)
<1>1. /\ ContextFields \subseteq DOMAIN c /\ {"seen", "intervals", "min", "maxEnd", "compacted"} \subseteq DOMAIN c.av1
      /\ {"cells", "size", "allocated", "failed"} \subseteq DOMAIN c.offsets
  BY DEF TilesInv, Records, TileFields, BufferFields
<1>2. {"bitstream", "offsets", "params", "av1", "sliceCount", "picture", "numSlices"} \subseteq DOMAIN c
  BY <1>1 DEF ContextFields
<1> DEFINE b == WithPair(c.offsets.cells, t, from, to)
           us == c.av1.seen \cup {t}
           v == [c.av1 EXCEPT !.seen = us, !.intervals = jx, !.min = lo, !.maxEnd = hi]
           o == [c.offsets EXCEPT !.cells = b]
<1>3. d = [c EXCEPT !.offsets = o, !.av1 = v]
  BY DEF WithPair
<1> HIDE DEF b, us
<1>4. DOMAIN v = DOMAIN c.av1 /\ v.intervals = jx /\ v.seen = us /\ v.compacted = c.av1.compacted
  BY <1>1
<1>5. DOMAIN o = DOMAIN c.offsets /\ o.cells = b /\ o.size = c.offsets.size
  BY <1>1
<1> HIDE DEF v, o
<1>6. /\ DOMAIN d = DOMAIN c /\ d.av1 = v /\ d.offsets = o /\ d.bitstream = c.bitstream
      /\ d.params = c.params /\ d.sliceCount = c.sliceCount /\ d.picture = c.picture /\ d.numSlices = c.numSlices
  BY <1>2, <1>3
<1> QED
  BY <1>4, <1>5, <1>6 DEF Placed, b, us

\* A tile has been placed.
LEMMA PlacedInv ==
    ASSUME NEW c, TilesInv(c), Working(c), Sized(c), ~c.av1.compacted, NEW t \in Nat, t < c.numSlices, t \notin c.av1.seen,
           NEW from \in Nat, NEW to \in Nat, NEW jx, IndexOK(jx), <<from, to>> \notin Ranges(c.av1.intervals),
           Ranges(jx) = Ranges(c.av1.intervals) \cup {<<from, to>>},
           NEW d, Placed(c, d, t, from, to, jx)
    PROVE  TilesInv(d) /\ Working(d) /\ Sized(d) /\ ~d.av1.compacted
<1> DEFINE a == c.offsets.cells
           n == c.numSlices
           ts == c.av1.seen
           b == d.offsets.cells
<1>1. /\ n \in Nat /\ ts \in SUBSET (0 .. n - 1) /\ t \in 0 .. n - 1 /\ t \notin ts /\ a \in Seq(Nat) /\ 2 * n <= Len(a)
      /\ c.offsets.size = 2 * n /\ c.offsets.size # 0
  <2>1. n \in Nat /\ ts \subseteq 0 .. n - 1 /\ a \in Seq(Nat) /\ c.offsets.size \in 0 .. Len(a) /\ c.offsets.size = 2 * n
    BY DEF Working, Sized
  <2> QED
    BY <2>1
<1>2. /\ b \in Seq(Nat) /\ Len(b) = Len(a)
      /\ Pairs(b, ts \cup {t}) = Pairs(a, ts) \cup {<<from, to>>}
  <2>1. b = WithPair(a, t, from, to)
    BY DEF Placed
  <2> HIDE DEF b, a, n, ts
  <2>2. OnePairMore(a, b, ts, t, from, to)
    BY <1>1, <2>1, PairsMore
  <2> QED
    BY <2>2 DEF OnePairMore
<1>3. Records(d)
  BY DEF TilesInv, Records, Placed
<1>4. Paired(d)
  <2>1. Ranges(c.av1.intervals) = Pairs(a, ts)
    BY <1>1 DEF TilesInv, Paired
  <2>2. Ranges(d.av1.intervals) = Pairs(b, ts \cup {t}) /\ d.av1.seen = ts \cup {t}
    BY <1>2, <2>1 DEF Placed
  <2> QED
    BY <2>2 DEF Paired
<1>5. Counted(d)
  <2> DEFINE R == Ranges(c.av1.intervals)
             p == <<from, to>>
  <2>1. IsFiniteSet(R) /\ IsFiniteSet(ts) /\ Cardinality(R) = Cardinality(ts) /\ p \notin R
    BY IndexFacts DEF TilesInv, Counted
  <2>2. Ranges(d.av1.intervals) = R \cup {p} /\ d.av1.seen = ts \cup {t}
    BY DEF Placed
  <2>3. IndexOK(d.av1.intervals) /\ d.av1.compacted \in BOOLEAN
    BY DEF Placed, TilesInv, Counted
  <2> HIDE DEF R, p, ts
  <2>4. Cardinality(R \cup {p}) = Cardinality(R) + 1 /\ Cardinality(ts \cup {t}) = Cardinality(ts) + 1
        /\ IsFiniteSet(ts \cup {t})
    BY <1>1, <2>1, FS_AddElement
  <2>5. Cardinality(R \cup {p}) = Cardinality(ts \cup {t})
    BY <2>1, <2>4
  <2> QED
    BY <2>2, <2>3, <2>4, <2>5 DEF Counted
<1>6. Sized(d) /\ ~d.av1.compacted
  BY DEF Sized, Placed
<1>7. Working(d)
  <2>1. d.av1.seen \subseteq 0 .. d.numSlices - 1
    BY <1>1 DEF Placed
  <2>2. d.offsets.size = 2 * d.numSlices /\ d.numSlices = n /\ d.offsets.size = 2 * n
    BY <1>1 DEF Placed
  <2>3. d.offsets.size \in 0 .. Len(b)
    <3> DEFINE k == d.offsets.size
               la == Len(a)
    <3>1. k = 2 * n /\ n \in Nat /\ 2 * n <= la /\ la \in Nat /\ Len(b) = la
      BY <1>1, <1>2, <2>2
    <3> HIDE DEF k, la
    <3>2. k \in 0 .. la
      BY <3>1
    <3> QED
      BY <3>1, <3>2 DEF k
  <2>4. /\ d.picture.cols \in Nat /\ d.bitstream.size \in Nat
        /\ d.params.cells \in Seq(TileParams) /\ d.sliceCount \in 0 .. Len(d.params.cells)
    BY DEF Working, Placed
  <2> QED
    BY <1>1, <1>2, <1>6, <2>1, <2>2, <2>3, <2>4 DEF Working
<1> QED
  BY <1>3, <1>4, <1>5, <1>6, <1>7 DEF TilesInv

\* One tile of setAV1SliceOffsetsImpl.
LEMMA TileHeld ==
    ASSUME NEW a, NEW adjust, a.stop \in BOOLEAN, Placeable(a, adjust), NEW s \in TileParams, NEW size, NEW mem,
           NEW r, r = PlaceTile(a, s, adjust, size, mem)
    PROVE  Placeable(r, adjust) /\ r.stop \in BOOLEAN
<1> DEFINE c == a.c
           tile == TileIndex(c.picture, s)
           from == adjust + s.offset
           to == from + s.size
           ix == IndexInsert(c.av1.intervals, from, to, mem)
           room == CanReserve(c.av1.intervals.storage, 1, mem)
           refused == \/ ~InRange(s, size)
                      \/ ~IsSet(c.picture)
                      \/ s.row >= c.picture.rows \/ s.col >= c.picture.cols
                      \/ tile >= c.numSlices
                      \/ tile \in c.av1.seen
                      \/ to > MaxLength
                      \/ ~Insertable(c.av1.intervals, from, to)
           full == [c EXCEPT !.av1.intervals = ix, !.offsets.failed = TRUE]
           lo == IF from < c.av1.min THEN from ELSE c.av1.min
           hi == Larger(c.av1.maxEnd, to)
           next == [c EXCEPT !.offsets.cells = [@ EXCEPT ![2 * tile + 1] = from, ![2 * tile + 2] = to],
                             !.av1 = [c.av1 EXCEPT !.seen = @ \union {tile}, !.intervals = ix, !.min = lo, !.maxEnd = hi]]
<1>1. r = IF a.stop THEN a
          ELSE IF refused THEN [c |-> Invalid(c), stop |-> TRUE]
          ELSE IF ~room THEN [c |-> full, stop |-> TRUE]
          ELSE [c |-> next, stop |-> FALSE]
  BY Zenon DEF PlaceTile
<1>2. CASE a.stop
  BY <1>1, <1>2
<1> SUFFICES ASSUME ~a.stop PROVE Placeable(r, adjust) /\ r.stop \in BOOLEAN
  BY <1>2
<1>3. TilesInv(c) /\ Working(c) /\ Sized(c) /\ (~c.av1.compacted => adjust \in Nat)
  BY DEF Placeable
<1>4. CASE refused
  <2>1. r = [c |-> Invalid(c), stop |-> TRUE]
    BY <1>1, <1>4
  <2>2. TilesInv(Invalid(c)) /\ Failing(Invalid(c))
    BY <1>3, RefusedInv
  <2>3. r.c = Invalid(c) /\ r.stop = TRUE
    BY <2>1
  <2> QED
    BY <2>2, <2>3 DEF Placeable
<1> SUFFICES ASSUME ~refused PROVE Placeable(r, adjust) /\ r.stop \in BOOLEAN
  BY <1>4
<1>5. /\ ~(tile >= c.numSlices) /\ tile \notin c.av1.seen
      /\ Insertable(c.av1.intervals, from, to)
  OBVIOUS
<1>6. tile \in Nat /\ c.numSlices \in Nat /\ tile < c.numSlices /\ s.offset \in Nat /\ s.size \in Nat
  <2> DEFINE cols == c.picture.cols
  <2>1. cols \in Nat /\ c.numSlices \in Nat
    BY <1>3 DEF Working
  <2>2. s.row \in Nat /\ s.col \in Nat /\ s.offset \in Nat /\ s.size \in Nat
    BY DEF TileParams
  <2>3. tile = s.row * cols + s.col
    BY DEF TileIndex
  <2> HIDE DEF cols, tile
  <2>4. tile \in Nat
    BY <2>1, <2>2, <2>3
  <2> QED
    BY <1>5, <2>1, <2>2, <2>4
<1>7. ~c.av1.compacted
  <2> SUFFICES ASSUME c.av1.compacted PROVE FALSE
    OBVIOUS
  <2>1. c.av1.seen = 0 .. c.numSlices - 1
    BY <1>3 DEF Working
  <2> HIDE DEF tile, c
  <2> QED
    BY <1>5, <1>6, <2>1
<1>8. from \in Nat /\ to \in Nat
  <2>1. adjust \in Nat
    BY <1>3, <1>7
  <2> QED
    BY <1>6, <2>1
<1>9. IndexOK(c.av1.intervals)
  BY <1>3 DEF TilesInv, Counted
<1>10. r = IF ~room THEN [c |-> full, stop |-> TRUE] ELSE [c |-> next, stop |-> FALSE]
  BY <1>1
<1> DEFINE iv == c.av1.intervals
<1>11. WithRange(iv, ix, from, to, mem)
  <2>1. ix = IndexInsert(iv, from, to, mem) /\ IndexOK(iv) /\ Insertable(iv, from, to)
    BY <1>5, <1>9
  <2> HIDE DEF ix, iv, from, to, tile, refused
  <2> QED
    BY <1>8, <2>1, IndexInserted
<1>12. IndexOK(ix) /\ <<from, to>> \notin Ranges(iv)
       /\ (room => Ranges(ix) = Ranges(iv) \cup {<<from, to>>}) /\ (~room => Ranges(ix) = Ranges(iv))
  BY <1>11 DEF WithRange
<1>13. full = [c EXCEPT !.av1.intervals = ix, !.offsets.failed = TRUE]
  OBVIOUS
<1>14. Placed(c, next, tile, from, to, ix)
  <2>1. next = [c EXCEPT !.offsets.cells = [@ EXCEPT ![2 * tile + 1] = from, ![2 * tile + 2] = to],
                         !.av1 = [c.av1 EXCEPT !.seen = @ \union {tile}, !.intervals = ix, !.min = lo, !.maxEnd = hi]]
    OBVIOUS
  <2> HIDE DEF next, tile, from, to, ix, lo, hi, c, refused, full, room
  <2> QED
    BY <1>3, <2>1, PlacedForm
<1> HIDE DEF next, tile, from, to, ix, c, refused, full, room
<1>15. CASE ~room
  <2>1. r.c = full /\ r.stop = TRUE
    BY <1>10, <1>15
  <2>2. TilesInv(full) /\ Failing(full)
    BY <1>3, <1>12, <1>13, <1>15, NoRoomInv
  <2> QED
    BY <2>1, <2>2 DEF Placeable
<1>16. CASE room
  <2>1. r.c = next /\ r.stop = FALSE
    BY <1>10, <1>16
  <2>2. TilesInv(next) /\ Working(next) /\ Sized(next) /\ ~next.av1.compacted
    BY <1>3, <1>5, <1>6, <1>7, <1>8, <1>12, <1>14, <1>16, PlacedInv
  <2>3. adjust \in Nat
    BY <1>3, <1>7
  <2> QED
    BY <2>1, <2>2, <2>3 DEF Placeable
<1> QED
  BY <1>15, <1>16

-----------------------------------------------------------------------------
(* All tiles of a buffer.                                                  *)

\* The contexts after the first k tiles.
PlaceStep(f, ready, slices, adjust, size, mem, k) ==
    IF k = 0 THEN [c |-> ready, stop |-> FALSE] ELSE PlaceTile(f[k - 1], slices[k], adjust, size, mem)
Placing(f, ready, slices, adjust, size, mem) ==
    f = [k \in 0 .. Len(slices) |-> PlaceStep(f, ready, slices, adjust, size, mem, k)]

\* There is such a function, built tile by tile.
LEMMA PlacingDefined ==
    ASSUME NEW ready, NEW slices \in Seq(TileParams), NEW adjust, NEW size, NEW mem
    PROVE  \E f : Placing(f, ready, slices, adjust, size, mem)
<1> DEFINE n == Len(slices)
           Step(f, k) == PlaceStep(f, ready, slices, adjust, size, mem, k)
           P(j) == \E f : DOMAIN f = 0 .. n /\ f = [k \in DOMAIN f |-> f[k]] /\ \A k \in 0 .. n : k <= j => f[k] = Step(f, k)
           T == {j \in Nat : ~P(j)}
<1>1. n \in Nat
  OBVIOUS
<1> HIDE DEF n
<1>2. ASSUME NEW f, NEW g, NEW k, k # 0 => f[k - 1] = g[k - 1] PROVE Step(f, k) = Step(g, k)
  BY <1>2 DEF PlaceStep
<1>3. P(0)
  <2> DEFINE f == [k \in 0 .. n |-> [c |-> ready, stop |-> FALSE]]
  <2>1. DOMAIN f = 0 .. n /\ f = [k \in DOMAIN f |-> f[k]]
    OBVIOUS
  <2>2. \A k \in 0 .. n : k <= 0 => k = 0 /\ f[k] = [c |-> ready, stop |-> FALSE]
    BY <1>1
  <2> HIDE DEF f
  <2>3. \A k \in 0 .. n : k <= 0 => f[k] = Step(f, k)
    BY <2>2 DEF PlaceStep
  <2> HIDE DEF Step
  <2> QED
    BY <2>1, <2>3
<1>4. ASSUME NEW j \in Nat, P(j) PROVE P(j + 1)
  <2> HIDE DEF Step
  <2>1. PICK f : DOMAIN f = 0 .. n /\ f = [k \in DOMAIN f |-> f[k]] /\ \A k \in 0 .. n : k <= j => f[k] = Step(f, k)
    BY <1>4
  <2> DEFINE g == [k \in 0 .. n |-> IF k <= j THEN f[k] ELSE Step(f, k)]
  <2>2. \A k \in 0 .. n : k <= j => g[k] = f[k]
    OBVIOUS
  <2>3. \A k \in 0 .. n : g[k] = Step(f, k)
    BY <2>1
  <2>4. DOMAIN g = 0 .. n /\ g = [k \in DOMAIN g |-> g[k]]
    OBVIOUS
  <2> HIDE DEF g
  <2>5. ASSUME NEW k \in 0 .. n, k <= j + 1 PROVE g[k] = Step(g, k)
    <3>1. k # 0 => f[k - 1] = g[k - 1]
      <4> SUFFICES ASSUME k # 0 PROVE f[k - 1] = g[k - 1]
        OBVIOUS
      <4>1. k - 1 \in 0 .. n /\ k - 1 <= j
        BY <1>1, <2>5
      <4> QED
        BY <2>2, <4>1
    <3>2. Step(f, k) = Step(g, k)
      BY <1>2, <3>1
    <3> QED
      BY <2>3, <3>2
  <2> QED
    BY <2>4, <2>5
<1>5. T = {}
  <2> SUFFICES ASSUME T # {} PROVE FALSE
    OBVIOUS
  <2> HIDE DEF P
  <2>1. PICK k \in T : \A y \in T : k <= y
    <3>1. T \in SUBSET Nat
      OBVIOUS
    <3> HIDE DEF T
    <3> QED
      BY <3>1, LeastNat
  <2>2. CASE k = 0
    BY <1>3, <2>2
  <2>3. CASE k # 0
    <3>1. k - 1 \in Nat /\ k - 1 \notin T /\ k = (k - 1) + 1
      BY <2>1, <2>3
    <3> DEFINE j == k - 1
    <3>2. j \in Nat /\ P(j) /\ k = j + 1
      BY <3>1
    <3> HIDE DEF j
    <3>3. P(k)
      BY <1>4, <3>2
    <3> QED
      BY <3>3
  <2> QED
    BY <2>2, <2>3
<1>6. P(n)
  <2> HIDE DEF P
  <2> QED
    BY <1>1, <1>5
<1> HIDE DEF Step
<1>7. PICK f : DOMAIN f = 0 .. n /\ f = [k \in DOMAIN f |-> f[k]] /\ \A k \in 0 .. n : k <= n => f[k] = Step(f, k)
  BY <1>6
<1>8. \A k \in 0 .. n : f[k] = Step(f, k)
  BY <1>1, <1>7
<1>9. f = [k \in 0 .. n |-> Step(f, k)]
  BY <1>7, <1>8
<1>10. Placing(f, ready, slices, adjust, size, mem)
  BY <1>9 DEF Placing, Step, n
<1> QED
  BY <1>10

\* The invariant holds after every tile.
LEMMA PlacingHeld ==
    ASSUME NEW ready, NEW slices \in Seq(TileParams), NEW adjust, NEW size, NEW mem,
           TilesInv(ready), Working(ready), Sized(ready), ~ready.av1.compacted => adjust \in Nat,
           NEW f, Placing(f, ready, slices, adjust, size, mem)
    PROVE  Placeable(f[Len(slices)], adjust)
<1> DEFINE n == Len(slices)
           P(k) == Placeable(f[k], adjust) /\ f[k].stop \in BOOLEAN
           T == {k \in Nat : k <= n /\ ~P(k)}
<1>1. n \in Nat /\ \A k \in 1 .. n : slices[k] \in TileParams
  OBVIOUS
<1>2. \A k \in 0 .. n : f[k] = PlaceStep(f, ready, slices, adjust, size, mem, k)
  BY DEF Placing
<1> HIDE DEF n
<1>3. P(0)
  <2>1. f[0] = [c |-> ready, stop |-> FALSE]
    <3>1. 0 \in 0 .. n
      BY <1>1
    <3>2. f[0] = PlaceStep(f, ready, slices, adjust, size, mem, 0)
      BY <1>2, <3>1
    <3> QED
      BY <3>2 DEF PlaceStep
  <2>2. f[0].c = ready /\ f[0].stop = FALSE
    BY <2>1
  <2> QED
    BY <2>2 DEF Placeable
<1>4. ASSUME NEW j \in Nat, j + 1 <= n, P(j) PROVE P(j + 1)
  <2> DEFINE k == j + 1
             s == slices[k]
             a == f[j]
             r == f[k]
  <2>1. k \in 0 .. n /\ k # 0 /\ k - 1 = j /\ s \in TileParams
    BY <1>1, <1>4
  <2>2. r = PlaceTile(a, s, adjust, size, mem)
    <3> HIDE DEF k
    <3> QED
      BY <1>2, <2>1 DEF PlaceStep
  <2>3. Placeable(a, adjust) /\ a.stop \in BOOLEAN
    BY <1>4
  <2> HIDE DEF s, a, r
  <2>4. Placeable(r, adjust) /\ r.stop \in BOOLEAN
    BY <2>1, <2>2, <2>3, TileHeld
  <2> QED
    BY <2>4 DEF r
<1>5. T = {}
  <2> SUFFICES ASSUME T # {} PROVE FALSE
    OBVIOUS
  <2> HIDE DEF P
  <2>1. PICK k \in T : \A y \in T : k <= y
    <3>1. T \in SUBSET Nat
      OBVIOUS
    <3> HIDE DEF T
    <3> QED
      BY <3>1, LeastNat
  <2>2. CASE k = 0
    BY <1>3, <2>2
  <2>3. CASE k # 0
    <3>1. k - 1 \in Nat /\ k - 1 \notin T /\ k = (k - 1) + 1 /\ k <= n /\ k - 1 <= n
      BY <1>1, <2>1, <2>3
    <3> DEFINE j == k - 1
    <3>2. j \in Nat /\ P(j) /\ k = j + 1 /\ j + 1 <= n
      BY <3>1
    <3> HIDE DEF j
    <3>3. P(k)
      BY <1>4, <3>2
    <3> QED
      BY <3>3
  <2> QED
    BY <2>2, <2>3
<1>6. P(n)
  <2> HIDE DEF P
  <2> QED
    BY <1>1, <1>5
<1> QED
  BY <1>6 DEF n

\* The context after a call of the handler.
Outcome(c) == TilesInv(c) /\ (Working(c) \/ Failing(c))

\* compactAV1BitstreamToCurrentFrame.
LEMMA CompactInv ==
    ASSUME NEW c, Outcome(c), Failing(c) \/ Tiles(c) >= c.numSlices, NEW d, d = CompactAV1Bitstream(c)
    PROVE  Outcome(d)
<1> DEFINE start == FindObuStart(Contents(c.bitstream), c.av1.min)
           end == c.av1.maxEnd
           skip == \/ c.av1.compacted \/ c.bitstream.allocated = 0 \/ c.av1.seen = {}
                   \/ end > c.bitstream.size \/ c.av1.min >= end
                   \/ start = 0 \/ start >= end
           cells == [i \in DOMAIN c.offsets.cells |->
                        IF i <= 2 * c.numSlices /\ c.offsets.cells[i] >= start
                        THEN c.offsets.cells[i] - start ELSE c.offsets.cells[i]]
           k == end - start
           e == [c EXCEPT !.offsets.cells = cells, !.dataOffset = start, !.bitstream.size = k,
                          !.dataLen = k, !.av1.compacted = TRUE]
<1>1. d = IF skip THEN c ELSE e
  BY Zenon DEF CompactAV1Bitstream
<1>2. CASE skip
  BY <1>1, <1>2
<1> SUFFICES ASSUME ~skip PROVE Outcome(d)
  BY <1>2
<1>3. d = e /\ c.av1.seen # {} /\ ~c.av1.compacted
  BY <1>1
<1>4. /\ TilesInv(c) /\ Records(c) /\ Counted(c) /\ {"seen", "intervals", "min", "maxEnd", "compacted"} \subseteq DOMAIN c.av1
      /\ {"cells", "size", "allocated", "failed"} \subseteq DOMAIN c.offsets
      /\ {"cells", "size", "allocated", "failed"} \subseteq DOMAIN c.bitstream
  BY DEF Outcome, TilesInv, Records, TileFields, BufferFields
<1>5. {"bitstream", "offsets", "params", "av1", "sliceCount", "picture", "numSlices", "invalid", "dataOffset", "dataLen"} \subseteq DOMAIN c
  BY <1>4 DEF Records, ContextFields
<1> DEFINE v == [c.av1 EXCEPT !.compacted = TRUE]
           o == [c.offsets EXCEPT !.cells = cells]
           b == [c.bitstream EXCEPT !.size = k]
<1>6. e = [c EXCEPT !.offsets = o, !.dataOffset = start, !.bitstream = b, !.dataLen = k, !.av1 = v]
  <2> HIDE DEF cells, start, k
  <2> QED
    BY Zenon
<1> HIDE DEF e, skip, cells, start, k
<1>7. DOMAIN v = DOMAIN c.av1 /\ v.intervals = c.av1.intervals /\ v.seen = c.av1.seen /\ v.compacted = TRUE
  BY <1>4
<1>8. DOMAIN o = DOMAIN c.offsets /\ o.failed = c.offsets.failed
      /\ DOMAIN b = DOMAIN c.bitstream /\ b.failed = c.bitstream.failed
  BY <1>4
<1> HIDE DEF v, o, b
<1>9. /\ DOMAIN d = DOMAIN c /\ d.av1 = v /\ d.offsets = o /\ d.bitstream = b /\ d.params = c.params
      /\ d.sliceCount = c.sliceCount /\ d.picture = c.picture /\ d.numSlices = c.numSlices /\ d.invalid = c.invalid
  BY <1>3, <1>5, <1>6
<1>10. Records(d)
  BY <1>4, <1>7, <1>8, <1>9 DEF Records
<1>11. Counted(d) /\ Paired(d)
  BY <1>4, <1>7, <1>9 DEF Counted, Paired
<1>12. CASE Failing(c)
  <2>1. Failing(d)
    BY <1>8, <1>9, <1>12 DEF Failing, OutOfMemory
  <2> QED
    BY <1>10, <1>11, <2>1 DEF Outcome, TilesInv
<1>13. CASE ~Failing(c)
  <2> DEFINE n == c.numSlices
             ts == c.av1.seen
             D == 0 .. n - 1
  <2>1. Working(c) /\ Tiles(c) >= n
    BY <1>13 DEF Outcome
  <2>2. n \in Nat /\ ts \subseteq D /\ IsFiniteSet(ts) /\ Cardinality(ts) >= n
    <3>1. n \in Nat /\ ts \subseteq D
      BY <2>1 DEF Working
    <3>2. IsFiniteSet(ts)
      BY <1>4 DEF Counted
    <3>3. Cardinality(ts) >= n
      BY <2>1 DEF Tiles
    <3> QED
      BY <3>1, <3>2, <3>3
  <2>3. IsFiniteSet(D) /\ Cardinality(D) = n
    <3> HIDE DEF n
    <3>1. 0 \in Int /\ n - 1 \in Int
      BY <2>2
    <3>2. /\ IsFiniteSet(0 .. n - 1)
          /\ Cardinality(0 .. n - 1) = IF 0 > n - 1 THEN 0 ELSE n - 1 - 0 + 1
      BY <3>1, FS_Interval
    <3>3. (IF 0 > n - 1 THEN 0 ELSE n - 1 - 0 + 1) = n
      BY <2>2
    <3> QED
      BY <3>2, <3>3
  <2>4. ts = D
    <3> HIDE DEF ts, D
    <3>1. Cardinality(ts) \in Nat /\ Cardinality(ts) <= Cardinality(D) /\ (Cardinality(ts) = Cardinality(D) => ts = D)
      BY <2>2, <2>3, FS_Subset, FS_CardinalityType
    <3> QED
      BY <2>2, <2>3, <3>1
  <2>5. n # 0
    <3> SUFFICES ASSUME n = 0 PROVE FALSE
      OBVIOUS
    <3>1. D = {}
      OBVIOUS
    <3> QED
      BY <1>3, <2>4, <3>1
  <2>6. Working(d)
    <3>1. /\ c.picture.cols \in Nat /\ c.params.cells \in Seq(TileParams) /\ c.sliceCount \in 0 .. Len(c.params.cells)
      BY <2>1 DEF Working
    <3> QED
      BY <1>7, <1>9, <2>2, <2>4, <2>5, <3>1 DEF Working
  <2> QED
    BY <1>10, <1>11, <2>6 DEF Outcome, TilesInv
<1> QED
  BY <1>12, <1>13

\* The end of setAV1SliceOffsets and of copyAV1SliceData.
LEMMA AfterTilesInv ==
    ASSUME NEW a, Outcome(a.c), NEW hadData
    PROVE  Outcome(AfterTiles(a, hadData))
<1> DEFINE c == a.c
<1>1. CASE ~a.stop /\ hadData /\ Tiles(c) >= c.numSlices
  <2>1. AfterTiles(a, hadData) = CompactAV1Bitstream(c)
    BY <1>1 DEF AfterTiles
  <2>2. Outcome(c)
    OBVIOUS
  <2> HIDE DEF c
  <2> QED
    BY <1>1, <2>1, <2>2, CompactInv
<1>2. CASE ~(~a.stop /\ hadData /\ Tiles(c) >= c.numSlices)
  BY <1>2 DEF AfterTiles
<1> QED
  BY <1>1, <1>2

-----------------------------------------------------------------------------
(* The AV1 handlers.                                                       *)

\* setAV1SliceOffsets.
LEMMA OffsetsSet ==
    ASSUME NEW c, TilesInv(c), Working(c), NEW slices \in Seq(TileParams), NEW adjust, ~c.av1.compacted => adjust \in Nat,
           NEW size, NEW mem
    PROVE  Outcome(SetAV1SliceOffsets(c, slices, adjust, size, mem))
<1> DEFINE n == IF c.numSlices # 0 THEN c.numSlices ELSE Len(slices)
           ready == EnsureOffsets([c EXCEPT !.numSlices = n], n, mem)
           f == CHOOSE f : f = [k \in 0 .. Len(slices) |->
                   IF k = 0 THEN [c |-> ready, stop |-> FALSE] ELSE PlaceTile(f[k - 1], slices[k], adjust, size, mem)]
           e == [c EXCEPT !.numSlices = n]
           a == f[Len(slices)]
           had == c.bitstream.size > 0
           r == SetAV1SliceOffsets(c, slices, adjust, size, mem)
<1>1. r = IF n > MaxTiles THEN Invalid(e)
          ELSE IF ready.offsets.failed THEN ready
          ELSE AfterTiles(a, had)
  BY Zenon DEF SetAV1SliceOffsets
<1>2. TilesInv(e)
  <2>1. Records(c) /\ ContextFields \subseteq DOMAIN c
    BY DEF TilesInv, Records
  <2> HIDE DEF n
  <2>2. DOMAIN e = DOMAIN c /\ e.av1 = c.av1 /\ e.offsets = c.offsets /\ e.bitstream = c.bitstream /\ e.params = c.params
    BY <2>1 DEF ContextFields
  <2> QED
    BY <2>2 DEF TilesInv, Records, Counted, Paired
<1>3. n = TileCount(c, slices) /\ ready = WithTiles(c, n, mem)
  BY DEF TileCount, WithTiles
<1> HIDE DEF n, ready
<1>4. CASE n > MaxTiles
  <2>1. r = Invalid(e)
    BY <1>1, <1>4
  <2> HIDE DEF r, e
  <2>2. TilesInv(Invalid(e)) /\ Failing(Invalid(e))
    BY <1>2, RefusedInv
  <2> QED
    BY <2>1, <2>2 DEF Outcome, r
<1>5. /\ TilesInv(ready) /\ ready.av1 = c.av1
      /\ ready.offsets.failed \/ (Working(ready) /\ Sized(ready))
  <2> HIDE DEF e, f, a, had, r
  <2> QED
    BY <1>3, OffsetsReady
<1>6. CASE ~(n > MaxTiles) /\ ready.offsets.failed
  <2>1. r = ready
    BY <1>1, <1>6
  <2> HIDE DEF r
  <2> QED
    BY <1>5, <1>6, <2>1 DEF Outcome, Failing, OutOfMemory, r
<1>7. CASE ~(n > MaxTiles) /\ ~ready.offsets.failed
  <2>1. Placing(f, ready, slices, adjust, size, mem)
    <3>1. \E g : Placing(g, ready, slices, adjust, size, mem)
      BY PlacingDefined
    <3> QED
      BY <3>1 DEF Placing, PlaceStep
  <2>2. Placeable(a, adjust)
    <3>1. TilesInv(ready) /\ Working(ready) /\ Sized(ready) /\ (~ready.av1.compacted => adjust \in Nat)
      BY <1>5, <1>7
    <3> HIDE DEF f
    <3> QED
      BY <2>1, <3>1, PlacingHeld
  <2>3. r = AfterTiles(a, had)
    BY <1>1, <1>7
  <2> HIDE DEF a, had, r
  <2>4. Outcome(a.c)
    BY <2>2 DEF Placeable, Outcome
  <2>5. Outcome(r)
    BY <2>3, <2>4, AfterTilesInv
  <2> QED
    BY <2>5 DEF r
<1> QED
  BY <1>4, <1>6, <1>7

\* Only the number of parameters is another.
LEMMA CountSet ==
    ASSUME NEW c, TilesInv(c), NEW n, NEW d, d = [c EXCEPT !.sliceCount = n]
    PROVE  /\ TilesInv(d) /\ d.av1 = c.av1 /\ d.params = c.params /\ d.bitstream = c.bitstream /\ d.sliceCount = n
           /\ Failing(c) => Failing(d)
           /\ Working(c) /\ n \in 0 .. Len(c.params.cells) => Working(d)
<1>1. ContextFields \subseteq DOMAIN c
  BY DEF TilesInv, Records
<1>2. {"bitstream", "offsets", "params", "av1", "sliceCount", "picture", "numSlices", "invalid"} \subseteq DOMAIN c
  BY <1>1 DEF ContextFields
<1>3. /\ DOMAIN d = DOMAIN c /\ d.av1 = c.av1 /\ d.offsets = c.offsets /\ d.bitstream = c.bitstream /\ d.params = c.params
      /\ d.sliceCount = n /\ d.picture = c.picture /\ d.numSlices = c.numSlices /\ d.invalid = c.invalid
  BY <1>2
<1>4. TilesInv(d)
  BY <1>3 DEF TilesInv, Records, Counted, Paired
<1>5. Failing(c) => Failing(d)
  BY <1>3 DEF Failing, OutOfMemory
<1>6. Working(c) /\ n \in 0 .. Len(c.params.cells) => Working(d)
  BY <1>3 DEF Working
<1> QED
  BY <1>3, <1>4, <1>5, <1>6

\* The parameters that are remembered.
LEMMA SlicesAre ==
    ASSUME NEW c, Working(c)
    PROVE  Slices(c) \in Seq(TileParams)
<1>1. c.params.cells \in Seq(TileParams) /\ c.sliceCount \in 0 .. Len(c.params.cells)
  BY DEF Working
<1> QED
  BY <1>1 DEF Slices

\* copyAV1SliceParam, with the new parameters in c.
LEMMA TileParamsInv ==
    ASSUME NEW c, NEW r, r = RememberSlices(c), TilesInv(r), Working(r), NEW mem
    PROVE  Outcome(CopyAV1SliceParam(c, mem))
<1> DEFINE slices == Slices(r)
           size == c.bitstream.size
           x == SetAV1SliceOffsets(r, slices, 0, size, mem)
           y == [x EXCEPT !.sliceCount = 0]
<1>1. CopyAV1SliceParam(c, mem) = IF size = 0 THEN r ELSE y
  BY Zenon DEF CopyAV1SliceParam
<1>2. slices \in Seq(TileParams)
  BY SlicesAre
<1> HIDE DEF slices, size
<1>3. Outcome(x)
  <2> DEFINE z == 0
  <2>1. z \in Nat
    OBVIOUS
  <2> HIDE DEF z
  <2>2. Outcome(SetAV1SliceOffsets(r, slices, z, size, mem))
    BY <1>2, <2>1, OffsetsSet
  <2> QED
    BY <2>2 DEF z
<1> HIDE DEF x
<1>4. Outcome(y)
  <2> DEFINE z == 0
  <2>1. y = [x EXCEPT !.sliceCount = z]
    OBVIOUS
  <2>2. Working(x) => z \in 0 .. Len(x.params.cells)
    <3> SUFFICES ASSUME Working(x) PROVE 0 \in 0 .. Len(x.params.cells)
      OBVIOUS
    <3>1. x.params.cells \in Seq(TileParams)
      BY DEF Working
    <3> QED
      BY <3>1
  <2> HIDE DEF y, z
  <2>3. TilesInv(y) /\ (Failing(x) => Failing(y)) /\ (Working(x) => Working(y))
    BY <1>3, <2>1, <2>2, CountSet DEF Outcome
  <2> QED
    BY <1>3, <2>3 DEF Outcome
<1> HIDE DEF y
<1> QED
  BY <1>1, <1>4 DEF Outcome

\* What an append leaves of a buffer's size and of its flag.
LEMMA AppendedSize ==
    ASSUME NEW b, BufferFields \subseteq DOMAIN b, NEW data, Len(data) \in Nat, NEW mem, NEW o, o = AppendBuffer(b, data, mem)
    PROVE  /\ DOMAIN o = DOMAIN b /\ (b.size \in Nat => o.size \in Nat) /\ (b.failed => o.failed)
<1>1. {"cells", "size", "allocated", "failed"} \subseteq DOMAIN b
  BY DEF BufferFields
<1> DEFINE G == GrownCapacity(b.allocated, b.size + Len(data))
           C == Contents(b)
           bf == [b EXCEPT !.failed = TRUE]
           bg == [b EXCEPT !.allocated = G, !.cells = C]
           r == ReserveAdditional(b, Len(data), mem)
           X == Overwrite(r.cells, b.size, data)
           k == b.size + Len(data)
           w == [r EXCEPT !.cells = X, !.size = k]
<1>2. r \in {b, bf, bg}
  BY Zenon DEF ReserveAdditional, ReserveBuffer
<1>3. o \in {b, r, w}
  BY Zenon DEF AppendBuffer
<1>4. b.size \in Nat => k \in Nat
  OBVIOUS
<1> HIDE DEF X, k, r, G, C
<1>5. /\ bf.failed = TRUE /\ bf.size = b.size /\ DOMAIN bf = DOMAIN b
      /\ bg.failed = b.failed /\ bg.size = b.size /\ DOMAIN bg = DOMAIN b
  BY <1>1
<1> HIDE DEF bf, bg
<1>6. DOMAIN r = DOMAIN b /\ r.size = b.size /\ (b.failed => r.failed)
  BY <1>2, <1>5
<1>7. w.size = k /\ DOMAIN w = DOMAIN b /\ w.failed = r.failed
  BY <1>1, <1>6
<1> HIDE DEF w
<1> QED
  BY <1>3, <1>4, <1>6, <1>7

\* The data is appended and committed.
LEMMA DataAppended ==
    ASSUME NEW c, Outcome(c), NEW data, Len(data) \in Nat, NEW mem,
           NEW d, d = Commit([c EXCEPT !.bitstream = AppendBuffer(@, data, mem)])
    PROVE  Outcome(d)
<1> DEFINE b == AppendBuffer(c.bitstream, data, mem)
           e == [c EXCEPT !.bitstream = b]
<1>1. ContextFields \subseteq DOMAIN c /\ BufferFields \subseteq DOMAIN c.bitstream
  BY DEF Outcome, TilesInv, Records
<1>2. {"bitstream", "offsets", "params", "av1", "sliceCount", "picture", "numSlices", "invalid", "dataLen"} \subseteq DOMAIN c
  BY <1>1 DEF ContextFields
<1>3. /\ DOMAIN b = DOMAIN c.bitstream /\ (c.bitstream.size \in Nat => b.size \in Nat)
      /\ (c.bitstream.failed => b.failed)
  <2> DEFINE u == c.bitstream
  <2>1. BufferFields \subseteq DOMAIN u /\ b = AppendBuffer(u, data, mem)
    BY <1>1
  <2> HIDE DEF u, b
  <2>2. DOMAIN b = DOMAIN u /\ (u.size \in Nat => b.size \in Nat) /\ (u.failed => b.failed)
    BY <2>1, AppendedSize
  <2> QED
    BY <2>2 DEF u
<1>4. d = [e EXCEPT !.dataLen = e.bitstream.size]
  BY DEF Commit
<1> HIDE DEF b
<1>5. /\ DOMAIN e = DOMAIN c /\ e.av1 = c.av1 /\ e.offsets = c.offsets /\ e.bitstream = b /\ e.params = c.params
      /\ e.sliceCount = c.sliceCount /\ e.picture = c.picture /\ e.numSlices = c.numSlices /\ e.invalid = c.invalid
  BY <1>2
<1> HIDE DEF e
<1> DEFINE k == e.bitstream.size
<1>6. d = [e EXCEPT !.dataLen = k]
  BY <1>4
<1> HIDE DEF k
<1>7. /\ DOMAIN d = DOMAIN c /\ d.av1 = c.av1 /\ d.offsets = c.offsets /\ d.bitstream = b /\ d.params = c.params
      /\ d.sliceCount = c.sliceCount /\ d.picture = c.picture /\ d.numSlices = c.numSlices /\ d.invalid = c.invalid
  BY <1>2, <1>5, <1>6
<1>8. TilesInv(d)
  BY <1>3, <1>7 DEF Outcome, TilesInv, Records, Counted, Paired
<1>9. Failing(c) => Failing(d)
  BY <1>3, <1>7 DEF Failing, OutOfMemory
<1>10. Working(c) => Working(d)
  BY <1>3, <1>7 DEF Working
<1> QED
  BY <1>8, <1>9, <1>10 DEF Outcome

\* copyAV1SliceData.
LEMMA TileDataInv ==
    ASSUME NEW c, TilesInv(c), Working(c), NEW data, Len(data) \in Nat, NEW mem
    PROVE  Outcome(CopyAV1SliceData(c, data, mem))
<1> DEFINE slices == Slices(c)
           adjust == c.bitstream.size
           size == Len(data)
           s == SetAV1SliceOffsets(c, slices, adjust, size, mem)
           r == IF c.sliceCount = 0 THEN c ELSE s
           d == Commit([r EXCEPT !.bitstream = AppendBuffer(@, data, mem)])
           a == [c |-> d, stop |-> FALSE]
<1>1. CopyAV1SliceData(c, data, mem) = IF ~CanAppend(c, size) THEN Invalid(c) ELSE AfterTiles(a, TRUE)
  BY Zenon DEF CopyAV1SliceData
<1>2. slices \in Seq(TileParams)
  BY SlicesAre
<1>3. ~c.av1.compacted => adjust \in Nat
  BY DEF Working
<1>4. Outcome(s)
  <2> HIDE DEF slices, adjust, size
  <2> QED
    BY <1>2, <1>3, OffsetsSet
<1>5. Outcome(r)
  <2> HIDE DEF s
  <2> QED
    BY <1>4 DEF Outcome
<1> HIDE DEF r
<1>6. Outcome(d)
  <2>1. d = Commit([r EXCEPT !.bitstream = AppendBuffer(@, data, mem)])
    OBVIOUS
  <2> HIDE DEF d
  <2> QED
    BY <1>5, <2>1, DataAppended
<1> HIDE DEF d
<1>7. a.c = d
  OBVIOUS
<1> HIDE DEF a
<1>8. Outcome(AfterTiles(a, TRUE))
  BY <1>6, <1>7, AfterTilesInv
<1>9. TilesInv(Invalid(c)) /\ Failing(Invalid(c))
  BY RefusedInv
<1> HIDE DEF size
<1> QED
  BY <1>1, <1>8, <1>9 DEF Outcome

\* copyAV1PicParam: a new picture.
LEMMA PictureInv ==
    ASSUME NEW c, TilesInv(c), Blank(c), NEW p \in Pictures["AV1"], "AV1" \in CodecNames
    PROVE  Outcome(CopyAV1PicParam(c, p))
<1>1. CASE ~p.usable
  <2>1. CopyAV1PicParam(c, p) = Invalid(c)
    BY <1>1 DEF CopyAV1PicParam
  <2>2. TilesInv(Invalid(c)) /\ Failing(Invalid(c))
    BY RefusedInv
  <2> QED
    BY <2>1, <2>2 DEF Outcome
<1>2. CASE p.usable
  <2> DEFINE jx == ResetIndex(c.av1.intervals)
             v == [NoTiles EXCEPT !.intervals = jx]
             n == p.cols * p.rows
             i == p.intra
             d == [c EXCEPT !.picture = p, !.intra = i, !.numSlices = n, !.av1 = v]
  <2>1. CopyAV1PicParam(c, p) = d
    BY <1>2 DEF CopyAV1PicParam
  <2>2. p.cols \in Nat /\ p.rows \in Nat
    BY <1>2, CodecAssumption
  <2>3. n \in Nat
    <3> DEFINE x == p.cols
               y == p.rows
    <3>1. x \in Nat /\ y \in Nat
      BY <2>2
    <3> HIDE DEF x, y
    <3>2. x * y \in Nat
      BY <3>1
    <3> QED
      BY <3>2 DEF x, y
  <2>4. IndexOK(jx) /\ Ranges(jx) = {}
    <3> DEFINE ix == c.av1.intervals
    <3>1. IndexOK(ix)
      BY DEF TilesInv, Counted
    <3> HIDE DEF ix
    <3>2. IndexOK(ResetIndex(ix)) /\ Ranges(ResetIndex(ix)) = {}
      BY <3>1, ResetIndexOK
    <3> QED
      BY <3>2 DEF ix
  <2> HIDE DEF jx, n, i
  <2>5. v.seen = {} /\ v.intervals = jx /\ v.compacted = FALSE /\ TileFields \subseteq DOMAIN v
    BY DEF NoTiles, TileFields
  <2> HIDE DEF v
  <2>6. ContextFields \subseteq DOMAIN c
    BY DEF TilesInv, Records
  <2>7. /\ DOMAIN d = DOMAIN c /\ d.av1 = v /\ d.offsets = c.offsets /\ d.bitstream = c.bitstream
        /\ d.params = c.params /\ d.sliceCount = c.sliceCount /\ d.picture = p /\ d.numSlices = n
    BY <2>6 DEF ContextFields
  <2> HIDE DEF d
  <2>8. Records(d)
    BY <2>5, <2>7 DEF TilesInv, Records
  <2>9. Counted(d)
    BY <2>4, <2>5, <2>7, FS_EmptySet DEF Counted
  <2>10. Paired(d)
    BY <2>7 DEF Paired, Blank
  <2>11. Working(d)
    <3>1. << >> \in Seq(TileParams) /\ << >> \in Seq(Nat) /\ 0 \in 0 .. Len(<< >>)
      OBVIOUS
    <3>2. d.params.cells = << >> /\ d.sliceCount = 0 /\ d.offsets.cells = << >> /\ d.offsets.size = 0 /\ d.bitstream.size = 0
      BY <2>7 DEF Blank
    <3> QED
      BY <2>2, <2>3, <2>5, <2>7, <3>1, <3>2 DEF Working
  <2> QED
    BY <2>1, <2>8, <2>9, <2>10, <2>11 DEF Outcome, TilesInv
<1> QED
  BY <1>1, <1>2

\* The driver's copy of the parameters: all of them or none.
Emptied(b) == [b EXCEPT !.size = 0, !.cells = << >>]
Copied(b, o, data) ==
    DOMAIN o = DOMAIN b /\ o.cells \in {data, << >>} /\ o.size = Len(o.cells)
LEMMA CopyOfParams ==
    ASSUME NEW b, BufferFields \subseteq DOMAIN b, NEW X, NEW data \in Seq(X), NEW mem,
           NEW o, o = AppendBuffer(Emptied(b), data, mem)
    PROVE  Copied(b, o, data)
<1> DEFINE e == Emptied(b)
           m == Len(data)
           G == GrownCapacity(e.allocated, e.size + m)
           C == Contents(e)
           r == ReserveAdditional(e, m, mem)
           ef == [e EXCEPT !.failed = TRUE]
           eg == [e EXCEPT !.allocated = G, !.cells = C]
           W == Overwrite(r.cells, e.size, data)
           k == e.size + m
           w == [r EXCEPT !.cells = W, !.size = k]
<1>1. {"cells", "size", "allocated", "failed"} \subseteq DOMAIN b
  BY DEF BufferFields
<1>2. DOMAIN e = DOMAIN b /\ e.cells = << >> /\ e.size = 0
  BY <1>1 DEF Emptied
<1>3. m \in Nat
  OBVIOUS
<1>4. o = IF m = 0 THEN e ELSE IF ~CanReserve(e, m, mem) THEN r ELSE w
  BY Zenon DEF AppendBuffer
<1>5. r \in {e, ef, eg}
  BY Zenon DEF ReserveAdditional, ReserveBuffer
<1>6. C = << >>
  BY <1>2 DEF Contents
<1> HIDE DEF e, m, G, C, r
<1>7. /\ DOMAIN ef = DOMAIN b /\ ef.cells = << >> /\ ef.size = 0 /\ ef.failed = TRUE
      /\ DOMAIN eg = DOMAIN b /\ eg.cells = << >> /\ eg.size = 0
  BY <1>1, <1>2, <1>6
<1> HIDE DEF ef, eg
<1>8. DOMAIN r = DOMAIN b /\ r.cells = << >> /\ r.size = 0
  BY <1>2, <1>5, <1>7
<1>9. W = data
  <2>1. SubSeq(<< >>, 1, 0) = << >> /\ Len(<< >>) = 0
    OBVIOUS
  <2>2. SubSeq(<< >>, 0 + m + 1, 0) = << >>
    BY <1>3
  <2>3. W = << >> \o data \o << >>
    BY <1>2, <1>8, <2>1, <2>2 DEF Overwrite, m
  <2>4. << >> \o data = data /\ data \o << >> = data
    OBVIOUS
  <2> QED
    BY <2>3, <2>4
<1>10. k = m
  BY <1>2, <1>3
<1> HIDE DEF W, k
<1>11. w.cells = W /\ w.size = k /\ DOMAIN w = DOMAIN b
  BY <1>1, <1>8
<1> HIDE DEF w
<1>12. o \in {e, r, w}
  BY <1>4
<1>13. Len(<< >>) = 0
  OBVIOUS
<1> QED
  BY <1>2, <1>8, <1>9, <1>10, <1>11, <1>12, <1>13 DEF Copied, m

\* A slice parameter buffer of AV1: its copy, then the handler.
LEMMA ParamsInv ==
    ASSUME codec = "AV1", NEW c, TilesInv(c), Working(c), NEW slices \in Seq(TileParams), NEW mem,
           NEW copy, copy = AppendBuffer(Emptied(c.params), slices, mem),
           NEW d, d = [c EXCEPT !.params = copy]
    PROVE  Outcome(IF copy.failed THEN d ELSE SliceParam(d, mem))
<1>1. ContextFields \subseteq DOMAIN c /\ BufferFields \subseteq DOMAIN c.params
  BY DEF TilesInv, Records
<1>2. {"bitstream", "offsets", "params", "av1", "sliceCount", "picture", "numSlices", "invalid"} \subseteq DOMAIN c
  BY <1>1 DEF ContextFields
<1>3. Copied(c.params, copy, slices)
  <2> DEFINE b == c.params
  <2>1. BufferFields \subseteq DOMAIN b /\ copy = AppendBuffer(Emptied(b), slices, mem)
    BY <1>1
  <2> HIDE DEF b
  <2>2. Copied(b, copy, slices)
    BY <2>1, CopyOfParams
  <2> QED
    BY <2>2 DEF b
<1>4. DOMAIN copy = DOMAIN c.params
  BY <1>3 DEF Copied
<1>5. /\ DOMAIN d = DOMAIN c /\ d.av1 = c.av1 /\ d.offsets = c.offsets /\ d.bitstream = c.bitstream /\ d.params = copy
      /\ d.sliceCount = c.sliceCount /\ d.picture = c.picture /\ d.numSlices = c.numSlices
  BY <1>2
<1>6. TilesInv(d)
  BY <1>4, <1>5 DEF TilesInv, Records, Counted, Paired
<1>7. CASE copy.failed
  <2>1. Failing(d)
    BY <1>5, <1>7 DEF Failing, OutOfMemory
  <2> QED
    BY <1>6, <1>7, <2>1 DEF Outcome
<1>8. CASE ~copy.failed
  <2> DEFINE r == RememberSlices(d)
             k == d.params.size
  <2>1. r = [d EXCEPT !.sliceCount = k]
    BY DEF RememberSlices
  <2>2. d.params.cells \in {slices, << >>} /\ k = Len(d.params.cells)
    BY <1>3, <1>5 DEF Copied, k
  <2> HIDE DEF r, k
  <2>3. /\ DOMAIN r = DOMAIN d /\ r.av1 = d.av1 /\ r.offsets = d.offsets /\ r.bitstream = d.bitstream /\ r.params = d.params
        /\ r.sliceCount = k /\ r.picture = d.picture /\ r.numSlices = d.numSlices
    BY <1>2, <1>5, <2>1
  <2>4. TilesInv(r)
    BY <1>6, <2>3 DEF TilesInv, Records, Counted, Paired
  <2>5. Working(r)
    <3>1. r.params.cells \in Seq(TileParams) /\ r.sliceCount \in 0 .. Len(r.params.cells)
      <4> DEFINE cells == r.params.cells
      <4>1. cells \in {slices, << >>} /\ r.sliceCount = Len(cells)
        BY <2>2, <2>3
      <4> HIDE DEF cells
      <4>2. cells \in Seq(TileParams)
        <5>1. slices \in Seq(TileParams) /\ << >> \in Seq(TileParams)
          OBVIOUS
        <5> QED
          BY <4>1, <5>1, Zenon
      <4>3. Len(cells) \in 0 .. Len(cells)
        BY <4>2
      <4> QED
        BY <4>1, <4>2, <4>3 DEF cells
    <3>2. /\ r.av1 = c.av1 /\ r.offsets = c.offsets /\ r.bitstream = c.bitstream /\ r.picture = c.picture
          /\ r.numSlices = c.numSlices
      BY <1>5, <2>3
    <3> QED
      BY <3>1, <3>2 DEF Working
  <2>6. Outcome(CopyAV1SliceParam(d, mem))
    BY <2>4, <2>5, TileParamsInv DEF r
  <2>7. SliceParam(d, mem) = CopyAV1SliceParam(d, mem)
    BY DEF SliceParam
  <2> QED
    BY <1>8, <2>6, <2>7
<1> QED
  BY <1>7, <1>8

\* resetPictureBuild leaves nothing of a picture.
LEMMA ResetInv ==
    ASSUME NEW c, Records(c), Counted(c)
    PROVE  TilesInv(ResetPictureBuild(c)) /\ Blank(ResetPictureBuild(c))
<1> DEFINE b == [c.bitstream EXCEPT !.size = 0, !.cells = << >>, !.failed = FALSE]
           o == [c.offsets EXCEPT !.size = 0, !.cells = << >>, !.failed = FALSE]
           p == [c.params EXCEPT !.size = 0, !.cells = << >>, !.failed = FALSE]
           d == [c EXCEPT !.bitstream = b, !.offsets = o, !.params = p, !.sliceCount = 0, !.invalid = FALSE]
<1>1. ResetPictureBuild(c) = d
  BY DEF ResetPictureBuild
<1>2. /\ {"cells", "size", "allocated", "failed"} \subseteq DOMAIN c.bitstream
      /\ {"cells", "size", "allocated", "failed"} \subseteq DOMAIN c.offsets
      /\ {"cells", "size", "allocated", "failed"} \subseteq DOMAIN c.params
      /\ {"bitstream", "offsets", "params", "av1", "sliceCount", "invalid"} \subseteq DOMAIN c
  BY DEF Records, BufferFields, ContextFields
<1>3. /\ DOMAIN b = DOMAIN c.bitstream /\ b.size = 0 /\ DOMAIN o = DOMAIN c.offsets /\ o.size = 0 /\ o.cells = << >>
      /\ DOMAIN p = DOMAIN c.params /\ p.cells = << >>
  BY <1>2
<1> HIDE DEF b, o, p
<1>4. DOMAIN d = DOMAIN c /\ d.bitstream = b /\ d.offsets = o /\ d.params = p /\ d.sliceCount = 0 /\ d.av1 = c.av1
  BY <1>2
<1> HIDE DEF d
<1>5. Records(d)
  BY <1>3, <1>4 DEF Records
<1>6. Counted(d) /\ Paired(d) /\ Blank(d)
  BY <1>3, <1>4 DEF Counted, Paired, Blank
<1> QED
  BY <1>1, <1>5, <1>6 DEF TilesInv

\* The fields of a buffer after an attempt to trim it.
LEMMA TrimFields ==
    ASSUME NEW b, BufferFields \subseteq DOMAIN b, NEW k, NEW mem
    PROVE  DOMAIN TrimBuffer(b, k, mem) = DOMAIN b
<1> DEFINE cap == IF k < b.size THEN b.size ELSE k
           C == Contents(b)
           e == [b EXCEPT !.allocated = cap, !.cells = C]
<1>1. TrimBuffer(b, k, mem) \in {b, e}
  BY Zenon DEF TrimBuffer
<1> HIDE DEF cap, C
<1>2. DOMAIN e = DOMAIN b
  OBVIOUS
<1> HIDE DEF e
<1> QED
  BY <1>1, <1>2

\* maybeTrimContextHostBuffers.
LEMMA TrimInv ==
    ASSUME NEW c, Records(c), Counted(c), NEW was, NEW mem
    PROVE  Records(MaybeTrim(c, was, mem)) /\ Counted(MaybeTrim(c, was, mem))
<1> DEFINE idle(b, w) == Underused(b, w.size, TrimThreshold)
           trimmed(b, w) == IF idle(b, w) THEN TrimBuffer(b, TrimTarget(w.size, TrimThreshold), mem) ELSE b
           x == trimmed(c.bitstream, was.bitstream)
           y == trimmed(c.offsets, was.offsets)
           z == trimmed(c.params, was.params)
           k == c.underuse + 1
           e1 == [c EXCEPT !.underuse = 0]
           e2 == [c EXCEPT !.underuse = k]
           e3 == [c EXCEPT !.bitstream = x, !.offsets = y, !.params = z, !.underuse = 0]
<1>1. MaybeTrim(c, was, mem) \in {e1, e2, e3}
  BY Zenon DEF MaybeTrim
<1>2. ASSUME NEW b, NEW w, BufferFields \subseteq DOMAIN b PROVE DOMAIN trimmed(b, w) = DOMAIN b
  <2> DEFINE t == TrimTarget(w.size, TrimThreshold)
  <2> HIDE DEF t
  <2>1. DOMAIN TrimBuffer(b, t, mem) = DOMAIN b
    BY <1>2, TrimFields
  <2> QED
    BY <2>1 DEF t
<1>3. DOMAIN x = DOMAIN c.bitstream /\ DOMAIN y = DOMAIN c.offsets /\ DOMAIN z = DOMAIN c.params
  <2> HIDE DEF trimmed
  <2>1. BufferFields \subseteq DOMAIN c.bitstream /\ BufferFields \subseteq DOMAIN c.offsets /\ BufferFields \subseteq DOMAIN c.params
    BY DEF Records
  <2> QED
    BY <1>2, <2>1
<1>4. {"bitstream", "offsets", "params", "av1", "underuse"} \subseteq DOMAIN c
  BY DEF Records, ContextFields
<1> HIDE DEF x, y, z, k
<1>5. /\ DOMAIN e1 = DOMAIN c /\ e1.av1 = c.av1 /\ e1.bitstream = c.bitstream /\ e1.offsets = c.offsets /\ e1.params = c.params
      /\ DOMAIN e2 = DOMAIN c /\ e2.av1 = c.av1 /\ e2.bitstream = c.bitstream /\ e2.offsets = c.offsets /\ e2.params = c.params
      /\ DOMAIN e3 = DOMAIN c /\ e3.av1 = c.av1 /\ e3.bitstream = x /\ e3.offsets = y /\ e3.params = z
  BY <1>4
<1> HIDE DEF e1, e2, e3
<1>6. Records(e1) /\ Records(e2)
  BY <1>5 DEF Records
<1>7. Records(e3)
  BY <1>3, <1>5 DEF Records
<1>8. Counted(e1) /\ Counted(e2) /\ Counted(e3)
  BY <1>5 DEF Counted
<1> QED
  BY <1>1, <1>6, <1>7, <1>8

\* What nvEndPicture leaves.
Ended(c) == [c EXCEPT !.bitstream = [@ EXCEPT !.size = 0, !.cells = << >>],
                      !.offsets = [@ EXCEPT !.size = 0, !.cells = << >>]]
LEMMA EndInv ==
    ASSUME NEW c, TilesInv(c), NEW mem, NEW d, d = ResetPictureBuild(MaybeTrim(Ended(c), c, mem)) \/ d = ResetPictureBuild(c)
    PROVE  TilesInv(d) /\ Blank(d)
<1> DEFINE b == [c.bitstream EXCEPT !.size = 0, !.cells = << >>]
           o == [c.offsets EXCEPT !.size = 0, !.cells = << >>]
           e == Ended(c)
           m == MaybeTrim(e, c, mem)
<1>1. e = [c EXCEPT !.bitstream = b, !.offsets = o]
  BY DEF Ended
<1>2. /\ {"bitstream", "offsets", "params", "av1"} \subseteq DOMAIN c /\ Records(c) /\ Counted(c)
  BY DEF TilesInv, Records, ContextFields
<1>3. DOMAIN b = DOMAIN c.bitstream /\ DOMAIN o = DOMAIN c.offsets
  OBVIOUS
<1> HIDE DEF b, o, e
<1>4. DOMAIN e = DOMAIN c /\ e.bitstream = b /\ e.offsets = o /\ e.params = c.params /\ e.av1 = c.av1
  BY <1>1, <1>2
<1>5. Records(e) /\ Counted(e)
  BY <1>2, <1>3, <1>4 DEF Records, Counted
<1>6. Records(m) /\ Counted(m)
  BY <1>5, TrimInv
<1>7. d = ResetPictureBuild(m) \/ d = ResetPictureBuild(c)
  BY DEF m, e
<1> HIDE DEF m
<1>8. TilesInv(ResetPictureBuild(m)) /\ Blank(ResetPictureBuild(m))
  BY <1>6, ResetInv
<1>9. TilesInv(ResetPictureBuild(c)) /\ Blank(ResetPictureBuild(c))
  BY <1>2, ResetInv
<1> QED
  BY <1>7, <1>8, <1>9

\* What nvBeginPicture leaves, of AV1 and of the others.
Begun(c) == [c EXCEPT !.bitstream.failed = FALSE, !.offsets.failed = FALSE,
                      !.params.failed = FALSE, !.invalid = FALSE, !.dataOffset = 0,
                      !.picture = NONE, !.intra = FALSE, !.numSlices = 0, !.dataLen = 0,
                      !.matrix = <<0, 0>>]
LEMMA BegunFields ==
    ASSUME NEW c, Whole(c)
    PROVE  /\ DOMAIN Begun(c) = DOMAIN c /\ Begun(c).av1 = c.av1 /\ Begun(c).sliceCount = c.sliceCount
           /\ Begun(c).bitstream = [c.bitstream EXCEPT !.failed = FALSE]
           /\ Begun(c).offsets = [c.offsets EXCEPT !.failed = FALSE]
           /\ Begun(c).params = [c.params EXCEPT !.failed = FALSE]
<1> DEFINE b == [c.bitstream EXCEPT !.failed = FALSE]
           o == [c.offsets EXCEPT !.failed = FALSE]
           p == [c.params EXCEPT !.failed = FALSE]
           q == NONE
           x == <<0, 0>>
           d == [c EXCEPT !.bitstream = b, !.offsets = o, !.params = p, !.invalid = FALSE, !.dataOffset = 0,
                          !.picture = q, !.intra = FALSE, !.numSlices = 0, !.dataLen = 0, !.matrix = x]
<1>1. Begun(c) = d
  BY Zenon DEF Begun
<1>2. {"bitstream", "offsets", "params", "av1", "sliceCount"} \subseteq DOMAIN c
  BY DEF Whole, ContextFields
<1> HIDE DEF b, o, p, q, x
<1>3. DOMAIN d = DOMAIN c /\ d.av1 = c.av1 /\ d.sliceCount = c.sliceCount /\ d.bitstream = b /\ d.offsets = o /\ d.params = p
  BY <1>2
<1> HIDE DEF d
<1> QED
  BY <1>1, <1>3 DEF b, o, p

\* nvBeginPicture leaves the tiles of the last picture until its parameters come.
LEMMA BegunInv ==
    ASSUME NEW c, TilesInv(c), Blank(c)
    PROVE  TilesInv(Begun(c)) /\ Blank(Begun(c))
<1> DEFINE d == Begun(c)
           b == [c.bitstream EXCEPT !.failed = FALSE]
           o == [c.offsets EXCEPT !.failed = FALSE]
           p == [c.params EXCEPT !.failed = FALSE]
<1>1. Whole(c)
  BY DEF Whole, TilesInv, Records
<1>2. DOMAIN d = DOMAIN c /\ d.av1 = c.av1 /\ d.sliceCount = c.sliceCount /\ d.bitstream = b /\ d.offsets = o /\ d.params = p
  BY <1>1, BegunFields
<1>3. /\ {"cells", "size", "allocated", "failed"} \subseteq DOMAIN c.bitstream
      /\ {"cells", "size", "allocated", "failed"} \subseteq DOMAIN c.offsets
      /\ {"cells", "size", "allocated", "failed"} \subseteq DOMAIN c.params
  BY DEF TilesInv, Records, BufferFields
<1>4. /\ DOMAIN b = DOMAIN c.bitstream /\ b.size = c.bitstream.size
      /\ DOMAIN o = DOMAIN c.offsets /\ o.size = c.offsets.size /\ o.cells = c.offsets.cells
      /\ DOMAIN p = DOMAIN c.params /\ p.cells = c.params.cells
  BY <1>3
<1> HIDE DEF b, o, p, d
<1>5. Records(d)
  BY <1>2, <1>4 DEF TilesInv, Records
<1>6. Counted(d) /\ Blank(d) /\ Paired(d)
  BY <1>2, <1>4 DEF TilesInv, Counted, Blank, Paired
<1> QED
  BY <1>5, <1>6 DEF TilesInv, d

\* A new context.
LEMMA FreshInv ==
    TilesInv(FreshContext) /\ Blank(FreshContext) /\ FreshContext.av1 = NoTiles /\ Whole(FreshContext)
<1>1. /\ BufferFields \subseteq DOMAIN EmptyBuffer /\ EmptyBuffer.cells = << >> /\ EmptyBuffer.size = 0
  BY DEF BufferFields, EmptyBuffer
<1>2. NoTiles.seen = {} /\ NoTiles.intervals = EmptyIndex /\ NoTiles.compacted = FALSE /\ TileFields \subseteq DOMAIN NoTiles
  BY DEF NoTiles, TileFields
<1> DEFINE c == FreshContext
<1>3. /\ ContextFields \subseteq DOMAIN c /\ c.bitstream = EmptyBuffer /\ c.offsets = EmptyBuffer /\ c.params = EmptyBuffer
      /\ c.sliceCount = 0 /\ c.av1 = NoTiles
  BY DEF ContextFields, FreshContext
<1> HIDE DEF c
<1>4. Records(c) /\ Blank(c) /\ Paired(c) /\ Whole(c)
  BY <1>1, <1>2, <1>3 DEF Records, Blank, Paired, Whole
<1>5. Counted(c)
  BY <1>2, <1>3, EmptyIndexOK, FS_EmptySet DEF Counted
<1> QED
  BY <1>3, <1>4, <1>5 DEF TilesInv, c

-----------------------------------------------------------------------------
(* Every call of the client keeps the invariant.                           *)

\* The end of a call, for AV1 and for the other codecs.
LEMMA RenderedTiles ==
    ASSUME codec = "AV1", "AV1" \in CodecNames, NEW c, Outcome(c), NEW sent, ClientInv(sent), IsSet(sent.picture),
           NEW mem, Rendered(c, sent, mem)
    PROVE  CodecInv'
<1> DEFINE l == sent.lost \/ mem # SizeMax
<1>1. /\ ctx' = c /\ pictureState' = (IF c.invalid \/ OutOfMemory(c) THEN "failed" ELSE "building")
      /\ client' = [sent EXCEPT !.lost = l] /\ codec' = codec
  BY DEF Rendered
<1>2. {"order", "picture", "groups", "pending", "sent", "lost"} \subseteq DOMAIN sent
  BY DEF ClientInv, ClientFields
<1> HIDE DEF l
<1>3. /\ DOMAIN client' = DOMAIN sent /\ client'.picture = sent.picture /\ client'.groups = sent.groups
      /\ client'.sent = sent.sent /\ client'.pending = sent.pending
  BY <1>1, <1>2
<1>4. ClientInv(client')
  BY <1>3 DEF ClientInv
<1>5. pictureState' = "failed" \/ (pictureState' = "building" /\ Working(c))
  BY <1>1 DEF Outcome, Failing
<1>6. StageInv'
  BY <1>1, <1>3, <1>5 DEF StageInv
<1>7. TilesInv(ctx')
  BY <1>1 DEF Outcome
<1> QED
  BY <1>1, <1>4, <1>6, <1>7 DEF CodecInv

\* The same for the other codecs.
LEMMA RenderedOther ==
    ASSUME codec # "AV1", CodecInv, NEW c, Same(ctx, c), NEW sent, NEW mem, Rendered(c, sent, mem)
    PROVE  CodecInv'
<1>1. ctx' = c /\ codec' = codec
  BY DEF Rendered
<1>2. codec \in CodecNames /\ ContextFields \subseteq DOMAIN ctx /\ ctx.av1 = NoTiles
  BY DEF CodecInv
<1>3. ContextFields \subseteq DOMAIN c /\ c.av1 = NoTiles
  BY <1>2 DEF Same
<1> QED
  BY <1>1, <1>2, <1>3 DEF CodecInv

\* The client's record after a call.
LEMMA ClientSent ==
    ASSUME NEW k, ClientInv(k), NEW p, NEW n \in Nat, NEW g, g = NONE \/ g \in Groups["AV1"], NEW q \in Seq(Groups["AV1"])
    PROVE  /\ ClientInv([k EXCEPT !.picture = p]) /\ [k EXCEPT !.picture = p].picture = p
           /\ ClientInv([k EXCEPT !.sent = n]) /\ [k EXCEPT !.sent = n].picture = k.picture
           /\ ClientInv([k EXCEPT !.pending = g, !.sent = n]) /\ [k EXCEPT !.pending = g, !.sent = n].picture = k.picture
           /\ ClientInv([k EXCEPT !.groups = q, !.pending = g]) /\ [k EXCEPT !.groups = q, !.pending = g].picture = k.picture
           /\ ClientInv([k EXCEPT !.groups = q, !.sent = n]) /\ [k EXCEPT !.groups = q, !.sent = n].picture = k.picture
<1>1. {"picture", "groups", "pending", "sent"} \subseteq DOMAIN k
  BY DEF ClientInv, ClientFields
<1>2. ASSUME NEW j, DOMAIN j = DOMAIN k, j.groups \in {k.groups, q}, j.sent \in {k.sent, n}, j.pending \in {k.pending, g}
      PROVE  ClientInv(j)
  BY <1>2 DEF ClientInv
<1> DEFINE a == [k EXCEPT !.picture = p]
           b == [k EXCEPT !.sent = n]
           c == [k EXCEPT !.pending = g, !.sent = n]
           d == [k EXCEPT !.groups = q, !.pending = g]
           e == [k EXCEPT !.groups = q, !.sent = n]
<1>3. /\ DOMAIN a = DOMAIN k /\ a.groups = k.groups /\ a.sent = k.sent /\ a.pending = k.pending /\ a.picture = p
      /\ DOMAIN b = DOMAIN k /\ b.groups = k.groups /\ b.sent = n /\ b.pending = k.pending /\ b.picture = k.picture
      /\ DOMAIN c = DOMAIN k /\ c.groups = k.groups /\ c.sent = n /\ c.pending = g /\ c.picture = k.picture
  BY <1>1
<1>4. /\ DOMAIN d = DOMAIN k /\ d.groups = q /\ d.sent = k.sent /\ d.pending = g /\ d.picture = k.picture
      /\ DOMAIN e = DOMAIN k /\ e.groups = q /\ e.sent = n /\ e.pending = k.pending /\ e.picture = k.picture
  BY <1>1
<1> HIDE DEF a, b, c, d, e
<1>5. ClientInv(a) /\ ClientInv(b) /\ ClientInv(c) /\ ClientInv(d) /\ ClientInv(e)
  BY <1>2, <1>3, <1>4
<1> QED
  BY <1>3, <1>4, <1>5 DEF a, b, c, d, e

\* What the invariant says while a picture of AV1 is built.
LEMMA TilesState ==
    ASSUME CodecInv, codec = "AV1"
    PROVE  /\ TilesInv(ctx) /\ ClientInv(client) /\ "AV1" \in CodecNames
           /\ pictureState = "building" /\ IsSet(client.picture) => Working(ctx)
           /\ pictureState = "building" /\ ~IsSet(client.picture) => Blank(ctx) /\ client.groups = << >> /\ client.pending = NONE
           /\ pictureState = "idle" => Blank(ctx)
BY DEF CodecInv, StageInv

\* What the invariant says of the other codecs.
LEMMA OtherState ==
    ASSUME CodecInv, codec # "AV1"
    PROVE  codec \in CodecNames /\ Whole(ctx)
BY DEF CodecInv, Whole

\* nvBeginPicture.
LEMMA BeginKeeps ==
    ASSUME CodecInv, BeginPicture
    PROVE  CodecInv'
<1> DEFINE c == Begun(ctx)
           fresh == IF codec = "AV1" THEN c ELSE [c EXCEPT !.params.size = 0, !.sliceCount = 0]
           tiles == IF codec = "AV1" /\ IsSet(submitted) THEN TilesSent ELSE client.layout
<1>1. /\ pictureState = "idle" /\ pictureState' = "building" /\ codec' = codec
      /\ ctx' = IF codec = "JPEG" THEN ResetJPEGPictureState(fresh) ELSE fresh
      /\ client' = [client EXCEPT !.order = @ + 1, !.picture = NONE, !.groups = << >>, !.matrix = <<0, 0>>,
                                  !.pending = NONE, !.sent = 0, !.unusable = FALSE, !.lost = FALSE,
                                  !.layout = tiles]
  BY DEF BeginPicture, Begun
<1> HIDE DEF tiles
<1>2. CASE codec = "AV1"
  <2>1. ctx' = c
    BY <1>1, <1>2
  <2>2. TilesInv(ctx) /\ Blank(ctx) /\ ClientInv(client) /\ "AV1" \in CodecNames
    BY <1>1, <1>2, TilesState
  <2>3. TilesInv(c) /\ Blank(c)
    BY <2>2, BegunInv
  <2>4. {"order", "picture", "groups", "pending", "sent", "lost", "unusable", "matrix", "layout"}
          \subseteq DOMAIN client
    BY <2>2 DEF ClientInv, ClientFields
  <2> HIDE DEF c
  <2>5. /\ DOMAIN client' = DOMAIN client /\ client'.picture = NONE /\ client'.groups = << >> /\ client'.pending = NONE
        /\ client'.sent = 0
    <3> DEFINE o == client.order + 1
               x == <<0, 0>>
               z == << >>
               q == NONE
    <3>1. client' = [client EXCEPT !.order = o, !.picture = q, !.groups = z, !.matrix = x,
                                   !.pending = q, !.sent = 0, !.unusable = FALSE, !.lost = FALSE,
                                   !.layout = tiles]
      BY <1>1
    <3> HIDE DEF o, x, z, q
    <3>2. DOMAIN client' = DOMAIN client /\ client'.picture = q /\ client'.groups = z /\ client'.pending = q /\ client'.sent = 0
      BY <2>4, <3>1
    <3> QED
      BY <3>2 DEF z, q
  <2>6. ClientInv(client')
    BY <2>2, <2>5 DEF ClientInv
  <2>7. ~IsSet(client'.picture)
    BY <2>5 DEF IsSet
  <2>8. StageInv'
    BY <1>1, <2>1, <2>3, <2>5, <2>7 DEF StageInv
  <2> QED
    BY <1>1, <1>2, <2>1, <2>2, <2>3, <2>6, <2>8 DEF CodecInv
<1>3. CASE codec # "AV1"
  <2>1. codec \in CodecNames /\ Whole(ctx) /\ ctx.av1 = NoTiles
    BY <1>3, OtherState DEF CodecInv
  <2> DEFINE p == [c.params EXCEPT !.size = 0]
             f == [c EXCEPT !.params = p, !.sliceCount = 0]
  <2>2. Same(ctx, c)
    BY <2>1, BegunFields DEF Same
  <2> HIDE DEF c
  <2>3. fresh = f
    BY <1>3
  <2>4. ctx' \in {f, ResetJPEGPictureState(f)}
    BY <1>1, <2>3, Zenon
  <2> HIDE DEF p, fresh
  <2>5. Whole(c)
    BY <2>1, <2>2 DEF Whole, Same
  <2>6. Same(c, f)
    BY <2>5 DEF Same, Whole, ContextFields
  <2> HIDE DEF f
  <2>7. Whole(f)
    BY <2>5, <2>6 DEF Whole, Same
  <2>8. Same(f, ResetJPEGPictureState(f))
    BY <2>7, SameReset
  <2>9. Same(ctx, f) /\ Same(ctx, ResetJPEGPictureState(f))
    BY <2>1, <2>2, <2>5, <2>6, <2>7, <2>8, SameTrans
  <2>10. Same(ctx, ctx')
    BY <2>4, <2>9
  <2> QED
    BY <1>1, <1>3, <2>1, <2>10 DEF CodecInv, Same, Whole
<1> QED
  BY <1>2, <1>3

\* Picture parameters.
LEMMA PicParamKeeps ==
    ASSUME CodecInv, RenderPicParam
    PROVE  CodecInv'
<1>1. PICK p \in Pictures[codec], mem \in Blocks :
         /\ pictureState = "building" /\ ~IsSet(client.picture)
         /\ Rendered(PicParam(ctx, p, mem), [client EXCEPT !.picture = p], mem)
  BY DEF RenderPicParam
<1> DEFINE c == PicParam(ctx, p, mem)
           sent == [client EXCEPT !.picture = p]
<1>2. Rendered(c, sent, mem)
  BY <1>1
<1>3. CASE codec = "AV1"
  <2>1. TilesInv(ctx) /\ ClientInv(client) /\ "AV1" \in CodecNames /\ Blank(ctx) /\ p \in Pictures["AV1"]
    BY <1>1, <1>3, TilesState
  <2>2. c = CopyAV1PicParam(ctx, p)
    BY <1>3 DEF PicParam
  <2>3. Outcome(c)
    BY <2>1, <2>2, PictureInv
  <2>4. IsSet(p)
    BY <2>1, CodecAssumption
  <2>5. ClientInv(sent) /\ sent.picture = p
    <3>1. NONE = NONE /\ 0 \in Nat /\ << >> \in Seq(Groups["AV1"])
      OBVIOUS
    <3> QED
      BY <2>1, <3>1, ClientSent
  <2> HIDE DEF c, sent
  <2> QED
    BY <1>2, <1>3, <2>1, <2>3, <2>4, <2>5, RenderedTiles
<1>4. CASE codec # "AV1"
  <2>1. codec \in CodecNames /\ Whole(ctx)
    BY <1>4, OtherState
  <2>2. Same(ctx, c)
    BY <1>4, <2>1, SamePicParam
  <2> HIDE DEF c, sent
  <2> QED
    BY <1>2, <1>4, <2>2, RenderedOther
<1> QED
  BY <1>3, <1>4

\* Quantisation matrices, JPEG tables, the slice data of the other codecs.
LEMMA OtherKeeps ==
    ASSUME CodecInv, RenderIQMatrix \/ RenderTables \/ RenderSliceData \/ RenderScanData
    PROVE  CodecInv'
<1>1. ASSUME codec # "AV1" PROVE codec \in CodecNames /\ Whole(ctx)
  BY <1>1, OtherState
<1>2. CASE RenderIQMatrix
  <2>1. PICK q \in Matrices : /\ codec \in {"H264", "HEVC", "MPEG2", "MPEG4"}
                              /\ Rendered(IQMatrix(ctx, q), [client EXCEPT !.matrix = q], SizeMax)
    BY <1>2 DEF RenderIQMatrix
  <2> DEFINE c == IQMatrix(ctx, q)
             sent == [client EXCEPT !.matrix = q]
  <2>2. codec # "AV1"
    BY <2>1
  <2>3. Same(ctx, c)
    BY <1>1, <2>1, <2>2, SameIQMatrix
  <2>4. Rendered(c, sent, SizeMax)
    BY <2>1
  <2> HIDE DEF c, sent
  <2> QED
    BY <2>2, <2>3, <2>4, RenderedOther
<1>3. CASE RenderTables
  <2> DEFINE cc(t, mem) == IF t.iq THEN CopyJPEGIQMatrix(ctx, t.quant, mem) ELSE CopyJPEGHuffmanTable(ctx, t.huffman, mem)
             ss(t, mem) == IF ~cc(t, mem).codecData THEN client
                       ELSE [client EXCEPT !.quant = IF t.iq THEN Loaded(@, t.quant) ELSE @,
                                           !.huffman = IF t.iq THEN @ ELSE Loaded(@, t.huffman)]
  <2>1. PICK t \in Tables, mem \in Blocks : codec = "JPEG" /\ Rendered(cc(t, mem), ss(t, mem), mem)
    BY <1>3 DEF RenderTables
  <2> DEFINE c == cc(t, mem)
             sent == ss(t, mem)
             q == t.quant
             h == t.huffman
  <2>2. codec # "AV1"
    BY <2>1
  <2>3. Same(ctx, CopyJPEGIQMatrix(ctx, q, mem)) /\ Same(ctx, CopyJPEGHuffmanTable(ctx, h, mem))
    <3> HIDE DEF q, h
    <3> QED
      BY <1>1, <2>2, SameTables
  <2>4. Same(ctx, c)
    BY <2>3
  <2>5. Rendered(c, sent, mem)
    BY <2>1
  <2> HIDE DEF c, sent
  <2> QED
    BY <2>2, <2>4, <2>5, RenderedOther
<1>4. CASE RenderSliceData
  <2> DEFINE g == client.pending
             sent == [client EXCEPT !.groups = Append(@, client.pending), !.pending = NONE]
  <2>1. PICK mem \in Blocks : /\ codec \notin {"JPEG", "AV1"}
                              /\ Rendered(SliceData(ctx, g, PendingData, mem), sent, mem)
    BY <1>4 DEF RenderSliceData, Delivered
  <2> DEFINE c == SliceData(ctx, g, PendingData, mem)
             data == PendingData
  <2>2. codec # "AV1"
    BY <2>1
  <2>3. Same(ctx, SliceData(ctx, g, data, mem))
    <3> HIDE DEF g, data
    <3> QED
      BY <1>1, <2>1, <2>2, SameSliceData
  <2>4. Same(ctx, c) /\ Rendered(c, sent, mem)
    BY <2>1, <2>3
  <2> HIDE DEF c, sent
  <2> QED
    BY <2>2, <2>4, RenderedOther
<1>5. CASE RenderScanData
  <2> DEFINE sent == [client EXCEPT !.groups = Append(@, client.pending), !.pending = NONE]
  <2>1. PICK mem \in Blocks : codec = "JPEG" /\ Rendered(CopyJPEGSliceData(ctx, PendingData, mem), sent, mem)
    BY <1>5 DEF RenderScanData, Delivered
  <2> DEFINE data == PendingData
             c == CopyJPEGSliceData(ctx, data, mem)
  <2>2. codec # "AV1"
    BY <2>1
  <2>3. Rendered(c, sent, mem)
    BY <2>1
  <2>4. Same(ctx, c)
    <3> HIDE DEF data
    <3> QED
      BY <1>1, <2>2, SameScanData
  <2> HIDE DEF c, sent
  <2> QED
    BY <2>2, <2>3, <2>4, RenderedOther
<1> QED
  BY <1>2, <1>3, <1>4, <1>5

\* A slice parameter buffer.
LEMMA SlicesKeep ==
    ASSUME CodecInv, pictureState = "building", IsSet(client.picture), NEW slices, codec = "AV1" => slices \in Seq(TileParams),
           NEW sent, codec = "AV1" => ClientInv(sent) /\ sent.picture = client.picture, NEW mem, RenderSlices(slices, sent, mem)
    PROVE  CodecInv'
<1> DEFINE copy == AppendBuffer(Emptied(ctx.params), slices, mem)
           d == [ctx EXCEPT !.params = copy]
           c == IF copy.failed THEN d ELSE SliceParam(d, mem)
<1>1. Rendered(c, sent, mem)
  BY DEF RenderSlices, Emptied
<1>2. CASE codec = "AV1"
  <2>1. TilesInv(ctx) /\ Working(ctx) /\ "AV1" \in CodecNames
    BY <1>2, TilesState
  <2>2. copy = AppendBuffer(Emptied(ctx.params), slices, mem) /\ d = [ctx EXCEPT !.params = copy]
    OBVIOUS
  <2>3. Outcome(c)
    <3> HIDE DEF copy, d
    <3> QED
      BY <1>2, <2>1, <2>2, ParamsInv
  <2> HIDE DEF c
  <2> QED
    BY <1>1, <1>2, <2>1, <2>3, RenderedTiles
<1>3. CASE codec # "AV1"
  <2>1. codec \in CodecNames /\ Whole(ctx)
    BY <1>3, OtherState
  <2>2. Same(ctx, d) /\ Whole(d)
    <3> HIDE DEF copy
    <3>1. Same(ctx, d)
      BY <2>1, FieldStep
    <3> QED
      BY <2>1, <3>1 DEF Same, Whole
  <2> HIDE DEF d, copy
  <2>3. Same(d, SliceParam(d, mem))
    BY <1>3, <2>1, <2>2, SameSliceParam
  <2>4. Same(ctx, c)
    BY <2>1, <2>2, <2>3, SameTrans
  <2> HIDE DEF c
  <2> QED
    BY <1>1, <1>3, <2>4, RenderedOther
<1> QED
  BY <1>2, <1>3

\* The parameters of slices or tiles before their data.
LEMMA SliceParamsKeep ==
    ASSUME CodecInv, RenderSliceParams
    PROVE  CodecInv'
<1>1. PICK g \in Groups[codec], mem \in Blocks :
         /\ MayAddGroup
         /\ RenderSlices(g.slices, [client EXCEPT !.pending = g, !.sent = Len(g.slices)], mem)
  BY DEF RenderSliceParams
<1> DEFINE slices == g.slices
           n == Len(slices)
           sent == [client EXCEPT !.pending = g, !.sent = n]
<1>2. pictureState = "building" /\ IsSet(client.picture) /\ RenderSlices(slices, sent, mem)
  BY <1>1 DEF MayAddGroup
<1>3. ASSUME codec = "AV1" PROVE slices \in Seq(TileParams) /\ ClientInv(sent) /\ sent.picture = client.picture
  <2>1. ClientInv(client) /\ "AV1" \in CodecNames /\ g \in Groups["AV1"]
    BY <1>1, <1>3, TilesState
  <2>2. slices \in Seq(TileParams)
    BY <2>1, CodecAssumption DEF TileParams
  <2> HIDE DEF slices
  <2>3. n \in Nat /\ << >> \in Seq(Groups["AV1"])
    BY <2>2
  <2> HIDE DEF n
  <2>4. ClientInv(sent) /\ sent.picture = client.picture
    BY <2>1, <2>3, ClientSent
  <2> QED
    BY <2>2, <2>4
<1> HIDE DEF slices, sent
<1> QED
  BY <1>2, <1>3, SlicesKeep

\* The parameters of one tile of data that was sent first.
LEMMA TileParamsKeep ==
    ASSUME CodecInv, RenderTileParams
    PROVE  CodecInv'
<1> DEFINE g == client.groups[1]
           k == client.sent + 1
           slices == <<g.slices[k]>>
           sent == [client EXCEPT !.sent = k]
<1>1. PICK mem \in Blocks :
         /\ pictureState = "building" /\ codec = "AV1" /\ client.groups # << >> /\ k <= Len(g.slices)
         /\ RenderSlices(slices, sent, mem)
  BY DEF RenderTileParams
<1>2. codec = "AV1"
  BY <1>1
<1>3. ClientInv(client) /\ "AV1" \in CodecNames /\ TilesInv(ctx)
  BY <1>2, TilesState
<1>4. client.groups \in Seq(Groups["AV1"]) /\ client.sent \in Nat
  BY <1>3 DEF ClientInv
<1>5. g \in Groups["AV1"]
  BY <1>1, <1>4
<1>6. g.slices \in Seq(TileParams)
  BY <1>3, <1>5, CodecAssumption DEF TileParams
<1>7. k \in Nat /\ slices \in Seq(TileParams)
  <2>1. k \in Nat /\ k >= 1
    BY <1>4
  <2> HIDE DEF k, g
  <2>2. g.slices[k] \in TileParams
    BY <1>1, <1>6, <2>1
  <2> QED
    BY <2>1, <2>2
<1>8. ClientInv(sent) /\ sent.picture = client.picture
  <2>1. << >> \in Seq(Groups["AV1"])
    OBVIOUS
  <2> HIDE DEF k
  <2> QED
    BY <1>3, <1>7, <2>1, ClientSent
<1> HIDE DEF slices, sent, k, g
<1>9. IsSet(client.picture)
  BY <1>1, <1>2, TilesState
<1> QED
  BY <1>1, <1>7, <1>8, <1>9, SlicesKeep

\* The data of tiles: behind their parameters, or first.
LEMMA DataOfGroup ==
    ASSUME "AV1" \in CodecNames, NEW g \in Groups["AV1"], NEW picture, NEW n
    PROVE  Len(Data(g, picture, n)) \in Nat
<1> DEFINE m == g.size
           E(i) == [is |-> IF i = g.size /\ g.eoi THEN <<"EOI">> ELSE <<"data", picture, n, i>>, obu |-> ObuAt(g, i)]
           s == [i \in 1 .. m |-> E(i)]
<1>1. m \in Nat
  BY CodecAssumption
<1>2. Data(g, picture, n) = s
  BY DEF Data
<1> HIDE DEF m, E
<1>3. Len(s) = m
  BY <1>1
<1> QED
  BY <1>1, <1>2, <1>3

\* The client has sent the data of a group.
LEMMA ClientDelivered ==
    ASSUME NEW k, ClientInv(k), NEW q \in Seq(Groups["AV1"]), NEW j, j = [k EXCEPT !.groups = q, !.pending = NONE]
    PROVE  ClientInv(j) /\ j.picture = k.picture
<1>1. {"picture", "groups", "pending", "sent"} \subseteq DOMAIN k
  BY DEF ClientInv, ClientFields
<1>2. DOMAIN j = DOMAIN k /\ j.groups = q /\ j.sent = k.sent /\ j.pending = NONE /\ j.picture = k.picture
  BY <1>1
<1> QED
  BY <1>2 DEF ClientInv

\* The data of tiles whose parameters have been sent.
LEMMA TileDataKeeps ==
    ASSUME CodecInv, RenderTileData
    PROVE  CodecInv'
<1> DEFINE g == client.pending
           q == Append(client.groups, g)
           sent == [client EXCEPT !.groups = q, !.pending = NONE]
           data == PendingData
<1>1. PICK mem \in Blocks : DataDue /\ codec = "AV1" /\ Rendered(CopyAV1SliceData(ctx, data, mem), sent, mem)
  BY DEF RenderTileData, Delivered
<1>2. pictureState = "building" /\ IsSet(g)
  BY <1>1 DEF DataDue
<1>3. TilesInv(ctx) /\ ClientInv(client) /\ "AV1" \in CodecNames
  BY <1>1, TilesState
<1>4. g \in Groups["AV1"] /\ client.groups \in Seq(Groups["AV1"])
  BY <1>2, <1>3 DEF ClientInv, IsSet
<1>5. IsSet(client.picture) /\ Working(ctx)
  BY <1>1, <1>2, TilesState DEF IsSet
<1>6. Len(data) \in Nat
  <2> DEFINE o == client.order
             n == Len(client.groups) + 1
  <2>1. data = Data(g, o, n)
    BY DEF PendingData
  <2> HIDE DEF g, o, n, data
  <2> QED
    BY <1>3, <1>4, <2>1, DataOfGroup
<1>7. ClientInv(sent) /\ sent.picture = client.picture
  <2> DEFINE G == Groups["AV1"]
             gs == client.groups
  <2>1. q \in Seq(Groups["AV1"])
    <3>1. q = Append(gs, g) /\ gs \in Seq(G) /\ g \in G
      BY <1>4
    <3> HIDE DEF q, gs, g, G
    <3>2. q \in Seq(G)
      BY <3>1
    <3> QED
      BY <3>2 DEF G
  <2> HIDE DEF q
  <2> QED
    BY <1>3, <2>1, ClientDelivered
<1> DEFINE c == CopyAV1SliceData(ctx, data, mem)
<1>8. Outcome(c)
  <2> HIDE DEF data
  <2> QED
    BY <1>3, <1>5, <1>6, TileDataInv
<1>9. Rendered(c, sent, mem)
  BY <1>1
<1> HIDE DEF c, sent
<1> QED
  BY <1>1, <1>3, <1>5, <1>7, <1>8, <1>9, RenderedTiles

\* The data of tiles whose parameters are still to come.
LEMMA DataFirstKeeps ==
    ASSUME CodecInv, RenderDataFirst
    PROVE  CodecInv'
<1>1. PICK g \in Groups[codec], mem \in Blocks :
         /\ MayAddGroup /\ codec = "AV1"
         /\ Rendered(CopyAV1SliceData(ctx, Data(g, client.order, 1), mem), [client EXCEPT !.groups = <<g>>, !.sent = 0], mem)
  BY DEF RenderDataFirst
<1> DEFINE o == client.order
           one == 1
           data == Data(g, o, one)
           q == <<g>>
           zero == 0
           c == CopyAV1SliceData(ctx, data, mem)
           sent == [client EXCEPT !.groups = q, !.sent = zero]
<1>2. codec = "AV1" /\ pictureState = "building" /\ IsSet(client.picture) /\ Rendered(c, sent, mem)
  BY <1>1 DEF MayAddGroup
<1>3. TilesInv(ctx) /\ Working(ctx) /\ ClientInv(client) /\ "AV1" \in CodecNames /\ g \in Groups["AV1"]
  BY <1>1, <1>2, TilesState
<1>4. Len(data) \in Nat
  <2> HIDE DEF o, one
  <2> QED
    BY <1>3, DataOfGroup
<1>5. Outcome(c)
  <2> HIDE DEF data
  <2> QED
    BY <1>3, <1>4, TileDataInv
<1>6. ClientInv(sent) /\ sent.picture = client.picture
  <2>1. q \in Seq(Groups["AV1"]) /\ zero \in Nat /\ NONE = NONE
    <3> DEFINE G == Groups["AV1"]
    <3>1. g \in G
      BY <1>3
    <3> HIDE DEF G
    <3>2. <<g>> \in Seq(G)
      BY <3>1
    <3> QED
      BY <3>2 DEF G
  <2> HIDE DEF q, zero
  <2> QED
    BY <1>3, <2>1, ClientSent
<1> HIDE DEF c, sent
<1> QED
  BY <1>2, <1>3, <1>5, <1>6, RenderedTiles

\* A buffer that cannot be used.
LEMMA UnusableKeeps ==
    ASSUME CodecInv, RenderUnusable
    PROVE  CodecInv'
<1>1. /\ ctx' = Invalid(ctx) /\ pictureState' = "failed" /\ codec' = codec
      /\ client' = [client EXCEPT !.unusable = TRUE]
  BY DEF RenderUnusable
<1>2. CASE codec = "AV1"
  <2>1. TilesInv(ctx) /\ ClientInv(client) /\ "AV1" \in CodecNames
    BY <1>2, TilesState
  <2>2. TilesInv(Invalid(ctx))
    BY <2>1, RefusedInv
  <2>3. {"groups", "pending", "sent", "unusable"} \subseteq DOMAIN client
    BY <2>1 DEF ClientInv, ClientFields
  <2>4. /\ DOMAIN client' = DOMAIN client /\ client'.groups = client.groups /\ client'.pending = client.pending
        /\ client'.sent = client.sent
    BY <1>1, <2>3
  <2>5. ClientInv(client')
    BY <2>1, <2>4 DEF ClientInv
  <2>6. StageInv'
    BY <1>1 DEF StageInv
  <2> QED
    BY <1>1, <1>2, <2>1, <2>2, <2>5, <2>6 DEF CodecInv
<1>3. CASE codec # "AV1"
  <2>1. codec \in CodecNames /\ Whole(ctx) /\ ctx.av1 = NoTiles
    BY <1>3, OtherState DEF CodecInv
  <2>2. Same(ctx, Invalid(ctx))
    BY <2>1, SmallSteps
  <2> QED
    BY <1>1, <1>3, <2>1, <2>2 DEF CodecInv, Same, Whole
<1> QED
  BY <1>2, <1>3

\* nvEndPicture.
LEMMA EndKeeps ==
    ASSUME CodecInv, EndPicture
    PROVE  CodecInv'
<1>1. PICK works \in BOOLEAN, mem \in Blocks :
         /\ ctx' = ResetPictureBuild(MaybeTrim(Ended(ctx), ctx, mem)) \/ ctx' = ResetPictureBuild(ctx)
         /\ pictureState' = "idle" /\ codec' = codec
         /\ client' = [client EXCEPT !.lost = @ \/ ~works]
  BY DEF EndPicture, Ended
<1>2. CASE codec = "AV1"
  <2>1. TilesInv(ctx) /\ ClientInv(client) /\ "AV1" \in CodecNames
    BY <1>2, TilesState
  <2>2. TilesInv(ctx') /\ Blank(ctx')
    BY <1>1, <2>1, EndInv
  <2>3. {"groups", "pending", "sent", "lost"} \subseteq DOMAIN client
    BY <2>1 DEF ClientInv, ClientFields
  <2>4. /\ DOMAIN client' = DOMAIN client /\ client'.groups = client.groups /\ client'.pending = client.pending
        /\ client'.sent = client.sent
    <3> DEFINE l == client.lost \/ ~works
    <3>1. client' = [client EXCEPT !.lost = l]
      BY <1>1
    <3> HIDE DEF l
    <3> QED
      BY <2>3, <3>1
  <2>5. ClientInv(client')
    BY <2>1, <2>4 DEF ClientInv
  <2>6. StageInv'
    BY <1>1, <2>2 DEF StageInv
  <2> QED
    BY <1>1, <1>2, <2>1, <2>2, <2>5, <2>6 DEF CodecInv
<1>3. CASE codec # "AV1"
  <2>1. codec \in CodecNames /\ Whole(ctx) /\ ctx.av1 = NoTiles
    BY <1>3, OtherState DEF CodecInv
  <2> DEFINE b == [ctx.bitstream EXCEPT !.size = 0, !.cells = << >>]
             o == [ctx.offsets EXCEPT !.size = 0, !.cells = << >>]
             e == Ended(ctx)
             m == MaybeTrim(e, ctx, mem)
  <2>2. e = [ctx EXCEPT !.bitstream = b, !.offsets = o]
    BY DEF Ended
  <2> HIDE DEF b, o, e
  <2>3. Same(ctx, e)
    BY <2>1, <2>2 DEF Same, Whole, ContextFields
  <2>4. Whole(e)
    BY <2>1, <2>3 DEF Whole, Same
  <2>5. Same(e, m)
    BY <2>4, SameTrim
  <2>6. ctx' = ResetPictureBuild(m) \/ ctx' = ResetPictureBuild(ctx)
    BY <1>1 DEF e
  <2> HIDE DEF m
  <2>7. Same(ctx, m) /\ Whole(m)
    BY <2>1, <2>3, <2>5, SameTrans
  <2>8. Same(m, ResetPictureBuild(m)) /\ Same(ctx, ResetPictureBuild(ctx))
    BY <2>1, <2>7, SameReset
  <2>9. Same(ctx, ResetPictureBuild(m))
    BY <2>1, <2>7, <2>8, SameTrans
  <2>10. Same(ctx, ctx')
    BY <2>6, <2>8, <2>9
  <2> QED
    BY <1>1, <1>3, <2>1, <2>10 DEF CodecInv, Same, Whole
<1> QED
  BY <1>2, <1>3

-----------------------------------------------------------------------------
(* The theorems.                                                           *)

\* A new context satisfies the invariant.
LEMMA CodecInit ==
    ASSUME Init
    PROVE  CodecInv
<1>1. codec \in CodecNames /\ pictureState = "idle" /\ ctx = FreshContext /\ client = NewClient
  BY DEF Init
<1>2. TilesInv(ctx) /\ Blank(ctx) /\ ctx.av1 = NoTiles /\ Whole(ctx)
  BY <1>1, FreshInv
<1>3. ClientInv(client)
  <2> DEFINE G == Groups["AV1"]
  <2>1. ClientFields \subseteq DOMAIN NewClient /\ NewClient.groups = << >> /\ NewClient.sent = 0 /\ NewClient.pending = NONE
    BY DEF NewClient, ClientFields
  <2>2. << >> \in Seq(G) /\ 0 \in Nat
    OBVIOUS
  <2> HIDE DEF G
  <2> QED
    BY <1>1, <2>1, <2>2 DEF ClientInv, G
<1> QED
  BY <1>1, <1>2, <1>3 DEF CodecInv, StageInv, Whole

\* Every step keeps it.
LEMMA CodecStep ==
    ASSUME CodecInv, [Next]_vars
    PROVE  CodecInv'
<1>1. CASE UNCHANGED vars
  BY <1>1 DEF vars, CodecInv, StageInv
<1> QED
  BY <1>1, BeginKeeps, PicParamKeeps, OtherKeeps, SliceParamsKeep, TileDataKeeps, DataFirstKeeps, TileParamsKeep,
     UnusableKeeps, EndKeeps DEF Next

\* The index of the tiles of an AV1 picture (nvdIntervalIndexInsert,
\* setAV1SliceOffsetsImpl) is at all times a balanced search tree of disjoint
\* ranges, one for each tile placed, and they are the offsets that the
\* decoder is given: for all buffers a client sends, in any order, and
\* whichever allocation fails.
THEOREM TilesTrackedCorrect == Spec => []TilesTracked
<1>1. CodecInv => TilesTracked
  <2> SUFFICES ASSUME CodecInv PROVE TilesTracked
    OBVIOUS
  <2>1. CASE codec = "AV1"
    <3>1. TilesInv(ctx) /\ IndexOK(ctx.av1.intervals)
      BY <2>1, TilesState DEF TilesInv, Counted
    <3>2. IsBalancedTree(ctx.av1.intervals)
      BY <3>1, IndexFacts
    <3> QED
      BY <3>1, <3>2 DEF TilesTracked, TilesInv, Counted, Paired, Pairs, Tiles
  <2>2. CASE codec # "AV1"
    <3>1. ctx.av1 = NoTiles
      BY <2>2 DEF CodecInv
    <3>2. ctx.av1.intervals = EmptyIndex /\ ctx.av1.seen = {}
      BY <3>1 DEF NoTiles
    <3>3. IsBalancedTree(ctx.av1.intervals) /\ Ranges(ctx.av1.intervals) = {}
      BY <3>2, EmptyIndexOK, IndexFacts
    <3> QED
      BY <2>2, <3>2, <3>3 DEF TilesTracked, Tiles
  <2> QED
    BY <2>1, <2>2
<1>2. Init => CodecInv
  BY CodecInit
<1>3. CodecInv /\ [Next]_vars => CodecInv'
  BY CodecStep
<1> QED
  BY <1>1, <1>2, <1>3, PTL DEF Spec
=============================================================================
