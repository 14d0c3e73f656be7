---------------------------- MODULE MuxerInvariant ----------------------------
(***************************************************************************)
(* The heap of prio-heap.hpp is correct for every comparator which is a    *)
(* strict weak order: its operations keep the elements and restore the     *)
(* heap order, and the top comes before no other element.                  *)
(*                                                                         *)
(* The inductive invariant of the muxer, and its preservation by the steps *)
(* which move messages: for every set of upstream iterators, whatever      *)
(* their messages and however they are split into batches.                 *)
(***************************************************************************)
EXTENDS Muxer, FiniteSetTheorems, WellFoundedInduction, TLAPS

\* The time given to the provers for each leaf.
USE SMTT(20), ZenonT(20)

-----------------------------------------------------------------------------
(* The heap.                                                               *)

\* What std::less and its likes promise, on the elements of X.
StrictWeakOrder(gt, X) ==
    /\ \A a \in X : ~gt[a][a]
    /\ \A a, b \in X : gt[a][b] => ~gt[b][a]
    /\ \A a, b, c \in X : ~gt[a][b] /\ ~gt[b][c] => ~gt[a][c]

\* The elements of a sequence, and whether each occurs once.
Elems(e) == {e[i] : i \in 1 .. Len(e)}
NoRepeat(e) == \A i, j \in 1 .. Len(e) : e[i] = e[j] => i = j

\* Each element but the ones below hole are in order with their parent.
HeapBut(e, hole, gt) ==
    \A i \in 2 .. Len(e) : parentPos(i) # hole => ~gt[e[i]][e[parentPos(i)]]

Heap(e, gt) == \A i \in 2 .. Len(e) : ~gt[e[i]][e[parentPos(i)]]

-----------------------------------------------------------------------------

\* Induction on the natural numbers, for a set: an element which is not in the
\* set would have a least one below it.
LEMMA NatSetInduction ==
    ASSUME NEW S, 0 \in S, \A n \in Nat : n \in S => n + 1 \in S
    PROVE  \A n \in Nat : n \in S
<1> SUFFICES ASSUME NEW k \in Nat \ S PROVE FALSE
  BY Zenon
<1> DEFINE T == Nat \ S
<1>1. PICK m \in T : \A y \in T : ~ (<<y, m>> \in OpToRel(<, Nat))
  BY NatLessThanWellFounded, WFMin, Zenon
<1>2. m \in Nat /\ m # 0
  BY Zenon
<1>3. \A y \in T : ~ (y < m)
  <2> TAKE y \in T
  <2>1. ~ (<<y, m>> \in OpToRel(<, Nat))
    BY <1>1, Zenon
  <2>2. <<y, m>> \in Nat \X Nat
    BY Zenon
  <2>3. y < m => <<y, m>> \in OpToRel(<, Nat)
    BY <2>2, Zenon DEF OpToRel
  <2> QED BY <2>1, <2>3, Zenon
<1>4. m - 1 \in Nat /\ m - 1 \notin T
  BY <1>2, <1>3
<1> QED BY <1>2, <1>4

\* The loops of heapify() and insert() are functions of the iteration.
IsSinkLoop(g, s, gt, N) == g = [n \in 0 .. N |-> IF n = 0 THEN s ELSE Sink(g[n - 1], gt)]
IsRiseLoop(g, s, gt, N) == g = [n \in 0 .. N |-> IF n = 0 THEN s ELSE Rise(g[n - 1], gt)]

LEMMA SinkLoop ==
    ASSUME NEW s, NEW gt, NEW N \in Nat
    PROVE  \E g : IsSinkLoop(g, s, gt, N)
<1> DEFINE Is(g, m) == g = [n \in 0 .. m |-> IF n = 0 THEN s ELSE Sink(g[n - 1], gt)]
           S == {m \in Nat : \E g : Is(g, m)}
<1>1. 0 \in S
  <2> DEFINE g == [n \in 0 .. 0 |-> s]
  <2>1. g = [n \in 0 .. 0 |-> IF n = 0 THEN s ELSE Sink(g[n - 1], gt)]
    OBVIOUS
  <2> QED BY <2>1, Zenon
<1>2. ASSUME NEW m \in Nat, m \in S PROVE m + 1 \in S
  <2>1. PICK g : Is(g, m)
    BY <1>2, Zenon
  <2> DEFINE h == [n \in 0 .. m + 1 |-> IF n = m + 1 THEN Sink(g[m], gt) ELSE g[n]]
  <2>2. Is(h, m + 1)
    <3>1. ASSUME NEW n \in 0 .. m + 1
          PROVE  h[n] = IF n = 0 THEN s ELSE Sink(h[n - 1], gt)
      <4>1. CASE n = m + 1
        <5>1. h[n - 1] = g[m] /\ h[n] = Sink(g[m], gt)
          BY <4>1
        <5> QED BY <4>1, <5>1
      <4>2. CASE n # m + 1
        <5>1. n \in 0 .. m /\ h[n] = g[n]
          BY <4>2
        <5>2. n # 0 => h[n - 1] = g[n - 1]
          BY <4>2
        <5>3. g[n] = IF n = 0 THEN s ELSE Sink(g[n - 1], gt)
          BY <2>1, <5>1, Zenon
        <5> HIDE DEF h
        <5> QED BY <5>1, <5>2, <5>3, Zenon
      <4> QED BY <4>1, <4>2, Zenon
    <3> QED BY <3>1, Zenon
  <2> HIDE DEF Is, h
  <2>3. \E k : Is(k, m + 1)
    BY <2>2, Zenon
  <2> QED BY <2>3
<1> HIDE DEF S
<1>3. \A n \in Nat : n \in S
  BY <1>1, <1>2, NatSetInduction, Zenon
<1> QED BY <1>3, Zenon DEF S, IsSinkLoop

LEMMA RiseLoop ==
    ASSUME NEW s, NEW gt, NEW N \in Nat
    PROVE  \E g : IsRiseLoop(g, s, gt, N)
<1> DEFINE Is(g, m) == g = [n \in 0 .. m |-> IF n = 0 THEN s ELSE Rise(g[n - 1], gt)]
           S == {m \in Nat : \E g : Is(g, m)}
<1>1. 0 \in S
  <2> DEFINE g == [n \in 0 .. 0 |-> s]
  <2>1. g = [n \in 0 .. 0 |-> IF n = 0 THEN s ELSE Rise(g[n - 1], gt)]
    OBVIOUS
  <2> QED BY <2>1, Zenon
<1>2. ASSUME NEW m \in Nat, m \in S PROVE m + 1 \in S
  <2>1. PICK g : Is(g, m)
    BY <1>2, Zenon
  <2> DEFINE h == [n \in 0 .. m + 1 |-> IF n = m + 1 THEN Rise(g[m], gt) ELSE g[n]]
  <2>2. Is(h, m + 1)
    <3>1. ASSUME NEW n \in 0 .. m + 1
          PROVE  h[n] = IF n = 0 THEN s ELSE Rise(h[n - 1], gt)
      <4>1. CASE n = m + 1
        <5>1. h[n - 1] = g[m] /\ h[n] = Rise(g[m], gt)
          BY <4>1
        <5> QED BY <4>1, <5>1
      <4>2. CASE n # m + 1
        <5>1. n \in 0 .. m /\ h[n] = g[n]
          BY <4>2
        <5>2. n # 0 => h[n - 1] = g[n - 1]
          BY <4>2
        <5>3. g[n] = IF n = 0 THEN s ELSE Rise(g[n - 1], gt)
          BY <2>1, <5>1, Zenon
        <5> HIDE DEF h
        <5> QED BY <5>1, <5>2, <5>3, Zenon
      <4> QED BY <4>1, <4>2, Zenon
    <3> QED BY <3>1, Zenon
  <2> HIDE DEF Is, h
  <2>3. \E k : Is(k, m + 1)
    BY <2>2, Zenon
  <2> QED BY <2>3
<1> HIDE DEF S
<1>3. \A n \in Nat : n \in S
  BY <1>1, <1>2, NatSetInduction, Zenon
<1> QED BY <1>3, Zenon DEF S, IsRiseLoop

-----------------------------------------------------------------------------

LEMMA SwapFact ==
    ASSUME NEW X, NEW e \in Seq(X), NEW i \in 1 .. Len(e), NEW j \in 1 .. Len(e)
    PROVE  /\ Swap(e, i, j) \in Seq(X)
           /\ Len(Swap(e, i, j)) = Len(e)
           /\ \A k \in 1 .. Len(e) :
                 Swap(e, i, j)[k] = IF k = j THEN e[i] ELSE IF k = i THEN e[j] ELSE e[k]
           /\ Elems(Swap(e, i, j)) = Elems(e)
           /\ NoRepeat(e) => NoRepeat(Swap(e, i, j))
<1> DEFINE f == Swap(e, i, j)
<1>1. f \in Seq(X) /\ Len(f) = Len(e)
  BY DEF Swap
<1>2. \A k \in 1 .. Len(e) : f[k] = IF k = j THEN e[i] ELSE IF k = i THEN e[j] ELSE e[k]
  BY DEF Swap
<1> HIDE DEF f
<1>3. Elems(f) = Elems(e)
  <2>1. ASSUME NEW x \in Elems(f) PROVE x \in Elems(e)
    BY <1>1, <1>2, Zenon DEF Elems
  <2>2. ASSUME NEW x \in Elems(e) PROVE x \in Elems(f)
    <3>1. PICK k \in 1 .. Len(e) : x = e[k]
      BY Zenon DEF Elems
    <3>2. x = f[IF k = i THEN j ELSE IF k = j THEN i ELSE k]
      BY <1>2, <3>1, Zenon
    <3> QED BY <1>1, <3>2, Zenon DEF Elems
  <2> QED BY <2>1, <2>2, Zenon
<1>4. NoRepeat(e) => NoRepeat(f)
  BY <1>1, <1>2, Zenon DEF NoRepeat
<1> QED BY <1>1, <1>2, <1>3, <1>4, Zenon DEF f

\* The element at hole came down from above: those below it are in order with its
\* parent.
SinkInv(e, hole, gt) ==
    /\ hole \in 1 .. Len(e)
    /\ HeapBut(e, hole, gt)
    /\ \A i \in 2 .. Len(e) :
          parentPos(i) = hole /\ hole > 1 => ~gt[e[i]][e[parentPos(hole)]]

LEMMA LargestFact ==
    ASSUME NEW X, NEW gt, StrictWeakOrder(gt, X), NEW e \in Seq(X), NEW hole \in 1 .. Len(e)
    PROVE  LET l == largestPos(e, hole, gt) IN
           /\ l \in 1 .. Len(e)
           /\ l = hole \/ (parentPos(l) = hole /\ l > hole /\ gt[e[l]][e[hole]])
           /\ \A i \in 2 .. Len(e) : parentPos(i) = hole => ~gt[e[i]][e[l]]
<1> DEFINE leftPos == 2 * hole
           rightPos == 2 * hole + 1
           larger == IF leftPos <= Len(e) /\ gt[e[leftPos]][e[hole]] THEN leftPos ELSE hole
           l == IF rightPos <= Len(e) /\ gt[e[rightPos]][e[larger]] THEN rightPos ELSE larger
<1>1. l = largestPos(e, hole, gt)
  BY Zenon DEF largestPos
<1>2. larger \in 1 .. Len(e) /\ (larger = hole \/ (larger = leftPos /\ gt[e[larger]][e[hole]]))
  OBVIOUS
<1>3. leftPos <= Len(e) => ~gt[e[leftPos]][e[larger]]
  BY DEF StrictWeakOrder
<1>4. \A k \in 1 .. Len(e) : e[k] \in X
  OBVIOUS
<1> HIDE DEF larger
<1>5. l \in 1 .. Len(e) /\ (l = larger \/ (l = rightPos /\ gt[e[l]][e[larger]]))
  BY <1>2
<1>6. rightPos <= Len(e) => ~gt[e[rightPos]][e[l]]
  BY <1>2, <1>4 DEF StrictWeakOrder
<1>7. l # larger => gt[e[l]][e[larger]] /\ l = rightPos
  BY <1>2, Zenon
<1> HIDE DEF l
<1>8. l # hole => gt[e[l]][e[hole]]
  <2>1. CASE l = larger
    BY <2>1, <1>2, Zenon
  <2>2. CASE l # larger
    <3>1. e[l] \in X /\ e[larger] \in X /\ e[hole] \in X
      BY <1>2, <1>4, <1>5, Zenon
    <3>2. ~gt[e[hole]][e[larger]]
      BY <1>2, <3>1, Zenon DEF StrictWeakOrder
    <3>3. gt[e[l]][e[larger]]
      BY <2>2, <1>7, Zenon
    <3>4. ~gt[e[larger]][e[l]]
      BY <3>1, <3>3, Zenon DEF StrictWeakOrder
    <3>5. ~gt[e[l]][e[hole]] => ~gt[e[l]][e[larger]]
      BY <3>1, <3>2, Zenon DEF StrictWeakOrder
    <3> QED BY <3>3, <3>5, Zenon
  <2> QED BY <2>1, <2>2, Zenon
<1>9. leftPos <= Len(e) => ~gt[e[leftPos]][e[l]]
  <2> SUFFICES ASSUME leftPos <= Len(e) PROVE ~gt[e[leftPos]][e[l]]
    BY Zenon
  <2>1. e[l] \in X /\ e[larger] \in X /\ e[leftPos] \in X
    BY <1>2, <1>4, <1>5
  <2>2. ~gt[e[larger]][e[l]]
    BY <1>7, <2>1, Zenon DEF StrictWeakOrder
  <2> QED BY <1>3, <2>1, <2>2, Zenon DEF StrictWeakOrder
<1>10. \A i \in 2 .. Len(e) : parentPos(i) = hole => i = leftPos \/ i = rightPos
  BY DEF parentPos
<1>11. l # hole => parentPos(l) = hole /\ l > hole
  BY <1>2, <1>5 DEF parentPos
<1> QED BY <1>1, <1>5, <1>6, <1>8, <1>9, <1>10, <1>11

LEMMA SinkStep ==
    ASSUME NEW X, NEW gt, StrictWeakOrder(gt, X), NEW e \in Seq(X), NEW hole \in Nat,
           SinkInv(e, hole, gt)
    PROVE  LET s == Sink(<<e, hole>>, gt) IN
           /\ s = <<s[1], s[2]>>
           /\ s[1] \in Seq(X) /\ Len(s[1]) = Len(e) /\ Elems(s[1]) = Elems(e)
           /\ NoRepeat(e) => NoRepeat(s[1])
           /\ s[2] \in Nat
           /\ SinkInv(s[1], s[2], gt)
           /\ Heap(s[1], gt) \/ s[2] > hole
<1> DEFINE l == largestPos(e, hole, gt)
           f == Swap(e, hole, l)
<1>1. Sink(<<e, hole>>, gt) = <<f, l>>
  BY Zenon DEF Sink
<1>2. hole \in 1 .. Len(e)
  BY Zenon DEF SinkInv
<1>3. /\ l \in 1 .. Len(e)
      /\ l = hole \/ (parentPos(l) = hole /\ l > hole /\ gt[e[l]][e[hole]])
      /\ \A i \in 2 .. Len(e) : parentPos(i) = hole => ~gt[e[i]][e[l]]
  BY <1>2, LargestFact, Zenon
<1> HIDE DEF l
<1>4. /\ f \in Seq(X) /\ Len(f) = Len(e) /\ Elems(f) = Elems(e)
      /\ NoRepeat(e) => NoRepeat(f)
      /\ \A k \in 1 .. Len(e) : f[k] = IF k = l THEN e[hole] ELSE IF k = hole THEN e[l] ELSE e[k]
  BY <1>2, <1>3, SwapFact
<1> HIDE DEF f
<1>5. \A k \in 1 .. Len(e) : e[k] \in X /\ f[k] \in X
  BY <1>4
<1>6. CASE l = hole
  <2>1. \A k \in 1 .. Len(e) : f[k] = e[k]
    BY <1>4, <1>6, Zenon
  <2>2. f = e
    BY <1>4, <2>1
  <2>3. Heap(f, gt)
    <3> SUFFICES ASSUME NEW i \in 2 .. Len(e) PROVE ~gt[e[i]][e[parentPos(i)]]
      BY <2>2, Zenon DEF Heap
    <3>1. CASE parentPos(i) = hole
      BY <1>3, <1>6, <3>1, Zenon
    <3>2. CASE parentPos(i) # hole
      BY <3>2, Zenon DEF SinkInv, HeapBut
    <3> QED BY <3>1, <3>2, Zenon
  <2> QED BY <1>1, <1>3, <1>4, <1>6, <2>2, <2>3
<1>7. CASE l # hole
  <2>1. parentPos(l) = hole /\ l > hole /\ gt[e[l]][e[hole]] /\ l \in 2 .. Len(e)
    BY <1>2, <1>3, <1>7
  <2>2. \A i \in 2 .. Len(e) : parentPos(i) \in 1 .. Len(e) /\ parentPos(i) < i
    BY DEF parentPos
  <2>3. ASSUME NEW i \in 2 .. Len(f), parentPos(i) # l PROVE ~gt[f[i]][f[parentPos(i)]]
    <3>1. CASE i = l
      \* what went down is in order with what came up
      <4>1. f[i] = e[hole] /\ f[parentPos(i)] = e[l]
        BY <1>2, <1>4, <1>7, <2>1, <3>1
      <4> QED BY <1>2, <1>3, <1>5, <2>1, <4>1, Zenon DEF StrictWeakOrder
    <3>2. CASE i # l /\ parentPos(i) = hole
      \* the other child
      <4>1. i # hole
        BY <1>4, <2>2, <3>2
      <4>2. f[i] = e[i] /\ f[parentPos(i)] = e[l]
        BY <1>2, <1>4, <1>7, <3>2, <4>1
      <4> QED BY <1>3, <1>4, <3>2, <4>2, Zenon
    <3>3. CASE i = hole
      \* what came up is in order with the parent
      <4>1. parentPos(i) # hole /\ parentPos(i) \in 1 .. Len(e) /\ hole > 1
        BY <1>4, <2>2, <3>3
      <4>2. f[i] = e[l] /\ f[parentPos(i)] = e[parentPos(hole)]
        BY <1>2, <1>4, <1>7, <2>3, <3>3, <4>1, Zenon
      <4> QED BY <2>1, <4>1, <4>2, Zenon DEF SinkInv
    <3>4. CASE i # l /\ parentPos(i) # hole /\ i # hole
      <4>1. f[i] = e[i] /\ f[parentPos(i)] = e[parentPos(i)]
        BY <1>4, <2>2, <2>3, <3>4
      <4> QED BY <1>4, <3>4, <4>1, Zenon DEF SinkInv, HeapBut
    <3> QED BY <3>1, <3>2, <3>3, <3>4, Zenon
  <2>4. ASSUME NEW i \in 2 .. Len(f), parentPos(i) = l PROVE ~gt[f[i]][f[parentPos(l)]]
    <3>1. i # l /\ i # hole
      BY <1>4, <2>1, <2>2, <2>4
    <3>2. f[i] = e[i] /\ f[parentPos(l)] = e[l]
      BY <1>2, <1>4, <1>7, <2>1, <3>1
    <3>3. ~gt[e[i]][e[parentPos(i)]]
      BY <1>4, <1>7, <2>4, Zenon DEF SinkInv, HeapBut
    <3> QED BY <2>4, <3>2, <3>3, Zenon
  <2>5. SinkInv(f, l, gt)
    BY <1>3, <1>4, <2>3, <2>4, Zenon DEF SinkInv, HeapBut
  <2> QED BY <1>1, <1>3, <1>4, <2>1, <2>5
<1> QED BY <1>6, <1>7, Zenon

LEMMA HeapifyFact ==
    ASSUME NEW X, NEW gt, StrictWeakOrder(gt, X), NEW e \in Seq(X), e # <<>>,
           HeapBut(e, 1, gt)
    PROVE  LET r == heapify(e, 1, gt) IN
           /\ r \in Seq(X) /\ Len(r) = Len(e) /\ Elems(r) = Elems(e)
           /\ NoRepeat(e) => NoRepeat(r)
           /\ Heap(r, gt)
<1> DEFINE N == Len(e)
           h == CHOOSE after :
                  after = [n \in 0 .. N |-> IF n = 0 THEN <<e, 1>> ELSE Sink(after[n - 1], gt)]
<1>1. N \in Nat \ {0}
  OBVIOUS
<1>2. h = [n \in 0 .. N |-> IF n = 0 THEN <<e, 1>> ELSE Sink(h[n - 1], gt)]
  <2>1. PICK g : IsSinkLoop(g, <<e, 1>>, gt, N)
    BY <1>1, SinkLoop, Zenon
  <2>2. g = [n \in 0 .. N |-> IF n = 0 THEN <<e, 1>> ELSE Sink(g[n - 1], gt)]
    BY <2>1, Zenon DEF IsSinkLoop
  <2> QED BY <2>2, Zenon
<1>3. heapify(e, 1, gt) = h[N][1]
  BY Zenon DEF heapify
<1> HIDE DEF h
<1> DEFINE Good(s, n) ==
             /\ s = <<s[1], s[2]>>
             /\ s[1] \in Seq(X) /\ Len(s[1]) = N /\ Elems(s[1]) = Elems(e)
             /\ NoRepeat(e) => NoRepeat(s[1])
             /\ s[2] \in Nat
             /\ SinkInv(s[1], s[2], gt)
             /\ Heap(s[1], gt) \/ s[2] > n
           S == {n \in Nat : n <= N => Good(h[n], n)}
<1>4. 0 \in S
  <2>1. h[0] = <<e, 1>>
    BY <1>1, <1>2
  <2>2. SinkInv(e, 1, gt)
    BY <1>1 DEF SinkInv
  <2> QED BY <2>1, <2>2
<1>5. ASSUME NEW n \in Nat, n \in S PROVE n + 1 \in S
  <2> SUFFICES ASSUME n + 1 <= N PROVE Good(h[n + 1], n + 1)
    OBVIOUS
  <2> DEFINE f == h[n][1]
             hole == h[n][2]
  <2>1. /\ h[n] = <<f, hole>>
        /\ f \in Seq(X) /\ Len(f) = N /\ Elems(f) = Elems(e)
        /\ NoRepeat(e) => NoRepeat(f)
        /\ hole \in Nat
        /\ SinkInv(f, hole, gt)
        /\ Heap(f, gt) \/ hole > n
    BY <1>1, <1>5
  <2>2. h[n + 1] = Sink(<<f, hole>>, gt)
    <3>1. n + 1 \in 0 .. N /\ n + 1 # 0 /\ (n + 1) - 1 = n
      BY <1>1
    <3>2. h[n + 1] = Sink(h[n], gt)
      BY <1>2, <3>1, Zenon
    <3> QED BY <2>1, <3>2, Zenon
  <2> HIDE DEF f, hole
  <2> DEFINE t == Sink(<<f, hole>>, gt)
  <2>3. /\ t = <<t[1], t[2]>>
        /\ t[1] \in Seq(X) /\ Len(t[1]) = Len(f) /\ Elems(t[1]) = Elems(f)
        /\ NoRepeat(f) => NoRepeat(t[1])
        /\ t[2] \in Nat
        /\ SinkInv(t[1], t[2], gt)
        /\ Heap(t[1], gt) \/ t[2] > hole
    BY <2>1, SinkStep, Zenon
  <2>4. Heap(f, gt) => Heap(t[1], gt)
    <3> SUFFICES ASSUME Heap(f, gt) PROVE Heap(t[1], gt)
      BY Zenon
    <3> DEFINE l == largestPos(f, hole, gt)
    <3>1. hole \in 1 .. Len(f)
      BY <2>1, Zenon DEF SinkInv
    <3>2. l = hole \/ (parentPos(l) = hole /\ l > hole /\ gt[f[l]][f[hole]] /\ l \in 1 .. Len(f))
      BY <2>1, <3>1, LargestFact, Zenon
    <3>3. t[1] = Swap(f, hole, l) /\ t[2] = l
      BY Zenon DEF Sink
    <3> HIDE DEF l
    <3>4. l = hole
      BY <3>1, <3>2 DEF Heap
    <3>5. \A k \in 1 .. Len(f) : t[1][k] = f[k]
      <4> HIDE DEF t
      <4>1. t[1] = Swap(f, hole, hole)
        BY <3>3, <3>4, Zenon
      <4>2. \A k \in 1 .. Len(f) :
              Swap(f, hole, hole)[k] = IF k = hole THEN f[hole] ELSE IF k = hole THEN f[hole] ELSE f[k]
        BY <2>1, <3>1, SwapFact
      <4> QED BY <4>1, <4>2, Zenon
    <3>6. t[1] = f
      <4> HIDE DEF t
      <4>1. f \in Seq(X) /\ t[1] \in Seq(X) /\ Len(t[1]) = Len(f)
        BY <2>1, <2>3, Zenon
      <4> QED BY <3>5, <4>1
    <3> QED BY <3>6, Zenon
  <2> HIDE DEF t
  <2>5. Good(t, n + 1)
    BY <1>5, <2>1, <2>3, <2>4
  <2> QED BY <2>2, <2>5, Zenon DEF t
<1> HIDE DEF S
<1>6. \A n \in Nat : n \in S
  BY <1>4, <1>5, NatSetInduction, Zenon
<1>7. Good(h[N], N)
  BY <1>1, <1>6 DEF S
<1>8. Heap(h[N][1], gt)
  BY <1>1, <1>7 DEF SinkInv
<1> QED BY <1>3, <1>7, <1>8, Zenon

\* The element at hole came up from below: those below it are in order with its
\* parent, and all but itself with theirs.
RiseInv(e, hole, gt) ==
    /\ hole \in 1 .. Len(e)
    /\ \A i \in 2 .. Len(e) : i # hole => ~gt[e[i]][e[parentPos(i)]]
    /\ \A i \in 2 .. Len(e) :
          parentPos(i) = hole /\ hole > 1 => ~gt[e[i]][e[parentPos(hole)]]

LEMMA RiseStep ==
    ASSUME NEW X, NEW gt, StrictWeakOrder(gt, X), NEW e \in Seq(X), NEW hole \in Nat,
           RiseInv(e, hole, gt)
    PROVE  LET s == Rise(<<e, hole>>, gt) IN
           /\ s = <<s[1], s[2]>>
           /\ s[1] \in Seq(X) /\ Len(s[1]) = Len(e) /\ Elems(s[1]) = Elems(e)
           /\ NoRepeat(e) => NoRepeat(s[1])
           /\ s[2] \in Nat
           /\ RiseInv(s[1], s[2], gt)
           /\ Heap(s[1], gt) \/ s[2] < hole
<1> DEFINE par == parentPos(hole)
           f == Swap(e, hole, par)
<1>1. hole \in 1 .. Len(e)
  BY Zenon DEF RiseInv
<1>2. CASE ~(hole > 1 /\ gt[e[hole]][e[par]])
  <2>1. Rise(<<e, hole>>, gt) = <<e, hole>>
    BY <1>2, Zenon DEF Rise
  <2>2. Heap(e, gt)
    BY <1>1, <1>2 DEF RiseInv, Heap
  <2> QED BY <2>1, <2>2
<1>3. CASE hole > 1 /\ gt[e[hole]][e[par]]
  <2>1. Rise(<<e, hole>>, gt) = <<f, par>>
    BY <1>3, Zenon DEF Rise
  <2>2. par \in 1 .. Len(e) /\ par < hole
    BY <1>1, <1>3 DEF parentPos
  <2>3. /\ f \in Seq(X) /\ Len(f) = Len(e) /\ Elems(f) = Elems(e)
        /\ NoRepeat(e) => NoRepeat(f)
        /\ \A k \in 1 .. Len(e) :
              f[k] = IF k = par THEN e[hole] ELSE IF k = hole THEN e[par] ELSE e[k]
    <3> HIDE DEF par
    <3> QED BY <1>1, <2>2, SwapFact
  <2> HIDE DEF f
  <2>4. \A k \in 1 .. Len(e) : e[k] \in X
    OBVIOUS
  <2>5. \A i \in 2 .. Len(e) : parentPos(i) \in 1 .. Len(e) /\ parentPos(i) < i
    BY DEF parentPos
  <2>6. ASSUME NEW i \in 2 .. Len(f), i # par PROVE ~gt[f[i]][f[parentPos(i)]]
    <3>1. CASE i = hole
      \* what went down is in order with what came up
      <4>1. f[i] = e[par] /\ f[parentPos(i)] = e[hole]
        BY <1>1, <2>2, <2>3, <3>1, Zenon
      <4> QED BY <1>1, <1>3, <2>2, <2>4, <4>1, Zenon DEF StrictWeakOrder
    <3>2. CASE i # hole /\ parentPos(i) = par
      \* the sibling is in order with the old parent, which is after the new one
      <4>1. f[i] = e[i] /\ f[parentPos(i)] = e[hole]
        BY <2>2, <2>3, <2>6, <3>2
      <4>2. ~gt[e[i]][e[par]]
        BY <2>3, <3>2, Zenon DEF RiseInv
      <4>3. ~gt[e[par]][e[hole]]
        BY <1>1, <1>3, <2>2, <2>4, Zenon DEF StrictWeakOrder
      <4> QED BY <1>1, <2>2, <2>3, <2>4, <4>1, <4>2, <4>3 DEF StrictWeakOrder
    <3>3. CASE i # hole /\ parentPos(i) = hole
      \* what was below what came up is now below the old parent
      <4>1. f[i] = e[i] /\ f[parentPos(i)] = e[par]
        BY <1>1, <2>2, <2>3, <2>6, <3>3
      <4> QED BY <1>3, <2>3, <3>3, <4>1, Zenon DEF RiseInv
    <3>4. CASE i # hole /\ parentPos(i) # par /\ parentPos(i) # hole
      <4>1. f[i] = e[i] /\ f[parentPos(i)] = e[parentPos(i)]
        BY <2>3, <2>5, <2>6, <3>4
      <4> QED BY <2>3, <3>4, <4>1, Zenon DEF RiseInv
    <3> QED BY <3>1, <3>2, <3>3, <3>4, Zenon
  <2>7. ASSUME NEW i \in 2 .. Len(f), parentPos(i) = par, par > 1
        PROVE  ~gt[f[i]][f[parentPos(par)]]
    <3>1. /\ parentPos(par) \in 1 .. Len(e) /\ parentPos(par) < par
          /\ f[parentPos(par)] = e[parentPos(par)]
      BY <2>2, <2>3, <2>5, <2>7
    <3>2. ~gt[e[par]][e[parentPos(par)]]
      BY <2>2, <2>7 DEF RiseInv
    <3>3. CASE i = hole
      BY <1>1, <2>2, <2>3, <3>1, <3>2, <3>3, Zenon
    <3>4. CASE i # hole
      <4>1. ~gt[e[i]][e[par]]
        BY <2>3, <2>7, <3>4, Zenon DEF RiseInv
      <4>2. f[i] = e[i]
        BY <2>3, <2>5, <2>7, <3>4
      <4> QED BY <2>2, <2>3, <2>4, <3>1, <3>2, <4>1, <4>2 DEF StrictWeakOrder
    <3> QED BY <3>3, <3>4, Zenon
  <2>8. RiseInv(f, par, gt)
    BY <2>2, <2>3, <2>6, <2>7, Zenon DEF RiseInv
  <2> QED BY <2>1, <2>2, <2>3, <2>8
<1> QED BY <1>2, <1>3, Zenon

\* insert() adds its element, and nothing else changes but the order.
THEOREM InsertIsCorrect ==
    ASSUME NEW X, NEW gt, StrictWeakOrder(gt, X), NEW e \in Seq(X), NEW x \in X,
           Heap(e, gt)
    PROVE  LET r == insert(e, x, gt) IN
           /\ r \in Seq(X) /\ Len(r) = Len(e) + 1 /\ Elems(r) = Elems(e) \cup {x}
           /\ NoRepeat(e) /\ x \notin Elems(e) => NoRepeat(r)
           /\ Heap(r, gt)
<1> DEFINE N == Len(e)
           d == Append(e, x)
           h == CHOOSE after :
                  after = [n \in 0 .. N |->
                             IF n = 0 THEN <<d, N + 1>> ELSE Rise(after[n - 1], gt)]
<1>1. N \in Nat
  OBVIOUS
<1>2. h = [n \in 0 .. N |-> IF n = 0 THEN <<d, N + 1>> ELSE Rise(h[n - 1], gt)]
  <2>1. PICK g : IsRiseLoop(g, <<d, N + 1>>, gt, N)
    BY <1>1, RiseLoop, Zenon
  <2>2. g = [n \in 0 .. N |-> IF n = 0 THEN <<d, N + 1>> ELSE Rise(g[n - 1], gt)]
    BY <2>1, Zenon DEF IsRiseLoop
  <2> QED BY <2>2, Zenon
<1>3. insert(e, x, gt) = h[N][1]
  BY Zenon DEF insert
<1> HIDE DEF h
<1>4. /\ d \in Seq(X) /\ Len(d) = N + 1
      /\ d[N + 1] = x /\ \A i \in 1 .. N : d[i] = e[i]
  OBVIOUS
<1> HIDE DEF d
<1>5. Elems(d) = Elems(e) \cup {x}
  BY <1>4 DEF Elems
<1>6. NoRepeat(e) /\ x \notin Elems(e) => NoRepeat(d)
  BY <1>4 DEF Elems, NoRepeat
<1> DEFINE Good(s, n) ==
             /\ s = <<s[1], s[2]>>
             /\ s[1] \in Seq(X) /\ Len(s[1]) = N + 1 /\ Elems(s[1]) = Elems(d)
             /\ NoRepeat(d) => NoRepeat(s[1])
             /\ s[2] \in Nat
             /\ RiseInv(s[1], s[2], gt)
             /\ Heap(s[1], gt) \/ s[2] <= N + 1 - n
           S == {n \in Nat : n <= N => Good(h[n], n)}
<1>7. 0 \in S
  <2>1. h[0] = <<d, N + 1>>
    BY <1>1, <1>2
  <2>2. \A i \in 2 .. N + 1 : parentPos(i) \in 1 .. N /\ parentPos(i) # N + 1
    BY DEF parentPos
  <2>3. RiseInv(d, N + 1, gt)
    <3>1. ASSUME NEW i \in 2 .. N + 1, i # N + 1 PROVE ~gt[d[i]][d[parentPos(i)]]
      BY <1>4, <2>2, <3>1 DEF Heap
    <3> QED BY <1>1, <1>4, <2>2, <3>1 DEF RiseInv
  <2> QED BY <1>4, <2>1, <2>3
<1>8. ASSUME NEW n \in Nat, n \in S PROVE n + 1 \in S
  <2> SUFFICES ASSUME n + 1 <= N PROVE Good(h[n + 1], n + 1)
    OBVIOUS
  <2> DEFINE f == h[n][1]
             hole == h[n][2]
  <2>1. /\ h[n] = <<f, hole>>
        /\ f \in Seq(X) /\ Len(f) = N + 1 /\ Elems(f) = Elems(d)
        /\ NoRepeat(d) => NoRepeat(f)
        /\ hole \in Nat
        /\ RiseInv(f, hole, gt)
        /\ Heap(f, gt) \/ hole <= N + 1 - n
    BY <1>1, <1>8
  <2>2. h[n + 1] = Rise(<<f, hole>>, gt)
    <3>1. n + 1 \in 0 .. N /\ n + 1 # 0 /\ (n + 1) - 1 = n
      BY <1>1
    <3>2. h[n + 1] = Rise(h[n], gt)
      BY <1>2, <3>1, Zenon
    <3> QED BY <2>1, <3>2, Zenon
  <2> HIDE DEF f, hole
  <2> DEFINE t == Rise(<<f, hole>>, gt)
  <2>3. /\ t = <<t[1], t[2]>>
        /\ t[1] \in Seq(X) /\ Len(t[1]) = Len(f) /\ Elems(t[1]) = Elems(f)
        /\ NoRepeat(f) => NoRepeat(t[1])
        /\ t[2] \in Nat
        /\ RiseInv(t[1], t[2], gt)
        /\ Heap(t[1], gt) \/ t[2] < hole
    BY <2>1, RiseStep, Zenon
  <2>4. Heap(f, gt) => Heap(t[1], gt)
    <3> SUFFICES ASSUME Heap(f, gt) PROVE t = <<f, hole>>
      OBVIOUS
    <3>1. hole > 1 => ~gt[f[hole]][f[parentPos(hole)]]
      BY <2>1 DEF Heap, RiseInv
    <3> QED BY <3>1, Zenon DEF Rise
  <2> HIDE DEF t
  <2>5. Good(t, n + 1)
    BY <1>1, <2>1, <2>3, <2>4
  <2> QED BY <2>2, <2>5, Zenon DEF t
<1> HIDE DEF S
<1>9. \A n \in Nat : n \in S
  BY <1>7, <1>8, NatSetInduction, Zenon
<1>10. Good(h[N], N)
  BY <1>1, <1>9 DEF S
<1>11. Heap(h[N][1], gt)
  <2>1. CASE Heap(h[N][1], gt)
    BY <2>1, Zenon
  <2>2. CASE h[N][2] = 1
    BY <1>10, <2>2 DEF RiseInv, Heap
  <2> QED BY <1>1, <1>10, <2>1, <2>2 DEF RiseInv
<1> QED BY <1>3, <1>5, <1>6, <1>10, <1>11, Zenon

\* The elements but the top.
Below(e) == {e[i] : i \in 2 .. Len(e)}

\* replaceTop() puts its element in the place of the top, and only the order
\* changes; the top itself need not have been in order.
THEOREM ReplaceTopIsCorrect ==
    ASSUME NEW X, NEW gt, StrictWeakOrder(gt, X), NEW Z, NEW e \in Seq(Z), e # <<>>,
           Below(e) \subseteq X, NEW x \in X, HeapBut(e, 1, gt)
    PROVE  LET r == replaceTop(e, x, gt) IN
           /\ r \in Seq(X) /\ Len(r) = Len(e) /\ Elems(r) = Below(e) \cup {x}
           /\ NoRepeat(e) /\ x \notin Below(e) => NoRepeat(r)
           /\ Heap(r, gt)
<1> DEFINE d == [e EXCEPT ![1] = x]
<1>1. \A i \in 2 .. Len(e) : e[i] \in X
  BY Zenon DEF Below
<1>2. /\ d = [i \in 1 .. Len(e) |-> IF i = 1 THEN x ELSE e[i]]
      /\ Len(e) \in Nat \ {0}
  OBVIOUS
<1>3. d \in Seq(X) /\ Len(d) = Len(e) /\ d # <<>>
  <2>1. d \in [1 .. Len(e) -> X]
    BY <1>1, <1>2
  <2>2. d \in Seq(X)
    <3>1. PICK f \in [1 .. Len(e) -> X] : f = d
      BY <2>1, Zenon
    <3>2. f \in Seq(X)
      BY <1>2
    <3> QED BY <3>1, <3>2, Zenon
  <2>3. DOMAIN d = 1 .. Len(e)
    BY <1>2, Zenon
  <2> HIDE DEF d
  <2>4. Len(d) = Len(e)
    BY <1>2, <2>2, <2>3
  <2> QED BY <1>2, <2>2, <2>4, Zenon
<1>4. /\ d[1] = x
      /\ \A i \in 2 .. Len(e) : d[i] = e[i]
  BY <1>2
<1>5. replaceTop(e, x, gt) = heapify(d, 1, gt)
  BY Zenon DEF replaceTop
<1> HIDE DEF d
<1>6. HeapBut(d, 1, gt)
  <2> SUFFICES ASSUME NEW i \in 2 .. Len(e), parentPos(i) # 1
               PROVE  ~gt[d[i]][d[parentPos(i)]]
    BY <1>3, Zenon DEF HeapBut
  <2>1. parentPos(i) \in 2 .. Len(e)
    BY DEF parentPos
  <2> QED BY <1>4, <2>1, Zenon DEF HeapBut
<1>7. Elems(d) = Below(e) \cup {x}
  <2>1. \A i \in 1 .. Len(e) : i = 1 \/ i \in 2 .. Len(e)
    OBVIOUS
  <2>2. 1 \in 1 .. Len(e)
    BY <1>2
  <2> QED BY <1>2, <1>3, <1>4, <2>1, <2>2 DEF Elems, Below
<1>8. NoRepeat(e) /\ x \notin Below(e) => NoRepeat(d)
  <2> SUFFICES ASSUME NoRepeat(e), x \notin Below(e),
                      NEW i \in 1 .. Len(e), NEW j \in 1 .. Len(e), d[i] = d[j]
               PROVE  i = j
    BY <1>3, Zenon DEF NoRepeat
  <2> QED BY <1>4 DEF NoRepeat, Below
<1> QED BY <1>3, <1>5, <1>6, <1>7, <1>8, HeapifyFact

\* removeTop() takes the top away, and only the order of the others changes.
THEOREM RemoveTopIsCorrect ==
    ASSUME NEW X, NEW gt, StrictWeakOrder(gt, X), NEW Z, NEW e \in Seq(Z), e # <<>>,
           Below(e) \subseteq X, HeapBut(e, 1, gt)
    PROVE  LET r == removeTop(e, gt) IN
           /\ r \in Seq(X) /\ Len(r) = Len(e) - 1
           /\ NoRepeat(e) => NoRepeat(r) /\ Elems(r) = Below(e)
           /\ Heap(r, gt)
<1> DEFINE N == Len(e)
<1>1. N \in Nat \ {0}
  OBVIOUS
<1>2. CASE N = 1
  <2>1. removeTop(e, gt) = <<>>
    BY <1>2, Zenon DEF removeTop
  <2>2. Below(e) = {} /\ Elems(<<>>) = {}
    BY <1>2 DEF Below, Elems
  <2> QED BY <1>2, <2>1, <2>2 DEF NoRepeat, Heap
<1>3. CASE N > 1
  <2> DEFINE d == SubSeq(e, 1, N - 1)
             x == e[N]
  <2>1. d \in Seq(Z) /\ Len(d) = N - 1 /\ \A i \in 1 .. N - 1 : d[i] = e[i]
    BY <1>3
  <2>2. removeTop(e, gt) = replaceTop(d, x, gt)
    BY <1>3 DEF removeTop
  <2>3. x \in X
    BY <1>3 DEF Below
  <2> HIDE DEF d, x
  <2>4. Below(d) \subseteq X /\ d # <<>>
    BY <1>3, <2>1 DEF Below
  <2>5. HeapBut(d, 1, gt)
    <3> SUFFICES ASSUME NEW i \in 2 .. N - 1, parentPos(i) # 1
                 PROVE  ~gt[d[i]][d[parentPos(i)]]
      BY <2>1, Zenon DEF HeapBut
    <3>1. parentPos(i) \in 1 .. N - 1
      BY DEF parentPos
    <3>2. ~gt[e[i]][e[parentPos(i)]]
      BY <1>3 DEF HeapBut
    <3> QED BY <2>1, <3>1, <3>2
  <2> DEFINE r == replaceTop(d, x, gt)
  <2>6. /\ r \in Seq(X) /\ Len(r) = Len(d) /\ Elems(r) = Below(d) \cup {x}
        /\ NoRepeat(d) /\ x \notin Below(d) => NoRepeat(r)
        /\ Heap(r, gt)
    BY <2>1, <2>3, <2>4, <2>5, ReplaceTopIsCorrect, Zenon
  <2>7. ASSUME NoRepeat(e) PROVE NoRepeat(d) /\ x \notin Below(d)
    BY <1>3, <2>1, <2>7 DEF NoRepeat, Below, x
  <2>8. Below(d) \cup {x} = Below(e)
    <3>1. \A i \in 2 .. N : i = N \/ i \in 2 .. N - 1
      OBVIOUS
    <3> QED BY <1>3, <2>1, <3>1 DEF Below, x
  <2> HIDE DEF r
  <2> QED BY <2>1, <2>2, <2>6, <2>7, <2>8, Zenon DEF r
<1> HIDE DEF N
<1>4. N = 1 \/ N > 1
  BY <1>1
<1> QED BY <1>2, <1>3, <1>4, Zenon

\* No element comes before the top: what _validate() asserts follows from the heap
\* order, along the parents of each element.
THEOREM TopIsFirst ==
    ASSUME NEW X, NEW gt, StrictWeakOrder(gt, X), NEW e \in Seq(X), Heap(e, gt)
    PROVE  /\ \A i \in 1 .. Len(e) : ~gt[e[i]][e[1]]
           /\ IsHeap(e, gt)
<1> DEFINE S == {n \in Nat : \A i \in 1 .. Len(e) : i <= n => ~gt[e[i]][e[1]]}
<1>1. 0 \in S
  OBVIOUS
<1>2. ASSUME NEW n \in Nat, n \in S PROVE n + 1 \in S
  <2> SUFFICES ASSUME NEW i \in 1 .. Len(e), i = n + 1 PROVE ~gt[e[i]][e[1]]
    BY <1>2
  <2>1. CASE i = 1
    BY <2>1 DEF StrictWeakOrder
  <2>2. CASE i > 1
    <3>1. parentPos(i) \in 1 .. Len(e) /\ parentPos(i) <= n
      BY <2>2 DEF parentPos
    <3>2. ~gt[e[parentPos(i)]][e[1]]
      BY <1>2, <3>1, Zenon
    <3>3. ~gt[e[i]][e[parentPos(i)]]
      BY <2>2 DEF Heap
    <3>4. e[i] \in X /\ e[parentPos(i)] \in X /\ e[1] \in X
      BY <3>1
    <3> QED BY <3>2, <3>3, <3>4, Zenon DEF StrictWeakOrder
  <2> QED BY <2>1, <2>2
<1> HIDE DEF S
<1>3. \A n \in Nat : n \in S
  BY <1>1, <1>2, NatSetInduction, Zenon
<1>4. \A i \in 1 .. Len(e) : ~gt[e[i]][e[1]]
  BY <1>3 DEF S
<1> QED BY <1>4 DEF IsHeap, Heap

-----------------------------------------------------------------------------
(* Why remembering the first clock class is enough.                        *)

\* Messages without a clock class, or with one of a set of distinct objects.
Distinct(S) == \A c, d \in S \ {NoClock} : c.ptr = d.ptr => c = d

LEMMA CorrelatedIsSymmetric ==
    ASSUME NEW c, NEW d, Correlated(c, d)
    PROVE  Correlated(d, c)
BY Zenon DEF Correlated

LEMMA CorrelatedIsTransitive ==
    ASSUME NEW c, NEW d, NEW e, Correlated(c, d), Correlated(d, e)
    PROVE  Correlated(c, e)
BY Zenon DEF Correlated

\* After its first clock class c, the validator (_validate() of
\* clock-correlation-validator.cpp) accepts exactly the clock classes which are
\* correlated with c.
THEOREM AcceptsWhatIsCorrelated ==
    ASSUME NEW S, Distinct(S), NEW c \in S, NEW d \in S
    PROVE  Accepts(validate(Unset, c), d) <=> Correlated(c, d)
<1>1. validate(Unset, c) = Expectation(c)
  BY Zenon DEF validate
<1>2. CASE c = NoClock
  <2>1. Expectation(c).expect = "None"
    BY <1>2, Zenon DEF Expectation
  <2> QED BY <1>1, <1>2, <2>1, Zenon DEF Accepts, Correlated
<1>3. CASE c # NoClock /\ c.origin # UnknownOrigin
  <2>1. Expectation(c).expect = "OriginKnown" /\ Expectation(c).ref = c
    BY <1>3, Zenon DEF Expectation
  <2> QED BY <1>1, <1>3, <2>1, Zenon DEF Accepts, Correlated
<1>4. CASE c # NoClock /\ c.origin = UnknownOrigin /\ c.id # NoId
  <2>1. Expectation(c).expect = "OriginUnknownWithId" /\ Expectation(c).ref = c
    BY <1>4, Zenon DEF Expectation
  <2> QED BY <1>1, <1>4, <2>1, Zenon DEF Accepts, Correlated
<1>5. CASE c # NoClock /\ c.origin = UnknownOrigin /\ c.id = NoId
  <2>1. Expectation(c).expect = "OriginUnknownWithoutId" /\ Expectation(c).ref = c
    BY <1>5, Zenon DEF Expectation
  <2>2. Accepts(Expectation(c), d) <=> d # NoClock /\ d.ptr = c.ptr
    BY <2>1 DEF Accepts
  <2>3. d # NoClock /\ d.ptr = c.ptr => d = c
    BY <1>5, Zenon DEF Distinct
  <2>4. Correlated(c, c)
    BY Zenon DEF Correlated
  <2>5. Correlated(c, d) => d # NoClock /\ d.ptr = c.ptr
    BY <1>5, Zenon DEF Correlated
  <2> QED BY <1>1, <2>2, <2>3, <2>4, <2>5, Zenon
<1> QED BY <1>2, <1>3, <1>4, <1>5, Zenon

LEMMA CorrelatedWithAll ==
    ASSUME NEW S, NEW first \in S, NEW next, \A c \in S : Correlated(first, c)
    PROVE  Correlated(first, next) <=> \A c \in S : Correlated(c, next)
<1>1. ASSUME Correlated(first, next), NEW c \in S PROVE Correlated(c, next)
  BY <1>1, CorrelatedIsSymmetric, CorrelatedIsTransitive, Zenon
<1> QED BY <1>1, Zenon

\* _validate() remembers the first clock class only. Once it has accepted those of
\* `past`, it accepts the next one exactly when a validator which had begun with any
\* of them would: which one came first does not matter.
THEOREM FirstIsEnough ==
    ASSUME NEW S, Distinct(S), NEW past \in SUBSET S, NEW first \in past, NEW next \in S,
           \A c \in past : Accepts(validate(Unset, first), c)
    PROVE  Accepts(validate(Unset, first), next) <=> \A c \in past : Accepts(validate(Unset, c), next)
<1>1. \A c \in past, d \in S : Accepts(validate(Unset, c), d) <=> Correlated(c, d)
  BY AcceptsWhatIsCorrelated, Zenon
<1>2. \A c \in past : Correlated(first, c)
  BY <1>1, Zenon
<1>3. Correlated(first, next) <=> \A c \in past : Correlated(c, next)
  BY <1>2, CorrelatedWithAll, Zenon
<1> QED BY <1>1, <1>3, Zenon

-----------------------------------------------------------------------------
(* How messages compare.                                                   *)

LEMMA FirstOfTwo ==
    ASSUME NEW x \in Int, NEW y \in Int
    PROVE  FirstDifference(<<x, y>>) = IF x # 0 THEN x ELSE y
<1> DEFINE r == <<x, y>>
           differ == {i \in DOMAIN r : r[i] # 0}
<1>1. FirstDifference(r) = IF differ = {} THEN 0 ELSE r[Min(differ)]
  BY Zenon DEF FirstDifference
<1>2. DOMAIN r = {1, 2} /\ r[1] = x /\ r[2] = y
  OBVIOUS
<1> SUFFICES FirstDifference(r) = IF x # 0 THEN x ELSE y
  BY Zenon
<1> HIDE DEF r
<1>3. CASE x # 0
  <2>1. 1 \in differ /\ \A k \in differ : k \in Int /\ 1 <= k
    BY <1>2, <1>3
  <2> HIDE DEF differ
  <2>2. Min(differ) = 1
    BY <2>1 DEF Min
  <2> QED BY <1>1, <1>2, <1>3, <2>1, <2>2, Zenon
<1>4. CASE x = 0 /\ y # 0
  <2>1. differ = {2}
    BY <1>2, <1>4, Zenon
  <2> HIDE DEF differ
  <2>2. Min(differ) = 2
    BY <2>1 DEF Min
  <2> QED BY <1>1, <1>2, <1>4, <2>1, <2>2, Zenon
<1>5. CASE x = 0 /\ y = 0
  <2>1. differ = {}
    BY <1>2, <1>5, Zenon
  <2> QED BY <1>1, <1>5, <2>1, Zenon
<1> QED BY <1>3, <1>4, <1>5, Zenon

LEMMA FirstOfThree ==
    ASSUME NEW x \in Int, NEW y \in Int, NEW z \in Int
    PROVE  FirstDifference(<<x, y, z>>) = IF x # 0 THEN x ELSE IF y # 0 THEN y ELSE z
<1> DEFINE r == <<x, y, z>>
           differ == {i \in DOMAIN r : r[i] # 0}
<1>1. FirstDifference(r) = IF differ = {} THEN 0 ELSE r[Min(differ)]
  BY Zenon DEF FirstDifference
<1>2. DOMAIN r = {1, 2, 3} /\ r[1] = x /\ r[2] = y /\ r[3] = z
  OBVIOUS
<1> SUFFICES FirstDifference(r) = IF x # 0 THEN x ELSE IF y # 0 THEN y ELSE z
  BY Zenon
<1> HIDE DEF r
<1>3. CASE x # 0
  <2>1. 1 \in differ /\ \A k \in differ : k \in Int /\ 1 <= k
    BY <1>2, <1>3
  <2> HIDE DEF differ
  <2>2. Min(differ) = 1
    BY <2>1 DEF Min
  <2> QED BY <1>1, <1>2, <1>3, <2>1, <2>2, Zenon
<1>4. CASE x = 0 /\ y # 0
  <2>1. 2 \in differ /\ \A k \in differ : k \in Int /\ 2 <= k
    BY <1>2, <1>4
  <2> HIDE DEF differ
  <2>2. Min(differ) = 2
    BY <2>1 DEF Min
  <2> QED BY <1>1, <1>2, <1>4, <2>1, <2>2, Zenon
<1>5. CASE x = 0 /\ y = 0 /\ z # 0
  <2>1. differ = {3}
    BY <1>2, <1>5, Zenon
  <2> HIDE DEF differ
  <2>2. Min(differ) = 3
    BY <2>1 DEF Min
  <2> QED BY <1>1, <1>2, <1>5, <2>1, <2>2, Zenon
<1>6. CASE x = 0 /\ y = 0 /\ z = 0
  <2>1. differ = {}
    BY <1>2, <1>6, Zenon
  <2> QED BY <1>1, <1>6, <2>1, Zenon
<1> QED BY <1>3, <1>4, <1>5, <1>6, Zenon

\* A type is known by its weight.
LEMMA TypeWeight ==
    ASSUME NEW m \in Messages
    PROVE  /\ messageTypeWeight(m.type) \in Int
           /\ TypesInOrder[messageTypeWeight(m.type)] = m.type
<1>1. PICK w \in DOMAIN TypesInOrder : m.type = TypesInOrder[w]
  BY MessageAssumption, Zenon
<1>2. /\ messageTypeWeight(m.type) \in DOMAIN TypesInOrder
      /\ TypesInOrder[messageTypeWeight(m.type)] = m.type
  BY <1>1, Zenon DEF messageTypeWeight
<1>3. DOMAIN TypesInOrder \subseteq Int
  BY DEF TypesInOrder
<1> QED BY <1>2, <1>3, Zenon

\* Lexicographic order on what is compared: whether there is a stream, the stream,
\* the type, the attributes and, for discarded events only, the count.
NoneLast(v) == IF v = None THEN 1 ELSE 0

CountOf(m) == IF m.type = "DE" THEN m.count ELSE 0

KeyLess(m, n) ==
    \/ NoneLast(m.stream) < NoneLast(n.stream)
    \/ /\ NoneLast(m.stream) = NoneLast(n.stream)
       /\ \/ m.stream < n.stream
          \/ /\ m.stream = n.stream
             /\ \/ messageTypeWeight(m.type) < messageTypeWeight(n.type)
                \/ /\ m.type = n.type
                   /\ \/ m.attr < n.attr
                      \/ /\ m.attr = n.attr
                         /\ \/ NoneLast(CountOf(m)) < NoneLast(CountOf(n))
                            \/ /\ NoneLast(CountOf(m)) = NoneLast(CountOf(n))
                               /\ CountOf(m) < CountOf(n)

LEMMA OptionalsFact ==
    ASSUME NEW x \in Int, NEW y \in Int
    PROVE  /\ compareOptionals(x, y) \in Int /\ compareLt(x, y) \in Int
           /\ compareLt(x, y) < 0 <=> x < y
           /\ compareLt(x, y) = 0 <=> x = y
           /\ compareOptionals(x, y) < 0
                <=> NoneLast(x) < NoneLast(y) \/ (NoneLast(x) = NoneLast(y) /\ x < y)
           /\ compareOptionals(x, y) = 0 <=> x = y
BY DEF compareOptionals, compareLt, NoneLast, None

LEMMA CompareIsKeyLess ==
    ASSUME NEW m \in Messages, NEW n \in Messages
    PROVE  compare(m, n) \in Int /\ (compare(m, n) < 0 <=> KeyLess(m, n))
<1>1. /\ m.stream \in Int /\ m.attr \in Int /\ m.count \in Int
      /\ n.stream \in Int /\ n.attr \in Int /\ n.count \in Int
  BY MessageAssumption, Zenon
<1> DEFINE same == compareMessagesSameType(m, n)
           x == compareOptionals(m.stream, n.stream)
           y == compareLt(messageTypeWeight(m.type), messageTypeWeight(n.type))
           z == IF m.type = n.type THEN same ELSE 0
<1>2. ASSUME m.type = n.type
      PROVE  /\ same \in Int
             /\ same < 0 <=> \/ m.attr < n.attr
                             \/ /\ m.attr = n.attr
                                /\ \/ NoneLast(CountOf(m)) < NoneLast(CountOf(n))
                                   \/ /\ NoneLast(CountOf(m)) = NoneLast(CountOf(n))
                                      /\ CountOf(m) < CountOf(n)
  <2> DEFINE p == compareLt(m.attr, n.attr)
  <2>1. p \in Int /\ (p < 0 <=> m.attr < n.attr) /\ (p = 0 <=> m.attr = n.attr)
    BY <1>1, OptionalsFact, Zenon
  <2>2. CASE m.type = "DE"
    <3> DEFINE q == compareOptionals(m.count, n.count)
    <3>1. same = FirstDifference(<<p, q>>)
      BY <2>2, Zenon DEF compareMessagesSameType
    <3>2. /\ q \in Int
          /\ q < 0 <=> \/ NoneLast(m.count) < NoneLast(n.count)
                       \/ NoneLast(m.count) = NoneLast(n.count) /\ m.count < n.count
      BY <1>1, OptionalsFact, Zenon
    <3>3. CountOf(m) = m.count /\ CountOf(n) = n.count
      BY <1>2, <2>2, Zenon DEF CountOf
    <3> HIDE DEF p, q, same
    <3>4. same = IF p # 0 THEN p ELSE q
      BY <2>1, <3>1, <3>2, FirstOfTwo, Zenon
    <3> QED BY <1>1, <2>1, <3>2, <3>3, <3>4
  <2>3. CASE m.type = "DP"
    <3> DEFINE q == compareOptionals(m.count, m.count)
    <3>1. same = FirstDifference(<<p, q>>)
      BY <2>3, Zenon DEF compareMessagesSameType
    <3>2. q \in Int /\ q = 0
      BY <1>1, OptionalsFact, Zenon
    <3>3. CountOf(m) = 0 /\ CountOf(n) = 0
      BY <1>2, <2>3, Zenon DEF CountOf
    <3> HIDE DEF p, q, same
    <3>4. same = IF p # 0 THEN p ELSE q
      BY <2>1, <3>1, <3>2, FirstOfTwo, Zenon
    <3> QED BY <1>1, <2>1, <3>2, <3>3, <3>4 DEF NoneLast
  <2>4. CASE m.type # "DE" /\ m.type # "DP"
    <3>1. same = p
      BY <2>4, Zenon DEF compareMessagesSameType
    <3>2. CountOf(m) = 0 /\ CountOf(n) = 0
      BY <1>2, <2>4, Zenon DEF CountOf
    <3> HIDE DEF p, same
    <3> QED BY <1>1, <2>1, <3>1, <3>2 DEF NoneLast
  <2> QED BY <2>2, <2>3, <2>4, Zenon
<1>3. /\ x \in Int
      /\ x < 0 <=> \/ NoneLast(m.stream) < NoneLast(n.stream)
                   \/ NoneLast(m.stream) = NoneLast(n.stream) /\ m.stream < n.stream
      /\ x = 0 <=> m.stream = n.stream
  BY <1>1, OptionalsFact, Zenon
<1>4. /\ y \in Int
      /\ y < 0 <=> messageTypeWeight(m.type) < messageTypeWeight(n.type)
      /\ y = 0 <=> m.type = n.type
  <2>1. /\ y \in Int
        /\ y < 0 <=> messageTypeWeight(m.type) < messageTypeWeight(n.type)
        /\ y = 0 <=> messageTypeWeight(m.type) = messageTypeWeight(n.type)
    BY TypeWeight, OptionalsFact, Zenon
  <2>2. messageTypeWeight(m.type) = messageTypeWeight(n.type) => m.type = n.type
    BY TypeWeight, Zenon
  <2> QED BY <2>1, <2>2, Zenon
<1>5. compare(m, n) = FirstDifference(<<x, y, z>>)
  BY Zenon DEF compare
<1> HIDE DEF same, x, y
<1>6. z \in Int
  BY <1>2
<1>7. compare(m, n) = IF x # 0 THEN x ELSE IF y # 0 THEN y ELSE z
  BY <1>3, <1>4, <1>5, <1>6, FirstOfThree
<1> QED BY <1>1, <1>2, <1>3, <1>4, <1>6, <1>7 DEF KeyLess, NoneLast

LEMMA KeyLessIsStrictWeak ==
    ASSUME NEW m \in Messages, NEW n \in Messages, NEW p \in Messages
    PROVE  /\ ~KeyLess(m, m)
           /\ KeyLess(m, n) => ~KeyLess(n, m)
           /\ ~KeyLess(m, n) /\ ~KeyLess(n, p) => ~KeyLess(m, p)
<1>1. /\ m.stream \in Int /\ m.attr \in Int /\ CountOf(m) \in Int
      /\ n.stream \in Int /\ n.attr \in Int /\ CountOf(n) \in Int
      /\ p.stream \in Int /\ p.attr \in Int /\ CountOf(p) \in Int
  BY MessageAssumption DEF CountOf
<1> DEFINE W(q) == messageTypeWeight(q.type)
<1>2. /\ W(m) \in Int /\ W(n) \in Int /\ W(p) \in Int
      /\ W(m) = W(n) <=> m.type = n.type
      /\ W(n) = W(p) <=> n.type = p.type
      /\ W(m) = W(p) <=> m.type = p.type
  BY TypeWeight, Zenon
<1> HIDE DEF W
<1>3. \A q, r \in {m, n, p} :
        KeyLess(q, r) <=>
            \/ NoneLast(q.stream) < NoneLast(r.stream)
            \/ /\ NoneLast(q.stream) = NoneLast(r.stream)
               /\ \/ q.stream < r.stream
                  \/ /\ q.stream = r.stream
                     /\ \/ W(q) < W(r)
                        \/ /\ W(q) = W(r)
                           /\ \/ q.attr < r.attr
                              \/ /\ q.attr = r.attr
                                 /\ \/ NoneLast(CountOf(q)) < NoneLast(CountOf(r))
                                    \/ /\ NoneLast(CountOf(q)) = NoneLast(CountOf(r))
                                       /\ CountOf(q) < CountOf(r)
  BY <1>2 DEF KeyLess, W
<1>4. \A v \in Int : NoneLast(v) \in Int
  BY DEF NoneLast
<1> QED BY <1>1, <1>2, <1>3, <1>4

\* Whether a message goes out before another one: what HeapComparator says of two
\* wrappers which hold them.
Older(m, n) ==
    CASE m.ts # NoTs /\ n.ts # NoTs /\ m.ts # n.ts -> m.ts < n.ts
      [] m.ts # NoTs /\ n.ts = NoTs -> FALSE
      [] m.ts = NoTs /\ n.ts # NoTs -> TRUE
      [] OTHER -> compare(m, n) < 0

LEMMA OlderFact ==
    ASSUME NEW m \in Messages, NEW n \in Messages
    PROVE  /\ Older(m, n) <=> \/ ~NotAfter(n, m)
                              \/ NotAfter(m, n) /\ NotAfter(n, m) /\ KeyLess(m, n)
           /\ ~Older(n, m) => NotAfter(m, n)
           /\ NotAfter(m, n) \/ NotAfter(n, m)
<1>1. m.ts \in Int \cup {NoTs} /\ n.ts \in Int \cup {NoTs} /\ NoTs \notin Int
  BY MergerAssumption, Zenon
<1>2. /\ compare(m, n) < 0 <=> KeyLess(m, n)
      /\ compare(n, m) < 0 <=> KeyLess(n, m)
  BY CompareIsKeyLess, Zenon
<1> QED BY <1>1, <1>2 DEF Older, NotAfter

LEMMA OlderIsStrictWeak ==
    ASSUME NEW m \in Messages, NEW n \in Messages, NEW p \in Messages
    PROVE  /\ ~Older(m, m)
           /\ Older(m, n) => ~Older(n, m)
           /\ ~Older(m, n) /\ ~Older(n, p) => ~Older(m, p)
<1>1. /\ m.ts \in Int \cup {NoTs} /\ n.ts \in Int \cup {NoTs} /\ p.ts \in Int \cup {NoTs}
      /\ NoTs \notin Int
  BY MergerAssumption, Zenon
<1>2. \A q, r \in {m, n, p} :
        Older(q, r) <=> ~NotAfter(r, q) \/ (NotAfter(q, r) /\ NotAfter(r, q) /\ KeyLess(q, r))
  BY OlderFact, Zenon
<1>3. /\ ~KeyLess(m, m)
      /\ KeyLess(m, n) => ~KeyLess(n, m)
      /\ ~KeyLess(m, n) /\ ~KeyLess(n, p) => ~KeyLess(m, p)
  BY KeyLessIsStrictWeak, Zenon
<1>4. /\ NotAfter(m, m) /\ (NotAfter(m, n) \/ NotAfter(n, m))
      /\ NotAfter(m, n) /\ NotAfter(n, p) => NotAfter(m, p)
      /\ NotAfter(p, n) /\ NotAfter(n, m) => NotAfter(p, m)
      /\ NotAfter(n, p) /\ NotAfter(p, m) => NotAfter(n, m)
      /\ NotAfter(m, p) /\ NotAfter(p, n) => NotAfter(m, n)
      /\ NotAfter(p, m) /\ NotAfter(m, n) => NotAfter(p, n)
      /\ NotAfter(n, m) /\ NotAfter(m, p) => NotAfter(n, p)
  BY <1>1 DEF NotAfter
<1> QED BY <1>2, <1>3, <1>4, Zenon

\* The comparator of the heap, for wrappers which hold a message and its timestamp.
LEMMA ComparatorFact ==
    ASSUME NEW current, NEW ts, NEW a, NEW b,
           ts[a] = Head(current[a]).ts, ts[b] = Head(current[b]).ts
    PROVE  HeapComparator(current, ts, a, b) = Older(Head(current[a]), Head(current[b]))
BY Zenon DEF HeapComparator, Older

LEMMA ComparatorIsStrictWeak ==
    ASSUME NEW current \in [Upstreams -> Seq(Messages)], NEW ts, NEW X \in SUBSET Upstreams,
           \A u \in X : current[u] # <<>> /\ ts[u] = Head(current[u]).ts
    PROVE  StrictWeakOrder([a \in Upstreams |-> [b \in Upstreams |->
                                HeapComparator(current, ts, a, b)]], X)
<1> DEFINE gt == [a \in Upstreams |-> [b \in Upstreams |-> HeapComparator(current, ts, a, b)]]
           m == [u \in X |-> Head(current[u])]
<1>1. \A u \in X : m[u] \in Messages
  OBVIOUS
<1>2. ASSUME NEW a \in X, NEW b \in X PROVE gt[a][b] = Older(m[a], m[b])
  <2>1. HeapComparator(current, ts, a, b) = Older(Head(current[a]), Head(current[b]))
    BY ComparatorFact
  <2> QED BY <2>1, Zenon
<1> HIDE DEF gt, m
<1>3. \A a \in X : ~gt[a][a]
  BY <1>1, <1>2, OlderIsStrictWeak, Zenon
<1>4. \A a, b \in X : gt[a][b] => ~gt[b][a]
  BY <1>1, <1>2, OlderIsStrictWeak, Zenon
<1>5. \A a, b, c \in X : ~gt[a][b] /\ ~gt[b][c] => ~gt[a][c]
  BY <1>1, <1>2, OlderIsStrictWeak
<1>6. StrictWeakOrder(gt, X)
  BY <1>3, <1>4, <1>5, Zenon DEF StrictWeakOrder
<1> QED BY <1>6, Zenon DEF gt

-----------------------------------------------------------------------------
(* The inductive invariant.                                                *)

\* What a wrapper holds is what its upstream iterator returned and the muxer did not
\* merge yet.
Position(u) ==
    LET t == TakenFrom(Merged, u) IN
    /\ t \in Nat
    /\ t + Len(msgs[u]) = pos[u] - 1
    /\ pos[u] <= Len(env.content[u]) + 1
    /\ \A k \in 1 .. Len(msgs[u]) : msgs[u][k] = env.content[u][t + k]

Holds(u) == msgs[u] # <<>> /\ msgTs[u] = Head(msgs[u]).ts

\* Each wrapper has a message and is in the heap, or waits to be reloaded, or is done.
\* Only the one at the top of the heap may lack a message, while it is reloaded and
\* when reloading it failed.
Wrappers ==
    /\ \A u \in Upstreams : Position(u)
    /\ NoRepeat(heap) /\ NoRepeat(toReload) /\ Elems(heap) \cap Elems(toReload) = {}
    /\ \A u \in Upstreams :
          IF u \in Elems(heap) \cup Elems(toReload)
          THEN up_state[u] = "ACTIVE"
          ELSE msgs[u] = <<>> /\ pos[u] = Len(env.content[u]) + 1
    /\ \A u \in Elems(toReload) : ~discardRequired[u] /\ msgs[u] = <<>>
    /\ pc \in {"loop", "reload"} => toReload = <<>>
    /\ pc = "reload" => heap # <<>> /\ ~discardRequired[heap[1]]
    /\ \A u \in Below(heap) : Holds(u)
    /\ HeapBut(heap, 1, Gt)
    /\ heap # <<>> /\ pc # "reload" =>
          IF msgs[heap[1]] = <<>>
          THEN toReload = <<>> /\ (exc = "Error" \/ env.asks)
          ELSE Holds(heap[1]) /\ Heap(heap, Gt)

\* A seek resets the wrappers one by one; one which fails leaves the muxer without
\* anything to return until another one succeeds.
Reset(u) ==
    pos[u] = 1 /\ up_state[u] = "ACTIVE" /\ msgs[u] = <<>> /\ ~discardRequired[u]

Seeking ==
    /\ heap = <<>> /\ toReload = <<>> /\ out = <<>> /\ exc = "None"
    /\ pc = "seek" => \A u \in Upstreams \ Elems(toSeek) : Reset(u)

\* The validator remembers one of the clock classes which it accepted, and they are
\* all correlated with it.
Remembers ==
    /\ seen \subseteq {m.clk : m \in Messages}
    /\ \/ validator = Unset /\ seen = {}
       \/ \E c \in seen : validator = Expectation(c) /\ \A d \in seen : Correlated(c, d)

Calls ==
    /\ pc \in {"idle", "ensure", "seek"} => array = <<>>
    /\ pc \in {"ensure", "loop", "reload"} => exc = "None" /\ state = "ACTIVE"

Inv ==
    /\ TypeOK
    /\ Calls
    /\ IF pc = "seek" \/ state = "SEEK_FAILED" THEN Seeking ELSE Wrappers
    /\ Remembers

-----------------------------------------------------------------------------
(* Facts about the parts of the invariant.                                 *)

LEMMA TakenFromFact ==
    ASSUME NEW q \in Seq(Messages), NEW m \in Messages, NEW u
    PROVE  /\ TakenFrom(q, u) \in Nat
           /\ TakenFrom(<<>>, u) = 0
           /\ TakenFrom(Append(q, m), u) = TakenFrom(q, u) + IF m.up = u THEN 1 ELSE 0
<1> DEFINE F(p) == {i \in DOMAIN p : p[i].up = u}
<1>1. DOMAIN q = 1 .. Len(q) /\ Len(q) \in Nat
  OBVIOUS
<1>2. IsFiniteSet(F(q))
  <2>1. IsFiniteSet(1 .. Len(q))
    BY <1>1, FS_Interval
  <2> QED BY <1>1, <2>1, FS_Subset, Zenon
<1>3. Cardinality(F(q)) \in Nat
  BY <1>2, FS_CardinalityType, Zenon
<1>4. TakenFrom(<<>>, u) = 0
  <2>1. F(<<>>) = {}
    OBVIOUS
  <2> QED BY <2>1, FS_EmptySet, Zenon DEF TakenFrom
<1>5. F(Append(q, m)) = IF m.up = u THEN F(q) \cup {Len(q) + 1} ELSE F(q)
  <2>1. DOMAIN Append(q, m) = 1 .. Len(q) + 1
    OBVIOUS
  <2>2. /\ Append(q, m)[Len(q) + 1] = m
        /\ \A i \in 1 .. Len(q) : Append(q, m)[i] = q[i]
    OBVIOUS
  <2>3. \A i \in 1 .. Len(q) + 1 : i = Len(q) + 1 \/ i \in 1 .. Len(q)
    OBVIOUS
  <2> QED BY <1>1, <2>1, <2>2, <2>3
<1>6. Len(q) + 1 \notin F(q)
  BY <1>1
<1> HIDE DEF F
<1>7. Cardinality(F(q) \cup {Len(q) + 1}) = Cardinality(F(q)) + 1
  BY <1>2, <1>6, FS_AddElement, Zenon
<1>8. TakenFrom(q, u) = Cardinality(F(q)) /\ TakenFrom(Append(q, m), u) = Cardinality(F(Append(q, m)))
  BY Zenon DEF TakenFrom, F
<1> QED BY <1>3, <1>4, <1>5, <1>7, <1>8

LEMMA EmptyTaken ==
    ASSUME NEW u
    PROVE  TakenFrom(<<>>, u) = 0
<1>1. {i \in DOMAIN <<>> : <<>>[i].up = u} = {}
  OBVIOUS
<1> QED BY <1>1, FS_EmptySet, Zenon DEF TakenFrom

LEMMA ContentFact ==
    ASSUME TypeOK
    PROVE  /\ env.content \in Contents
           /\ \A u \in Upstreams :
                 /\ env.content[u] \in Seq(Messages)
                 /\ \A i \in 1 .. Len(env.content[u]) : env.content[u][i].up = u
           /\ env.order \in Seq(Upstreams) /\ Elems(env.order) = Upstreams /\ NoRepeat(env.order)
           /\ env.asks \in BOOLEAN
<1>1. /\ env \in ScenarioType
      /\ {env.order[i] : i \in DOMAIN env.order} = Upstreams
      /\ \A i, j \in DOMAIN env.order : env.order[i] = env.order[j] => i = j
  BY MuxerAssumption, Zenon DEF TypeOK
<1>2. env.content \in Contents /\ env.order \in Seq(Upstreams) /\ env.asks \in BOOLEAN
  BY <1>1, Zenon DEF ScenarioType
<1>3. \A u \in Upstreams : env.content[u] \in Seq(Messages)
  BY <1>2, MergerAssumption, Zenon
<1>4. \A u \in Upstreams : \A i \in DOMAIN env.content[u] : env.content[u][i].up = u
  BY <1>2, MessageAssumption, Zenon
<1>5. DOMAIN env.order = 1 .. Len(env.order)
  BY <1>2
<1>6. \A u \in Upstreams : DOMAIN env.content[u] = 1 .. Len(env.content[u])
  <2>1. \A c \in Seq(Messages) : DOMAIN c = 1 .. Len(c)
    OBVIOUS
  <2> QED BY <1>3, <2>1, Zenon
<1> QED BY <1>1, <1>2, <1>3, <1>4, <1>5, <1>6, Zenon DEF Elems, NoRepeat

\* The comparator only depends on what the wrappers hold.
LEMMA GtFrame ==
    ASSUME NEW a \in Upstreams, NEW b \in Upstreams,
           msgs'[a] = msgs[a], msgTs'[a] = msgTs[a], msgs'[b] = msgs[b], msgTs'[b] = msgTs[b]
    PROVE  Gt'[a][b] = Gt[a][b]
BY Zenon DEF Gt, HeapComparator

LEMMA HeapFrame ==
    ASSUME NEW e \in Seq(Upstreams), Heap(e, Gt),
           \A u \in Elems(e) : msgs'[u] = msgs[u] /\ msgTs'[u] = msgTs[u]
    PROVE  Heap(e, Gt')
<1> SUFFICES ASSUME NEW i \in 2 .. Len(e) PROVE ~Gt'[e[i]][e[parentPos(i)]]
  BY Zenon DEF Heap
<1>1. i \in 1 .. Len(e) /\ parentPos(i) \in 1 .. Len(e)
  BY DEF parentPos
<1>2. e[i] \in Elems(e) /\ e[parentPos(i)] \in Elems(e) /\ e[i] \in Upstreams /\ e[parentPos(i)] \in Upstreams
  BY <1>1 DEF Elems
<1>3. Gt'[e[i]][e[parentPos(i)]] = Gt[e[i]][e[parentPos(i)]]
  BY <1>2, GtFrame, Zenon
<1> QED BY <1>3, Zenon DEF Heap

LEMMA HeapButFrame ==
    ASSUME NEW e \in Seq(Upstreams), HeapBut(e, 1, Gt),
           \A u \in Below(e) : msgs'[u] = msgs[u] /\ msgTs'[u] = msgTs[u]
    PROVE  HeapBut(e, 1, Gt')
<1> SUFFICES ASSUME NEW i \in 2 .. Len(e), parentPos(i) # 1 PROVE ~Gt'[e[i]][e[parentPos(i)]]
  BY Zenon DEF HeapBut
<1>1. parentPos(i) \in 2 .. Len(e)
  BY DEF parentPos
<1>2. e[i] \in Below(e) /\ e[parentPos(i)] \in Below(e) /\ e[i] \in Upstreams /\ e[parentPos(i)] \in Upstreams
  BY <1>1 DEF Below
<1>3. Gt'[e[i]][e[parentPos(i)]] = Gt[e[i]][e[parentPos(i)]]
  BY <1>2, GtFrame, Zenon
<1> QED BY <1>3, Zenon DEF HeapBut

\* The elements of a heap are its top and the others.
LEMMA TopAndBelow ==
    ASSUME NEW X, NEW e \in Seq(X)
    PROVE  /\ Elems(e) \subseteq X /\ Below(e) \subseteq X
           /\ e # <<>> => e[1] \in X /\ Elems(e) = Below(e) \cup {e[1]}
           /\ e # <<>> /\ NoRepeat(e) => e[1] \notin Below(e)
           /\ e = <<>> => Elems(e) = {} /\ Below(e) = {} /\ NoRepeat(e)
<1>1. \A i \in 1 .. Len(e) : i = 1 \/ i \in 2 .. Len(e)
  OBVIOUS
<1>2. e # <<>> => 1 \in 1 .. Len(e)
  OBVIOUS
<1> QED BY <1>1, <1>2 DEF Elems, Below, NoRepeat

LEMMA HeadAndTail ==
    ASSUME NEW X, NEW q \in Seq(X), q # <<>>
    PROVE  /\ Head(q) \in X /\ Tail(q) \in Seq(X)
           /\ Elems(q) = Elems(Tail(q)) \cup {Head(q)}
           /\ NoRepeat(q) => Head(q) \notin Elems(Tail(q)) /\ NoRepeat(Tail(q))
<1>1. /\ Head(q) = q[1] /\ Len(Tail(q)) = Len(q) - 1 /\ Len(q) \in Nat \ {0}
      /\ \A i \in 1 .. Len(q) - 1 : Tail(q)[i] = q[i + 1]
  OBVIOUS
<1>2. \A i \in 1 .. Len(q) : i = 1 \/ i - 1 \in 1 .. Len(q) - 1
  OBVIOUS
<1>3. Elems(q) \subseteq Elems(Tail(q)) \cup {Head(q)}
  <2> SUFFICES ASSUME NEW i \in 1 .. Len(q) PROVE q[i] \in Elems(Tail(q)) \cup {Head(q)}
    BY Zenon DEF Elems
  <2>1. CASE i = 1
    BY <1>1, <2>1, Zenon
  <2>2. CASE i # 1
    <3>1. i - 1 \in 1 .. Len(Tail(q)) /\ q[i] = Tail(q)[i - 1]
      BY <1>1, <2>2
    <3> QED BY <3>1, Zenon DEF Elems
  <2> QED BY <2>1, <2>2, Zenon
<1>4. Elems(Tail(q)) \cup {Head(q)} \subseteq Elems(q)
  BY <1>1 DEF Elems
<1>5. NoRepeat(q) => Head(q) \notin Elems(Tail(q)) /\ NoRepeat(Tail(q))
  BY <1>1 DEF Elems, NoRepeat
<1> QED BY <1>3, <1>4, <1>5

LEMMA SubSeqFact ==
    ASSUME NEW X, NEW c \in Seq(X), NEW i \in Nat \ {0}, NEW n \in Nat \ {0}, i + n - 1 <= Len(c)
    PROVE  /\ SubSeq(c, i, i + n - 1) \in Seq(X)
           /\ Len(SubSeq(c, i, i + n - 1)) = n
           /\ \A k \in 1 .. n : SubSeq(c, i, i + n - 1)[k] = c[i + k - 1]
OBVIOUS

\* reload() gives the wrapper a message and its timestamp, and touches no other one.
LEMMA ReloadMoreFact ==
    ASSUME TypeOK, NEW u \in Upstreams, ReloadMore(u), Position(u), UNCHANGED <<env, out, array>>
    PROVE  /\ pos' \in [Upstreams -> Nat \ {0}]
           /\ msgs' \in [Upstreams -> Seq(Messages)]
           /\ msgTs' \in [Upstreams -> Int \cup {NoTs}]
           /\ discardRequired' \in [Upstreams -> BOOLEAN]
           /\ up_state' = up_state
           /\ \A v \in Upstreams \ {u} :
                 /\ pos'[v] = pos[v] /\ msgs'[v] = msgs[v] /\ msgTs'[v] = msgTs[v]
                 /\ discardRequired'[v] = discardRequired[v]
           /\ Holds(u)' /\ Position(u)'
<1> DEFINE c == env.content[u]
           t == TakenFrom(Merged, u)
<1>1. c \in Seq(Messages)
  BY ContentFact, Zenon
<1>2. Merged' = Merged
  BY Zenon DEF Merged
<1>3. /\ t \in Nat /\ t + Len(msgs[u]) = pos[u] - 1 /\ pos[u] <= Len(c) + 1
      /\ \A k \in 1 .. Len(msgs[u]) : msgs[u][k] = c[t + k]
  BY Zenon DEF Position
<1>4. /\ pos' \in [Upstreams -> Nat \ {0}]
      /\ msgs' \in [Upstreams -> Seq(Messages)]
      /\ up_state' = up_state
      /\ msgs'[u] # <<>>
      /\ t + Len(msgs'[u]) = pos'[u] - 1 /\ pos'[u] <= Len(c) + 1
      /\ \A k \in 1 .. Len(msgs'[u]) : msgs'[u][k] = c[t + k]
      /\ \A v \in Upstreams \ {u} : pos'[v] = pos[v] /\ msgs'[v] = msgs[v]
  <2>1. CASE msgs[u] = <<>>
    <3>1. TryGetNewMsgs(u)
      BY <2>1, Zenon DEF ReloadMore
    <3>2. PICK n \in 1 .. UpstreamBatch :
            /\ pos[u] + n - 1 <= Len(c)
            /\ msgs' = [msgs EXCEPT ![u] = SubSeq(c, pos[u], pos[u] + n - 1)]
            /\ pos' = [pos EXCEPT ![u] = @ + n]
      BY <3>1, Zenon DEF TryGetNewMsgs
    <3>3. n \in Nat \ {0} /\ pos[u] \in Nat \ {0} /\ pos[u] = t + 1
      BY <1>3, <2>1, MuxerAssumption DEF TypeOK
    <3> DEFINE b == SubSeq(c, pos[u], pos[u] + n - 1)
    <3> HIDE DEF c, t
    <3>4. b \in Seq(Messages) /\ Len(b) = n /\ \A k \in 1 .. n : b[k] = c[t + k]
      <4>1. \A k \in 1 .. n : b[k] = c[pos[u] + k - 1]
        BY <1>1, <3>2, <3>3, SubSeqFact
      <4>2. \A k \in 1 .. n : pos[u] + k - 1 = t + k
        BY <1>3, <3>3
      <4>3. b \in Seq(Messages) /\ Len(b) = n
        BY <1>1, <3>2, <3>3, SubSeqFact
      <4> QED BY <4>1, <4>2, <4>3, Zenon
    <3> HIDE DEF b
    <3>5. msgs' = [msgs EXCEPT ![u] = b] /\ msgs'[u] = b /\ pos'[u] = pos[u] + n
      BY <3>2, Zenon DEF TypeOK, b
    <3>6. up_state' = up_state
      BY <3>1, Zenon DEF TryGetNewMsgs
    <3>7. pos' \in [Upstreams -> Nat \ {0}] /\ msgs' \in [Upstreams -> Seq(Messages)]
      <4>1. pos[u] + n \in Nat \ {0}
        BY <3>3
      <4> QED BY <3>2, <3>4, <3>5, <4>1, Zenon DEF TypeOK
    <3>8. \A v \in Upstreams \ {u} : pos'[v] = pos[v] /\ msgs'[v] = msgs[v]
      BY <3>2, <3>5, Zenon DEF TypeOK
    <3>9. msgs'[u] # <<>>
      BY <3>3, <3>4, <3>5
    <3>10. t + Len(msgs'[u]) = pos'[u] - 1 /\ pos'[u] <= Len(c) + 1
      <4>1. Len(c) \in Nat
        BY <1>1
      <4>2. Len(msgs'[u]) = n /\ pos'[u] = pos[u] + n
        BY <3>4, <3>5, Zenon
      <4>3. pos[u] + n - 1 <= Len(c)
        BY <3>2, Zenon
      <4>4. pos[u] = t + 1 /\ n \in Nat /\ t \in Nat
        BY <1>3, <3>3, Zenon
      <4> QED BY <4>1, <4>2, <4>3, <4>4
    <3>11. \A k \in 1 .. Len(msgs'[u]) : msgs'[u][k] = c[t + k]
      BY <3>4, <3>5, Zenon
    <3> QED BY <3>6, <3>7, <3>8, <3>9, <3>10, <3>11, Zenon DEF c, t
  <2>2. CASE msgs[u] # <<>>
    <3>1. msgs' = msgs /\ pos' = pos /\ up_state' = up_state
      BY <2>2, Zenon DEF ReloadMore, upVars
    <3> QED BY <1>3, <2>2, <3>1, Zenon DEF TypeOK
  <2> QED BY <2>1, <2>2, Zenon
<1> DEFINE m == Head(msgs'[u])
<1>5. m \in Messages
  BY <1>4
<1>6. m.ts \in Int \cup {NoTs}
  BY <1>5, MergerAssumption, Zenon
<1> HIDE DEF m
<1>7. /\ msgTs' = [msgTs EXCEPT ![u] = m.ts]
      /\ discardRequired' = [discardRequired EXCEPT ![u] = TRUE]
  BY Zenon DEF ReloadMore, m
<1>8. /\ msgTs' \in [Upstreams -> Int \cup {NoTs}] /\ msgTs'[u] = m.ts
      /\ discardRequired' \in [Upstreams -> BOOLEAN]
      /\ \A v \in Upstreams \ {u} :
            msgTs'[v] = msgTs[v] /\ discardRequired'[v] = discardRequired[v]
  BY <1>6, <1>7, Zenon DEF TypeOK
<1>9. Holds(u)'
  BY <1>4, <1>8, Zenon DEF Holds, m
<1>10. Position(u)'
  BY <1>2, <1>3, <1>4, Zenon DEF Position
<1> QED BY <1>4, <1>8, <1>9, <1>10, Zenon

LEMMA SeqOfElems ==
    ASSUME NEW Y, NEW e \in Seq(Y), NEW X, Elems(e) \subseteq X
    PROVE  e \in Seq(X)
<1>1. Len(e) \in Nat /\ e \in [1 .. Len(e) -> Y]
  OBVIOUS
<1>2. e \in [1 .. Len(e) -> X]
  BY <1>1, Zenon DEF Elems
<1> QED BY <1>1, <1>2

\* While calls get messages, all the wrappers in the heap hold one but the top, after
\* its reloading failed.
LEMMA WholeHeap ==
    ASSUME TypeOK, Wrappers, pc # "reload", heap = <<>> \/ msgs[heap[1]] # <<>>
    PROVE  /\ \A u \in Elems(heap) : Holds(u)
           /\ Heap(heap, Gt)
           /\ StrictWeakOrder(Gt, Elems(heap))
           /\ heap \in Seq(Elems(heap))
<1>1. heap \in Seq(Upstreams) /\ Elems(heap) \subseteq Upstreams
  BY TopAndBelow, Zenon DEF TypeOK
<1>2. \A u \in Elems(heap) : Holds(u)
  <2>1. CASE heap = <<>>
    BY <1>1, <2>1, TopAndBelow, Zenon
  <2>2. CASE heap # <<>>
    <3>1. Elems(heap) = Below(heap) \cup {heap[1]}
      BY <1>1, <2>2, TopAndBelow, Zenon
    <3>2. Holds(heap[1]) /\ \A u \in Below(heap) : Holds(u)
      BY <2>2, Zenon DEF Wrappers
    <3> QED BY <3>1, <3>2, Zenon
  <2> QED BY <2>1, <2>2, Zenon
<1>3. Heap(heap, Gt)
  <2>1. CASE heap = <<>>
    BY <2>1 DEF Heap
  <2>2. CASE heap # <<>>
    BY <2>2, Zenon DEF Wrappers
  <2> QED BY <2>1, <2>2, Zenon
<1>4. StrictWeakOrder(Gt, Elems(heap))
  <2>1. msgs \in [Upstreams -> Seq(Messages)]
    BY Zenon DEF TypeOK
  <2>2. \A u \in Elems(heap) : msgs[u] # <<>> /\ msgTs[u] = Head(msgs[u]).ts
    BY <1>2, Zenon DEF Holds
  <2> QED BY <1>1, <2>1, <2>2, ComparatorIsStrictWeak, Zenon DEF Gt
<1>5. heap \in Seq(Elems(heap))
  BY <1>1, SeqOfElems, Zenon
<1> QED BY <1>2, <1>3, <1>4, <1>5, Zenon

LEMMA GtNextIsStrictWeak ==
    ASSUME msgs' \in [Upstreams -> Seq(Messages)], NEW X \in SUBSET Upstreams,
           \A u \in X : Holds(u)'
    PROVE  StrictWeakOrder(Gt', X)
<1>1. \A u \in X : msgs'[u] # <<>> /\ msgTs'[u] = Head(msgs'[u]).ts
  BY Zenon DEF Holds
<1>2. PICK current \in [Upstreams -> Seq(Messages)] : current = msgs'
  BY Zenon
<1>3. PICK ts : ts = msgTs'
  BY Zenon
<1>4. Gt' = [a \in Upstreams |-> [b \in Upstreams |-> HeapComparator(current, ts, a, b)]]
  BY <1>2, <1>3, Zenon DEF Gt
<1>5. \A u \in X : current[u] # <<>> /\ ts[u] = Head(current[u]).ts
  BY <1>1, <1>2, <1>3, Zenon
<1>6. StrictWeakOrder([a \in Upstreams |-> [b \in Upstreams |->
                          HeapComparator(current, ts, a, b)]], X)
  BY <1>5, ComparatorIsStrictWeak, Zenon
<1> QED BY <1>4, <1>6, Zenon

\* _ensureFullHeap() moves a wrapper which got messages to the heap.
LEMMA EnsureMoreStep ==
    ASSUME Inv, EnsureMore
    PROVE  Inv'
<1>1. /\ TypeOK /\ Wrappers /\ pc = "ensure" /\ toReload # <<>> /\ exc = "None"
      /\ state = "ACTIVE" /\ array = <<>> /\ Remembers
  BY Zenon DEF Inv, Calls, EnsureMore
<1>2. /\ heap \in Seq(Upstreams) /\ toReload \in Seq(Upstreams)
      /\ NoRepeat(heap) /\ NoRepeat(toReload) /\ Elems(heap) \cap Elems(toReload) = {}
  BY <1>1, Zenon DEF TypeOK, Wrappers
<1> PICK u \in Upstreams : u = Head(toReload)
  BY <1>1, <1>2, HeadAndTail, Zenon
<1>3. /\ Tail(toReload) \in Seq(Upstreams)
      /\ Elems(toReload) = Elems(Tail(toReload)) \cup {u}
      /\ u \notin Elems(Tail(toReload)) /\ NoRepeat(Tail(toReload))
  BY <1>1, <1>2, HeadAndTail, Zenon
<1>4. u \notin Elems(heap) /\ Elems(heap) \subseteq Upstreams
  BY <1>2, <1>3, TopAndBelow, Zenon
<1>5. heap = <<>> \/ msgs[heap[1]] # <<>>
  BY <1>1, Zenon DEF Wrappers
<1>6. /\ \A v \in Elems(heap) : Holds(v)
      /\ Heap(heap, Gt)
      /\ heap \in Seq(Elems(heap))
  BY <1>1, <1>5, WholeHeap, Zenon
<1>7. /\ ReloadMore(u) /\ heap' = insert(heap, u, Gt') /\ toReload' = Tail(toReload)
      /\ UNCHANGED <<env, validator, exc, pc, array, toSeek, state, out, seen>>
  BY Zenon DEF EnsureMore, callVars, GtNext, Gt
<1>8. Position(u)
  BY <1>1, <1>3, Zenon DEF Wrappers
<1>9. /\ pos' \in [Upstreams -> Nat \ {0}]
      /\ msgs' \in [Upstreams -> Seq(Messages)]
      /\ msgTs' \in [Upstreams -> Int \cup {NoTs}]
      /\ discardRequired' \in [Upstreams -> BOOLEAN]
      /\ up_state' = up_state
      /\ \A v \in Upstreams \ {u} :
            /\ pos'[v] = pos[v] /\ msgs'[v] = msgs[v] /\ msgTs'[v] = msgTs[v]
            /\ discardRequired'[v] = discardRequired[v]
      /\ Holds(u)' /\ Position(u)'
  BY <1>1, <1>3, <1>7, <1>8, ReloadMoreFact, Zenon
<1> DEFINE X == Elems(heap) \cup {u}
<1>10. X \subseteq Upstreams /\ \A v \in X : Holds(v)'
  BY <1>3, <1>4, <1>6, <1>9, Zenon DEF Holds
<1>11. StrictWeakOrder(Gt', X)
  <2> HIDE DEF X
  <2> QED BY <1>9, <1>10, GtNextIsStrictWeak, Zenon
<1>12. Heap(heap, Gt')
  BY <1>2, <1>4, <1>6, <1>9, HeapFrame, Zenon
<1>13. heap \in Seq(X) /\ u \in X
  BY <1>2, SeqOfElems, Zenon
<1>14. /\ heap' \in Seq(X) /\ Elems(heap') = Elems(heap) \cup {u}
       /\ NoRepeat(heap') /\ Heap(heap', Gt')
  <2> HIDE DEF X
  <2> PICK gt : gt = Gt'
    BY Zenon
  <2> DEFINE r == insert(heap, u, gt)
  <2>1. StrictWeakOrder(gt, X) /\ Heap(heap, gt)
    BY <1>11, <1>12, Zenon
  <2>2. /\ r \in Seq(X) /\ Elems(r) = Elems(heap) \cup {u}
        /\ NoRepeat(heap) /\ u \notin Elems(heap) => NoRepeat(r)
        /\ Heap(r, gt)
    BY <1>13, <2>1, InsertIsCorrect, SMTT(30)
  <2> QED BY <1>2, <1>4, <1>7, <2>2, Zenon
<1>15. heap' \in Seq(Upstreams)
  BY <1>10, <1>14, SeqOfElems, Zenon
<1>16. TypeOK'
  BY <1>1, <1>3, <1>7, <1>9, <1>15, Zenon DEF TypeOK
<1>17. Wrappers'
  <2>1. \A v \in Upstreams : Position(v)'
    <3> TAKE v \in Upstreams
    <3>1. CASE v = u
      BY <1>9, <3>1, Zenon
    <3>2. CASE v # u
      <4>1. Position(v)
        BY <1>1, Zenon DEF Wrappers
      <4>2. Merged' = Merged /\ env' = env /\ msgs'[v] = msgs[v] /\ pos'[v] = pos[v]
        BY <1>7, <1>9, <3>2, Zenon DEF Merged
      <4> QED BY <4>1, <4>2, Zenon DEF Position
    <3> QED BY <3>1, <3>2, Zenon
  <2>2. Elems(heap') \cap Elems(toReload') = {} /\ NoRepeat(toReload')
    BY <1>2, <1>3, <1>7, <1>14, Zenon
  <2>3. Elems(heap') \cup Elems(toReload') = Elems(heap) \cup Elems(toReload)
    BY <1>3, <1>7, <1>14, Zenon
  <2>4. \A v \in Upstreams :
          IF v \in Elems(heap') \cup Elems(toReload')
          THEN up_state'[v] = "ACTIVE"
          ELSE msgs'[v] = <<>> /\ pos'[v] = Len(env'.content[v]) + 1
    <3> TAKE v \in Upstreams
    <3>1. IF v \in Elems(heap) \cup Elems(toReload)
          THEN up_state[v] = "ACTIVE"
          ELSE msgs[v] = <<>> /\ pos[v] = Len(env.content[v]) + 1
      BY <1>1, Zenon DEF Wrappers
    <3>2. v \notin Elems(heap) \cup Elems(toReload) => v # u
      BY <1>3, Zenon
    <3> QED BY <1>7, <1>9, <2>3, <3>1, <3>2, Zenon
  <2>5. \A v \in Elems(toReload') : ~discardRequired'[v] /\ msgs'[v] = <<>>
    <3> TAKE v \in Elems(toReload')
    <3>1. v \in Upstreams \ {u} /\ v \in Elems(toReload)
      BY <1>3, <1>7, TopAndBelow, Zenon
    <3> QED BY <1>1, <1>9, <3>1, Zenon DEF Wrappers
  <2>6. Below(heap') \subseteq X /\ HeapBut(heap', 1, Gt')
    BY <1>14, TopAndBelow, Zenon DEF Heap, HeapBut
  <2>7. heap' # <<>> => heap'[1] \in X
    BY <1>14, TopAndBelow, Zenon
  <2>8. heap' # <<>> => Holds(heap[1])' /\ msgs'[heap'[1]] # <<>>
    BY <1>10, <2>7, Zenon DEF Holds
  <2> HIDE DEF X
  <2> QED BY <1>1, <1>7, <1>10, <1>14, <2>1, <2>2, <2>4, <2>5, <2>6, <2>8, Zenon DEF Wrappers
<1>18. Calls' /\ Remembers'
  BY <1>1, <1>7, Zenon DEF Calls, Remembers
<1> QED BY <1>1, <1>7, <1>16, <1>17, <1>18, Zenon DEF Inv

LEMMA ConcatFact ==
    ASSUME NEW X, NEW p \in Seq(X), NEW q \in Seq(X), NEW m \in X
    PROVE  /\ p \o q \in Seq(X)
           /\ p \o Append(q, m) = Append(p \o q, m)
           /\ (p \o q) \o <<>> = p \o q
           /\ <<>> \o <<>> = <<>>
           /\ <<>> \o q = q
<1>1. p \o q \in Seq(X) /\ (p \o q) \o <<>> = p \o q /\ <<>> \o q = q
  OBVIOUS
<1>2. p \o Append(q, m) \in Seq(X) /\ Append(p \o q, m) \in Seq(X)
  OBVIOUS
<1>3. Len(p \o Append(q, m)) = Len(Append(p \o q, m))
  OBVIOUS
<1>4. \A i \in 1 .. Len(Append(p \o q, m)) : (p \o Append(q, m))[i] = Append(p \o q, m)[i]
  OBVIOUS
<1>5. p \o Append(q, m) = Append(p \o q, m)
  <2>1. PICK a \in Seq(X) : a = p \o Append(q, m)
    BY <1>2, Zenon
  <2>2. PICK b \in Seq(X) : b = Append(p \o q, m)
    BY <1>2, Zenon
  <2>3. Len(a) = Len(b) /\ \A i \in 1 .. Len(b) : a[i] = b[i]
    BY <1>3, <1>4, <2>1, <2>2, Zenon
  <2>4. a = b
    BY <2>3
  <2> QED BY <2>1, <2>2, <2>4, Zenon
<1> QED BY <1>1, <1>5

\* Comparing with the remembered clock class is comparing with all of them, and
\* validating the next one keeps it so.
LEMMA ValidateFact ==
    ASSUME Remembers, NEW m \in Messages
    PROVE  /\ Accepts(validator, m.clk) <=> \A c \in seen : Correlated(c, m.clk)
           /\ Accepts(validator, m.clk) =>
                \E c \in seen \cup {m.clk} :
                    /\ validate(validator, m.clk) = Expectation(c)
                    /\ \A d \in seen \cup {m.clk} : Correlated(c, d)
<1> DEFINE S == {n.clk : n \in Messages}
           k == m.clk
<1>1. Distinct(S) /\ k \in S
  BY MessageAssumption DEF Distinct
<1>2. \A c : Correlated(c, c)
  BY Zenon DEF Correlated
<1>3. \A c : Expectation(c) # Unset
  BY Zenon DEF Expectation, Unset
<1>4. CASE validator = Unset /\ seen = {}
  <2>1. Accepts(validator, k) /\ validate(validator, k) = Expectation(k)
    BY <1>4, Zenon DEF Accepts, validate, Unset
  <2> QED BY <1>2, <1>4, <2>1, Zenon
<1>5. ASSUME NEW c \in seen, validator = Expectation(c), \A d \in seen : Correlated(c, d)
      PROVE  /\ Accepts(validator, k) <=> \A d \in seen : Correlated(d, k)
             /\ Accepts(validator, k) =>
                  /\ validate(validator, k) = Expectation(c)
                  /\ \A d \in seen \cup {k} : Correlated(c, d)
  <2>1. c \in S
    BY Zenon DEF Remembers
  <2>2. validate(Unset, c) = Expectation(c)
    BY Zenon DEF validate
  <2> HIDE DEF S
  <2>3. Accepts(validator, k) <=> Correlated(c, k)
    BY <1>1, <1>5, <2>1, <2>2, AcceptsWhatIsCorrelated, Zenon
  <2>4. Correlated(c, k) <=> \A d \in seen : Correlated(d, k)
    BY <1>5, CorrelatedWithAll, Zenon
  <2>5. validate(validator, k) = Expectation(c)
    BY <1>3, <1>5, Zenon DEF validate
  <2> QED BY <1>5, <2>3, <2>4, <2>5, Zenon
<1> HIDE DEF S
<1> QED BY <1>4, <1>5, Zenon DEF Remembers

\* _next() appends the oldest message.
LEMMA NextAppendsStep ==
    ASSUME Inv, NextAppends
    PROVE  Inv'
<1>1. /\ TypeOK /\ Wrappers /\ pc = "loop" /\ heap # <<>> /\ toReload = <<>> /\ exc = "None"
      /\ state = "ACTIVE" /\ Remembers /\ Len(array) < Capacity
  BY Zenon DEF Inv, Calls, NextAppends, Wrappers
<1>2. heap \in Seq(Upstreams) /\ NoRepeat(heap)
  BY <1>1, Zenon DEF TypeOK, Wrappers
<1>3. heap[1] \in Upstreams /\ heap[1] \notin Below(heap) /\ heap[1] \in Elems(heap)
      /\ Elems(heap) \subseteq Upstreams /\ Below(heap) \subseteq Upstreams
      /\ Below(heap) \subseteq Elems(heap)
  BY <1>1, <1>2, TopAndBelow
<1> PICK top \in Upstreams : top = heap[1]
  BY <1>3, Zenon
<1>4. msgs[top] \in Seq(Messages) /\ msgs[top] # <<>>
  BY <1>1, Zenon DEF NextAppends, AppendOldest, TypeOK
<1> PICK m \in Messages : m = Head(msgs[top])
  BY <1>4
<1>5. /\ HasClockToValidate(m) => Accepts(validator, m.clk)
      /\ validator' = IF HasClockToValidate(m) THEN validate(validator, m.clk) ELSE validator
      /\ seen' = IF HasClockToValidate(m) THEN seen \cup {m.clk} ELSE seen
      /\ array' = Append(array, m)
      /\ msgs' = [msgs EXCEPT ![top] = Tail(@)]
      /\ discardRequired' = [discardRequired EXCEPT ![top] = FALSE]
      /\ pc' = "reload"
      /\ UNCHANGED <<env, pos, up_state, msgTs, heap, toReload, exc, toSeek, state, out>>
  BY Zenon DEF NextAppends, AppendOldest, upVars
<1>6. /\ msgs' \in [Upstreams -> Seq(Messages)] /\ msgs'[top] = Tail(msgs[top])
      /\ discardRequired' \in [Upstreams -> BOOLEAN] /\ discardRequired'[top] = FALSE
      /\ \A v \in Upstreams \ {top} : msgs'[v] = msgs[v] /\ discardRequired'[v] = discardRequired[v]
  <2>1. Tail(msgs[top]) \in Seq(Messages)
    BY <1>4
  <2>2. /\ msgs \in [Upstreams -> Seq(Messages)] /\ discardRequired \in [Upstreams -> BOOLEAN]
        /\ msgs' = [msgs EXCEPT ![top] = Tail(msgs[top])]
    BY <1>1, <1>5, Zenon DEF TypeOK
  <2>3. msgs' \in [Upstreams -> Seq(Messages)] /\ msgs'[top] = Tail(msgs[top])
    BY <2>1, <2>2, Zenon
  <2>4. \A v \in Upstreams \ {top} : msgs'[v] = msgs[v]
    BY <2>2, Zenon
  <2> QED BY <1>5, <2>2, <2>3, <2>4, Zenon
<1>7. array \in Seq(Messages) /\ out \in Seq(Messages) /\ Merged \in Seq(Messages)
  BY <1>1, ConcatFact, Zenon DEF TypeOK, Merged
<1>8. Merged' = Append(Merged, m)
  BY <1>5, <1>7, ConcatFact DEF Merged
<1>9. array' \in Seq(Messages) /\ Len(array') <= Capacity
  BY <1>1, <1>5, <1>7, MuxerAssumption
<1>10. TypeOK'
  BY <1>1, <1>5, <1>6, <1>9, Zenon DEF TypeOK
<1> DEFINE c == env.content[top]
           t == TakenFrom(Merged, top)
<1>11. /\ t \in Nat /\ t + Len(msgs[top]) = pos[top] - 1 /\ pos[top] <= Len(c) + 1
       /\ \A k \in 1 .. Len(msgs[top]) : msgs[top][k] = c[t + k]
       /\ c \in Seq(Messages) /\ \A i \in 1 .. Len(c) : c[i].up = top
       /\ pos[top] \in Nat
  BY <1>1, ContentFact, Zenon DEF Wrappers, Position, TypeOK
<1>12. m = c[t + 1] /\ t + 1 \in 1 .. Len(c) /\ m.up = top
  <2> HIDE DEF c, t
  <2>1. Len(msgs[top]) \in Nat \ {0} /\ m = msgs[top][1]
    BY <1>4
  <2>2. Len(c) \in Nat
    BY <1>11
  <2>3. t \in Nat /\ t + Len(msgs[top]) = pos[top] - 1 /\ pos[top] <= Len(c) + 1 /\ pos[top] \in Nat
    BY <1>11, Zenon
  <2>4. t + 1 \in 1 .. Len(c) /\ 1 \in 1 .. Len(msgs[top])
    BY <2>1, <2>2, <2>3
  <2>5. msgs[top][1] = c[t + 1]
    BY <1>11, <2>4, Zenon
  <2> QED BY <1>11, <2>1, <2>4, <2>5, Zenon
<1>13. Position(top)'
  <2>1. TakenFrom(Merged', top) = t + 1
    BY <1>7, <1>8, <1>12, TakenFromFact, Zenon
  <2> HIDE DEF c, t
  <2>2. /\ Len(msgs'[top]) = Len(msgs[top]) - 1 /\ Len(msgs[top]) \in Nat \ {0}
        /\ \A k \in 1 .. Len(msgs'[top]) : msgs'[top][k] = msgs[top][k + 1]
    BY <1>4, <1>6
  <2>3. t + 1 \in Nat /\ (t + 1) + Len(msgs'[top]) = pos[top] - 1
    <3>1. t \in Nat /\ pos[top] \in Nat /\ t + Len(msgs[top]) = pos[top] - 1
      BY <1>11, Zenon
    <3>2. Len(msgs[top]) \in Nat /\ Len(msgs'[top]) = Len(msgs[top]) - 1
      BY <2>2, Zenon
    <3>3. PICK x \in Nat, y \in Nat, z \in Nat, w \in Int :
            x = t /\ y = Len(msgs[top]) /\ z = pos[top] /\ w = Len(msgs'[top])
      BY <3>1, <3>2
    <3>4. x + y = z - 1 /\ w = y - 1
      BY <3>1, <3>2, <3>3, Zenon
    <3>5. x + 1 \in Nat /\ (x + 1) + w = z - 1
      BY <3>4
    <3> QED BY <3>3, <3>5, Zenon
  <2>4. \A k \in 1 .. Len(msgs'[top]) : msgs'[top][k] = c[(t + 1) + k]
    <3> TAKE k \in 1 .. Len(msgs'[top])
    <3>1. k + 1 \in 1 .. Len(msgs[top]) /\ t + (k + 1) = (t + 1) + k
      BY <1>11, <2>2
    <3>2. msgs'[top][k] = msgs[top][k + 1]
      BY <2>2, Zenon
    <3>3. msgs[top][k + 1] = c[t + (k + 1)]
      BY <1>11, <3>1, Zenon
    <3> QED BY <3>1, <3>2, <3>3, Zenon
  <2> QED BY <1>5, <1>11, <2>1, <2>3, <2>4, Zenon DEF Position, c
<1>14. ASSUME NEW v \in Upstreams \ {top} PROVE Position(v)'
  <2>1. Position(v)
    BY <1>1, Zenon DEF Wrappers
  <2>2. TakenFrom(Merged', v) = TakenFrom(Merged, v)
    BY <1>7, <1>8, <1>12, TakenFromFact
  <2> QED BY <1>5, <1>6, <2>1, <2>2, Zenon DEF Position
<1>15. \A v \in Below(heap) : Holds(v)' /\ msgs'[v] = msgs[v] /\ msgTs'[v] = msgTs[v]
  <2> TAKE v \in Below(heap)
  <2>1. v \in Upstreams \ {top} /\ Holds(v)
    BY <1>1, <1>3, Zenon DEF Wrappers
  <2> QED BY <1>5, <1>6, <2>1, Zenon DEF Holds
<1>16. HeapBut(heap, 1, Gt')
  <2>1. HeapBut(heap, 1, Gt)
    BY <1>1, Zenon DEF Wrappers
  <2> QED BY <1>2, <1>15, <2>1, HeapButFrame, Zenon
<1>17. Wrappers'
  <2>1. \A v \in Upstreams : Position(v)'
    BY <1>13, <1>14, Zenon
  <2>2. \A v \in Upstreams :
          IF v \in Elems(heap') \cup Elems(toReload')
          THEN up_state'[v] = "ACTIVE"
          ELSE msgs'[v] = <<>> /\ pos'[v] = Len(env'.content[v]) + 1
    BY <1>1, <1>3, <1>5, <1>6 DEF Wrappers
  <2>3. \A v \in Elems(toReload') : ~discardRequired'[v] /\ msgs'[v] = <<>>
    BY <1>1, <1>5 DEF Elems
  <2> HIDE DEF c, t
  <2> QED BY <1>1, <1>5, <1>6, <1>15, <1>16, <2>1, <2>2, <2>3, Zenon DEF Wrappers
<1>18. Calls'
  BY <1>1, <1>5, Zenon DEF Calls
<1>19. Remembers'
  <2>1. seen \subseteq {n.clk : n \in Messages} /\ m.clk \in {n.clk : n \in Messages}
    BY <1>1, Zenon DEF Remembers
  <2>2. CASE HasClockToValidate(m)
    <3>1. PICK d \in seen \cup {m.clk} :
            /\ validate(validator, m.clk) = Expectation(d)
            /\ \A e \in seen \cup {m.clk} : Correlated(d, e)
      BY <1>1, <1>5, <2>2, ValidateFact, Zenon
    <3>2. validator' = Expectation(d) /\ seen' = seen \cup {m.clk}
      BY <1>5, <2>2, <3>1, Zenon
    <3> QED BY <2>1, <3>1, <3>2, Zenon DEF Remembers
  <2>3. CASE ~HasClockToValidate(m)
    <3>1. validator' = validator /\ seen' = seen
      BY <1>5, <2>3, Zenon
    <3> QED BY <1>1, <3>1, Zenon DEF Remembers
  <2> QED BY <2>2, <2>3, Zenon
<1> QED BY <1>1, <1>5, <1>10, <1>17, <1>18, <1>19, Zenon DEF Inv

\* _next() reloads the wrapper at the top, which goes where its new message belongs.
LEMMA NextReloadsMoreStep ==
    ASSUME Inv, NextReloadsMore
    PROVE  Inv'
<1>1. /\ TypeOK /\ Wrappers /\ pc = "reload" /\ heap # <<>> /\ toReload = <<>> /\ exc = "None"
      /\ state = "ACTIVE" /\ Remembers
  BY Zenon DEF Inv, Calls, NextReloadsMore, Wrappers
<1>2. heap \in Seq(Upstreams) /\ NoRepeat(heap)
  BY <1>1, Zenon DEF TypeOK, Wrappers
<1>3. /\ heap[1] \in Upstreams /\ heap[1] \notin Below(heap)
      /\ Elems(heap) = Below(heap) \cup {heap[1]} /\ Elems(heap) \subseteq Upstreams
  BY <1>1, <1>2, TopAndBelow, Zenon
<1>4. PICK u \in Upstreams : u = heap[1]
  BY <1>3, Zenon
<1>5. /\ ReloadMore(u) /\ heap' = replaceTop(heap, u, Gt') /\ pc' = "loop"
      /\ UNCHANGED <<env, toReload, validator, exc, array, toSeek, state, out, seen>>
  BY <1>4, Zenon DEF NextReloadsMore, callVars, GtNext, Gt
<1>6. Position(u)
  BY <1>1, Zenon DEF Wrappers
<1>7. /\ pos' \in [Upstreams -> Nat \ {0}]
      /\ msgs' \in [Upstreams -> Seq(Messages)]
      /\ msgTs' \in [Upstreams -> Int \cup {NoTs}]
      /\ discardRequired' \in [Upstreams -> BOOLEAN]
      /\ up_state' = up_state
      /\ \A v \in Upstreams \ {u} :
            /\ pos'[v] = pos[v] /\ msgs'[v] = msgs[v] /\ msgTs'[v] = msgTs[v]
            /\ discardRequired'[v] = discardRequired[v]
      /\ Holds(u)' /\ Position(u)'
  BY <1>1, <1>5, <1>6, ReloadMoreFact, Zenon
<1>8. \A v \in Below(heap) :
        Holds(v)' /\ v \in Upstreams \ {u} /\ msgs'[v] = msgs[v] /\ msgTs'[v] = msgTs[v]
  <2> TAKE v \in Below(heap)
  <2>1. v \in Upstreams \ {u} /\ Holds(v)
    BY <1>1, <1>3, <1>4, Zenon DEF Wrappers
  <2> QED BY <1>7, <2>1, Zenon DEF Holds
<1>9. PICK X \in SUBSET Upstreams : X = Elems(heap)
  BY <1>3, Zenon
<1>10. \A v \in X : Holds(v)'
  BY <1>3, <1>4, <1>7, <1>8, <1>9, Zenon
<1>11. PICK gt : gt = Gt'
  BY Zenon
<1>12. StrictWeakOrder(gt, X)
  BY <1>7, <1>10, <1>11, GtNextIsStrictWeak, Zenon
<1>13. HeapBut(heap, 1, gt)
  <2>1. HeapBut(heap, 1, Gt)
    BY <1>1, Zenon DEF Wrappers
  <2> QED BY <1>2, <1>8, <1>11, <2>1, HeapButFrame, Zenon
<1>14. Below(heap) \subseteq X /\ u \in X /\ u \notin Below(heap)
  BY <1>3, <1>4, <1>9, Zenon
<1> DEFINE r == replaceTop(heap, u, gt)
<1>15. /\ r \in Seq(X) /\ Elems(r) = Below(heap) \cup {u}
       /\ NoRepeat(heap) /\ u \notin Below(heap) => NoRepeat(r)
       /\ Heap(r, gt)
  BY <1>1, <1>2, <1>12, <1>13, <1>14, ReplaceTopIsCorrect, SMTT(60)
<1> HIDE DEF r
<1>16. /\ heap' = r /\ r \in Seq(X) /\ Elems(r) = Elems(heap) /\ NoRepeat(r) /\ Heap(r, Gt')
       /\ r \in Seq(Upstreams)
  <2>1. heap' = r
    BY <1>5, <1>11, Zenon DEF r
  <2>2. r \in Seq(Upstreams)
    BY <1>15, SeqOfElems, <1>3, Zenon
  <2> QED BY <1>2, <1>3, <1>4, <1>11, <1>14, <1>15, <2>1, <2>2, Zenon
<1>17. TypeOK'
  BY <1>1, <1>5, <1>7, <1>16, Zenon DEF TypeOK
<1>18. Wrappers'
  <2>1. \A v \in Upstreams : Position(v)'
    <3> TAKE v \in Upstreams
    <3>1. CASE v = u
      BY <1>7, <3>1, Zenon
    <3>2. CASE v # u
      <4>1. Position(v)
        BY <1>1, Zenon DEF Wrappers
      <4>2. Merged' = Merged /\ env' = env /\ msgs'[v] = msgs[v] /\ pos'[v] = pos[v]
        BY <1>5, <1>7, <3>2, Zenon DEF Merged
      <4> QED BY <4>1, <4>2, Zenon DEF Position
    <3> QED BY <3>1, <3>2, Zenon
  <2>2. \A v \in Upstreams :
          IF v \in Elems(heap') \cup Elems(toReload')
          THEN up_state'[v] = "ACTIVE"
          ELSE msgs'[v] = <<>> /\ pos'[v] = Len(env'.content[v]) + 1
    <3> TAKE v \in Upstreams
    <3>1. IF v \in Elems(heap) \cup Elems(toReload)
          THEN up_state[v] = "ACTIVE"
          ELSE msgs[v] = <<>> /\ pos[v] = Len(env.content[v]) + 1
      BY <1>1, Zenon DEF Wrappers
    <3>2. v \notin Elems(heap) => v # u
      BY <1>3, <1>4, Zenon
    <3> QED BY <1>5, <1>7, <1>16, <3>1, <3>2, Zenon
  <2>3. /\ Elems(toReload') = {} /\ NoRepeat(toReload') /\ toReload' = <<>>
    BY <1>1, <1>5 DEF Elems, NoRepeat
  <2>4. Below(heap') \subseteq X /\ HeapBut(heap', 1, Gt')
    BY <1>16, TopAndBelow, Zenon DEF Heap, HeapBut
  <2>5. heap' # <<>> => heap'[1] \in X
    BY <1>16, TopAndBelow, Zenon
  <2>6. heap' # <<>> => Holds(heap[1])' /\ msgs'[heap'[1]] # <<>>
    BY <1>10, <2>5, Zenon DEF Holds
  <2> QED BY <1>5, <1>10, <1>16, <2>1, <2>2, <2>3, <2>4, <2>6, Zenon DEF Wrappers
<1>19. Calls' /\ Remembers'
  BY <1>1, <1>5, Zenon DEF Calls, Remembers
<1> QED BY <1>1, <1>5, <1>17, <1>18, <1>19, Zenon DEF Inv

\* The wrapper at the top leaves the heap.
LEMMA RemoveTopFact ==
    ASSUME TypeOK, Wrappers, pc = "reload", msgs' = msgs, heap' = removeTop(heap, Gt),
           \A v \in Upstreams \ {heap[1]} : msgTs'[v] = msgTs[v]
    PROVE  /\ heap' \in Seq(Upstreams) /\ Elems(heap') = Below(heap) /\ NoRepeat(heap')
           /\ Elems(heap) = Below(heap) \cup {heap[1]} /\ heap[1] \notin Below(heap)
           /\ heap[1] \in Upstreams
           /\ Heap(heap', Gt') /\ HeapBut(heap', 1, Gt')
           /\ \A v \in Below(heap') : Holds(v)'
           /\ heap' # <<>> => Holds(heap[1])' /\ msgs'[heap'[1]] # <<>>
<1>1. heap \in Seq(Upstreams) /\ NoRepeat(heap) /\ heap # <<>> /\ HeapBut(heap, 1, Gt)
  BY Zenon DEF TypeOK, Wrappers
<1>2. /\ heap[1] \in Upstreams /\ heap[1] \notin Below(heap)
      /\ Elems(heap) = Below(heap) \cup {heap[1]} /\ Elems(heap) \subseteq Upstreams
  BY <1>1, TopAndBelow, Zenon
<1>3. PICK X \in SUBSET Upstreams : X = Below(heap)
  BY <1>2, Zenon
<1>4. \A v \in X : Holds(v) /\ msgTs'[v] = msgTs[v]
  BY <1>2, <1>3, Zenon DEF Wrappers
<1>5. PICK gt : gt = Gt
  BY Zenon
<1>6. StrictWeakOrder(gt, X)
  <2>1. PICK current \in [Upstreams -> Seq(Messages)] : current = msgs
    BY Zenon DEF TypeOK
  <2>5. PICK ts : ts = msgTs
    BY Zenon
  <2>2. gt = [a \in Upstreams |-> [b \in Upstreams |-> HeapComparator(current, ts, a, b)]]
    BY <1>5, <2>1, <2>5, Zenon DEF Gt
  <2>3. \A u \in X : current[u] # <<>> /\ ts[u] = Head(current[u]).ts
    BY <1>4, <2>1, <2>5, Zenon DEF Holds
  <2>4. StrictWeakOrder([a \in Upstreams |-> [b \in Upstreams |->
                            HeapComparator(current, ts, a, b)]], X)
    BY <2>3, ComparatorIsStrictWeak, Zenon
  <2> QED BY <2>2, <2>4, Zenon
<1> DEFINE r == removeTop(heap, gt)
<1>7. /\ r \in Seq(X)
      /\ NoRepeat(heap) => NoRepeat(r) /\ Elems(r) = Below(heap)
      /\ Heap(r, gt)
  <2>1. Below(heap) \subseteq X /\ HeapBut(heap, 1, gt)
    BY <1>1, <1>3, <1>5, Zenon
  <2> QED BY <1>1, <1>6, <2>1, RemoveTopIsCorrect, SMTT(60)
<1> HIDE DEF r
<1>8. heap' = r /\ r \in Seq(Upstreams) /\ NoRepeat(r) /\ Elems(r) = Below(heap) /\ Heap(r, Gt)
  <2>1. heap' = r
    BY <1>5, Zenon DEF r
  <2>2. r \in Seq(Upstreams)
    BY <1>1, <1>2, <1>7, SeqOfElems, Zenon
  <2> QED BY <1>1, <1>5, <1>7, <2>1, <2>2, Zenon
<1>9. Heap(r, Gt')
  BY <1>3, <1>4, <1>8, HeapFrame, Zenon
<1>10. HeapBut(r, 1, Gt')
  BY <1>9, Zenon DEF Heap, HeapBut
<1>11. \A v \in X : Holds(v)'
  BY <1>4, Zenon DEF Holds
<1>12. Below(r) \subseteq X /\ (r # <<>> => r[1] \in X)
  BY <1>7, TopAndBelow, Zenon
<1>13. heap' # <<>> => Holds(heap[1])' /\ msgs'[heap'[1]] # <<>>
  BY <1>8, <1>11, <1>12, Zenon DEF Holds
<1> QED BY <1>2, <1>8, <1>9, <1>10, <1>11, <1>12, <1>13, Zenon

\* _next() reloads the wrapper at the top, which has no more messages and leaves the
\* heap.
LEMMA NextReloadsNoMoreStep ==
    ASSUME Inv, NextReloadsNoMore
    PROVE  Inv'
<1>1. /\ TypeOK /\ Wrappers /\ pc = "reload" /\ heap # <<>> /\ toReload = <<>> /\ exc = "None"
      /\ state = "ACTIVE" /\ Remembers
  BY Zenon DEF Inv, Calls, NextReloadsNoMore, Wrappers
<1>2. heap \in Seq(Upstreams)
  BY <1>1, Zenon DEF TypeOK
<1>3. PICK u \in Upstreams : u = heap[1]
  BY <1>1, <1>2, TopAndBelow, Zenon
<1>4. /\ ReloadNoMore(u) /\ heap' = removeTop(heap, Gt) /\ pc' = "loop"
      /\ UNCHANGED <<env, toReload, validator, exc, array, toSeek, state, out, seen>>
  BY <1>3, Zenon DEF NextReloadsNoMore, callVars
<1>5. /\ msgs[u] = <<>> /\ pos[u] > Len(env.content[u])
      /\ up_state' = [up_state EXCEPT ![u] = "ENDED"]
      /\ msgTs' = [msgTs EXCEPT ![u] = NoTs]
      /\ UNCHANGED <<pos, msgs, discardRequired>>
  BY <1>4, Zenon DEF ReloadNoMore
<1>6. /\ up_state' \in [Upstreams -> UpstreamStates] /\ msgTs' \in [Upstreams -> Int \cup {NoTs}]
      /\ \A v \in Upstreams \ {u} : up_state'[v] = up_state[v] /\ msgTs'[v] = msgTs[v]
  BY <1>1, <1>5, Zenon DEF TypeOK, UpstreamStates
<1>7. /\ heap' \in Seq(Upstreams) /\ Elems(heap') = Below(heap) /\ NoRepeat(heap')
      /\ Elems(heap) = Below(heap) \cup {u} /\ u \notin Below(heap)
      /\ Heap(heap', Gt') /\ HeapBut(heap', 1, Gt')
      /\ \A v \in Below(heap') : Holds(v)'
      /\ heap' # <<>> => Holds(heap[1])' /\ msgs'[heap'[1]] # <<>>
  BY <1>1, <1>3, <1>4, <1>5, <1>6, RemoveTopFact, Zenon
<1>8. TypeOK'
  BY <1>1, <1>4, <1>5, <1>6, <1>7, Zenon DEF TypeOK
<1>9. Wrappers'
  <2>1. \A v \in Upstreams : Position(v)'
    <3> TAKE v \in Upstreams
    <3>1. Position(v)
      BY <1>1, Zenon DEF Wrappers
    <3>2. Merged' = Merged /\ env' = env /\ msgs'[v] = msgs[v] /\ pos'[v] = pos[v]
      BY <1>4, <1>5, Zenon DEF Merged
    <3> QED BY <3>1, <3>2, Zenon DEF Position
  <2>2. pos[u] = Len(env.content[u]) + 1
    <3>1. Position(u) /\ pos[u] \in Nat
      BY <1>1, Zenon DEF Wrappers, TypeOK
    <3>2. Len(env.content[u]) \in Nat
      BY <1>1, ContentFact
    <3> QED BY <1>5, <3>1, <3>2 DEF Position
  <2>3. \A v \in Upstreams :
          IF v \in Elems(heap') \cup Elems(toReload')
          THEN up_state'[v] = "ACTIVE"
          ELSE msgs'[v] = <<>> /\ pos'[v] = Len(env'.content[v]) + 1
    <3> TAKE v \in Upstreams
    <3>1. IF v \in Elems(heap) \cup Elems(toReload)
          THEN up_state[v] = "ACTIVE"
          ELSE msgs[v] = <<>> /\ pos[v] = Len(env.content[v]) + 1
      BY <1>1, Zenon DEF Wrappers
    <3>2. Elems(toReload) = {}
      BY <1>1 DEF Elems
    <3> QED BY <1>4, <1>5, <1>6, <1>7, <2>2, <3>1, <3>2, Zenon
  <2>4. Elems(toReload') = {} /\ NoRepeat(toReload') /\ toReload' = <<>>
    BY <1>1, <1>4 DEF Elems, NoRepeat
  <2> QED BY <1>4, <1>7, <2>1, <2>3, <2>4, Zenon DEF Wrappers
<1>10. Calls' /\ Remembers'
  BY <1>1, <1>4, Zenon DEF Calls, Remembers
<1> QED BY <1>1, <1>4, <1>8, <1>9, <1>10, Zenon DEF Inv

\* The messages of the current call are returned.
LEMMA ReturnedFact ==
    ASSUME TypeOK, out' = out \o array, array' = <<>>
    PROVE  out' \in Seq(Messages) /\ array' \in Seq(Messages) /\ Len(array') <= Capacity
           /\ Merged' = Merged
<1>1. out \in Seq(Messages) /\ array \in Seq(Messages) /\ Capacity \in Nat
  BY MuxerAssumption, Zenon DEF TypeOK
<1>2. out \o array \in Seq(Messages)
  BY <1>1
<1>3. (out \o array) \o <<>> = out \o array
  BY <1>2
<1> QED BY <1>1, <1>2, <1>3 DEF Merged

\* The wrapper at the top is not ready: it waits for the next call.
LEMMA NextReloadsAgainStep ==
    ASSUME Inv, NextReloadsAgain
    PROVE  Inv'
<1>1. /\ TypeOK /\ Wrappers /\ pc = "reload" /\ heap # <<>> /\ toReload = <<>> /\ exc = "None"
      /\ state = "ACTIVE" /\ Remembers /\ ~discardRequired[heap[1]]
  BY Zenon DEF Inv, Calls, NextReloadsAgain, Wrappers
<1>2. heap \in Seq(Upstreams)
  BY <1>1, Zenon DEF TypeOK
<1>3. PICK u \in Upstreams : u = heap[1]
  BY <1>1, <1>2, TopAndBelow, Zenon
<1>4. /\ msgs[u] = <<>> /\ up_state[u] = "ACTIVE" /\ heap' = removeTop(heap, Gt)
      /\ toReload' = <<u>> /\ out' = out \o array /\ array' = <<>> /\ pc' = "idle"
      /\ UNCHANGED <<env, pos, up_state, msgs, msgTs, discardRequired, validator, exc, toSeek,
                     state, seen>>
  BY <1>1, <1>3 DEF NextReloadsAgain, ReloadThrows, ReturnArray, upVars, wrapVars
<1>5. /\ heap' \in Seq(Upstreams) /\ Elems(heap') = Below(heap) /\ NoRepeat(heap')
      /\ Elems(heap) = Below(heap) \cup {u} /\ u \notin Below(heap)
      /\ Heap(heap', Gt') /\ HeapBut(heap', 1, Gt')
      /\ \A v \in Below(heap') : Holds(v)'
      /\ heap' # <<>> => Holds(heap[1])' /\ msgs'[heap'[1]] # <<>>
  BY <1>1, <1>3, <1>4, RemoveTopFact, Zenon
<1>6. /\ out' \in Seq(Messages) /\ array' \in Seq(Messages) /\ Len(array') <= Capacity
      /\ Merged' = Merged
  BY <1>1, <1>4, ReturnedFact, Zenon
<1>7. TypeOK'
  <2>1. toReload' \in Seq(Upstreams)
    BY <1>4
  <2> QED BY <1>1, <1>4, <1>5, <1>6, <2>1, Zenon DEF TypeOK
<1>8. Wrappers'
  <2>1. \A v \in Upstreams : Position(v)'
    <3> TAKE v \in Upstreams
    <3>1. Position(v)
      BY <1>1, Zenon DEF Wrappers
    <3> QED BY <1>4, <1>6, <3>1, Zenon DEF Position
  <2>2. Elems(toReload') = {u} /\ NoRepeat(toReload') /\ Elems(toReload) = {}
    BY <1>1, <1>4 DEF Elems, NoRepeat
  <2>3. \A v \in Upstreams :
          IF v \in Elems(heap') \cup Elems(toReload')
          THEN up_state'[v] = "ACTIVE"
          ELSE msgs'[v] = <<>> /\ pos'[v] = Len(env'.content[v]) + 1
    <3> TAKE v \in Upstreams
    <3>1. IF v \in Elems(heap) \cup Elems(toReload)
          THEN up_state[v] = "ACTIVE"
          ELSE msgs[v] = <<>> /\ pos[v] = Len(env.content[v]) + 1
      BY <1>1, Zenon DEF Wrappers
    <3> QED BY <1>4, <1>5, <2>2, <3>1, Zenon
  <2>4. \A v \in Elems(toReload') : ~discardRequired'[v] /\ msgs'[v] = <<>>
    BY <1>1, <1>3, <1>4, <2>2, Zenon
  <2>5. Elems(heap') \cap Elems(toReload') = {}
    BY <1>5, <2>2, Zenon
  <2> QED BY <1>4, <1>5, <2>1, <2>2, <2>3, <2>4, <2>5, Zenon DEF Wrappers
<1>9. Calls' /\ Remembers'
  BY <1>1, <1>4, Zenon DEF Calls, Remembers
<1> QED BY <1>1, <1>4, <1>7, <1>8, <1>9, Zenon DEF Inv
=============================================================================
