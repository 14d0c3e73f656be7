------------------------------- MODULE PrioHeap -------------------------------
(***************************************************************************)
(* The binary heap of src/cpp-common/bt2c/prio-heap.hpp.  A heap is the    *)
(* sequence of its elements; positions start at one instead of zero.  The  *)
(* function gt is the heap's comparator.                                   *)
(***************************************************************************)
EXTENDS Integers, Sequences

parentPos(pos) == pos \div 2

Swap(elems, i, j) == [elems EXCEPT ![i] = elems[j], ![j] = elems[i]]

\* The greatest of an element and its children.
largestPos(e, pos, gt) ==
    LET leftPos == 2 * pos
        rightPos == 2 * pos + 1
        larger == IF leftPos <= Len(e) /\ gt[e[leftPos]][e[pos]] THEN leftPos ELSE pos
    IN IF rightPos <= Len(e) /\ gt[e[rightPos]][e[larger]] THEN rightPos ELSE larger

\* One iteration of the loops of _heapify() and insert(), on the elements and the
\* position of the one which moves; an iteration which would end the loop changes
\* nothing.
Sink(s, gt) ==
    LET l == largestPos(s[1], s[2], gt) IN <<Swap(s[1], s[2], l), l>>

Rise(s, gt) ==
    IF s[2] > 1 /\ gt[s[1][s[2]]][s[1][parentPos(s[2])]]
    THEN <<Swap(s[1], s[2], parentPos(s[2])), parentPos(s[2])>>
    ELSE s

\* The loops run while an element moves, at most Len(elems) times.

heapify(elems, start, gt) ==
    LET after[n \in 0 .. Len(elems)] ==
            IF n = 0 THEN <<elems, start>> ELSE Sink(after[n - 1], gt)
    IN after[Len(elems)][1]

insert(elems, elem, gt) ==
    LET after[n \in 0 .. Len(elems)] ==
            IF n = 0 THEN <<Append(elems, elem), Len(elems) + 1>> ELSE Rise(after[n - 1], gt)
    IN after[Len(elems)][1]

replaceTop(elems, elem, gt) == heapify([elems EXCEPT ![1] = elem], 1, gt)

removeTop(elems, gt) ==
    IF Len(elems) = 1
    THEN <<>>
    ELSE replaceTop(SubSeq(elems, 1, Len(elems) - 1), elems[Len(elems)], gt)

\* What _validate() asserts, and the heap order below it.
IsHeap(elems, gt) ==
    /\ \A i \in 2 .. Len(elems) : ~gt[elems[i]][elems[1]]
    /\ \A i \in 2 .. Len(elems) : ~gt[elems[i]][elems[parentPos(i)]]
=============================================================================
