----------------------------- MODULE MergerProofs -----------------------------
(* Proofs about Merger, for any upstream iterators with any contents.      *)
EXTENDS Merger, TLAPS

\* The time given to the provers for each leaf.
USE SMTT(20), ZenonT(20)

\* What was merged is not after anything which remains.
RemainingNotBefore ==
    \A i \in DOMAIN out : \A u \in Upstreams : \A j \in DOMAIN content[u] :
        /\ j > taken[u]
        /\ out[i].ts # NoTs
        /\ content[u][j].ts # NoTs
        => out[i].ts <= content[u][j].ts

IInv == TypeOK /\ Sorted /\ RemainingNotBefore /\ EndIsComplete
        /\ \A u \in Upstreams : taken[u] <= Len(content[u])

\* The contents are what the assumption says.
LEMMA ContentType ==
    ASSUME TypeOK
    PROVE  /\ content \in [Upstreams -> Seq(Messages)]
           /\ \A u \in Upstreams : Ordered(content[u])
           /\ \A u \in Upstreams : \A j \in DOMAIN content[u] :
                 content[u][j] \in Messages /\ content[u][j].ts \in Int \cup {NoTs}
<1>1. content \in [Upstreams -> Seq(Messages)] /\ \A u \in Upstreams : Ordered(content[u])
  BY MergerAssumption DEF TypeOK
<1>2. ASSUME NEW u \in Upstreams, NEW j \in DOMAIN content[u]
      PROVE  content[u][j] \in Messages /\ content[u][j].ts \in Int \cup {NoTs}
  <2>1. content[u] \in Seq(Messages)
    BY <1>1
  <2>2. content[u][j] \in Messages
    BY <2>1
  <2> QED BY <2>2, MergerAssumption
<1> QED BY <1>1, <1>2

LEMMA Initial == Init => IInv
<1> SUFFICES ASSUME Init PROVE IInv
  OBVIOUS
<1>1. TypeOK
  <2>1. taken \in [Upstreams -> Nat]
    BY DEF Init
  <2>2. out \in Seq(Messages)
    BY DEF Init
  <2>3. content \in Contents /\ ended \in BOOLEAN
    BY Zenon DEF Init
  <2> QED BY <2>1, <2>2, <2>3 DEF TypeOK
<1>2. Sorted /\ RemainingNotBefore /\ EndIsComplete
  BY <1>1 DEF Init, Sorted, Ordered, RemainingNotBefore, EndIsComplete
<1>3. \A u \in Upstreams : taken[u] <= Len(content[u])
  <2>1. content \in [Upstreams -> Seq(Messages)]
    BY <1>1, ContentType
  <2> TAKE u \in Upstreams
  <2>2. Len(content[u]) \in Nat
    BY <2>1
  <2>3. taken[u] = 0
    BY DEF Init
  <2>4. 0 <= Len(content[u])
    BY <2>2
  <2> QED BY <2>3, <2>4
<1> QED BY <1>1, <1>2, <1>3 DEF IInv

LEMMA TakePreserves ==
    ASSUME IInv, NEW u \in Upstreams, Take(u)
    PROVE  IInv'
<1> DEFINE m == First(u)
<1>1. /\ TypeOK /\ content \in [Upstreams -> Seq(Messages)]
      /\ \A v \in Upstreams : Ordered(content[v])
      /\ \A v \in Upstreams : \A j \in DOMAIN content[v] :
            content[v][j] \in Messages /\ content[v][j].ts \in Int \cup {NoTs}
  BY ContentType DEF IInv
<1>2. /\ taken[u] \in Nat /\ Len(content[u]) \in Nat
      /\ taken[u] + 1 \in DOMAIN content[u]
      /\ m \in Messages /\ m.ts \in Int \cup {NoTs}
  BY <1>1 DEF Take, Waiting, First, TypeOK
<1>3. /\ content' = content /\ ended' = ended /\ ~ended
      /\ taken' = [taken EXCEPT ![u] = @ + 1]
      /\ out' = Append(out, m)
  BY DEF Take
<1>4. TypeOK'
  BY <1>1, <1>2, <1>3 DEF TypeOK
<1>5. /\ Len(out) \in Nat /\ DOMAIN out = 1 .. Len(out)
      /\ DOMAIN out' = 1 .. (Len(out) + 1)
      /\ out'[Len(out) + 1] = m
      /\ \A i \in DOMAIN out : out'[i] = out[i]
  BY <1>1, <1>2, <1>3 DEF TypeOK
<1>6. \A i \in DOMAIN out : out[i] \in Messages /\ out[i].ts \in Int \cup {NoTs}
  BY <1>1, MergerAssumption DEF TypeOK
<1>7. ASSUME NEW i \in DOMAIN out, out[i].ts # NoTs, m.ts # NoTs
      PROVE  out[i].ts <= m.ts
  BY <1>2, <1>7 DEF IInv, RemainingNotBefore, First
<1>8. Sorted'
  <2> SUFFICES ASSUME NEW i \in DOMAIN out', NEW j \in DOMAIN out',
                      i <= j, out'[i].ts # NoTs, out'[j].ts # NoTs
               PROVE  out'[i].ts <= out'[j].ts
    BY DEF Sorted, Ordered
  <2>1. CASE j \in DOMAIN out
    <3>1. i \in DOMAIN out
      BY <2>1, <1>5
    <3> QED BY <2>1, <3>1, <1>5 DEF IInv, Sorted, Ordered
  <2>2. CASE j = Len(out) + 1 /\ i \in DOMAIN out
    BY <2>2, <1>5, <1>7
  <2>3. CASE j = Len(out) + 1 /\ i = Len(out) + 1
    BY <2>3, <1>5, <1>2
  <2> QED BY <2>1, <2>2, <2>3, <1>5
<1>9. ASSUME NEW v \in Upstreams, NEW j \in DOMAIN content[v], j > taken'[v],
             m.ts # NoTs, content[v][j].ts # NoTs
      PROVE  m.ts <= content[v][j].ts
  <2>1. CASE v = u
    <3>1. taken[u] + 1 <= j
      BY <2>1, <1>1, <1>2, <1>3, <1>9 DEF TypeOK
    <3>2. Ordered(content[u])
      BY <1>1
    <3> QED BY <2>1, <3>1, <3>2, <1>2, <1>9 DEF First, Ordered
  <2>2. CASE v # u
    <3>1. taken[v] \in Nat /\ taken'[v] = taken[v] /\ Len(content[v]) \in Nat
          /\ DOMAIN content[v] = 1 .. Len(content[v])
      BY <2>2, <1>1, <1>3 DEF TypeOK
    <3>2. Waiting(v) /\ taken[v] + 1 \in DOMAIN content[v] /\ taken[v] + 1 <= j
      BY <3>1, <1>9 DEF Waiting
    <3>3. NotAfter(m, First(v))
      BY <3>2 DEF Take
    <3>4. First(v).ts # NoTs /\ m.ts <= First(v).ts
      BY <3>3, <1>9 DEF NotAfter
    <3>5. First(v).ts <= content[v][j].ts
      BY <3>2, <3>4, <1>1, <1>9 DEF First, Ordered
    <3>6. First(v).ts \in Int /\ content[v][j].ts \in Int /\ m.ts \in Int
      BY <3>2, <3>4, <1>1, <1>2, <1>9 DEF First
    <3> QED BY <3>4, <3>5, <3>6
  <2> QED BY <2>1, <2>2
<1>10. RemainingNotBefore'
  <2> SUFFICES ASSUME NEW i \in DOMAIN out', NEW v \in Upstreams, NEW j \in DOMAIN content[v],
                      j > taken'[v], out'[i].ts # NoTs, content[v][j].ts # NoTs
               PROVE  out'[i].ts <= content[v][j].ts
    BY <1>3 DEF RemainingNotBefore
  <2>1. CASE i = Len(out) + 1
    BY <2>1, <1>5, <1>9
  <2>2. CASE i \in DOMAIN out
    <3>1. j > taken[v]
      BY <1>1, <1>2, <1>3 DEF TypeOK
    <3> QED BY <2>2, <3>1, <1>5 DEF IInv, RemainingNotBefore
  <2> QED BY <2>1, <2>2, <1>5
<1>11. EndIsComplete'
  BY <1>3 DEF EndIsComplete
<1>12. \A v \in Upstreams : taken'[v] <= Len(content'[v])
  BY <1>1, <1>2, <1>3 DEF IInv, TypeOK, Take, Waiting
<1> QED BY <1>4, <1>8, <1>10, <1>11, <1>12 DEF IInv

LEMMA Inductive == IInv /\ [Next]_vars => IInv'
<1> SUFFICES ASSUME IInv, [Next]_vars PROVE IInv'
  OBVIOUS
<1>0. TypeOK /\ content \in [Upstreams -> Seq(Messages)]
  BY ContentType DEF IInv
<1>1. ASSUME NEW u \in Upstreams, Take(u) PROVE IInv'
  BY <1>1, TakePreserves
<1>2. CASE End
  <2>1. content' = content /\ taken' = taken /\ out' = out /\ ended' = TRUE
    BY <1>2 DEF End
  <2>2. TypeOK' /\ Sorted' /\ RemainingNotBefore'
    BY <2>1 DEF IInv, TypeOK, Sorted, Ordered, RemainingNotBefore
  <2>3. \A u \in Upstreams : taken[u] = Len(content[u])
    BY <1>0, <1>2 DEF IInv, TypeOK, End, Waiting
  <2>4. EndIsComplete' /\ \A u \in Upstreams : taken'[u] <= Len(content'[u])
    BY <1>0, <2>1, <2>3 DEF EndIsComplete, IInv
  <2> QED BY <2>2, <2>4 DEF IInv
<1>3. CASE Rewind
  <2>1. /\ content' = content /\ out' = <<>> /\ ended' = FALSE
        /\ taken' = [u \in Upstreams |-> 0]
    BY <1>3 DEF Rewind
  <2>2. TypeOK'
    <3>1. taken' \in [Upstreams -> Nat]
      BY <2>1
    <3>2. out' \in Seq(Messages)
      BY <2>1
    <3>3. content' \in Contents /\ ended' \in BOOLEAN
      BY <2>1, <1>0, Zenon DEF TypeOK
    <3> QED BY <3>1, <3>2, <3>3 DEF TypeOK
  <2>3. Sorted' /\ RemainingNotBefore' /\ EndIsComplete'
    BY <2>1 DEF Sorted, Ordered, RemainingNotBefore, EndIsComplete
  <2>4. \A u \in Upstreams : taken'[u] <= Len(content'[u])
    BY <2>1, <1>0
  <2> QED BY <2>2, <2>3, <2>4 DEF IInv
<1>4. CASE UNCHANGED vars
  BY <1>4 DEF IInv, TypeOK, Sorted, Ordered, RemainingNotBefore, EndIsComplete, vars
<1> QED BY <1>1, <1>2, <1>3, <1>4 DEF Next

\* A muxer which merges as Merger does returns messages in the order of their
\* timestamps, whatever the upstream iterators are, as long as each of them does.
THEOREM MergeIsSorted == Spec => []Sorted
<1>1. IInv => Sorted
  BY DEF IInv
<1> QED BY <1>1, Initial, Inductive, PTL DEF Spec

\* It only reports its end when every message of every upstream iterator was merged.
THEOREM EndIsNotEarly == Spec => []EndIsComplete
<1>1. IInv => EndIsComplete
  BY DEF IInv
<1> QED BY <1>1, Initial, Inductive, PTL DEF Spec
=============================================================================
