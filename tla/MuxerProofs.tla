----------------------------- MODULE MuxerProofs -----------------------------
(***************************************************************************)
(* The muxer, for every set of upstream iterators, whatever their messages *)
(* and however they are split into batches: no assertion fails, the        *)
(* validator is exact, and the muxer implements Merger.                    *)
(***************************************************************************)
EXTENDS MuxerInvariant

\* The time given to the provers for each leaf.
USE SMTT(20), ZenonT(20)

(* The steps which leave the heap as it is, and the end of an upstream.     *)

\* The steps which leave the wrappers, the heap and the list alone.
LEMMA WrappersFrame ==
    ASSUME Wrappers, Merged' = Merged,
           UNCHANGED <<env, pos, up_state, msgs, msgTs, discardRequired, heap, toReload>>,
           pc' \in {"loop", "reload"} => toReload = <<>>,
           pc' # "reload",
           heap # <<>> =>
              IF msgs[heap[1]] = <<>>
              THEN toReload = <<>> /\ (exc' = "Error" \/ env.asks)
              ELSE Holds(heap[1]) /\ Heap(heap, Gt)
    PROVE  Wrappers'
<1>1. Gt' = Gt
  BY Zenon DEF Gt, HeapComparator
<1>2. \A u \in Upstreams : Position(u)'
  BY Zenon DEF Wrappers, Position
<1>3. \A u \in Below(heap) : Holds(u)'
  BY Zenon DEF Wrappers, Holds
<1>4. heap # <<>> /\ Holds(heap[1]) => Holds(heap[1])'
  BY Zenon DEF Holds
<1> QED BY <1>1, <1>2, <1>3, <1>4, Zenon DEF Wrappers

\* A call starts: without a delayed error, only canSeekBeginning() can have left the
\* wrapper at the top without a message.
LEMMA CallNextStep ==
    ASSUME Inv, CallNext
    PROVE  Inv'
<1>1. TypeOK /\ Wrappers /\ Remembers /\ pc = "idle" /\ state = "ACTIVE" /\ exc = "None" /\ array = <<>>
  BY Zenon DEF Inv, CallNext, Calls
<1>2. pc' = "ensure" /\ UNCHANGED <<env, pos, up_state, msgs, msgTs, discardRequired, heap,
         toReload, validator, exc, array, toSeek, state, out, seen>>
  BY Zenon DEF CallNext, upVars, wrapVars, callVars
<1>3. Merged' = Merged
  BY <1>2, Zenon DEF Merged
<1>4. heap # <<>> =>
        IF msgs[heap[1]] = <<>>
        THEN toReload = <<>> /\ (exc' = "Error" \/ env.asks)
        ELSE Holds(heap[1]) /\ Heap(heap, Gt)
  BY <1>1, <1>2, Zenon DEF Wrappers
<1>5. Wrappers'
  BY <1>1, <1>2, <1>3, <1>4, WrappersFrame, Zenon
<1>6. TypeOK' /\ Calls' /\ Remembers'
  BY <1>1, <1>2, Zenon DEF TypeOK, Calls, Remembers
<1> QED BY <1>1, <1>2, <1>5, <1>6, Zenon DEF Inv

LEMMA EnsureThrowsStep ==
    ASSUME Inv, EnsureThrows
    PROVE  Inv'
<1>1. TypeOK /\ Wrappers /\ Remembers /\ pc = "ensure" /\ state = "ACTIVE" /\ exc = "None" /\ array = <<>>
  BY Zenon DEF Inv, EnsureThrows, Calls
<1>2. pc' = "idle" /\ UNCHANGED <<env, pos, up_state, msgs, msgTs, discardRequired, heap,
         toReload, validator, exc, array, toSeek, state, out, seen>>
  BY Zenon DEF EnsureThrows, ReloadThrows, upVars, wrapVars, callVars
<1>3. Merged' = Merged
  BY <1>2, Zenon DEF Merged
<1>4. heap # <<>> =>
        IF msgs[heap[1]] = <<>>
        THEN toReload = <<>> /\ (exc' = "Error" \/ env.asks)
        ELSE Holds(heap[1]) /\ Heap(heap, Gt)
  BY <1>1, <1>2, Zenon DEF Wrappers
<1>5. Wrappers'
  BY <1>1, <1>2, <1>3, <1>4, WrappersFrame, Zenon
<1>6. TypeOK' /\ Calls' /\ Remembers'
  BY <1>1, <1>2, Zenon DEF TypeOK, Calls, Remembers
<1> QED BY <1>1, <1>2, <1>5, <1>6, Zenon DEF Inv

LEMMA EnsureDoneStep ==
    ASSUME Inv, EnsureDone
    PROVE  Inv'
<1>1. /\ TypeOK /\ Wrappers /\ Remembers /\ pc = "ensure" /\ state = "ACTIVE" /\ exc = "None"
      /\ array = <<>> /\ toReload = <<>>
  BY Zenon DEF Inv, EnsureDone, Calls
<1>2. pc' = "loop" /\ UNCHANGED <<env, pos, up_state, msgs, msgTs, discardRequired, heap,
         toReload, validator, exc, array, toSeek, state, out, seen>>
  BY Zenon DEF EnsureDone, upVars, wrapVars, callVars
<1>3. Merged' = Merged
  BY <1>2, Zenon DEF Merged
<1>4. heap # <<>> =>
        IF msgs[heap[1]] = <<>>
        THEN toReload = <<>> /\ (exc' = "Error" \/ env.asks)
        ELSE Holds(heap[1]) /\ Heap(heap, Gt)
  BY <1>1, <1>2, Zenon DEF Wrappers
<1>5. Wrappers'
  BY <1>1, <1>2, <1>3, <1>4, WrappersFrame, Zenon
<1>6. TypeOK' /\ Calls' /\ Remembers'
  BY <1>1, <1>2, Zenon DEF TypeOK, Calls, Remembers
<1> QED BY <1>1, <1>2, <1>5, <1>6, Zenon DEF Inv

\* The oldest message is refused: a later call throws.
LEMMA NextRejectsStep ==
    ASSUME Inv, NextRejects
    PROVE  Inv'
<1>1. /\ TypeOK /\ Wrappers /\ Remembers /\ pc = "loop" /\ state = "ACTIVE" /\ exc = "None"
      /\ toReload = <<>> /\ msgs[heap[1]] # <<>>
  BY Zenon DEF Inv, NextRejects, Calls, Wrappers
<1>2. /\ pc' = "idle" /\ out' = out \o array /\ array' = <<>> /\ exc' \in {"None", "Error"}
      /\ UNCHANGED <<env, pos, up_state, msgs, msgTs, discardRequired, heap, toReload, validator,
                     toSeek, state, seen>>
  BY <1>1, Zenon DEF NextRejects, ReturnArray, upVars, wrapVars
<1>3. /\ out' \in Seq(Messages) /\ array' \in Seq(Messages) /\ Len(array') <= Capacity
      /\ Merged' = Merged
  BY <1>1, <1>2, ReturnedFact, Zenon
<1>4. heap # <<>> =>
        IF msgs[heap[1]] = <<>>
        THEN toReload = <<>> /\ (exc' = "Error" \/ env.asks)
        ELSE Holds(heap[1]) /\ Heap(heap, Gt)
  BY <1>1, Zenon DEF Wrappers
<1>5. Wrappers'
  BY <1>1, <1>2, <1>3, <1>4, WrappersFrame, Zenon
<1>6. TypeOK' /\ Calls' /\ Remembers'
  BY <1>1, <1>2, <1>3, Zenon DEF TypeOK, Calls, Remembers
<1> QED BY <1>1, <1>2, <1>5, <1>6, Zenon DEF Inv

\* Reloading the wrapper at the top fails: it stays there without a message, and the
\* error is delayed.
LEMMA NextReloadFailsStep ==
    ASSUME Inv, NextReloadFails
    PROVE  Inv'
<1>1. /\ TypeOK /\ Wrappers /\ Remembers /\ pc = "reload" /\ state = "ACTIVE" /\ exc = "None"
      /\ toReload = <<>> /\ msgs[heap[1]] = <<>>
  BY Zenon DEF Inv, NextReloadFails, ReloadThrows, Calls, Wrappers
<1>2. /\ pc' = "idle" /\ out' = out \o array /\ array' = <<>> /\ exc' = "Error"
      /\ UNCHANGED <<env, pos, up_state, msgs, msgTs, discardRequired, heap, toReload, validator,
                     toSeek, state, seen>>
  BY <1>1, Zenon DEF NextReloadFails, ReloadThrows, ReturnArray, upVars, wrapVars
<1>3. /\ out' \in Seq(Messages) /\ array' \in Seq(Messages) /\ Len(array') <= Capacity
      /\ Merged' = Merged
  BY <1>1, <1>2, ReturnedFact, Zenon
<1>4. Wrappers'
  BY <1>1, <1>2, <1>3, WrappersFrame, Zenon
<1>5. TypeOK' /\ Calls' /\ Remembers'
  BY <1>1, <1>2, <1>3, Zenon DEF TypeOK, Calls, Remembers
<1> QED BY <1>1, <1>2, <1>4, <1>5, Zenon DEF Inv

LEMMA NextReturnsStep ==
    ASSUME Inv, NextReturns
    PROVE  Inv'
<1>1. /\ TypeOK /\ Wrappers /\ Remembers /\ pc = "loop" /\ state = "ACTIVE" /\ exc = "None"
  BY Zenon DEF Inv, NextReturns, Calls
<1>2. /\ pc' = "idle" /\ out' = out \o array /\ array' = <<>> /\ state' \in {"ACTIVE", "ENDED"}
      /\ UNCHANGED <<env, pos, up_state, msgs, msgTs, discardRequired, heap, toReload, validator,
                     toSeek, exc, seen>>
  BY <1>1, Zenon DEF NextReturns, upVars, wrapVars
<1>3. /\ out' \in Seq(Messages) /\ array' \in Seq(Messages) /\ Len(array') <= Capacity
      /\ Merged' = Merged
  BY <1>1, <1>2, ReturnedFact, Zenon
<1>4. heap # <<>> =>
        IF msgs[heap[1]] = <<>>
        THEN toReload = <<>> /\ (exc' = "Error" \/ env.asks)
        ELSE Holds(heap[1]) /\ Heap(heap, Gt)
  BY <1>1, <1>2, Zenon DEF Wrappers
<1>5. Wrappers'
  BY <1>1, <1>2, <1>3, <1>4, WrappersFrame, Zenon
<1>6. TypeOK' /\ Calls' /\ Remembers'
  BY <1>1, <1>2, <1>3, Zenon DEF TypeOK, Calls, Remembers, UpstreamStates
<1> QED BY <1>1, <1>2, <1>5, <1>6, Zenon DEF Inv

\* A wrapper of the list has no message at all: it is done.
LEMMA EnsureNoMoreStep ==
    ASSUME Inv, EnsureNoMore
    PROVE  Inv'
<1>1. /\ TypeOK /\ Wrappers /\ Remembers /\ pc = "ensure" /\ state = "ACTIVE" /\ exc = "None"
      /\ array = <<>> /\ toReload # <<>>
  BY Zenon DEF Inv, EnsureNoMore, Calls
<1>2. toReload \in Seq(Upstreams) /\ heap \in Seq(Upstreams) /\ NoRepeat(toReload)
  BY <1>1, Zenon DEF TypeOK, Wrappers
<1>3. PICK u \in Upstreams : u = Head(toReload)
  BY <1>1, <1>2
<1>4. /\ ReloadNoMore(u) /\ toReload' = Tail(toReload) /\ pc' = "ensure"
      /\ UNCHANGED <<env, heap, validator, exc, array, toSeek, state, out, seen>>
  BY <1>1, <1>3, Zenon DEF EnsureNoMore, callVars
<1>5. /\ msgs[u] = <<>> /\ pos[u] > Len(env.content[u])
      /\ up_state' = [up_state EXCEPT ![u] = "ENDED"]
      /\ msgTs' = [msgTs EXCEPT ![u] = NoTs]
      /\ UNCHANGED <<pos, msgs, discardRequired>>
  BY <1>4, Zenon DEF ReloadNoMore
<1>6. /\ up_state' \in [Upstreams -> UpstreamStates] /\ msgTs' \in [Upstreams -> Int \cup {NoTs}]
      /\ \A v \in Upstreams \ {u} : up_state'[v] = up_state[v] /\ msgTs'[v] = msgTs[v]
  BY <1>1, <1>5, Zenon DEF TypeOK, UpstreamStates
<1>7. /\ toReload' \in Seq(Upstreams) /\ NoRepeat(toReload')
      /\ Elems(toReload) = Elems(toReload') \cup {u} /\ u \notin Elems(toReload')
  BY <1>1, <1>2, <1>3, <1>4, HeadAndTail, Zenon
<1>8. TypeOK'
  BY <1>1, <1>4, <1>5, <1>6, <1>7, Zenon DEF TypeOK
<1>9. Wrappers'
  <2>1. \A v \in Upstreams : Position(v)'
    <3> TAKE v \in Upstreams
    <3>1. Position(v)
      BY <1>1, Zenon DEF Wrappers
    <3>2. Merged' = Merged /\ env' = env /\ msgs'[v] = msgs[v] /\ pos'[v] = pos[v]
      BY <1>4, <1>5, Zenon DEF Merged
    <3> QED BY <3>1, <3>2, Zenon DEF Position
  <2>2. pos[u] = Len(env.content[u]) + 1
    <3>1. Position(u) /\ pos[u] \in Nat
      BY <1>1, Zenon DEF Wrappers, TypeOK
    <3>2. env.content[u] \in Seq(Messages)
      BY <1>1, ContentFact, Zenon
    <3>3. Len(env.content[u]) \in Nat
      BY <3>2
    <3> QED BY <1>5, <3>1, <3>3 DEF Position
  <2>3. u \notin Elems(heap) /\ Elems(heap) \cap Elems(toReload') = {} /\ Elems(heap) \subseteq Upstreams
    BY <1>1, <1>2, <1>7, TopAndBelow, Zenon DEF Wrappers
  <2>4. \A v \in Upstreams :
          IF v \in Elems(heap') \cup Elems(toReload')
          THEN up_state'[v] = "ACTIVE"
          ELSE msgs'[v] = <<>> /\ pos'[v] = Len(env'.content[v]) + 1
    <3> TAKE v \in Upstreams
    <3>1. IF v \in Elems(heap) \cup Elems(toReload)
          THEN up_state[v] = "ACTIVE"
          ELSE msgs[v] = <<>> /\ pos[v] = Len(env.content[v]) + 1
      BY <1>1, Zenon DEF Wrappers
    <3> QED BY <1>4, <1>5, <1>6, <1>7, <2>2, <2>3, <3>1, Zenon
  <2>5. \A v \in Elems(toReload') : ~discardRequired'[v] /\ msgs'[v] = <<>>
    BY <1>1, <1>5, <1>7, Zenon DEF Wrappers
  <2>6. \A v \in Elems(heap) : v \in Upstreams /\ msgs'[v] = msgs[v] /\ msgTs'[v] = msgTs[v]
    BY <1>5, <1>6, <2>3, Zenon
  <2>7. /\ Below(heap) \subseteq Elems(heap)
        /\ heap # <<>> => heap[1] \in Elems(heap)
    BY <1>2, TopAndBelow
  <2>8. \A v \in Below(heap') : Holds(v)'
    BY <1>1, <1>4, <2>6, <2>7, Zenon DEF Wrappers, Holds
  <2>9. HeapBut(heap', 1, Gt')
    <3>1. HeapBut(heap, 1, Gt)
      BY <1>1, Zenon DEF Wrappers
    <3> QED BY <1>2, <1>4, <2>6, <2>7, <3>1, HeapButFrame, Zenon
  <2>10. heap # <<>> => msgs[heap[1]] # <<>> /\ Holds(heap[1]) /\ Heap(heap, Gt)
    BY <1>1, Zenon DEF Wrappers
  <2>11. heap # <<>> => Heap(heap', Gt')
    BY <1>2, <1>4, <2>6, <2>10, HeapFrame, Zenon
  <2>12. heap # <<>> => Holds(heap[1])' /\ msgs'[heap'[1]] # <<>>
    BY <1>4, <1>5, <2>6, <2>7, <2>10, Zenon DEF Holds
  <2>13. NoRepeat(heap')
    BY <1>1, <1>4, Zenon DEF Wrappers
  <2> QED BY <1>4, <1>7, <2>1, <2>3, <2>4, <2>5, <2>8, <2>9, <2>11, <2>12, <2>13, Zenon DEF Wrappers
<1>10. Calls' /\ Remembers'
  BY <1>1, <1>4, Zenon DEF Calls, Remembers
<1> QED BY <1>1, <1>4, <1>8, <1>9, <1>10, Zenon DEF Inv

\* canSeekBeginning() forgets the delayed error.
LEMMA CanSeekBeginningStep ==
    ASSUME Inv, CanSeekBeginning
    PROVE  Inv'
<1>1. /\ TypeOK /\ Calls /\ Remembers /\ pc = "idle" /\ env.asks
      /\ IF state = "SEEK_FAILED" THEN Seeking ELSE Wrappers
  BY Zenon DEF Inv, CanSeekBeginning
<1>2. /\ exc' = "None"
      /\ UNCHANGED <<env, pos, up_state, msgs, msgTs, discardRequired, heap, toReload, validator,
                     pc, array, toSeek, state, out, seen>>
  BY Zenon DEF CanSeekBeginning, upVars, wrapVars, callVars
<1>3. TypeOK' /\ Calls' /\ Remembers'
  BY <1>1, <1>2, Zenon DEF TypeOK, Calls, Remembers
<1>4. CASE state = "SEEK_FAILED"
  <2>1. Seeking'
    BY <1>1, <1>2, <1>4, Zenon DEF Seeking
  <2> QED BY <1>1, <1>2, <1>3, <1>4, <2>1, Zenon DEF Inv
<1>5. CASE state # "SEEK_FAILED"
  <2>1. Merged' = Merged
    BY <1>2, Zenon DEF Merged
  <2>2. heap # <<>> =>
          IF msgs[heap[1]] = <<>>
          THEN toReload = <<>> /\ (exc' = "Error" \/ env.asks)
          ELSE Holds(heap[1]) /\ Heap(heap, Gt)
    BY <1>1, <1>5, Zenon DEF Wrappers
  <2>3. Wrappers'
    BY <1>1, <1>2, <1>5, <2>1, <2>2, WrappersFrame, Zenon
  <2> QED BY <1>1, <1>2, <1>3, <1>5, <2>3, Zenon DEF Inv
<1> QED BY <1>4, <1>5, Zenon

LEMMA StartSeekStep ==
    ASSUME Inv, StartSeek
    PROVE  Inv'
<1>1. TypeOK /\ Calls /\ Remembers /\ array = <<>>
  BY Zenon DEF Inv, StartSeek, Calls
<1>2. env.order \in Seq(Upstreams) /\ Elems(env.order) = Upstreams
  BY <1>1, ContentFact, Zenon
<1>3. /\ exc' = "None" /\ heap' = <<>> /\ toReload' = <<>> /\ toSeek' = env.order /\ out' = <<>>
      /\ pc' = "seek"
      /\ UNCHANGED <<env, pos, up_state, msgs, msgTs, discardRequired, validator, array, state, seen>>
  BY Zenon DEF StartSeek, upVars, wrapVars
<1>4. TypeOK'
  BY <1>1, <1>2, <1>3 DEF TypeOK
<1>5. Seeking'
  BY <1>2, <1>3, Zenon DEF Seeking
<1>6. Calls' /\ Remembers'
  BY <1>1, <1>3, Zenon DEF Calls, Remembers
<1> QED BY <1>3, <1>4, <1>5, <1>6, Zenon DEF Inv

\* One more wrapper is reset.
LEMMA SeekOneStep ==
    ASSUME Inv, SeekOne
    PROVE  Inv'
<1>1. TypeOK /\ Calls /\ Seeking /\ Remembers /\ pc = "seek" /\ toSeek # <<>>
  BY Zenon DEF Inv, SeekOne
<1>2. toSeek \in Seq(Upstreams)
  BY <1>1, Zenon DEF TypeOK
<1>3. PICK u \in Upstreams : u = Head(toSeek)
  BY <1>1, <1>2
<1>4. /\ SeekBeginning(u) /\ toSeek' = Tail(toSeek)
      /\ UNCHANGED <<env, heap, toReload, validator, exc, pc, array, state, out, seen>>
  BY <1>3, Zenon DEF SeekOne
<1>5. toSeek' \in Seq(Upstreams) /\ Elems(toSeek) = Elems(toSeek') \cup {u}
  BY <1>1, <1>2, <1>3, <1>4, HeadAndTail, Zenon
<1>6. /\ pos' \in [Upstreams -> Nat \ {0}]
      /\ up_state' \in [Upstreams -> UpstreamStates]
      /\ msgTs' \in [Upstreams -> Int \cup {NoTs}]
      /\ discardRequired' \in [Upstreams -> BOOLEAN]
  BY <1>1, <1>4 DEF TypeOK, SeekBeginning, UpstreamStates
<1>7. msgs' \in [Upstreams -> Seq(Messages)]
  <2>1. <<>> \in Seq(Messages)
    OBVIOUS
  <2> QED BY <1>1, <1>4, <2>1, Zenon DEF TypeOK, SeekBeginning
<1>8. TypeOK'
  BY <1>1, <1>4, <1>5, <1>6, <1>7, Zenon DEF TypeOK
<1>9. \A v \in Upstreams \ Elems(toSeek') : Reset(v)'
  <2> TAKE v \in Upstreams \ Elems(toSeek')
  <2>1. CASE v = u
    BY <1>1, <1>4, <2>1, Zenon DEF SeekBeginning, Reset, TypeOK
  <2>2. CASE v # u
    <3>1. Reset(v)
      BY <1>1, <1>5, <2>2, Zenon DEF Seeking
    <3> QED BY <1>1, <1>4, <2>2, <3>1, Zenon DEF SeekBeginning, Reset, TypeOK
  <2> QED BY <2>1, <2>2, Zenon
<1>10. Seeking'
  BY <1>1, <1>4, <1>9, Zenon DEF Seeking
<1>11. Calls' /\ Remembers'
  BY <1>1, <1>4, Zenon DEF Calls, Remembers
<1> QED BY <1>1, <1>4, <1>8, <1>10, <1>11, Zenon DEF Inv

LEMMA SeekThrowsStep ==
    ASSUME Inv, SeekThrows
    PROVE  Inv'
<1>1. TypeOK /\ Calls /\ Seeking /\ Remembers /\ pc = "seek" /\ toSeek # <<>>
  BY Zenon DEF Inv, SeekThrows
<1>2. /\ up_state' = [up_state EXCEPT ![Head(toSeek)] = "SEEK_FAILED"] /\ toSeek' = <<>>
      /\ state' = "SEEK_FAILED" /\ pc' = "idle"
      /\ UNCHANGED <<env, pos, msgs, msgTs, discardRequired, heap, toReload, validator, exc,
                     array, out, seen>>
  BY Zenon DEF SeekThrows, wrapVars
<1>3. up_state' \in [Upstreams -> UpstreamStates]
  BY <1>1, <1>2, Zenon DEF TypeOK, UpstreamStates
<1>4. TypeOK'
  <2>1. toSeek' \in Seq(Upstreams)
    BY <1>2
  <2>2. state' \in UpstreamStates
    BY <1>2, Zenon DEF UpstreamStates
  <2> QED BY <1>1, <1>2, <1>3, <2>1, <2>2, Zenon DEF TypeOK
<1>5. Seeking' /\ Calls' /\ Remembers'
  BY <1>1, <1>2, Zenon DEF Seeking, Calls, Remembers
<1> QED BY <1>2, <1>4, <1>5, Zenon DEF Inv

\* Every wrapper was reset: they all wait to be reloaded.
LEMMA SeekReturnsStep ==
    ASSUME Inv, SeekReturns
    PROVE  Inv'
<1>1. TypeOK /\ Calls /\ Seeking /\ Remembers /\ pc = "seek" /\ toSeek = <<>> /\ array = <<>>
  BY Zenon DEF Inv, SeekReturns, Calls
<1>2. /\ env.order \in Seq(Upstreams) /\ Elems(env.order) = Upstreams /\ NoRepeat(env.order)
      /\ \A u \in Upstreams : Len(env.content[u]) \in Nat
  BY <1>1, ContentFact
<1>3. /\ toReload' = env.order /\ state' = "ACTIVE" /\ pc' = "idle"
      /\ UNCHANGED <<env, pos, up_state, msgs, msgTs, discardRequired, heap, validator, exc,
                     array, toSeek, out, seen>>
  <2>1. toReload \o env.order = env.order
    BY <1>1, <1>2 DEF Seeking
  <2> QED BY <2>1, Zenon DEF SeekReturns, upVars, wrapVars
<1>4. TypeOK'
  BY <1>1, <1>2, <1>3, Zenon DEF TypeOK, UpstreamStates
<1>5. \A u \in Upstreams : Reset(u)
  <2>1. Elems(toSeek) = {}
    BY <1>1 DEF Elems
  <2> QED BY <1>1, <2>1, Zenon DEF Seeking
<1>6. heap = <<>> /\ Elems(heap) = {} /\ Below(heap) = {} /\ NoRepeat(heap)
  BY <1>1 DEF Seeking, Elems, Below, NoRepeat
<1>7. \A u \in Upstreams : Position(u)'
  <2> TAKE u \in Upstreams
  <2>1. Merged' = <<>>
    BY <1>1, <1>3 DEF Seeking, Merged
  <2>2. TakenFrom(Merged', u) = 0
    BY <2>1, EmptyTaken, Zenon
  <2>3. msgs'[u] = <<>> /\ pos'[u] = 1
    BY <1>3, <1>5, Zenon DEF Reset
  <2> QED BY <1>2, <1>3, <2>2, <2>3 DEF Position
<1>8. Wrappers'
  <2>1. HeapBut(heap', 1, Gt')
    BY <1>3, <1>6 DEF HeapBut
  <2> QED BY <1>2, <1>3, <1>5, <1>6, <1>7, <2>1, Zenon DEF Wrappers, Reset
<1>9. Calls' /\ Remembers'
  BY <1>1, <1>3, Zenon DEF Calls, Remembers, Seeking
<1> QED BY <1>3, <1>4, <1>8, <1>9, Zenon DEF Inv

-----------------------------------------------------------------------------
(* The invariant holds.                                                    *)

LEMMA InitInv == Init => Inv
<1> SUFFICES ASSUME Init PROVE Inv
  BY Zenon
<1>1. /\ env \in Scenarios /\ pos = [u \in Upstreams |-> 1]
      /\ up_state = [u \in Upstreams |-> "ACTIVE"] /\ msgs = [u \in Upstreams |-> <<>>]
      /\ msgTs = [u \in Upstreams |-> NoTs] /\ discardRequired = [u \in Upstreams |-> FALSE]
      /\ heap = <<>> /\ toReload = env.order /\ validator = Unset /\ exc = "None" /\ pc = "idle"
      /\ array = <<>> /\ toSeek = <<>> /\ state = "ACTIVE" /\ out = <<>> /\ seen = {}
  BY Zenon DEF Init
<1>2. TypeOK
  <2>1. env.order \in Seq(Upstreams)
    BY <1>1, MuxerAssumption, Zenon DEF ScenarioType
  <2>2. <<>> \in Seq(Messages) /\ <<>> \in Seq(Upstreams) /\ Len(<<>>) = 0 /\ Capacity \in Nat
    BY MuxerAssumption
  <2>3. msgs \in [Upstreams -> Seq(Messages)]
    BY <1>1, <2>2, Zenon
  <2>4. /\ pos \in [Upstreams -> Nat \ {0}] /\ up_state \in [Upstreams -> UpstreamStates]
        /\ msgTs \in [Upstreams -> Int \cup {NoTs}] /\ discardRequired \in [Upstreams -> BOOLEAN]
    BY <1>1 DEF UpstreamStates
  <2>5. Len(array) <= Capacity
    BY <1>1, <2>2
  <2> QED BY <1>1, <2>1, <2>2, <2>3, <2>4, <2>5, Zenon DEF TypeOK, UpstreamStates
<1>3. /\ env.order \in Seq(Upstreams) /\ Elems(env.order) = Upstreams /\ NoRepeat(env.order)
      /\ \A u \in Upstreams : Len(env.content[u]) \in Nat
  BY <1>2, ContentFact
<1>4. \A u \in Upstreams : Position(u)
  <2> TAKE u \in Upstreams
  <2>1. TakenFrom(Merged, u) = 0
    BY <1>1, EmptyTaken DEF Merged
  <2>2. msgs[u] = <<>> /\ pos[u] = 1
    BY <1>1, Zenon
  <2> QED BY <1>3, <2>1, <2>2 DEF Position
<1>5. Elems(heap) = {} /\ Below(heap) = {} /\ NoRepeat(heap) /\ HeapBut(heap, 1, Gt)
  BY <1>1 DEF Elems, Below, NoRepeat, HeapBut
<1>6. Wrappers
  BY <1>1, <1>3, <1>4, <1>5, Zenon DEF Wrappers
<1>7. Calls /\ Remembers
  BY <1>1, Zenon DEF Calls, Remembers
<1> QED BY <1>1, <1>2, <1>6, <1>7, Zenon DEF Inv

LEMMA Stutter ==
    ASSUME Inv, UNCHANGED vars
    PROVE  Inv'
<1>1. UNCHANGED <<env, pos, up_state, msgs, msgTs, discardRequired, heap, toReload, validator, exc,
                  pc, array, toSeek, state, out, seen>>
  BY Zenon DEF vars, upVars, wrapVars, callVars
<1>2. TypeOK' /\ Calls' /\ Remembers'
  BY <1>1, Zenon DEF Inv, TypeOK, Calls, Remembers
<1>3. Seeking => Seeking'
  BY <1>1, Zenon DEF Seeking, Reset
<1>4. Wrappers => Wrappers'
  <2>1. Gt' = Gt
    BY <1>1, Zenon DEF Gt, HeapComparator
  <2>2. Merged' = Merged
    BY <1>1, Zenon DEF Merged
  <2> QED BY <1>1, <2>1, <2>2, Zenon DEF Wrappers, Position, Holds
<1> QED BY <1>1, <1>2, <1>3, <1>4, Zenon DEF Inv

LEMMA NextInv == Inv /\ [Next]_vars => Inv'
<1> SUFFICES ASSUME Inv, [Next]_vars PROVE Inv'
  BY Zenon
<1>1. CASE CallNext \/ EnsureMore \/ EnsureNoMore \/ EnsureThrows \/ EnsureDone
  BY <1>1, CallNextStep, EnsureMoreStep, EnsureNoMoreStep, EnsureThrowsStep, EnsureDoneStep, Zenon
<1>2. CASE NextAppends \/ NextRejects \/ NextReloadsMore \/ NextReloadsNoMore
  BY <1>2, NextAppendsStep, NextRejectsStep, NextReloadsMoreStep, NextReloadsNoMoreStep, Zenon
<1>3. CASE NextReloadsAgain \/ NextReloadFails \/ NextReturns
  BY <1>3, NextReloadsAgainStep, NextReloadFailsStep, NextReturnsStep, Zenon
<1>4. CASE CanSeekBeginning \/ StartSeek \/ SeekOne \/ SeekThrows \/ SeekReturns
  BY <1>4, CanSeekBeginningStep, StartSeekStep, SeekOneStep, SeekThrowsStep, SeekReturnsStep, Zenon
<1>5. CASE UNCHANGED vars
  BY <1>5, Stutter, Zenon
<1> QED BY <1>1, <1>2, <1>3, <1>4, <1>5, Zenon DEF Next

\* The wrappers, the heap and the validator of a muxer are always as Inv says, for any
\* upstream iterators, contents, capacity and batches.
THEOREM Invariance == Spec => []Inv
BY InitInv, NextInv, PTL DEF Spec

-----------------------------------------------------------------------------
(* What the invariant implies.                                             *)

LEMMA InvImpliesNoAssertionFails ==
    ASSUME Inv
    PROVE  NoAssertionFails
<1> DEFINE CanReload(u) == ~discardRequired[u] /\ (msgs[u] = <<>> => up_state[u] = "ACTIVE")
           WithoutMessage == {k \in DOMAIN heap : msgs[heap[k]] = <<>>}
<1>1. TypeOK /\ heap \in Seq(Upstreams) /\ toReload \in Seq(Upstreams)
  BY Zenon DEF Inv, TypeOK
<1>2. pc \in {"ensure", "loop", "reload"} => Wrappers /\ exc = "None"
  BY Zenon DEF Inv, Calls
<1>3. ASSUME pc \in {"ensure", "loop"}
      PROVE  IF WithoutMessage = {} THEN IsHeap(heap, Gt)
             ELSE env.asks /\ WithoutMessage = {1} /\ toReload = <<>>
  <2>1. Wrappers /\ exc = "None" /\ pc # "reload"
    BY <1>2, <1>3, Zenon
  <2>2. DOMAIN heap = 1 .. Len(heap) /\ (heap # <<>> => 1 \in DOMAIN heap)
    BY <1>1
  <2>3. \A k \in DOMAIN heap : k # 1 => msgs[heap[k]] # <<>>
    <3> TAKE k \in DOMAIN heap
    <3> HAVE k # 1
    <3>1. heap[k] \in Below(heap)
      BY <1>1, <2>2 DEF Below
    <3> QED BY <2>1, <3>1, Zenon DEF Wrappers, Holds
  <2>4. CASE heap # <<>> /\ msgs[heap[1]] = <<>>
    <3>1. WithoutMessage = {1}
      BY <2>2, <2>3, <2>4, Zenon
    <3>2. env.asks /\ toReload = <<>>
      BY <2>1, <2>4, Zenon DEF Wrappers
    <3> QED BY <3>1, <3>2, Zenon
  <2>5. CASE heap = <<>> \/ msgs[heap[1]] # <<>>
    <3>1. WithoutMessage = {}
      BY <2>2, <2>3, <2>5
    <3>2. Heap(heap, Gt) /\ StrictWeakOrder(Gt, Elems(heap)) /\ heap \in Seq(Elems(heap))
      BY <1>1, <2>1, <2>5, WholeHeap, Zenon
    <3>3. IsHeap(heap, Gt)
      BY <3>2, TopIsFirst, Zenon
    <3> QED BY <3>1, <3>3, Zenon
  <2> QED BY <2>4, <2>5, Zenon
<1>4. ASSUME pc = "ensure", toReload # <<>> PROVE CanReload(Head(toReload))
  <2>1. PICK u \in Upstreams : u = Head(toReload) /\ u \in Elems(toReload)
    BY <1>1, <1>4, HeadAndTail, Zenon
  <2>2. ~discardRequired[u] /\ up_state[u] = "ACTIVE"
    BY <1>2, <1>4, <2>1, Zenon DEF Wrappers
  <2> QED BY <2>1, <2>2, Zenon
<1>5. ASSUME pc = "reload" PROVE CanReload(heap[1])
  <2>1. Wrappers /\ heap # <<>> /\ ~discardRequired[heap[1]]
    BY <1>2, <1>5, Zenon DEF Wrappers
  <2>2. heap[1] \in Upstreams /\ heap[1] \in Elems(heap)
    BY <1>1, <2>1, TopAndBelow
  <2>3. up_state[heap[1]] = "ACTIVE"
    BY <2>1, <2>2, Zenon DEF Wrappers
  <2> QED BY <2>1, <2>3, Zenon
<1> QED BY <1>1, <1>3, <1>4, <1>5, Zenon DEF NoAssertionFails

\* No assertion of the muxer and of its heap fails, except the one which
\* canSeekBeginning() exposes: msg() on a wrapper without a message.
THEOREM AssertionsHold == Spec => []NoAssertionFails
<1>1. Inv => NoAssertionFails
  BY InvImpliesNoAssertionFails, Zenon
<1> QED BY <1>1, Invariance, PTL

\* A validator which remembers one clock class decides as if it remembered them all.
THEOREM ValidatorNeedsOneClockClass == Spec => []ValidatorIsExact
<1>1. Inv => ValidatorIsExact
  <2> SUFFICES ASSUME Inv, NEW u \in Upstreams, msgs[u] # <<>>
               PROVE  Accepts(validator, Head(msgs[u]).clk)
                      <=> \A c \in seen : Correlated(c, Head(msgs[u]).clk)
    BY Zenon DEF ValidatorIsExact
  <2>1. Head(msgs[u]) \in Messages
    BY DEF Inv, TypeOK
  <2> QED BY <2>1, ValidateFact, Zenon DEF Inv
<1> QED BY <1>1, Invariance, PTL

-----------------------------------------------------------------------------
(* The muxer implements Merger.                                            *)

LEMMA BeforeIsOlder ==
    ASSUME NEW m \in Messages, NEW n \in Messages
    PROVE  Before(m, n) <=> Older(m, n)
<1>1. compare(m, n) < 0 <=> KeyLess(m, n)
  BY CompareIsKeyLess, Zenon
<1> QED BY <1>1, OlderFact, Zenon DEF Before

\* What a wrapper holds is what remains of the content of its upstream iterator.
LEMMA HeldIsRest ==
    ASSUME TypeOK, Wrappers, toReload = <<>>, NEW u \in Upstreams,
           \A v \in Elems(heap) : msgs[v] # <<>>
    PROVE  /\ u \in Left(env.content, Merged) <=> u \in Elems(heap)
           /\ u \in Elems(heap) =>
                 /\ Head(msgs[u]) = Rest(env.content, Merged, u)
                 /\ Head(msgs[u]) \in Messages /\ Head(msgs[u]).up = u
<1>1. env.content[u] \in Seq(Messages) /\ \A i \in 1 .. Len(env.content[u]) : env.content[u][i].up = u
  BY ContentFact, Zenon
<1>2. msgs[u] \in Seq(Messages) /\ pos[u] \in Nat /\ Position(u)
  BY Zenon DEF TypeOK, Wrappers
<1>3. PICK t \in Nat : t = TakenFrom(Merged, u)
  BY <1>2, Zenon DEF Position
<1>4. PICK n \in Nat : n = Len(msgs[u])
  BY <1>2
<1>5. PICK l \in Nat : l = Len(env.content[u])
  BY <1>1
<1>6. /\ t + n = pos[u] - 1 /\ pos[u] <= l + 1
      /\ \A k \in 1 .. n : msgs[u][k] = env.content[u][t + k]
  BY <1>2, <1>3, <1>4, <1>5, Zenon DEF Position
<1>7. u \in Left(env.content, Merged) <=> t < l
  BY <1>3, <1>5, Zenon DEF Left
<1>8. CASE u \in Elems(heap)
  <2>1. n > 0 /\ Head(msgs[u]) = msgs[u][1] /\ Head(msgs[u]) \in Messages
    BY <1>2, <1>4, <1>8
  <2>2. t + 1 \in 1 .. l
    BY <1>2, <1>6, <2>1
  <2>3. msgs[u][1] = env.content[u][t + 1]
    BY <1>6, <2>1
  <2>4. Head(msgs[u]).up = u
    BY <1>1, <1>5, <2>1, <2>2, <2>3, Zenon
  <2> QED BY <1>3, <1>7, <1>8, <2>1, <2>2, <2>3, <2>4 DEF Rest
<1>9. CASE u \notin Elems(heap)
  <2>1. Elems(toReload) = {}
    BY DEF Elems
  <2>2. msgs[u] = <<>> /\ pos[u] = l + 1
    BY <1>5, <1>9, <2>1, Zenon DEF Wrappers
  <2>3. n = 0
    BY <1>4, <2>2, Zenon
  <2>4. t = l
    BY <1>6, <2>2, <2>3
  <2> QED BY <1>7, <1>9, <2>4
<1> QED BY <1>8, <1>9, Zenon

\* _next() appends a message which no other first remaining message precedes.
LEMMA OldestFact ==
    ASSUME Inv, NextAppends
    PROVE  \E top \in Left(env.content, Merged) :
             /\ top \in Upstreams
             /\ Rest(env.content, Merged, top) \in Messages
             /\ Rest(env.content, Merged, top).up = top
             /\ Merged \in Seq(Messages)
             /\ Merged' = Append(Merged, Rest(env.content, Merged, top))
             /\ \A v \in Left(env.content, Merged) :
                   /\ v \in Upstreams /\ Rest(env.content, Merged, v) \in Messages
                   /\ ~Older(Rest(env.content, Merged, v), Rest(env.content, Merged, top))
             /\ UNCHANGED <<env, state>> /\ state = "ACTIVE"
<1>1. /\ TypeOK /\ Wrappers /\ pc = "loop" /\ heap # <<>> /\ toReload = <<>> /\ msgs[heap[1]] # <<>>
      /\ state = "ACTIVE"
  BY Zenon DEF Inv, Calls, NextAppends, AppendOldest, Wrappers
<1>2. /\ \A u \in Elems(heap) : Holds(u)
      /\ Heap(heap, Gt) /\ StrictWeakOrder(Gt, Elems(heap)) /\ heap \in Seq(Elems(heap))
  BY <1>1, WholeHeap, Zenon
<1>3. \A i \in 1 .. Len(heap) : ~Gt[heap[i]][heap[1]]
  BY <1>2, TopIsFirst, Zenon
<1>4. \A u \in Elems(heap) : msgs[u] # <<>>
  BY <1>2, Zenon DEF Holds
<1>5. heap \in Seq(Upstreams)
  BY <1>1, Zenon DEF TypeOK
<1>6. PICK top \in Upstreams : top = heap[1] /\ top \in Elems(heap)
  BY <1>1, <1>5, TopAndBelow, Zenon
<1>7. /\ \A u \in Upstreams : u \in Left(env.content, Merged) <=> u \in Elems(heap)
      /\ \A u \in Elems(heap) :
            /\ u \in Upstreams /\ u \in Left(env.content, Merged)
            /\ Head(msgs[u]) = Rest(env.content, Merged, u)
            /\ Head(msgs[u]) \in Messages /\ Head(msgs[u]).up = u
  <2>1. Elems(heap) \subseteq Upstreams
    BY <1>5, TopAndBelow, Zenon
  <2> QED BY <1>1, <1>4, <2>1, HeldIsRest, Zenon
<1>8. \A v \in Elems(heap) : ~Older(Head(msgs[v]), Head(msgs[top]))
  <2> TAKE v \in Elems(heap)
  <2>1. PICK i \in 1 .. Len(heap) : v = heap[i]
    BY Zenon DEF Elems
  <2>2. ~Gt[v][top] /\ v \in Upstreams
    BY <1>3, <1>6, <1>7, <2>1, Zenon
  <2>3. Gt[v][top] = HeapComparator(msgs, msgTs, v, top)
    BY <2>2, Zenon DEF Gt
  <2>4. msgTs[v] = Head(msgs[v]).ts /\ msgTs[top] = Head(msgs[top]).ts
    BY <1>2, <1>6, Zenon DEF Holds
  <2>5. HeapComparator(msgs, msgTs, v, top) = Older(Head(msgs[v]), Head(msgs[top]))
    BY <2>4, ComparatorFact
  <2> QED BY <2>2, <2>3, <2>5, Zenon
<1>9. array \in Seq(Messages) /\ out \in Seq(Messages)
  BY <1>1, Zenon DEF TypeOK
<1>10. array' = Append(array, Head(msgs[top])) /\ UNCHANGED <<env, state, out>>
  BY <1>6, Zenon DEF NextAppends, AppendOldest
<1>11. Merged \in Seq(Messages) /\ Merged' = Append(Merged, Head(msgs[top]))
  <2>1. Head(msgs[top]) \in Messages
    BY <1>6, <1>7, Zenon
  <2>2. out \o array \in Seq(Messages)
        /\ out \o Append(array, Head(msgs[top])) = Append(out \o array, Head(msgs[top]))
    BY <1>9, <2>1, ConcatFact
  <2> QED BY <1>10, <2>2, Zenon DEF Merged
<1>12. Left(env.content, Merged) \subseteq Upstreams
  BY Zenon DEF Left
<1>13. top \in Left(env.content, Merged)
  BY <1>6, <1>7, Zenon
<1> WITNESS top \in Left(env.content, Merged)
<1> QED BY <1>1, <1>6, <1>7, <1>8, <1>10, <1>11, <1>12, Zenon

\* The other steps neither add to the merge nor end it.
LEMMA OtherSteps ==
    ASSUME Inv, [Next]_vars, ~NextAppends, ~StartSeek
    PROVE  /\ Merged' = Merged /\ env' = env
           /\ ~NextReturns =>
                ((state = "ENDED" /\ pc # "seek") <=> (state' = "ENDED" /\ pc' # "seek"))
<1>0. TypeOK
  BY Zenon DEF Inv
<1>1. CASE NextReturns
  <2>1. out' = out \o array /\ array' = <<>> /\ env' = env
    BY <1>1, Zenon DEF NextReturns
  <2> QED BY <1>0, <1>1, <2>1, ReturnedFact, Zenon
<1>2. CASE NextRejects \/ NextReloadsAgain \/ NextReloadFails
  <2>1. /\ out' = out \o array /\ array' = <<>> /\ pc' = "idle" /\ UNCHANGED <<env, state>>
        /\ state = "ACTIVE"
    BY <1>2, Zenon DEF NextRejects, NextReloadsAgain, NextReloadFails, ReturnArray, Inv, Calls
  <2>2. Merged' = Merged
    BY <1>0, <2>1, ReturnedFact, Zenon
  <2> QED BY <2>1, <2>2, Zenon
<1>3. CASE CallNext \/ EnsureMore \/ EnsureNoMore \/ EnsureThrows \/ EnsureDone
           \/ NextReloadsMore \/ NextReloadsNoMore
  <2>1. UNCHANGED <<env, out, array, state>> /\ state = "ACTIVE"
    BY <1>3, Zenon DEF CallNext, EnsureMore, EnsureNoMore, EnsureThrows, EnsureDone,
                NextReloadsMore, NextReloadsNoMore, callVars, Inv, Calls
  <2> QED BY <2>1, Zenon DEF Merged
<1>4. CASE CanSeekBeginning \/ SeekOne \/ SeekThrows \/ SeekReturns \/ UNCHANGED vars
  <2>1. /\ UNCHANGED <<env, out, array>>
        /\ (state = "ENDED" /\ pc # "seek") <=> (state' = "ENDED" /\ pc' # "seek")
    BY <1>4, Zenon DEF CanSeekBeginning, SeekOne, SeekThrows, SeekReturns, vars, callVars
  <2> QED BY <2>1, Zenon DEF Merged
<1> QED BY <1>1, <1>2, <1>3, <1>4, Zenon DEF Next

\* The steps of the muxer as steps of Merger: it takes a message when it appends one,
\* ends when it returns without any, and rewinds when a seek starts.
LEMMA StepRefines ==
    ASSUME Inv, [Next]_vars
    PROVE  [M!Next]_(M!vars)
<1>0. TypeOK /\ out \in Seq(Messages) /\ array \in Seq(Messages)
  BY Zenon DEF Inv, TypeOK
<1>1. ASSUME Merged' = Merged, UNCHANGED env,
             (state = "ENDED" /\ pc # "seek") <=> (state' = "ENDED" /\ pc' # "seek")
      PROVE  UNCHANGED M!vars
  BY <1>1, Zenon DEF M!vars
<1>2. CASE NextAppends
  <2>1. PICK top \in Left(env.content, Merged) :
          /\ top \in Upstreams
          /\ Rest(env.content, Merged, top) \in Messages
          /\ Rest(env.content, Merged, top).up = top
          /\ Merged \in Seq(Messages)
          /\ Merged' = Append(Merged, Rest(env.content, Merged, top))
          /\ \A v \in Left(env.content, Merged) :
                /\ v \in Upstreams /\ Rest(env.content, Merged, v) \in Messages
                /\ ~Older(Rest(env.content, Merged, v), Rest(env.content, Merged, top))
          /\ UNCHANGED <<env, state>> /\ state = "ACTIVE"
    BY <1>2, OldestFact, Zenon
  <2>2. M!Waiting(top) /\ M!First(top) = Rest(env.content, Merged, top)
    BY <2>1, Zenon DEF M!Waiting, M!First, Left, Rest
  <2>3. ASSUME NEW v \in Upstreams, M!Waiting(v) PROVE NotAfter(M!First(top), M!First(v))
    <3>1. v \in Left(env.content, Merged) /\ M!First(v) = Rest(env.content, Merged, v)
      BY <2>3, Zenon DEF M!Waiting, M!First, Left, Rest
    <3> QED BY <2>1, <2>2, <3>1, OlderFact
  <2>4. \A v \in Upstreams :
          TakenFrom(Merged', v) = TakenFrom(Merged, v) + IF v = top THEN 1 ELSE 0
    <3> TAKE v \in Upstreams
    <3>1. PICK m \in Messages : m = Rest(env.content, Merged, top)
      BY <2>1, Zenon
    <3>2. TakenFrom(Append(Merged, m), v) = TakenFrom(Merged, v) + IF m.up = v THEN 1 ELSE 0
      BY <2>1, TakenFromFact, Zenon
    <3> QED BY <2>1, <3>1, <3>2, Zenon
  <2>5. \A v \in Upstreams : TakenFrom(Merged, v) \in Nat
    BY <2>1, TakenFromFact, Zenon
  <2>6. [v \in Upstreams |-> TakenFrom(Merged', v)]
        = [[v \in Upstreams |-> TakenFrom(Merged, v)] EXCEPT ![top] = @ + 1]
    <3>1. PICK f : f = [v \in Upstreams |-> TakenFrom(Merged, v)]
      BY Zenon
    <3>2. \A v \in Upstreams : TakenFrom(Merged', v) = [f EXCEPT ![top] = @ + 1][v]
      BY <2>1, <2>4, <2>5, <3>1
    <3>3. [v \in Upstreams |-> TakenFrom(Merged', v)] = [f EXCEPT ![top] = @ + 1]
      BY <3>1, <3>2, Zenon
    <3> QED BY <3>1, <3>3, Zenon
  <2>7. ~(state = "ENDED" /\ pc # "seek") /\ ~(state' = "ENDED" /\ pc' # "seek")
    BY <2>1, Zenon
  <2>8. M!Take(top)
    <3>1. \A v \in Upstreams : M!Waiting(v) => M!NotAfter(M!First(top), M!First(v))
      BY <2>3, Zenon DEF M!NotAfter, NotAfter
    <3> QED BY <2>1, <2>2, <2>6, <2>7, <3>1, Zenon DEF M!Take
  <2> QED BY <2>1, <2>8, Zenon DEF M!Next
<1>3. CASE NextReturns
  <2>1. /\ Wrappers /\ toReload = <<>> /\ state = "ACTIVE" /\ pc = "loop"
        /\ out' = out \o array /\ array' = <<>> /\ pc' = "idle" /\ env' = env
        /\ state' = IF array = <<>> THEN "ENDED" ELSE state
        /\ heap = <<>> \/ Len(array) = Capacity
    BY <1>3, Zenon DEF Inv, Calls, NextReturns, Wrappers
  <2>2. Merged' = Merged
    BY <1>0, <2>1, ReturnedFact, Zenon
  <2>3. CASE array # <<>>
    BY <1>1, <2>1, <2>2, <2>3, Zenon
  <2>4. CASE array = <<>>
    <3>1. heap = <<>>
      BY <2>1, <2>4, MuxerAssumption, Zenon
    <3>2. \A u \in Upstreams : u \notin Left(env.content, Merged)
      <4>1. Elems(heap) = {}
        BY <3>1 DEF Elems
      <4> QED BY <1>0, <2>1, <4>1, HeldIsRest, Zenon
    <3>3. \A u \in Upstreams : ~M!Waiting(u)
      BY <3>2, Zenon DEF M!Waiting, Left
    <3>4. M!End
      BY <2>1, <2>2, <2>4, <3>3, Zenon DEF M!End
    <3> QED BY <3>4, Zenon DEF M!Next
  <2> QED BY <2>3, <2>4, Zenon
<1>4. CASE StartSeek
  <2>1. out' = <<>> /\ array' = <<>> /\ pc' = "seek" /\ env' = env
    BY <1>4, Zenon DEF StartSeek, Inv, Calls
  <2>2. Merged' = <<>>
    BY <2>1 DEF Merged
  <2>3. [u \in Upstreams |-> TakenFrom(Merged', u)] = [u \in Upstreams |-> 0]
    BY <2>2, EmptyTaken, Zenon
  <2>4. M!Rewind
    BY <2>1, <2>2, <2>3, Zenon DEF M!Rewind
  <2> QED BY <2>4, Zenon DEF M!Next
<1>5. CASE ~NextAppends /\ ~NextReturns /\ ~StartSeek
  BY <1>1, <1>5, OtherSteps, Zenon
<1> QED BY <1>2, <1>3, <1>4, <1>5, Zenon

LEMMA InitRefines ==
    ASSUME Init
    PROVE  M!Init
<1>1. Merged = <<>> /\ state = "ACTIVE"
  BY DEF Init, Merged
<1>2. env.content \in Contents
  BY InitInv, ContentFact, Zenon DEF Inv
<1>3. [u \in Upstreams |-> TakenFrom(Merged, u)] = [u \in Upstreams |-> 0]
  BY <1>1, EmptyTaken, Zenon
<1> QED BY <1>1, <1>2, <1>3, Zenon DEF M!Init

\* The muxer implements Merger, for any upstream iterators, contents, capacity and
\* batches: with MergeIsSorted and EndIsNotEarly of MergerProofs, what it returns is in
\* the order of the timestamps, and it does not end early.
THEOREM MuxerImplementsMerger == Spec => MergerSpec
<1>1. Init => M!Init
  BY InitRefines, Zenon
<1>2. Inv /\ [Next]_vars => [M!Next]_(M!vars)
  BY StepRefines, Zenon
<1> QED BY <1>1, <1>2, Invariance, PTL DEF Spec, MergerSpec, M!Spec

MP == INSTANCE MergerProofs WITH
        content <- env.content,
        taken <- [u \in Upstreams |-> TakenFrom(Merged, u)],
        out <- Merged,
        ended <- state = "ENDED" /\ pc # "seek"

\* What the muxer returns is in the order of the timestamps, and it only ends when it
\* returned every message.
THEOREM MuxerIsSorted == Spec => [](Ordered(Merged) /\ MP!EndIsComplete)
<1>1. MP!IInv /\ [MP!Next]_(MP!vars) => MP!IInv'
  BY MP!Inductive, MergerAssumption, Zenon DEF MP!Ordered, Ordered
<1>2. Init => MP!IInv
  <2> SUFFICES ASSUME Init PROVE MP!IInv
    BY Zenon
  <2>1. MP!Init
    BY InitRefines, Zenon DEF M!Init, MP!Init
  <2> QED BY <2>1, MP!Initial, MergerAssumption, Zenon DEF MP!Ordered, Ordered
<1>3. Inv /\ [Next]_vars => [MP!Next]_(MP!vars)
  <2>1. M!Next => MP!Next
    BY Zenon DEF M!Next, M!Take, M!End, M!Rewind, M!Waiting, M!First, M!NotAfter,
           MP!Next, MP!Take, MP!End, MP!Rewind, MP!Waiting, MP!First, MP!NotAfter
  <2> QED BY <2>1, StepRefines, Zenon DEF M!vars, MP!vars
<1>4. MP!IInv => Ordered(Merged) /\ MP!EndIsComplete
  BY Zenon DEF MP!IInv, MP!Sorted, MP!Ordered, Ordered
<1> QED BY <1>1, <1>2, <1>3, <1>4, Invariance, PTL DEF Spec

-----------------------------------------------------------------------------
(* The merge is determined by the contents.                                *)

IsMerge(g, c, N) == g = [n \in 0 .. N |-> IF n = 0 THEN <<>> ELSE MergeStep(c, g[n - 1])]
IsWholeMerge(g, c) == g = [n \in Nat |-> IF n = 0 THEN <<>> ELSE MergeStep(c, g[n - 1])]

LEMMA MergeExists ==
    ASSUME NEW c, NEW N \in Nat
    PROVE  \E g : IsMerge(g, c, N)
<1> DEFINE Is(g, m) == g = [n \in 0 .. m |-> IF n = 0 THEN <<>> ELSE MergeStep(c, g[n - 1])]
           S == {m \in Nat : \E g : Is(g, m)}
<1>1. 0 \in S
  <2> DEFINE g == [n \in 0 .. 0 |-> <<>>]
  <2>1. g = [n \in 0 .. 0 |-> IF n = 0 THEN <<>> ELSE MergeStep(c, g[n - 1])]
    OBVIOUS
  <2> QED BY <2>1, Zenon
<1>2. ASSUME NEW m \in Nat, m \in S PROVE m + 1 \in S
  <2>1. PICK g : Is(g, m)
    BY <1>2, Zenon
  <2> DEFINE h == [n \in 0 .. m + 1 |-> IF n = m + 1 THEN MergeStep(c, g[m]) ELSE g[n]]
  <2>2. Is(h, m + 1)
    <3>1. ASSUME NEW n \in 0 .. m + 1
          PROVE  h[n] = IF n = 0 THEN <<>> ELSE MergeStep(c, h[n - 1])
      <4>1. CASE n = m + 1
        <5>1. h[n - 1] = g[m] /\ h[n] = MergeStep(c, g[m])
          BY <4>1
        <5> QED BY <4>1, <5>1
      <4>2. CASE n # m + 1
        <5>1. n \in 0 .. m /\ h[n] = g[n]
          BY <4>2
        <5>2. n # 0 => h[n - 1] = g[n - 1]
          BY <4>2
        <5>3. g[n] = IF n = 0 THEN <<>> ELSE MergeStep(c, g[n - 1])
          BY <2>1, <5>1, Zenon
        <5> HIDE DEF h
        <5> QED BY <5>1, <5>2, <5>3, Zenon
      <4> QED BY <4>1, <4>2, Zenon
    <3> QED BY <3>1, Zenon
  <2> HIDE DEF Is, h
  <2>3. \E k : Is(k, m + 1)
    BY <2>2, Zenon
  <2> QED BY <2>3
<1> HIDE DEF S
<1>3. \A n \in Nat : n \in S
  BY <1>1, <1>2, NatSetInduction, Zenon
<1> QED BY <1>3, Zenon DEF S, IsMerge

LEMMA MergeIsUnique ==
    ASSUME NEW c, NEW N \in Nat, NEW L \in Nat, NEW g, NEW h, IsMerge(g, c, N), IsMerge(h, c, L),
           NEW k \in Nat, k <= N, k <= L
    PROVE  g[k] = h[k]
<1> DEFINE S == {n \in Nat : n <= N /\ n <= L => g[n] = h[n]}
<1>1. 0 \in S
  BY DEF IsMerge
<1>2. ASSUME NEW n \in Nat, n \in S PROVE n + 1 \in S
  <2> SUFFICES ASSUME n + 1 <= N, n + 1 <= L PROVE g[n + 1] = h[n + 1]
    OBVIOUS
  <2>1. g[n] = h[n]
    BY <1>2
  <2>2. n + 1 \in 0 .. N /\ n + 1 \in 0 .. L /\ n + 1 # 0 /\ (n + 1) - 1 = n
    OBVIOUS
  <2>3. g[n + 1] = MergeStep(c, g[n])
    BY <2>2, Zenon DEF IsMerge
  <2>4. h[n + 1] = MergeStep(c, h[n])
    BY <2>2, Zenon DEF IsMerge
  <2> QED BY <2>1, <2>3, <2>4, Zenon
<1> HIDE DEF S
<1>3. k \in S
  BY <1>1, <1>2, NatSetInduction, Zenon
<1> QED BY <1>3, Zenon DEF S

\* The recursive definition of the reference has a solution.
LEMMA ReferenceMergeFact ==
    ASSUME NEW c
    PROVE  /\ ReferenceMerge(c)[0] = <<>>
           /\ \A n \in Nat : ReferenceMerge(c)[n + 1] = MergeStep(c, ReferenceMerge(c)[n])
<1> DEFINE part(n) == CHOOSE g : IsMerge(g, c, n)
           whole == [n \in Nat |-> part(n)[n]]
<1>1. \A n \in Nat : IsMerge(part(n), c, n)
  BY MergeExists, Zenon
<1> HIDE DEF part
<1>2. \A n \in Nat : whole[n] = IF n = 0 THEN <<>> ELSE MergeStep(c, whole[n - 1])
  <2> TAKE n \in Nat
  <2>1. n \in 0 .. n /\ (n # 0 => n - 1 \in Nat /\ n - 1 <= n /\ n - 1 <= n - 1)
    OBVIOUS
  <2>2. part(n)[n] = IF n = 0 THEN <<>> ELSE MergeStep(c, part(n)[n - 1])
    BY <1>1, <2>1, Zenon DEF IsMerge
  <2>3. n # 0 => part(n)[n - 1] = part(n - 1)[n - 1]
    BY <1>1, <2>1, MergeIsUnique
  <2> QED BY <2>1, <2>2, <2>3, Zenon
<1>3. IsWholeMerge(whole, c)
  <2>1. whole = [n \in Nat |-> IF n = 0 THEN <<>> ELSE MergeStep(c, whole[n - 1])]
    <3> DEFINE w2 == [n \in Nat |-> IF n = 0 THEN <<>> ELSE MergeStep(c, whole[n - 1])]
    <3>1. \A n \in Nat : whole[n] = w2[n]
      BY <1>2, Zenon
    <3>2. whole = [n \in Nat |-> whole[n]]
      BY Zenon
    <3>3. w2 = [n \in Nat |-> w2[n]]
      OBVIOUS
    <3> HIDE DEF whole, w2
    <3>4. whole = w2
      BY <3>1, <3>2, <3>3, Zenon
    <3> QED BY <3>4, Zenon DEF w2
  <2> QED BY <2>1, Zenon DEF IsWholeMerge
<1> HIDE DEF whole
<1>4. ReferenceMerge(c) = CHOOSE g : IsWholeMerge(g, c)
  BY Zenon DEF ReferenceMerge, IsWholeMerge
<1>5. IsWholeMerge(ReferenceMerge(c), c)
  BY <1>3, <1>4, Zenon
<1>6. PICK r : r = ReferenceMerge(c)
  BY Zenon
<1>7. r = [n \in Nat |-> IF n = 0 THEN <<>> ELSE MergeStep(c, r[n - 1])]
  BY <1>5, <1>6, Zenon DEF IsWholeMerge
<1>8. r[0] = <<>>
  BY <1>7, Zenon
<1>9. ASSUME NEW n \in Nat PROVE r[n + 1] = MergeStep(c, r[n])
  <2>1. n + 1 \in Nat /\ n + 1 # 0 /\ (n + 1) - 1 = n
    OBVIOUS
  <2> QED BY <1>7, <2>1, Zenon
<1> QED BY <1>6, <1>8, <1>9, Zenon

\* With OldestFact, the message which _next() appends is the one which the reference
\* chooses: it comes before all the others.
LEMMA AppendsTheReference ==
    ASSUME Inv, NextAppends, NoTies
    PROVE  Merged' = MergeStep(env.content, Merged) /\ env' = env /\ Merged \in Seq(Messages)
           /\ Len(Merged') = Len(Merged) + 1
<1>1. PICK c \in Contents : c = env.content
  BY ContentFact, Zenon DEF Inv
<1>2. PICK q : q = Merged
  BY Zenon
<1>3. PICK top \in Left(c, q) :
        /\ top \in Upstreams
        /\ Rest(c, q, top) \in Messages
        /\ Merged \in Seq(Messages)
        /\ Merged' = Append(q, Rest(c, q, top))
        /\ \A v \in Left(c, q) :
              /\ v \in Upstreams /\ Rest(c, q, v) \in Messages
              /\ ~Older(Rest(c, q, v), Rest(c, q, top))
        /\ env' = env
  BY <1>1, <1>2, OldestFact, Zenon
<1>4. ASSUME NEW v \in Left(c, q), v # top
      PROVE  Before(Rest(c, q, top), Rest(c, q, v)) /\ ~Before(Rest(c, q, v), Rest(c, q, top))
  <2>1. v \in Upstreams /\ Rest(c, q, v) \in Messages
    BY <1>3, Zenon
  <2>2. \A u \in {top, v} : TakenFrom(q, u) + 1 \in DOMAIN c[u]
    <3> TAKE u \in {top, v}
    <3>1. u \in Upstreams /\ TakenFrom(q, u) < Len(c[u])
      BY <1>3, <2>1, Zenon DEF Left
    <3>2. TakenFrom(q, u) \in Nat
      BY <1>2, <1>3, TakenFromFact, Zenon
    <3>3. c[u] \in Seq(Messages)
      BY <3>1, MergerAssumption, Zenon
    <3> QED BY <3>1, <3>2, <3>3
  <2>3. Before(Rest(c, q, top), Rest(c, q, v)) \/ Before(Rest(c, q, v), Rest(c, q, top))
    BY <1>3, <1>4, <2>1, <2>2, Zenon DEF NoTies, Rest
  <2>4. ~Before(Rest(c, q, v), Rest(c, q, top))
    BY <1>3, <2>1, BeforeIsOlder, Zenon
  <2> QED BY <2>3, <2>4, Zenon
<1> DEFINE First(u) == \A v \in Left(c, q) \ {u} : Before(Rest(c, q, u), Rest(c, q, v))
<1>5. First(top)
  BY <1>4, Zenon
<1>6. \A u \in Left(c, q) : First(u) => u = top
  BY <1>3, <1>4, Zenon
<1> HIDE DEF First
<1>7. (CHOOSE u \in Left(c, q) : First(u)) = top
  BY <1>5, <1>6, Zenon
<1>8. MergeStep(c, q) = Append(q, Rest(c, q, CHOOSE u \in Left(c, q) : First(u)))
  BY Zenon DEF MergeStep, First
<1>9. Len(Append(q, Rest(c, q, top))) = Len(q) + 1
  BY <1>2, <1>3
<1> QED BY <1>1, <1>2, <1>3, <1>7, <1>8, <1>9, Zenon

LEMMA StaysDeterministic ==
    ASSUME Inv, [Next]_vars, NoTies, MergeIsDeterministic
    PROVE  MergeIsDeterministic'
<1>1. CASE NextAppends
  <2>1. /\ Merged' = MergeStep(env.content, Merged) /\ env' = env /\ Merged \in Seq(Messages)
        /\ Len(Merged') = Len(Merged) + 1
    BY <1>1, AppendsTheReference, Zenon
  <2>2. PICK n \in Nat : n = Len(Merged)
    BY <2>1
  <2>3. ReferenceMerge(env.content)[n + 1]
        = MergeStep(env.content, ReferenceMerge(env.content)[n])
    BY ReferenceMergeFact, Zenon
  <2>4. Merged = ReferenceMerge(env.content)[n]
    BY <2>2, Zenon DEF MergeIsDeterministic
  <2> QED BY <2>1, <2>2, <2>3, <2>4, Zenon DEF MergeIsDeterministic
<1>2. CASE StartSeek
  <2>1. out' = <<>> /\ array' = <<>> /\ env' = env
    BY <1>2, Zenon DEF StartSeek, Inv, Calls
  <2>2. Merged' = <<>> /\ Len(Merged') = 0
    BY <2>1 DEF Merged
  <2>3. ReferenceMerge(env.content)[0] = <<>>
    BY ReferenceMergeFact, Zenon
  <2> QED BY <2>1, <2>2, <2>3, Zenon DEF MergeIsDeterministic
<1>3. CASE ~NextAppends /\ ~StartSeek
  <2>1. Merged' = Merged /\ env' = env
    BY <1>3, OtherSteps, Zenon
  <2> QED BY <2>1, Zenon DEF MergeIsDeterministic
<1> QED BY <1>1, <1>2, <1>3, Zenon

\* When no two messages of different upstream iterators compare equal, what the muxer
\* returns only depends on their contents: not on the batches, on when they are not
\* ready, on errors and seeks, or on the shape of the heap.
THEOREM MuxerIsDeterministic == Spec => [](NoTies => MergeIsDeterministic)
<1>1. Init => MergeIsDeterministic
  <2> SUFFICES ASSUME Init PROVE MergeIsDeterministic
    BY Zenon
  <2>1. Merged = <<>> /\ Len(Merged) = 0
    BY DEF Init, Merged
  <2> QED BY <2>1, ReferenceMergeFact, Zenon DEF MergeIsDeterministic
<1>2. Inv /\ [Next]_vars /\ (NoTies => MergeIsDeterministic) => (NoTies => MergeIsDeterministic)'
  BY StaysDeterministic, Zenon
<1> QED BY <1>1, <1>2, Invariance, PTL DEF Spec
=============================================================================
