-------------------------------- MODULE Muxer --------------------------------
(***************************************************************************)
(* The message iterator of the muxer, flt.utils.muxer                      *)
(* (src/plugins/utils/muxer): it merges the messages of its upstream       *)
(* iterators by timestamp.  Each upstream iterator has a wrapper which     *)
(* holds a batch of messages; the wrappers which have a current message    *)
(* are in a heap, and those which must still get one are in a list.        *)
(*                                                                         *)
(* The model includes the C++ base class of message iterators              *)
(* (bt2::UserMessageIterator, src/cpp-common/bt2/component-class-dev.hpp), *)
(* which delays an error when there are messages to return first, and the  *)
(* states with which the library forbids calls.                            *)
(*                                                                         *)
(* A call is one step for each call to an upstream iterator, which may     *)
(* return any number of messages, or throw.  A call which throws without   *)
(* having changed anything is a stuttering step.                           *)
(***************************************************************************)
EXTENDS MergeOrder, MessageComparator, PrioHeap, ClockCorrelation, FiniteSets

CONSTANTS
    Capacity,       \* msgs.capacity(): how many messages one call may return
    UpstreamBatch,  \* how many messages an upstream iterator may return at once
    Scenarios       \* the environments to consider, see ScenarioType

\* An environment.  content: the messages of each upstream iterator; order: the
\* upstream iterators in the order of their ports; fails: may getting messages
\* from upstream fail?; canSeek: can all of them seek their beginning?;
\* asks: may downstream ask whether the muxer can seek, and then not seek, when
\* the muxer holds a delayed error?
ScenarioType ==
    [content : Contents, order : Seq(Upstreams), fails : BOOLEAN, canSeek : BOOLEAN,
     asks : BOOLEAN]

ASSUME MuxerAssumption ==
    /\ Capacity \in Nat \ {0}
    /\ UpstreamBatch \in Nat \ {0}
    /\ \A s \in Scenarios :
          /\ s \in ScenarioType
          /\ {s.order[i] : i \in DOMAIN s.order} = Upstreams
          /\ \A i, j \in DOMAIN s.order : s.order[i] = s.order[j] => i = j

\* The properties of messages which are compared, as in MessageComparator; a
\* message knows the upstream iterator it is from, and the clock classes are
\* objects with distinct addresses.
ASSUME MessageAssumption ==
    /\ \A m \in Messages :
          /\ m.stream \in Int /\ m.attr \in Int /\ m.count \in Int
          /\ \E w \in DOMAIN TypesInOrder : m.type = TypesInOrder[w]
    /\ \A s \in Contents, u \in Upstreams : \A i \in DOMAIN s[u] : s[u][i].up = u
    /\ \A m, n \in Messages :
          m.clk # NoClock /\ n.clk # NoClock /\ m.clk.ptr = n.clk.ptr => m.clk = n.clk

VARIABLES
    env,              \* the scenario
    pos,              \* upstream iterators: the index of the next message
    up_state,         \* upstream iterators: "ACTIVE", "ENDED" or "SEEK_FAILED"
    msgs,             \* wrappers: messages from _mMsgs.index on; <<>> when there is no batch
    msgTs,            \* wrappers: _mMsgTs
    discardRequired,  \* wrappers: _mDiscardRequired
    heap,             \* _mHeap
    toReload,         \* _mUpstreamMsgItersToReload
    validator,        \* _mClkCorrValidator
    exc,              \* _mExcToThrowType: "None" or "Error"
    pc,               \* "idle", or where in the current call
    array,            \* the messages which the current call will return
    toSeek,           \* upstream iterators which the current seek did not reach yet
    state,            \* the muxer's own iterator: "ACTIVE", "ENDED" or "SEEK_FAILED"
    out,              \* history: what was returned since the last seek
    seen              \* history: the clock classes accepted so far

upVars == <<pos, up_state>>
wrapVars == <<msgs, msgTs, discardRequired>>
callVars == <<array, toSeek, state, out>>
vars == <<env, upVars, wrapVars, heap, toReload, validator, exc, pc, callVars, seen>>

Init ==
    /\ env \in Scenarios
    /\ pos = [u \in Upstreams |-> 1]
    /\ up_state = [u \in Upstreams |-> "ACTIVE"]
    /\ msgs = [u \in Upstreams |-> <<>>]
    /\ msgTs = [u \in Upstreams |-> NoTs]
    /\ discardRequired = [u \in Upstreams |-> FALSE]
    /\ heap = <<>>
    /\ toReload = env.order
    /\ validator = Unset
    /\ exc = "None"
    /\ pc = "idle"
    /\ array = <<>> /\ toSeek = <<>> /\ state = "ACTIVE" /\ out = <<>>
    /\ seen = {}

-----------------------------------------------------------------------------
(* The wrappers of the upstream iterators.                                 *)

\* Is the current message of wrapper a older than the one of b?
HeapComparator_NoTieBreak(current, ts, a, b) ==
    \/ ts[a] # NoTs /\ ts[b] # NoTs /\ ts[a] < ts[b]
    \/ ts[a] = NoTs /\ ts[b] # NoTs

HeapComparator(current, ts, a, b) ==
    CASE ts[a] # NoTs /\ ts[b] # NoTs /\ ts[a] # ts[b] -> ts[a] < ts[b]
      [] ts[a] # NoTs /\ ts[b] = NoTs -> FALSE
      [] ts[a] = NoTs /\ ts[b] # NoTs -> TRUE
      [] OTHER -> compare(Head(current[a]), Head(current[b])) < 0

\* For the heap operations before and after a wrapper gets a new message.
Gt == [a \in Upstreams |-> [b \in Upstreams |-> HeapComparator(msgs, msgTs, a, b)]]
GtNext == [a \in Upstreams |-> [b \in Upstreams |-> HeapComparator(msgs', msgTs', a, b)]]

\* _tryGetNewMsgs() gets a batch.
TryGetNewMsgs(u) ==
    /\ up_state[u] = "ACTIVE"
    /\ \E n \in 1 .. UpstreamBatch :
          /\ pos[u] + n - 1 <= Len(env.content[u])
          /\ msgs' = [msgs EXCEPT ![u] = SubSeq(env.content[u], pos[u], pos[u] + n - 1)]
          /\ pos' = [pos EXCEPT ![u] = @ + n]
    /\ UNCHANGED up_state

\* reload() returns More.
ReloadMore(u) ==
    /\ IF msgs[u] = <<>> THEN TryGetNewMsgs(u) ELSE UNCHANGED <<msgs, upVars>>
    /\ msgTs' = [msgTs EXCEPT ![u] = Head(msgs'[u]).ts]
    /\ discardRequired' = [discardRequired EXCEPT ![u] = TRUE]

\* reload() returns NoMore.
ReloadNoMore(u) ==
    /\ msgs[u] = <<>>
    /\ up_state[u] = "ACTIVE"
    /\ pos[u] > Len(env.content[u])
    /\ up_state' = [up_state EXCEPT ![u] = "ENDED"]
    /\ msgTs' = [msgTs EXCEPT ![u] = NoTs]
    /\ UNCHANGED <<pos, msgs, discardRequired>>

\* The call to the upstream iterator throws.
ReloadThrows(u) ==
    /\ msgs[u] = <<>>
    /\ up_state[u] = "ACTIVE"
    /\ UNCHANGED <<upVars, wrapVars>>

\* The upstream iterator could seek its beginning.
SeekBeginning(u) ==
    /\ pos' = [pos EXCEPT ![u] = 1]
    /\ up_state' = [up_state EXCEPT ![u] = "ACTIVE"]
    /\ msgs' = [msgs EXCEPT ![u] = <<>>]
    /\ msgTs' = [msgTs EXCEPT ![u] = NoTs]
    /\ discardRequired' = [discardRequired EXCEPT ![u] = FALSE]

\* Only the messages which introduce a clock class are validated.
HasClockToValidate(m) == m.type \in {"SB", "IN"}

-----------------------------------------------------------------------------
(* Getting messages.                                                       *)

\* Downstream may only call this on an active iterator.  A delayed error is
\* thrown now, and again by every later call: a stuttering step.
CallNext ==
    /\ pc = "idle"
    /\ state = "ACTIVE"
    /\ exc = "None"
    /\ pc' = "ensure"
    /\ UNCHANGED <<env, upVars, wrapVars, heap, toReload, validator, exc, callVars, seen>>

\* The call ends with messages to return.
ReturnArray ==
    /\ out' = out \o array
    /\ array' = <<>>
    /\ pc' = "idle"
    /\ UNCHANGED <<toSeek, state>>

EnsureMore ==
    /\ pc = "ensure"
    /\ toReload # <<>>
    /\ ReloadMore(Head(toReload))
    /\ heap' = insert(heap, Head(toReload), GtNext)
    /\ toReload' = Tail(toReload)
    /\ UNCHANGED <<env, validator, exc, pc, callVars, seen>>

EnsureNoMore ==
    /\ pc = "ensure"
    /\ toReload # <<>>
    /\ ReloadNoMore(Head(toReload))
    /\ toReload' = Tail(toReload)
    /\ UNCHANGED <<env, heap, validator, exc, pc, callVars, seen>>

\* There is no message to return yet: the exception goes through.
EnsureThrows ==
    /\ pc = "ensure"
    /\ toReload # <<>>
    /\ ReloadThrows(Head(toReload))
    /\ pc' = "idle"
    /\ UNCHANGED <<env, heap, toReload, validator, exc, callVars, seen>>

EnsureDone ==
    /\ pc = "ensure"
    /\ toReload = <<>>
    /\ pc' = "loop"
    /\ UNCHANGED <<env, upVars, wrapVars, heap, toReload, validator, exc, callVars, seen>>

\* Append the oldest message to the array and discard it from its wrapper.
AppendOldest ==
    LET top == heap[1]  m == Head(msgs[top]) IN
    /\ msgs[top] # <<>>
    /\ HasClockToValidate(m) => Accepts(validator, m.clk)
    /\ validator' = IF HasClockToValidate(m) THEN validate(validator, m.clk) ELSE validator
    /\ seen' = IF HasClockToValidate(m) THEN seen \cup {m.clk} ELSE seen
    /\ array' = Append(array, m)
    /\ msgs' = [msgs EXCEPT ![top] = Tail(@)]
    /\ discardRequired' = [discardRequired EXCEPT ![top] = FALSE]
    /\ pc' = "reload"
    /\ UNCHANGED <<env, upVars, msgTs, heap, toReload, exc, toSeek, state, out>>

NextAppends ==
    /\ pc = "loop"
    /\ heap # <<>>
    /\ Len(array) < Capacity
    /\ AppendOldest

\* The clock class of the oldest message is not the expected one.
NextRejects ==
    LET m == Head(msgs[heap[1]]) IN
    /\ pc = "loop"
    /\ heap # <<>>
    /\ Len(array) < Capacity
    /\ msgs[heap[1]] # <<>>
    /\ HasClockToValidate(m) /\ ~Accepts(validator, m.clk)
    /\ ReturnArray
    /\ exc' = IF array = <<>> THEN exc ELSE "Error"
    /\ UNCHANGED <<env, upVars, wrapVars, heap, toReload, validator, seen>>

NextReloadsMore ==
    /\ pc = "reload"
    /\ ReloadMore(heap[1])
    /\ heap' = replaceTop(heap, heap[1], GtNext)
    /\ pc' = "loop"
    /\ UNCHANGED <<env, toReload, validator, exc, callVars, seen>>

NextReloadsNoMore ==
    /\ pc = "reload"
    /\ ReloadNoMore(heap[1])
    /\ heap' = removeTop(heap, Gt)
    /\ pc' = "loop"
    /\ UNCHANGED <<env, toReload, validator, exc, callVars, seen>>

\* bt2::TryAgain is thrown after a first message was appended.
NextReloadsAgain_Continues ==
    /\ pc = "reload"
    /\ ReloadThrows(heap[1])
    /\ heap' = removeTop(heap, Gt)
    /\ toReload' = Append(toReload, heap[1])
    /\ pc' = "loop"
    /\ UNCHANGED <<env, validator, exc, callVars, seen>>

NextReloadsAgain ==
    /\ pc = "reload"
    /\ ReloadThrows(heap[1])
    /\ heap' = removeTop(heap, Gt)
    /\ toReload' = Append(toReload, heap[1])
    /\ ReturnArray
    /\ UNCHANGED <<env, validator, exc, seen>>

\* An error is thrown instead: the wrapper stays at the top of the heap.
NextReloadFails_NotSaved ==
    /\ pc = "reload"
    /\ env.fails
    /\ ReloadThrows(heap[1])
    /\ ReturnArray
    /\ UNCHANGED <<env, heap, toReload, validator, exc, seen>>

NextReloadFails ==
    /\ pc = "reload"
    /\ env.fails
    /\ ReloadThrows(heap[1])
    /\ ReturnArray
    /\ exc' = "Error"
    /\ UNCHANGED <<env, heap, toReload, validator, seen>>

\* _next() returns; without any message, this is the end.
NextReturns ==
    /\ pc = "loop"
    /\ heap = <<>> \/ Len(array) = Capacity
    /\ out' = out \o array
    /\ array' = <<>>
    /\ state' = IF array = <<>> THEN "ENDED" ELSE state
    /\ pc' = "idle"
    /\ UNCHANGED <<env, upVars, wrapVars, heap, toReload, validator, exc, toSeek, seen>>

-----------------------------------------------------------------------------
(* Seeking the beginning.                                                  *)

\* Asking whether the muxer can seek forgets the delayed error; without one, it
\* is a stuttering step.
CanSeekBeginning ==
    /\ pc = "idle"
    /\ env.asks
    /\ exc' = "None"
    /\ UNCHANGED <<env, upVars, wrapVars, heap, toReload, validator, pc, callVars, seen>>

StartSeek ==
    /\ pc = "idle"
    /\ env.canSeek
    /\ exc' = "None"
    /\ heap' = <<>>
    /\ toReload' = <<>>
    /\ toSeek' = env.order
    /\ out' = <<>>
    /\ pc' = "seek"
    /\ UNCHANGED <<env, upVars, wrapVars, validator, array, state, seen>>

SeekOne ==
    /\ pc = "seek"
    /\ toSeek # <<>>
    /\ SeekBeginning(Head(toSeek))
    /\ toSeek' = Tail(toSeek)
    /\ UNCHANGED <<env, heap, toReload, validator, exc, pc, array, state, out, seen>>

\* One upstream iterator throws: downstream must seek again.
SeekThrows ==
    /\ pc = "seek"
    /\ toSeek # <<>>
    /\ up_state' = [up_state EXCEPT ![Head(toSeek)] = "SEEK_FAILED"]
    /\ toSeek' = <<>>
    /\ state' = "SEEK_FAILED"
    /\ pc' = "idle"
    /\ UNCHANGED <<env, pos, wrapVars, heap, toReload, validator, exc, array, out, seen>>

SeekReturns ==
    /\ pc = "seek"
    /\ toSeek = <<>>
    /\ toReload' = toReload \o env.order
    /\ state' = "ACTIVE"
    /\ pc' = "idle"
    /\ UNCHANGED <<env, upVars, wrapVars, heap, validator, exc, array, toSeek, out, seen>>

Next ==
    \/ CallNext \/ EnsureMore \/ EnsureNoMore \/ EnsureThrows \/ EnsureDone
    \/ NextAppends \/ NextRejects \/ NextReloadsMore \/ NextReloadsNoMore
    \/ NextReloadsAgain \/ NextReloadFails \/ NextReturns
    \/ CanSeekBeginning \/ StartSeek \/ SeekOne \/ SeekThrows \/ SeekReturns

Spec == Init /\ [][Next]_vars

-----------------------------------------------------------------------------
(* Properties.                                                             *)

UpstreamStates == {"ACTIVE", "ENDED", "SEEK_FAILED"}

\* Every variable has its type; in particular no call returns more messages
\* than its capacity (the while condition of _next()).
TypeOK ==
    /\ env \in Scenarios
    /\ pos \in [Upstreams -> Nat \ {0}]
    /\ up_state \in [Upstreams -> UpstreamStates]
    /\ msgs \in [Upstreams -> Seq(Messages)]
    /\ msgTs \in [Upstreams -> Int \cup {NoTs}]
    /\ discardRequired \in [Upstreams -> BOOLEAN]
    /\ heap \in Seq(Upstreams) /\ toReload \in Seq(Upstreams) /\ toSeek \in Seq(Upstreams)
    /\ exc \in {"None", "Error"}
    /\ pc \in {"idle", "ensure", "loop", "reload", "seek"}
    /\ array \in Seq(Messages) /\ Len(array) <= Capacity
    /\ state \in UpstreamStates
    /\ out \in Seq(Messages)

\* The state is well typed and no assertion fails: the wrappers in the heap have a
\* message when msg() is called, the heap is a heap (PrioHeap::_validate()), and
\* reload() is called on a wrapper whose message was discarded and, if it needs a
\* batch, whose upstream iterator is active.  One exception is exact: when
\* downstream asks whether the muxer can seek, canSeekBeginning() resets the
\* delayed error which alone kept the next call from using the wrapper at the top,
\* and msg() asserts there.
NoAssertionFails ==
    LET CanReload(u) == ~discardRequired[u] /\ (msgs[u] = <<>> => up_state[u] = "ACTIVE")
        WithoutMessage == {k \in DOMAIN heap : msgs[heap[k]] = <<>>} IN
    /\ TypeOK
    /\ pc \in {"ensure", "loop"} =>
          IF WithoutMessage = {} THEN IsHeap(heap, Gt)
          ELSE env.asks /\ WithoutMessage = {1} /\ toReload = <<>>
    /\ pc = "ensure" /\ toReload # <<>> => CanReload(Head(toReload))
    /\ pc = "reload" => CanReload(heap[1])

\* The clock correlation validator accepts the next message exactly when its
\* clock class is correlated with every one accepted so far, although it only
\* remembers the first one.
ValidatorIsExact ==
    \A u \in Upstreams :
        msgs[u] # <<>> /\ HasClockToValidate(Head(msgs[u])) =>
            (Accepts(validator, Head(msgs[u]).clk)
             <=> \A c \in seen : Correlated(c, Head(msgs[u]).clk))

Merged == out \o array

TakenFrom(q, u) == Cardinality({i \in DOMAIN q : q[i].up = u})

\* The order of the messages in a merge: by timestamp (none first), then as the
\* message comparator says.
Before(m, n) ==
    \/ ~NotAfter(n, m)
    \/ NotAfter(m, n) /\ compare(m, n) < 0

\* What remains of the contents c after q was merged.
Left(c, q) == {u \in Upstreams : TakenFrom(q, u) < Len(c[u])}
Rest(c, q, u) == c[u][TakenFrom(q, u) + 1]

MergeStep(c, q) ==
    LET u == CHOOSE u \in Left(c, q) :
                \A v \in Left(c, q) \ {u} : Before(Rest(c, q, u), Rest(c, q, v))
    IN Append(q, Rest(c, q, u))

\* The one order in which all the messages can be merged when no two of them
\* compare equal: repeatedly, the first remaining message which comes before all
\* the others.
ReferenceMerge(c) ==
    LET after[n \in Nat] == IF n = 0 THEN <<>> ELSE MergeStep(c, after[n - 1])
    IN after

\* No two messages of different upstream iterators compare equal.
NoTies ==
    \A c \in Contents : \A u, v \in Upstreams :
        u # v => \A i \in DOMAIN c[u], j \in DOMAIN c[v] :
                     Before(c[u][i], c[v][j]) \/ Before(c[v][j], c[u][i])

\* The merge does not depend on how upstream messages are split into batches, on
\* when upstream iterators are not ready, or on the shape of the heap.
MergeIsDeterministic == Merged = ReferenceMerge(env.content)[Len(Merged)]

\* The muxer implements Merger: what it returns is a merge of the upstream
\* messages in the order of their timestamps, nothing is lost or repeated, and
\* it only ends once every message was returned; a seek starts over.
M == INSTANCE Merger WITH
        content <- env.content,
        taken <- [u \in Upstreams |-> TakenFrom(Merged, u)],
        out <- Merged,
        ended <- state = "ENDED" /\ pc # "seek"

MergerSpec == M!Spec
=============================================================================
