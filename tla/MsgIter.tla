------------------------------- MODULE MsgIter -------------------------------
(***************************************************************************)
(* One message iterator of the library (src/lib/graph/iterator.c): getting *)
(* messages, seeking the beginning and seeking a time, including the       *)
(* library's own "auto-seek": seek the beginning, fast-forward to the      *)
(* requested time while recording which streams and packets are open, then *)
(* return synthesized beginning messages and the saved messages through a  *)
(* temporary "next" method.                                                *)
(*                                                                         *)
(* The user's methods are external: a conforming iterator over the legal   *)
(* message sequence `content', which an initial phase produces one message *)
(* at a time.  "next" returns its messages in batches of any size, and any *)
(* method may fail or ask to try again.                                    *)
(*                                                                         *)
(* Downstream calls one function at a time; a seek with fast-forward takes *)
(* several steps (one per message) so that every batch split, every        *)
(* failure point and every hash table order is explored.  A "next" call    *)
(* which returns no message and changes nothing (AGAIN or an error) is a   *)
(* stuttering step.                                                        *)
(***************************************************************************)
EXTENDS MessageSequence, SequencesExt

CONSTANTS
    BatchSize,      \* MSG_BATCH_SIZE
    Scenarios       \* the environments to consider, see ScenarioType

\* A stream class: its capabilities and which of its messages have clock snapshots.
IterClasses ==
    [packets : BOOLEAN, discEvents : BOOLEAN, discPackets : BOOLEAN,
     packetCs : BOOLEAN, discCs : BOOLEAN, streamCs : SUBSET BOOLEAN]

\* An environment.  ClassOf: the classes of the streams it uses; MaxContent: a
\* bound on the messages of the upstream sequence; MaxTime: the bound of the
\* clock snapshots and seek times; CanSeekByItself: what the
\* user's can_seek_ns_from_origin() method may answer; SafeStraddle: an upstream
\* promise on discarded items, see StraddleIsSafe; Inactivity: does the sequence
\* have inactivity messages?  MayFail: may the user's methods and the conversions
\* of times fail?
ScenarioType ==
    [ClassOf : UNION {[S -> IterClasses] : S \in SUBSET Streams}, MaxContent : Nat, MaxTime : Nat,
     CanSeekByItself : SUBSET BOOLEAN, SafeStraddle : BOOLEAN, Inactivity : BOOLEAN,
     MayFail : BOOLEAN]

ASSUME IterAssumption ==
    /\ BatchSize \in Nat \ {0}
    /\ Scenarios \subseteq ScenarioType

INT64_MIN == -1
FromBeginning == -1

VARIABLES
    env,              \* the scenario
    content,          \* the user's whole message sequence
    upstream,         \* what the user's "next" method returns from now on
    state,            \* iterator->state
    next,             \* iterator->methods.next: "user" or "post_auto_seek_next"
    original_next,    \* iterator->auto_seek.original_next_callback: "user" or "NULL"
    msgs,             \* iterator->auto_seek.msgs
    per_stream_state, \* developer mode: iterator->per_stream_state
    last_ns,          \* developer mode: iterator->last_ns_from_origin
    pc,               \* "produce", "idle", "fast_forward" or "prepend"
    ns,               \* the ns_from_origin argument of the call in progress
    stream_states,    \* the fast-forward's stream_states hash table
    got_first, batch, \* find_message_ge_ns_from_origin(): messages of the batch so far
    aborted,          \* "no", or the assertion which failed
    origin,           \* history: what the last successful seek asked for
    stale,            \* history: the messages of an earlier seek which it left pending
    delivered         \* history: what "next" returned since that seek

seekVars == <<ns, stream_states, got_first, batch>>
devVars == <<per_stream_state, last_ns>>
histVars == <<origin, stale, delivered>>
vars == <<env, content, upstream, state, next, original_next, msgs, devVars, pc, seekVars,
          aborted, histVars>>

ClassOf == env.ClassOf
Times == 0 .. env.MaxTime

Message(type, s, packet, begin, end) ==
    [type |-> type, stream |-> s, packet |-> packet, begin |-> begin, end |-> end]

HasCs(m) == m.begin # NoCs
IsDiscarded(m) == m.type \in {"DE", "DP"}

\* The messages of stream s (or, for NoStream, the inactivity messages).
Of(seq, s) == LET Is(m) == m.stream = s IN SelectSeq(seq, Is)

-----------------------------------------------------------------------------
(* The upstream sequence: every message which the protocol allows next.    *)

\* Where a stream is after the messages of seq.
PhaseAfter(seq) ==
    LET Step(phase, m) == MipNext(phase, m.type) IN FoldLeft(Step, "none", seq)

\* The packet it is in.
PacketAfter(seq) ==
    LET Step(packet, m) == CASE m.type = "PB" -> m.packet
                             [] m.type = "PE" -> NoPacket
                             [] OTHER -> packet
    IN FoldLeft(Step, NoPacket, seq)

\* The latest (beginning) clock snapshot of seq, and the latest end of its
\* discarded items messages.
Now(seq) == Max({0} \cup {seq[i].begin : i \in DOMAIN seq})
LatestEnd(seq, types) ==
    Max({0} \cup {seq[i].end : i \in {j \in DOMAIN seq : seq[j].type \in types}})

\* Whether a message of this type has clock snapshots: packet and discarded
\* items messages as their stream class says; those of stream messages are
\* optional; an iterator which can seek forward has them on all its events.
MayHaveCs(s, type) ==
    CASE type = "PB" -> {ClassOf[s].packetCs}
      [] type = "PE" -> {ClassOf[s].packetCs}
      [] type \in {"DE", "DP"} -> {ClassOf[s].discCs}
      [] type \in {"SB", "SE"} -> ClassOf[s].streamCs
      [] type \in {"EV", "IN"} -> {TRUE}

\* SafeStraddle: upstream does not end a stream (or, for discarded packets, begin
\* a packet) before the end time of the discarded items it announced.
StraddleIsSafe(seq, m) ==
    LET now == IF HasCs(m) THEN m.begin ELSE Now(seq) IN
    /\ m.type = "SE" => LatestEnd(Of(seq, m.stream), {"DE", "DP"}) <= now
    /\ m.type = "PB" => LatestEnd(Of(seq, m.stream), {"DP"}) <= now

Producible(seq, m) ==
    /\ IF m.stream = NoStream
       THEN env.Inactivity /\ m.type = "IN" /\ m.packet = NoPacket
       ELSE LET own == Of(seq, m.stream) IN
            /\ m.stream \in DOMAIN ClassOf
            /\ m.type \in CreatableTypes(ClassOf[m.stream])
            /\ m.packet \in CreatablePackets(ClassOf[m.stream], m.type)
            /\ MipAllows(ClassOf[m.stream], PhaseAfter(own), m.type)
            /\ m.type \in {"PE", "EV"} => m.packet = PacketAfter(own)
    /\ IF m.stream = NoStream THEN HasCs(m) ELSE HasCs(m) \in MayHaveCs(m.stream, m.type)
    /\ HasCs(m) => m.begin >= Now(seq)
    /\ IF IsDiscarded(m) /\ HasCs(m) THEN m.end >= m.begin ELSE m.end = m.begin
    /\ env.SafeStraddle => StraddleIsSafe(seq, m)

\* To keep the sequences short, a stream must still be able to end in time.
RoomToEnd(seq) ==
    Len(seq) + Cardinality({s \in Streams : PhaseAfter(Of(seq, s)) = "stream"})
             + 2 * Cardinality({s \in Streams : PhaseAfter(Of(seq, s)) = "packet"}) <= env.MaxContent

Produce(m) ==
    /\ pc = "produce"
    /\ Producible(content, m)
    /\ RoomToEnd(Append(content, m))
    /\ content' = Append(content, m)
    /\ UNCHANGED <<env, upstream, state, next, original_next, msgs, devVars, pc, seekVars,
                   aborted, histVars>>

ProduceEnd ==
    /\ pc = "produce"
    /\ \A s \in Streams : PhaseAfter(Of(content, s)) \in {"none", "ended"}
    /\ pc' = "idle"
    /\ upstream' = content
    /\ UNCHANGED <<env, content, state, next, original_next, msgs, devVars, seekVars,
                   aborted, histVars>>

-----------------------------------------------------------------------------
(* What a seek to time t means, independently of how it is done: the       *)
(* messages from the first one at or after t, after the messages which put *)
(* every stream in the state it has at that point.                         *)

\* The number of messages before the seek point.
CountBefore(t) ==
    LET at == {i \in DOMAIN content : HasCs(content[i]) /\ content[i].begin >= t}
    IN IF at = {} THEN Len(content) ELSE Min(at) - 1

Straddles(m, t) == IsDiscarded(m) /\ HasCs(m) /\ m.begin < t /\ m.end >= t

Clip(m, t) == [m EXCEPT !.begin = t]

\* The beginning messages of a stream whose messages so far are own.
Preamble(s, own, t) ==
    LET Skipped(m) == ~Straddles(m, t)
        skipped == SelectSeq(own, Skipped)
        seen == \E i \in DOMAIN skipped : HasCs(skipped[i])
        sb == Message("SB", s, NoPacket, IF seen THEN t ELSE NoCs, IF seen THEN t ELSE NoCs)
        cs == IF ClassOf[s].packetCs THEN t ELSE NoCs
    IN CASE PhaseAfter(own) = "stream" -> <<sb>>
         [] PhaseAfter(own) = "packet" ->
               <<sb, Message("PB", s, PacketAfter(own), cs, cs)>>
         [] OTHER -> <<>>

\* The messages of stream s after a seek to t.
Expected(s, t) ==
    IF t = FromBeginning THEN Of(content, s)
    ELSE LET k == CountBefore(t)
             before == Of(SubSeq(content, 1, k), s)
             Cut(m) == Straddles(m, t)
             straddling == SelectSeq(before, Cut)
         IN (IF s = NoStream THEN <<>> ELSE Preamble(s, before, t))
              \o [i \in DOMAIN straddling |-> Clip(straddling[i], t)]
              \o Of(SubSeq(content, k + 1, Len(content)), s)

-----------------------------------------------------------------------------
(* Developer-mode validation of the returned messages, in the order of     *)
(* call_iterator_next_method().  A validator state `dev' is what it knows  *)
(* and the first assertion which failed, if any.                           *)

dev == [states |-> per_stream_state, last |-> last_ns, verdict |-> "no"]

clock_snapshots_are_monotonic_one(last, m) == HasCs(m) => m.begin >= last

DevVerdict(d, m) ==
    IF d.verdict # "no" THEN d.verdict
    ELSE IF ~clock_snapshots_are_monotonic_one(d.last, m)
         THEN "message-clock-snapshots-are-monotonic"
    ELSE IF m.stream = NoStream THEN "no"
    ELSE LET st == d.states[m.stream] IN
         IF ~assert_post_dev_expected_sequence(st, m.type) THEN "message-type-is-expected"
         ELSE IF ~CurPacketAsserts(st, m.type) THEN "BT_ASSERT"
         ELSE IF ~assert_post_dev_expected_packet(st, m.type, m.packet)
              THEN "message-packet-is-expected"
              ELSE "no"

DevStep(d, m) ==
    [verdict |-> DevVerdict(d, m),
     last    |-> IF HasCs(m) THEN m.begin ELSE d.last,
     states  |-> IF m.stream = NoStream THEN d.states
                 ELSE [d.states EXCEPT ![m.stream] =
                         ValidatorStep(ClassOf[m.stream], @, m.type, m.packet)]]

\* assert_post_dev_next() and the clock snapshot check on a returned batch.
call_iterator_next_method(returned) ==
    LET d == FoldLeft(DevStep, dev, returned) IN
    /\ aborted' = d.verdict
    /\ per_stream_state' = d.states
    /\ last_ns' = d.last

clear_per_stream_state == [s \in Streams |-> FreshState]

-----------------------------------------------------------------------------

Init ==
    /\ env \in Scenarios
    /\ content = <<>> /\ upstream = <<>>
    /\ state = "ACTIVE"
    /\ next = "user" /\ original_next = "NULL" /\ msgs = <<>>
    /\ per_stream_state = clear_per_stream_state /\ last_ns = INT64_MIN
    /\ pc = "produce"
    /\ ns = 0 /\ stream_states = <<>> /\ got_first = FALSE /\ batch = 0
    /\ aborted = "no"
    /\ origin = FromBeginning /\ stale = <<>> /\ delivered = <<>>

Idle == pc = "idle" /\ aborted = "no"

\* bt_message_iterator_next() with the user's method: the user may split its
\* messages into any batches, so batches of one message show every split.
NextFromUser ==
    /\ Idle /\ state = "ACTIVE" /\ next = "user"
    /\ upstream # <<>>
    /\ upstream' = Tail(upstream)
    /\ delivered' = Append(delivered, Head(upstream))
    /\ call_iterator_next_method(<<Head(upstream)>>)
    /\ UNCHANGED <<env, content, state, next, original_next, msgs, pc, seekVars, origin, stale>>

\* The same when the user's method returns END.
NextEnds ==
    /\ Idle /\ state = "ACTIVE" /\ next = "user"
    /\ upstream = <<>>
    /\ aborted' = IF \A s \in Streams : StreamIsEnded(per_stream_state[s])
                  THEN "no" ELSE "stream-is-ended"
    /\ state' = "ENDED"
    /\ UNCHANGED <<env, content, upstream, next, original_next, msgs, devVars, pc, seekVars, histVars>>

\* The saved messages which fit in the caller's array.
ReturnSaved ==
    /\ Idle /\ state = "ACTIVE" /\ next = "post_auto_seek_next"
    /\ msgs # <<>>
    /\ LET count == Min({BatchSize, Len(msgs)}) IN
       /\ delivered' = delivered \o SubSeq(msgs, 1, count)
       /\ msgs' = SubSeq(msgs, count + 1, Len(msgs))
       /\ call_iterator_next_method(SubSeq(msgs, 1, count))
    /\ UNCHANGED <<env, content, upstream, state, pc, seekVars, origin, stale>>

\* bt_message_iterator_next() with post_auto_seek_next().
post_auto_seek_next ==
    /\ ReturnSaved
    /\ IF msgs' = <<>>
       THEN next' = original_next /\ original_next' = "NULL"
       ELSE UNCHANGED <<next, original_next>>

-----------------------------------------------------------------------------
(* Seeking.                                                                *)

CanSeek ==
    /\ Idle
    /\ state \in {"ACTIVE", "ENDED", "LAST_SEEKING_RETURNED_AGAIN", "LAST_SEEKING_RETURNED_ERROR"}

Failures == {"AGAIN", "ERROR"}

StateAfterSeeking(status) ==
    CASE status = "OK" -> "ACTIVE"
      [] status = "AGAIN" -> "LAST_SEEKING_RETURNED_AGAIN"
      [] status = "ERROR" -> "LAST_SEEKING_RETURNED_ERROR"

\* A seek function returns an error or "try again".
SeekFailsWith(status) ==
    /\ env.MayFail
    /\ state' = StateAfterSeeking(status)
    /\ pc' = "idle"
    /\ origin' = FromBeginning /\ stale' = <<>> /\ delivered' = <<>>

SeekFails == \E status \in Failures : SeekFailsWith(status)

\* It succeeds: nothing removes the temporary "next" method of an earlier
\* auto-seek, nor (but for another auto-seek) the messages it has yet to return.
SeekSucceeds(t) ==
    /\ state' = StateAfterSeeking("OK")
    /\ pc' = "idle"
    /\ origin' = t /\ delivered' = <<>>
    /\ stale' = IF next = "user" THEN <<>> ELSE msgs

\* The local variables of the call are gone once it returns.
ForgetLocals == ns' = 0 /\ stream_states' = <<>> /\ got_first' = FALSE /\ batch' = 0

\* bt_message_iterator_seek_beginning().
bt_message_iterator_seek_beginning ==
    /\ CanSeek
    /\ last_ns' = INT64_MIN
    /\ per_stream_state' = clear_per_stream_state
    /\ \/ SeekSucceeds(FromBeginning) /\ upstream' = content
       \/ SeekFails /\ UNCHANGED upstream
    /\ UNCHANGED <<env, content, next, original_next, msgs, seekVars, aborted>>

\* What a user's own "seek ns from origin" method makes "next" return.
SoughtSequence(t, order) ==
    LET before == SubSeq(content, 1, CountBefore(t))
        Cut(m) == Straddles(m, t)
        straddling == SelectSeq(before, Cut)
    IN FlattenSeq([i \in DOMAIN order |-> Preamble(order[i], Of(before, order[i]), t)])
         \o [i \in DOMAIN straddling |-> Clip(straddling[i], t)]
         \o SubSeq(content, CountBefore(t) + 1, Len(content))

\* bt_message_iterator_seek_ns_from_origin() when the iterator seeks by itself:
\* its can_seek_ns_from_origin() method fails, or its seek method is called.  The
\* expectations are reset even when that one fails.
SeekNsByItself(t) ==
    /\ CanSeek /\ TRUE \in env.CanSeekByItself
    /\ \/ /\ per_stream_state' = clear_per_stream_state /\ last_ns' = t
          /\ \/ /\ SeekSucceeds(t)
                /\ \E order \in SetToSeqs(DOMAIN ClassOf) : upstream' = SoughtSequence(t, order)
             \/ SeekFails /\ UNCHANGED upstream
       \/ SeekFails /\ last_ns' = INT64_MIN /\ UNCHANGED <<upstream, per_stream_state>>
    /\ UNCHANGED <<env, content, next, original_next, msgs, seekVars, aborted>>

\* The same when it does not: auto-seek, up to the fast-forward loop.
StartAutoSeek(t) ==
    /\ CanSeek /\ FALSE \in env.CanSeekByItself
    /\ last_ns' = INT64_MIN
    /\ per_stream_state' = clear_per_stream_state
    /\ \/ /\ upstream' = content
          /\ msgs' = <<>>
          /\ state' = "SEEKING" /\ pc' = "fast_forward"
          /\ ns' = t /\ stream_states' = <<>> /\ got_first' = FALSE /\ batch' = 0
          /\ UNCHANGED histVars
       \/ SeekFails /\ UNCHANGED <<upstream, msgs, seekVars>>
    /\ UNCHANGED <<env, content, next, original_next, aborted>>

\* The fast-forward's view of a stream after a message it does not keep.  The
\* lookups of the code rely on the stream being known.
SkipMessage(states, m) ==
    LET s == m.stream
        cs == HasCs(m)
        Update(st) == (s :> st) @@ states
    IN CASE m.type = "SB" -> Update([packet |-> NoPacket, seen |-> cs])
         [] m.type = "PB" -> Update([packet |-> m.packet, seen |-> states[s].seen \/ cs])
         [] m.type = "PE" -> Update([packet |-> NoPacket, seen |-> states[s].seen \/ cs])
         [] m.type \in {"EV", "DE", "DP"} ->
               Update([states[s] EXCEPT !.seen = @ \/ cs])
         [] m.type = "SE" -> [x \in DOMAIN states \ {s} |-> states[x]]
         [] m.type = "IN" -> states

\* Plausible slip: the first message is one strictly after the requested time.
auto_seek_handle_message_After(m) ==
    IF HasCs(m) /\ m.begin > ns
    THEN got_first' = TRUE /\ msgs' = Append(msgs, m) /\ UNCHANGED stream_states
    ELSE IF Straddles(m, ns)
    THEN msgs' = Append(msgs, Clip(m, ns)) /\ UNCHANGED <<got_first, stream_states>>
    ELSE stream_states' = SkipMessage(stream_states, m) /\ UNCHANGED <<got_first, msgs>>

\* auto_seek_handle_message() on a message before the first kept one.
auto_seek_handle_message(m) ==
    IF HasCs(m) /\ m.begin >= ns
    THEN got_first' = TRUE /\ msgs' = Append(msgs, m) /\ UNCHANGED stream_states
    ELSE IF Straddles(m, ns)
    THEN msgs' = Append(msgs, Clip(m, ns)) /\ UNCHANGED <<got_first, stream_states>>
    ELSE stream_states' = SkipMessage(stream_states, m) /\ UNCHANGED <<got_first, msgs>>

\* The next message of the batch which the user's method returned; `more' tells
\* whether the batch has another one.
HandleOne(more) ==
    /\ pc = "fast_forward" /\ aborted = "no" /\ next = "user"
    /\ upstream # <<>>
    /\ more => Len(upstream) > 1
    /\ LET m == Head(upstream) IN
       /\ upstream' = Tail(upstream)
       /\ call_iterator_next_method(<<m>>)
       /\ IF got_first
          THEN msgs' = Append(msgs, m) /\ UNCHANGED <<got_first, stream_states>>
          ELSE auto_seek_handle_message(m)
    /\ batch' = IF more THEN batch + 1 ELSE 0
    /\ pc' = IF got_first' /\ ~more THEN "prepend" ELSE pc
    /\ UNCHANGED <<env, content, state, next, original_next, ns, histVars>>

\* find_message_ge_ns_from_origin(): batches of at most MSG_BATCH_SIZE messages.
FastForward(more) ==
    /\ more => batch + 1 < BatchSize
    /\ HandleOne(more)

\* Plausible slip: END is taken for an empty batch.
FastForwardEnds_Retry ==
    /\ pc = "fast_forward" /\ aborted = "no" /\ next = "user"
    /\ upstream = <<>> /\ batch = 0
    /\ UNCHANGED vars

\* The user's method returns END before any message at or after the time.
FastForwardEnds ==
    /\ pc = "fast_forward" /\ aborted = "no" /\ next = "user"
    /\ upstream = <<>> /\ batch = 0
    /\ aborted' = IF \A s \in Streams : StreamIsEnded(per_stream_state[s])
                  THEN "no" ELSE "stream-is-ended"
    /\ pc' = "prepend"
    /\ UNCHANGED <<env, content, upstream, state, next, original_next, msgs, devVars, seekVars,
                   histVars>>

\* The user's method fails, or (within a batch) the conversion of a clock
\* snapshot to nanoseconds overflows.
FastForwardFails ==
    /\ pc = "fast_forward" /\ aborted = "no" /\ next = "user"
    /\ IF batch > 0 THEN SeekFailsWith("ERROR") ELSE SeekFails
    /\ ForgetLocals
    /\ UNCHANGED <<env, content, upstream, next, original_next, msgs, devVars, aborted>>

\* The fast-forward calls the method of an earlier auto-seek, whose messages
\* this seek has just dropped: post_auto_seek_next() asserts that there are some.
FastForwardCallsPost ==
    /\ pc = "fast_forward" /\ aborted = "no" /\ next = "post_auto_seek_next"
    /\ aborted' = "auto-seek-queue-not-empty"
    /\ UNCHANGED <<env, content, upstream, state, next, original_next, msgs, devVars, pc, seekVars,
                   histVars>>

\* The prepended beginning messages of a stream which exists at the seek time.
BeginningMessages(s) ==
    LET st == stream_states[s]
        csIf(cond) == IF cond THEN ns ELSE NoCs
        sb == Message("SB", s, NoPacket, csIf(st.seen), csIf(st.seen))
        pb == Message("PB", s, st.packet, csIf(ClassOf[s].packetCs), csIf(ClassOf[s].packetCs))
    IN IF st.packet = NoPacket THEN <<sb>> ELSE <<sb, pb>>

\* One stream of the hash table, in any order.
PrependStream(s) ==
    /\ pc = "prepend" /\ aborted = "no"
    /\ s \in DOMAIN stream_states
    /\ msgs' = BeginningMessages(s) \o msgs
    /\ stream_states' = [x \in DOMAIN stream_states \ {s} |-> stream_states[x]]
    /\ UNCHANGED <<env, content, upstream, state, next, original_next, devVars, pc, ns, got_first,
                   batch, aborted, histVars>>

\* The seek time is not a value of the stream's clock.
PrependFails ==
    /\ pc = "prepend" /\ aborted = "no"
    /\ \E s \in DOMAIN stream_states : stream_states[s].seen
    /\ SeekFailsWith("ERROR")
    /\ ForgetLocals
    /\ UNCHANGED <<env, content, upstream, next, original_next, msgs, devVars, aborted>>

\* The seek succeeded.
FinishAutoSeek ==
    /\ pc = "prepend" /\ aborted = "no"
    /\ stream_states = <<>>
    /\ per_stream_state' = clear_per_stream_state
    /\ SeekSucceeds(ns)
    /\ ForgetLocals
    /\ UNCHANGED <<env, content, upstream, msgs>>

\* The temporary "next" method replaces the user's one.
InstallPostNext ==
    /\ aborted' = IF original_next = "NULL" THEN "no" ELSE "no-original-next-callback"
    /\ original_next' = next
    /\ next' = "post_auto_seek_next"

\* Plausible slip: the last time of the fast-forward stays in place.
AutoSeekReturns_KeepsLastTime ==
    /\ FinishAutoSeek
    /\ UNCHANGED last_ns
    /\ IF msgs = <<>> THEN UNCHANGED <<next, original_next, aborted>> ELSE InstallPostNext

\* The end of the seek: install the temporary "next" method.
AutoSeekReturns ==
    /\ FinishAutoSeek
    /\ last_ns' = ns
    /\ IF msgs = <<>> THEN UNCHANGED <<next, original_next, aborted>> ELSE InstallPostNext

Messages ==
    [type : StreamTypes \cup {"IN"}, stream : Streams \cup {NoStream},
     packet : Packets \cup {NoPacket}, begin : Times \cup {NoCs}, end : Times \cup {NoCs}]

\* The library's own steps within a seek whose user methods do not fail.
SeekStep ==
    \/ \E more \in BOOLEAN : FastForward(more)
    \/ FastForwardEnds \/ FastForwardCallsPost
    \/ \E s \in Streams : PrependStream(s)
    \/ AutoSeekReturns

Next ==
    \/ \E m \in Messages : Produce(m)
    \/ ProduceEnd
    \/ NextFromUser \/ NextEnds \/ post_auto_seek_next
    \/ bt_message_iterator_seek_beginning
    \/ \E t \in Times : SeekNsByItself(t) \/ StartAutoSeek(t)
    \/ SeekStep \/ FastForwardFails \/ PrependFails

Spec == Init /\ [][Next]_vars

\* A call which downstream makes runs to its end; nothing has to fail for that.
FairSpec == Spec /\ WF_vars(SeekStep)

-----------------------------------------------------------------------------

TypeOK ==
    /\ content \in Seq(Messages) /\ upstream \in Seq(Messages)
    /\ msgs \in Seq(Messages) /\ delivered \in Seq(Messages) /\ stale \in Seq(Messages)
    /\ state \in {"ACTIVE", "ENDED", "SEEKING", "LAST_SEEKING_RETURNED_AGAIN",
                  "LAST_SEEKING_RETURNED_ERROR"}
    /\ next \in {"user", "post_auto_seek_next"}
    /\ original_next \in {"NULL", "user", "post_auto_seek_next"}
    /\ per_stream_state \in [Streams -> StreamStates]
    /\ last_ns \in Times \cup {INT64_MIN}
    /\ pc \in {"produce", "idle", "fast_forward", "prepend"}
    /\ ns \in Times /\ got_first \in BOOLEAN /\ batch \in 0 .. BatchSize - 1
    /\ DOMAIN stream_states \subseteq Streams
    /\ origin \in Times \cup {FromBeginning}

\* What the developer-mode checks of the returned messages may say.
DeveloperChecks ==
    {"message-clock-snapshots-are-monotonic", "message-type-is-expected", "stream-is-ended"}

(* The state is well typed, and over a conforming upstream iterator no     *)
(* assertion of iterator.c fails whatever the sequence of calls, but in    *)
(* three cases which its code lets happen: neither the internal ones on    *)
(* the auto-seek queue and callback (2136, 2431) nor the developer-mode    *)
(* checks of message order, packets and clock snapshots, which are applied *)
(* to the synthesized messages too.  The exceptions: an auto-seek while    *)
(* messages of an earlier one are pending drops them and calls their       *)
(* "next" method with an empty queue (2136); after another seek in that    *)
(* situation, the checks refuse the pending messages, or the order of      *)
(* messages which they cause, at the new position; and a straddling        *)
(* discarded items message is kept while what must precede it is skipped   *)
(* (1860).  The user's method is never put aside twice (2431).             *)
NoAssertionFails ==
    /\ TypeOK
    /\ \/ aborted = "no"
       \/ aborted = "auto-seek-queue-not-empty" /\ pc = "fast_forward" /\ next = "post_auto_seek_next"
       \/ aborted \in DeveloperChecks /\ stale # <<>>
       \/ aborted = "message-type-is-expected" /\ ~env.SafeStraddle

(* After a seek, what "next" returns is, for each stream, exactly the      *)
(* sequence which the requested time calls for: the beginning messages of  *)
(* what is open at that time, then everything from the first message at or *)
(* after it, nothing lost, repeated or reordered across the switch from    *)
(* the saved messages back to the user's method, and all of it before END. *)
(* When the seek found messages of an earlier auto-seek pending, those     *)
(* come first, all of them: no seek function but another auto-seek (which  *)
(* then fails an assertion) removes them.                                  *)
SeekDelivers ==
    pc # "produce" /\ state \in {"ACTIVE", "ENDED"} =>
        \A s \in Streams \cup {NoStream} :
            LET due == Of(stale, s) \o Expected(s, origin) IN
            /\ IsPrefix(Of(delivered, s), due)
            /\ state = "ENDED" => Of(delivered, s) = due

(* A seek returns: the fast-forward loop stops at END at the latest.       *)
SeekReturns == pc = "fast_forward" ~> pc = "idle" \/ aborted # "no"

=============================================================================
