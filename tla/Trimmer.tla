------------------------------- MODULE Trimmer -------------------------------
(***************************************************************************)
(* The message iterator of a flt.utils.trimmer component                   *)
(* (src/plugins/utils/trimmer/trimmer.c): it finds its time range, makes   *)
(* its upstream iterator seek the beginning of the range, passes on the    *)
(* messages of the range and, at the first message beyond its end, ends    *)
(* every packet and stream which is still open with messages of its own.   *)
(*                                                                         *)
(* Upstream is external: a conforming iterator which offers, one message   *)
(* at a time, every message which the protocol allows next.  Messages have *)
(* raw clock values, so that both conversions of ClockConversion are part  *)
(* of the behaviour.  The output queue is first in, first out: what the    *)
(* library will say of the messages is said when they are pushed, and only *)
(* the length of the queue is kept.                                        *)
(***************************************************************************)
EXTENDS MessageSequence, ClockConversion, FiniteSets

CONSTANTS
    BatchSize,      \* MSG_BATCH_SIZE, the capacity of the array to fill
    SecondsPerDay,
    Scenarios       \* the environments to consider, see ScenarioType

\* The stream class properties which the trimmer looks at.
TrimmerClasses ==
    [packets : BOOLEAN, discEvents : BOOLEAN, discPackets : BOOLEAN, hasClock : BOOLEAN,
     packetCs : BOOLEAN, discEventsCs : BOOLEAN, discPacketsCs : BOOLEAN, streamCs : SUBSET BOOLEAN]

\* A "begin" or "end" parameter: absent, a time (in seconds, or a date from 1970
\* on), a date before 1970, or a time of the day.
BoundParams == [kind : {"absent", "time", "early date", "time of day"}, ns : Nat]

\* An environment.  Streams used, with their classes and clocks; the clock of
\* inactivity messages; the parameters; the types upstream may return; bounds on
\* the messages and on the clock values of upstream; what the initial seek may
\* answer; whether upstream may answer something else than messages.
ScenarioType ==
    [ClassOf : UNION {[S -> TrimmerClasses] : S \in SUBSET Streams},
     ClockOf : [Streams -> ClockClasses], InClock : ClockClasses,
     Begin : BoundParams, End : BoundParams, Types : SUBSET (StreamTypes \cup {"IN"}),
     MaxMsgs : Nat, MaxRaw : Nat, SeekAnswers : SUBSET {"OK", "AGAIN", "ERROR"}, Fails : BOOLEAN]

ASSUME TrimmerAssumption ==
    /\ BatchSize \in Nat \ {0}
    /\ SecondsPerDay \in Nat \ {0}
    /\ Scenarios \subseteq ScenarioType
    /\ \A sc \in Scenarios : IsClockClass(sc.InClock) /\ \A s \in Streams : IsClockClass(sc.ClockOf[s])
    /\ IsFiniteSet(Streams)

VARIABLES
    env,                \* the scenario
    up,                 \* upstream: where each stream is, its open packet, the time, messages left
    state,              \* trimmer_it->state
    begin, end,         \* trimmer_it->begin, trimmer_it->end
    stream_states,      \* trimmer_it->stream_states
    queued,             \* the length of trimmer_it->output_messages
    within,             \* where a "next" call is: "no" (about to ask upstream), "seek",
                        \* "batch" (handling a batch), "ending" (in end_iterator_streams())
    status,             \* what "next" last returned
    aborted,            \* "no", or the assertion which failed
    out,                \* history: what downstream knows from the pushed messages
    cut                 \* history: the message which ended the range, if any

boundVars == <<begin, end>>
vars == <<env, up, state, boundVars, stream_states, queued, within, status, aborted, out, cut>>

-----------------------------------------------------------------------------
(* Messages and their times.                                               *)

Used == DOMAIN env.ClassOf

Message(type, s, packet, b, e) ==
    [type |-> type, stream |-> s, packet |-> packet, begin |-> b, end |-> e]

NoMessage == Message("none", NoStream, NoPacket, NoCs, NoCs)

ClockOf(s) == IF s = NoStream THEN env.InClock ELSE env.ClockOf[s]

\* A clock snapshot of stream s, in nanoseconds from origin.
Ns(s, raw) == IF raw = NoCs THEN NoCs ELSE bt_util_ns_from_origin_clock_class(ClockOf(s), raw)

\* get_msg_ns_from_origin(): NoCs without a clock snapshot.
get_msg_ns_from_origin(m) == Ns(m.stream, m.begin)

\* It fails for these messages of a stream whose class has no clock.
HasNoClock(m) == m.type \in {"EV", "SB", "SE"} /\ ~env.ClassOf[m.stream].hasClock

\* Which clock snapshots upstream puts on a message of this type: a stream
\* without a clock has none; those of stream messages are optional.
MayHaveCs(s, type) ==
    LET c == env.ClassOf[s] IN
    IF ~c.hasClock THEN {FALSE}
    ELSE CASE type \in {"PB", "PE"} -> {c.packetCs}
           [] type = "DE" -> {c.discEventsCs}
           [] type = "DP" -> {c.discPacketsCs}
           [] type \in {"SB", "SE"} -> c.streamCs
           [] type = "EV" -> {TRUE}

\* Where a stream and its packet are after a message.
Follow(w, m) ==
    IF m.stream = NoStream THEN w
    ELSE [w EXCEPT !.phase[m.stream] = MipNext(@, m.type),
                   !.packet[m.stream] = CASE m.type = "PB" -> m.packet
                                          [] m.type = "PE" -> NoPacket
                                          [] OTHER -> @]

\* No stream has begun.
NoPhase == [s \in Streams |-> "none"]
NoOpenPacket == [s \in Streams |-> NoPacket]

-----------------------------------------------------------------------------
(* Upstream.                                                               *)

UpstreamFrom(ns) == [phase |-> NoPhase, packet |-> NoOpenPacket, now |-> ns, left |-> env.MaxMsgs]

\* The messages which upstream still needs to end every stream of w.
NeededBy(w) ==
    Cardinality({s \in Used : w.phase[s] = "stream"}) + 2 * Cardinality({s \in Used : w.phase[s] = "packet"})

IsLegal(w, m) ==
    \/ m.stream = NoStream /\ m.type = "IN"
    \/ /\ m.stream \in Used
       /\ m.type \in CreatableTypes(env.ClassOf[m.stream])
       /\ m.packet \in CreatablePackets(env.ClassOf[m.stream], m.type)
       /\ MipAllows(env.ClassOf[m.stream], w.phase[m.stream], m.type)
       /\ m.type \in {"PE", "EV"} => m.packet = w.packet[m.stream]

Offers(m) ==
    /\ IsLegal(up, m)
    /\ IF m.stream = NoStream THEN m.begin # NoCs ELSE (m.begin # NoCs) \in MayHaveCs(m.stream, m.type)
    /\ m.begin # NoCs => get_msg_ns_from_origin(m) >= up.now
    /\ IF m.type \in {"DE", "DP"} THEN m.end >= m.begin ELSE m.end = m.begin
    /\ up.left > NeededBy(Follow(up, m))

\* Upstream after it returned m.
Advance(m) ==
    LET w == Follow(up, m) IN
    [phase |-> w.phase, packet |-> w.packet, left |-> up.left - 1,
     now |-> IF m.begin = NoCs THEN up.now ELSE get_msg_ns_from_origin(m)]

UpstreamIsOver == \A s \in Streams : up.phase[s] \in {"none", "ended"}

\* Only the messages of discarded items have an end time of their own.
Messages ==
    LET Raw == {NoCs} \cup 0 .. env.MaxRaw
        Types == env.Types \cup {"SB", "SE", "PE"} IN
    {Message("IN", NoStream, NoPacket, b, b) : b \in IF "IN" \in Types THEN Raw ELSE {}}
      \cup {Message(type, s, p, b, b) : type \in Types \ {"DE", "DP", "IN"}, s \in Used,
                                        p \in Packets \cup {NoPacket}, b \in Raw}
      \cup {Message(type, s, NoPacket, b, e) : type \in Types \cap {"DE", "DP"}, s \in Used,
                                               b \in Raw, e \in Raw}

-----------------------------------------------------------------------------
(* The bounds of the range.                                                *)

Infinite == [is_set |-> TRUE, is_infinite |-> TRUE, ns |-> 0, time |-> 0]
At(ns) == [is_set |-> TRUE, is_infinite |-> FALSE, ns |-> ns, time |-> 0]
TimeOfDay(time) == [is_set |-> FALSE, is_infinite |-> FALSE, ns |-> 0, time |-> time]

\* set_bound_from_param(), set_bound_from_str().  The date conversion fails for a
\* date before 1970, which set_bound_from_str() does not look at: the bound stays
\* what it was, the time of the day 00:00:00 of a date to find.
set_bound_from_param(param) ==
    CASE param.kind = "absent" -> Infinite
      [] param.kind = "time" -> At(param.ns)
      [] param.kind = "early date" -> TimeOfDay(0)
      [] param.kind = "time of day" -> TimeOfDay(param.ns)

validate_trimmer_bounds(b, e) == b.is_infinite \/ e.is_infinite \/ b.ns <= e.ns

\* trimmer_init() refuses a range which it already knows to be empty.
ComponentExists(b, e) == b.is_set /\ e.is_set => validate_trimmer_bounds(b, e)

\* set_trimmer_iterator_bound(): the bound's time of the day on the date of ns.
set_trimmer_iterator_bound(bound, ns) ==
    LET day == SecondsPerDay * NsPerSecond IN At((ns \div day) * day + bound.time)

-----------------------------------------------------------------------------

Init ==
    /\ env \in Scenarios
    /\ begin = set_bound_from_param(env.Begin) /\ end = set_bound_from_param(env.End)
    /\ ComponentExists(begin, end)
    /\ state = IF begin.is_set /\ end.is_set THEN "SEEK_INITIALLY" ELSE "SET_BOUNDS_NS_FROM_ORIGIN"
    /\ up = UpstreamFrom(0)
    /\ stream_states = <<>> /\ queued = 0
    /\ within = "no" /\ status = "none" /\ aborted = "no"
    /\ out = [phase |-> NoPhase, packet |-> NoOpenPacket, last |-> 0, reach |-> 0, count |-> 0,
              verdict |-> "legal"]
    /\ cut = NoMessage

Running == aborted = "no" /\ status \notin {"END", "ERROR"}

\* state_set_trimmer_iterator_bounds() begins with an assertion.
BoundsAlreadySet ==
    /\ Running /\ state = "SET_BOUNDS_NS_FROM_ORIGIN" /\ within = "no"
    /\ begin.is_set /\ end.is_set
    /\ aborted' = "a bound is not set"
    /\ UNCHANGED <<env, up, state, boundVars, stream_states, queued, within, status, out, cut>>

\* It drops messages up to the first one with a time, which gives the date.
FindDate ==
    /\ Running /\ state = "SET_BOUNDS_NS_FROM_ORIGIN" /\ within = "no"
    /\ ~begin.is_set \/ ~end.is_set
    /\ \E m \in Messages :
          /\ Offers(m)
          /\ up' = Advance(m)
          /\ IF HasNoClock(m)
             THEN status' = "ERROR" /\ UNCHANGED <<boundVars, within>>
             ELSE IF m.begin = NoCs
             THEN UNCHANGED <<boundVars, within, status>>
             ELSE LET Resolve(b) == IF b.is_set THEN b
                                    ELSE set_trimmer_iterator_bound(b, get_msg_ns_from_origin(m)) IN
                  /\ begin' = Resolve(begin) /\ end' = Resolve(end)
                  /\ IF validate_trimmer_bounds(begin', end')
                     THEN within' = "seek" /\ UNCHANGED status
                     ELSE status' = "ERROR" /\ UNCHANGED within
    /\ UNCHANGED <<env, state, stream_states, queued, aborted, out, cut>>

\* Upstream ends before any message with a time.
NoDate ==
    /\ Running /\ state = "SET_BOUNDS_NS_FROM_ORIGIN" /\ within = "no"
    /\ ~begin.is_set \/ ~end.is_set
    /\ UpstreamIsOver
    /\ status' = "END"
    /\ UNCHANGED <<env, up, state, boundVars, stream_states, queued, within, aborted, out, cut>>

\* state_seek_initially(), with the answers of "can seek" and "seek" together.
\* From there on upstream offers the messages of the range and after; the trimmer
\* does not look at the beginning of its range again.
state_seek_initially(answer) ==
    /\ Running
    /\ within = "seek" \/ state = "SEEK_INITIALLY"
    /\ answer \in env.SeekAnswers
    /\ status' = IF answer = "OK" THEN status ELSE answer
    /\ IF answer = "OK"
       THEN /\ state' = "TRIM"
            /\ up' = UpstreamFrom(IF begin.is_infinite THEN 0 ELSE begin.ns)
       ELSE UNCHANGED <<state, up>>
    /\ within' = "no"
    /\ UNCHANGED <<env, boundVars, stream_states, queued, aborted, out, cut>>

-----------------------------------------------------------------------------
(* Handling a message: what is pushed on the output queue.                 *)

\* What the library's checks say of a message at time t, after those before it.
VerdictOn(o, m, t) ==
    IF o.verdict # "legal" THEN o.verdict
    ELSE IF t # NoCs /\ t < o.last THEN "back in time"
    ELSE IF ~IsLegal(o, m) THEN "out of sequence"
    ELSE "legal"

\* push_message(): what downstream knows after one more message, which is about the
\* time from t to u: `count' messages, and `reach' is the latest time they are about.
push_message(o, m, t, u) ==
    LET w == Follow(o, m) IN
    [phase |-> w.phase, packet |-> w.packet, verdict |-> VerdictOn(o, m, t), count |-> o.count + 1,
     last |-> IF t = NoCs THEN o.last ELSE t,
     reach |-> IF u > o.reach THEN u ELSE o.reach]

\* Plausible slip: the end of the range is not part of it.
BeyondEnd_Exclusive(m) ==
    LET t == get_msg_ns_from_origin(m) IN
    IF m.stream = NoStream THEN t >= end.ns
    ELSE t # NoCs /\ ~end.is_infinite /\ t >= end.ns

\* The range's end, as it is compared with a message's time.  The handling of
\* inactivity messages does not look at is_infinite.
BeyondEnd(m) ==
    LET t == get_msg_ns_from_origin(m) IN
    IF m.stream = NoStream THEN t > end.ns
    ELSE t # NoCs /\ ~end.is_infinite /\ t > end.ns

\* create_stream_state_entry() refuses the streams it does not support.
IsSupported(c) ==
    /\ c.hasClock
    /\ c.packets => c.packetCs /\ (c.discPackets => c.discPacketsCs)
    /\ c.discEvents => c.discEventsCs

\* The state of the message's stream once the message is pushed.
StatesAfter(m) ==
    LET s == m.stream
        timed == m.begin # NoCs
        Set(st) == [x \in DOMAIN stream_states \cup {s} |-> IF x = s THEN st ELSE stream_states[x]]
        Seen(packet) == Set([seen_clock_snapshot |-> stream_states[s].seen_clock_snapshot \/ timed,
                             cur_packet |-> packet])
    IN CASE m.type = "IN" -> stream_states
         [] m.type = "SB" -> Set([seen_clock_snapshot |-> timed, cur_packet |-> NoPacket])
         [] m.type = "PB" -> Seen(m.packet)
         [] m.type = "PE" -> Seen(NoPacket)
         [] m.type \in {"EV", "DE", "DP"} -> Seen(stream_states[s].cur_packet)
         [] m.type = "SE" -> [x \in DOMAIN stream_states \ {s} |-> stream_states[x]]

\* Discarded items up to after the range's end: a new message with the clock value
\* of the range's end and without a count replaces the message.
IsClipped(m) == m.type \in {"DE", "DP"} /\ ~end.is_infinite /\ Ns(m.stream, m.end) > end.ns
ClippedEnd(s) == bt_common_clock_value_from_ns_from_origin(ClockOf(s), end.ns)

\* The assertions of handle_message_with_stream() on the stream's state, and the
\* precondition of the creation of the message of clipped discarded items.
AssertionOn(m) ==
    IF m.stream = NoStream THEN "no"
    ELSE IF m.type = "SB"
    THEN IF m.stream \in DOMAIN stream_states /\ ~BeyondEnd(m) THEN "stream is not known" ELSE "no"
    ELSE IF m.stream \notin DOMAIN stream_states THEN "stream is known"
    ELSE IF m.type \in {"PB", "PE", "DE", "DP"} /\ m.begin = NoCs THEN "message has a time"
    ELSE IF m.type = "PB" /\ stream_states[m.stream].cur_packet # NoPacket THEN "no current packet"
    ELSE IF m.type = "PE" /\ stream_states[m.stream].cur_packet = NoPacket THEN "current packet"
    ELSE IF /\ IsClipped(m) /\ ~BeyondEnd(m) /\ ClockValueExists(ClockOf(m.stream), end.ns)
            /\ m.begin > ClippedEnd(m.stream)
    THEN "ends before its beginning"
    ELSE "no"

\* The end of the pushed message.
EndOf(m) == IF IsClipped(m) THEN ClippedEnd(m.stream) ELSE m.end

\* handle_message(): a message of the range.
Pass(m) ==
    /\ ~BeyondEnd(m)
    /\ IF m.type = "SB" /\ ~IsSupported(env.ClassOf[m.stream])
       THEN /\ status' = "ERROR"
            /\ UNCHANGED <<stream_states, queued, within, out>>
       ELSE IF IsClipped(m) /\ ~ClockValueExists(ClockOf(m.stream), end.ns)
       THEN /\ status' = "ERROR"
            /\ UNCHANGED <<stream_states, queued, within, out>>
       ELSE /\ stream_states' = StatesAfter(m)
            /\ out' = push_message(out, m, get_msg_ns_from_origin(m), Ns(m.stream, EndOf(m)))
            /\ queued' = queued + 1
            /\ within' = "batch"
            /\ UNCHANGED status
    /\ up' = Advance(m)
    /\ UNCHANGED cut

\* Plausible slip: every message marks its stream as seen before it is checked.
Cut_MarksFirst(m) ==
    /\ BeyondEnd(m)
    /\ stream_states' = IF m.type \in {"EV", "PB", "PE", "DE", "DP"}
                        THEN [stream_states EXCEPT ![m.stream].seen_clock_snapshot = TRUE]
                        ELSE stream_states
    /\ within' = "ending"
    /\ cut' = m
    /\ UNCHANGED <<up, queued, status, out>>

\* The first message beyond the end of the range, which is dropped with the rest of
\* its batch.  A discarded items message first marks its stream as seen.
Cut(m) ==
    /\ BeyondEnd(m)
    /\ stream_states' = IF m.type \in {"DE", "DP"}
                        THEN [stream_states EXCEPT ![m.stream].seen_clock_snapshot = TRUE]
                        ELSE stream_states
    /\ within' = "ending"
    /\ cut' = m
    /\ UNCHANGED <<up, queued, status, out>>

\* state_trim(): one message of the batch which upstream returned.
HandleMessage ==
    /\ Running /\ state = "TRIM"
    /\ within = "batch" \/ (within = "no" /\ queued = 0)
    /\ \E m \in Messages :
          /\ Offers(m)
          /\ IF HasNoClock(m)
             THEN /\ status' = "ERROR"
                  /\ UNCHANGED <<up, stream_states, queued, within, aborted, out, cut>>
             ELSE IF AssertionOn(m) # "no"
             THEN /\ aborted' = AssertionOn(m)
                  /\ UNCHANGED <<up, stream_states, queued, within, status, out, cut>>
             ELSE (Pass(m) \/ Cut(m)) /\ UNCHANGED aborted
    /\ UNCHANGED <<env, state, boundVars>>

\* The end of the batch.
EndOfBatch ==
    /\ Running /\ state = "TRIM" /\ within = "batch"
    /\ within' = "no"
    /\ UNCHANGED <<env, up, state, boundVars, stream_states, queued, status, aborted, out, cut>>

\* Upstream ends.
UpstreamEnds ==
    /\ Running /\ state = "TRIM" /\ within = "no" /\ queued = 0
    /\ UpstreamIsOver
    /\ within' = "ending"
    /\ UNCHANGED <<env, up, state, boundVars, stream_states, queued, status, aborted, out, cut>>

\* Upstream returns "try again" or an error instead of messages.
UpstreamAnswers(answer) ==
    /\ Running /\ env.Fails /\ within = "no" /\ queued = 0
    /\ state \in {"SET_BOUNDS_NS_FROM_ORIGIN", "TRIM"}
    /\ state = "SET_BOUNDS_NS_FROM_ORIGIN" => ~begin.is_set \/ ~end.is_set
    /\ status' = answer
    /\ UNCHANGED <<env, up, state, boundVars, stream_states, queued, within, aborted, out, cut>>

-----------------------------------------------------------------------------
(* Ending.                                                                 *)

\* Plausible slip: the open packet is not ended.
end_stream_NoPacketEnd(s) ==
    /\ Running /\ within = "ending" /\ ~end.is_infinite
    /\ s \in DOMAIN stream_states
    /\ LET t == IF stream_states[s].seen_clock_snapshot THEN RoundedNs(ClockOf(s), end.ns) ELSE NoCs
           se == Message("SE", s, NoPacket, t, t)
       IN out' = push_message(out, se, t, t)
    /\ queued' = queued + 1
    /\ stream_states' = [x \in DOMAIN stream_states \ {s} |-> stream_states[x]]
    /\ UNCHANGED <<env, up, state, boundVars, within, status, aborted, cut>>

\* end_stream(), for the streams of the hash table in any order: the messages which
\* end the open packet and the stream at the end of the range.
end_stream(s) ==
    /\ Running /\ within = "ending" /\ ~end.is_infinite
    /\ s \in DOMAIN stream_states
    /\ LET st == stream_states[s]
           t == IF st.seen_clock_snapshot THEN RoundedNs(ClockOf(s), end.ns) ELSE NoCs
           pe == Message("PE", s, st.cur_packet, t, t)
           se == Message("SE", s, NoPacket, t, t)
           inPacket == st.cur_packet # NoPacket
       IN IF st.seen_clock_snapshot /\ ~ClockValueExists(ClockOf(s), end.ns)
          THEN status' = "ERROR" /\ UNCHANGED <<stream_states, queued, aborted, out>>
          ELSE IF inPacket /\ ~st.seen_clock_snapshot
          THEN aborted' = "clock snapshot seen" /\ UNCHANGED <<stream_states, queued, status, out>>
          ELSE /\ out' = push_message(IF inPacket THEN push_message(out, pe, t, t) ELSE out, se, t, t)
               /\ queued' = queued + (IF inPacket THEN 2 ELSE 1)
               /\ stream_states' = [x \in DOMAIN stream_states \ {s} |-> stream_states[x]]
               /\ UNCHANGED <<status, aborted>>
    /\ UNCHANGED <<env, up, state, boundVars, within, cut>>

\* The end of end_iterator_streams(), which has nothing to do for an infinite end.
StreamsEnded ==
    /\ Running /\ within = "ending"
    /\ end.is_infinite \/ stream_states = <<>>
    /\ stream_states' = <<>>
    /\ state' = "ENDING" /\ within' = "no"
    /\ UNCHANGED <<env, up, boundVars, queued, status, aborted, out, cut>>

\* fill_message_array_from_output_messages().
FillArray ==
    /\ Running /\ state \in {"TRIM", "ENDING"} /\ within = "no" /\ queued > 0
    /\ queued' = IF queued > BatchSize THEN queued - BatchSize ELSE 0
    /\ status' = "OK"
    /\ UNCHANGED <<env, up, state, boundVars, stream_states, within, aborted, out, cut>>

\* Plausible slip: the end of the queue is returned as an empty batch.
Ended_EmptyBatch ==
    /\ Running /\ state = "ENDING" /\ within = "no" /\ queued = 0
    /\ state' = "ENDED" /\ status' = "OK"
    /\ UNCHANGED <<env, up, boundVars, stream_states, queued, within, aborted, out, cut>>

\* state_ending() with an empty queue.
Ended ==
    /\ Running /\ state = "ENDING" /\ within = "no" /\ queued = 0
    /\ state' = "ENDED" /\ status' = "END"
    /\ UNCHANGED <<env, up, boundVars, stream_states, queued, within, aborted, out, cut>>

\* The steps of "next" calls, but for "try again" and errors from upstream.
Step ==
    \/ BoundsAlreadySet
    \/ FindDate \/ NoDate
    \/ state_seek_initially("OK")
    \/ HandleMessage \/ EndOfBatch \/ UpstreamEnds
    \/ \E s \in Streams : end_stream(s)
    \/ StreamsEnded \/ FillArray \/ Ended

Next ==
    \/ Step
    \/ \E answer \in {"AGAIN", "ERROR"} : state_seek_initially(answer) \/ UpstreamAnswers(answer)

Spec == Init /\ [][Next]_vars

\* The thread which runs the graph gets to run, and downstream calls "next" again
\* for as long as it gets messages or is asked to try again.
FairSpec == Spec /\ WF_vars(Step)

-----------------------------------------------------------------------------

TypeOK ==
    /\ env \in Scenarios
    /\ up \in [phase : [Streams -> Phases], packet : [Streams -> Packets \cup {NoPacket}], now : Nat, left : Nat]
    /\ state \in {"SET_BOUNDS_NS_FROM_ORIGIN", "SEEK_INITIALLY", "TRIM", "ENDING", "ENDED"}
    /\ {begin, end} \subseteq [is_set : BOOLEAN, is_infinite : BOOLEAN, ns : Nat, time : Nat]
    /\ DOMAIN stream_states \subseteq Used
    /\ \A s \in DOMAIN stream_states :
          stream_states[s] \in [seen_clock_snapshot : BOOLEAN, cur_packet : Packets \cup {NoPacket}]
    /\ queued \in Nat /\ within \in {"no", "seek", "batch", "ending"}
    /\ status \in {"none", "OK", "AGAIN", "END", "ERROR"}
    /\ out.phase \in [Streams -> Phases] /\ out.packet \in [Streams -> Packets \cup {NoPacket}]
    /\ out.last \in Nat /\ out.reach \in Nat /\ out.count \in Nat
    /\ out.verdict \in {"legal", "back in time", "out of sequence"}

(* trimmer.c:1152-1160: when a stream which has seen a clock snapshot is   *)
(* cut short, the end of the range is a time of its clock, so that the     *)
(* conversion to a clock value does not fail.  It is so except for one     *)
(* stream: the one of a discarded items message which begins after the     *)
(* range, because that message marks the stream before it is checked.      *)
EndIsInClockRange ==
    within = "ending" /\ ~end.is_infinite =>
        \A s \in DOMAIN stream_states :
            stream_states[s].seen_clock_snapshot =>
                \/ ClockValueExists(ClockOf(s), end.ns)
                \/ cut.type \in {"DE", "DP"} /\ cut.stream = s

(* The state is well typed and, over any conforming upstream iterator, the *)
(* end of the range is in the range of the clocks (EndIsInClockRange) and  *)
(* the assertions of the trimmer on its streams, packets and times hold    *)
(* (trimmer.c:1187, 1278, 1463-1517, 1658), with two exceptions: when the  *)
(* time of the day of a bound had to be completed with a date, and the     *)
(* initial seek then asks to try again, the following "next" call starts   *)
(* over in a state which asserts that a bound is still unknown (974); and  *)
(* when the clock value of the end of the range is not the last one whose  *)
(* time is within the range, the message of clipped discarded items may be *)
(* created with an end before its beginning (1569-1591), which the library *)
(* refuses (discarded-items.c:247, 335).                                   *)
NoAssertionFails ==
    /\ TypeOK
    /\ EndIsInClockRange
    /\ \/ aborted = "no"
       \/ aborted = "a bound is not set" /\ status = "AGAIN"
       \/ aborted = "ends before its beginning" /\ \E s \in Used : Ns(s, ClippedEnd(s) + 1) <= end.ns

\* An inactivity message ended a range without an end.
InactivityCut == cut.type = "IN" /\ end.is_infinite

(* What the trimmer returns is a legal message sequence whatever the time  *)
(* range cuts: no message of a stream is out of place, time does not go    *)
(* back, and at END every stream which began is ended.  Two exceptions: an *)
(* inactivity message ends a range which has no end, in which case no       *)
(* stream is ended (trimmer.c:1746 does not look at end.is_infinite, and   *)
(* 1238-1242 then assumes that upstream is over); and when the end of      *)
(* the range is between two values of a stream's clock, the end messages   *)
(* of that stream have the value before it (trimmer.c:1175), which may be  *)
(* earlier than a message of the range.                                    *)
OutputIsLegal ==
    /\ out.verdict # "out of sequence"
    /\ out.verdict = "back in time" => \E s \in Used : RoundedNs(ClockOf(s), end.ns) # end.ns
    /\ status = "END" /\ ~InactivityCut => \A s \in Streams : out.phase[s] \in {"none", "ended"}

(* The output is the range, all of it and nothing else: as long as no      *)
(* message is beyond the end, downstream has got as many messages as       *)
(* upstream gave and is exactly where upstream is, the trimmer's own view  *)
(* of the open streams and packets included; the range ends at a message   *)
(* which is beyond its end, or with upstream; then every stream is ended,  *)
(* at the end of the range at the latest; and no message, of discarded     *)
(* items included, is about a time beyond the end.                         *)
OutputIsTheRange ==
    /\ state = "TRIM" /\ within # "ending" /\ Running =>
          /\ out.count = env.MaxMsgs - up.left
          /\ out.phase = up.phase /\ out.packet = up.packet
          /\ DOMAIN stream_states = {s \in Streams : up.phase[s] \in {"stream", "packet"}}
          /\ \A s \in DOMAIN stream_states : stream_states[s].cur_packet = up.packet[s]
    /\ state \in {"ENDING", "ENDED"} /\ ~InactivityCut =>
          /\ IF cut = NoMessage THEN UpstreamIsOver
             ELSE ~end.is_infinite /\ get_msg_ns_from_origin(cut) > end.ns
          /\ \A s \in Streams : out.phase[s] = IF up.phase[s] = "none" THEN "none" ELSE "ended"
    /\ ~end.is_infinite /\ state \in {"TRIM", "ENDING", "ENDED"} => out.last <= end.ns /\ out.reach <= end.ns

(* A finite upstream is trimmed in finitely many "next" calls: whatever    *)
(* the range and the size of batches and of the array to fill, the trimmer *)
(* gets to END (or to an error of its environment).                        *)
TrimmingEnds == <>(~Running)
=============================================================================
