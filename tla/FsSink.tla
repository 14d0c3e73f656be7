-------------------------------- MODULE FsSink --------------------------------
(***************************************************************************)
(* A sink.ctf.fs component (src/plugins/ctf/fs-sink): it writes each       *)
(* stream to a data stream file of the directory of its trace, and turns   *)
(* discarded events and packets messages into the counters of the packets  *)
(* around them.                                                            *)
(*                                                                         *)
(* Upstream is external: any sequence of messages which the protocol       *)
(* allows, their clock snapshots in order.  A handler is an operator from  *)
(* the state of a stream to a result; the actions offer it a message and   *)
(* apply the result.                                                       *)
(***************************************************************************)
EXTENDS CtfTrace, TLC

CONSTANTS
    PacketLimit,    \* event records after which an artificial packet is full (4 MiB)
    SinkScenarios   \* the environments to consider, see SinkScenarioType

\* An environment: the streams with their class, sanitized name and trace; the
\* parameters; whether directories cannot be made; whether upstream may release
\* its traces; bounds on the messages, the times, the open packets and the counts.
SinkScenarioType ==
    [ClassOf : UNION {[S -> CtfClasses] : S \in SUBSET Streams},
     NameOf : [Streams -> STRING], TraceOf : [Streams -> STRING],
     assume_single_trace : BOOLEAN, ignore_discarded_events : BOOLEAN,
     ignore_discarded_packets : BOOLEAN, mkdirFails : BOOLEAN, releases : BOOLEAN,
     MaxMsgs : Nat, MaxTime : Nat, Counts : SUBSET (Nat \cup {NoCount})]

ASSUME FsSinkAssumption ==
    /\ PacketLimit \in Nat \ {0}
    /\ SinkScenarios \subseteq SinkScenarioType

VARIABLES
    env,        \* the scenario
    up,         \* upstream: phases of the streams, time, messages left, last message
    traces,     \* fs_sink->traces: the traces with an fs_sink_trace object
    streams,    \* the fs_sink_stream objects, by stream
    disk,       \* the data stream files: packets by <<directory, file name>>
    metadata,   \* the directories with a metadata file
    status,     \* what "consume" last returned, or "finalized"
    aborted,    \* "no", or the assertion which failed
    hist        \* history: the messages consumed without an error, by stream

sinkVars == <<env, up, traces, streams, disk, metadata, status, aborted, hist>>

Used == DOMAIN env.ClassOf
ClassOf(s) == env.ClassOf[s]

-----------------------------------------------------------------------------
(* The state of a stream: struct fs_sink_stream.                           *)

NoRange == [in |-> FALSE, begin |-> NoCs, end |-> NoCs]

FreshStream(file) ==
    [file |-> file, is_open |-> FALSE, beginning_cs |-> NoCs, events |-> <<>>,
     discarded_events_counter |-> 0, seq_num |-> 0, prev_end_cs |-> NoCs,
     discarded_events_state |-> NoRange, discarded_packets_state |-> NoRange]

\* make_trace_path(): the output directory itself, or a path of its own.
make_trace_path(t) == IF env.assume_single_trace THEN "out" ELSE t

\* Plausible slip: any name will do.
make_unique_stream_file_name_NotUnique(s) == <<make_trace_path(env.TraceOf[s]), env.NameOf[s], 0>>

\* The base name, or the first suffixed name, which no live stream of the trace has.
make_unique_stream_file_name(s) ==
    LET dir   == make_trace_path(env.TraceOf[s])
        taken == {streams[r].file : r \in DOMAIN streams} \cup {<<dir, "metadata", 0>>}
        K     == 0..Cardinality(taken)
        Free(k) == <<dir, env.NameOf[s], k>> \notin taken
        first == CHOOSE k \in K : Free(k) /\ \A j \in K : Free(j) => k <= j
    IN  <<dir, env.NameOf[s], first>>

\* The state of stream s for borrow_stream(), which creates it when needed.
Borrowed(s) ==
    IF s \in DOMAIN streams THEN streams[s] ELSE FreshStream(make_unique_stream_file_name(s))

\* borrow_stream() has to create the trace of the stream.
NeedsTrace(s) == env.TraceOf[s] \notin traces

borrow_stream_Fails(s) == NeedsTrace(s) /\ env.assume_single_trace /\ traces # {}

\* The result of a handler: what it returns, the failed assertion if any, the
\* stream, the packets added to its file, and whether the stream is destroyed.
Result(st, written) ==
    [status |-> "OK", aborted |-> "no", st |-> st, written |-> written, gone |-> FALSE]
Error(st) == [Result(st, <<>>) EXCEPT !.status = "ERROR"]
Abort(st, what) == [Result(st, <<>>) EXCEPT !.aborted = what]

\* fs_sink_stream_open_packet()
fs_sink_stream_open_packet(st, cs) ==
    [st EXCEPT !.is_open = TRUE, !.beginning_cs = cs, !.events = <<>>]

\* The packet which fs_sink_stream_close_packet() writes: its context again, with
\* the final values, before its event records.
ClosedPacket(s, st, cs) ==
    Packet(s, st.beginning_cs, cs,
           IF ClassOf(s).discEvents THEN st.discarded_events_counter ELSE NoCount,
           st.seq_num, st.events, TRUE)

fs_sink_stream_close_packet(st, cs) ==
    [st EXCEPT !.is_open = FALSE, !.beginning_cs = NoCs, !.events = <<>>,
               !.prev_end_cs = cs, !.seq_num = @ + 1]

-----------------------------------------------------------------------------
(* The handlers.                                                           *)

\* The event, after an artificial packet is closed and opened when needed.
handle_event_msg(m, st) ==
    LET c      == ClassOf(m.stream)
        full   == ~c.packets /\ st.is_open /\ Len(st.events) >= PacketLimit
        closed == IF full THEN fs_sink_stream_close_packet(st, NoCs) ELSE st
        opened == IF ~c.packets /\ ~closed.is_open
                  THEN fs_sink_stream_open_packet(closed, NoCs) ELSE closed
    IN  IF ~opened.is_open
        THEN Abort(st, "event outside of a packet")
        ELSE Result([opened EXCEPT !.events = Append(@, m.begin)],
                    IF full THEN <<ClosedPacket(m.stream, st, NoCs)>> ELSE <<>>)

\* The beginning time which a pending discarded events message must have.
ExpectedDiscEventsBegin(m, st) == IF st.prev_end_cs = NoCs THEN m.begin ELSE st.prev_end_cs

\* Plausible slip: the end time of the discarded packets is not compared.
DiscPacketsFit_BeginOnly(m, st) ==
    st.discarded_packets_state.in =>
        /\ st.prev_end_cs # NoCs
        /\ st.discarded_packets_state.begin = st.prev_end_cs

\* A pending discarded packets message goes from the end of the previous packet
\* to the beginning of this one.
DiscPacketsFit(m, st) ==
    st.discarded_packets_state.in =>
        /\ st.prev_end_cs # NoCs
        /\ st.discarded_packets_state.begin = st.prev_end_cs
        /\ st.discarded_packets_state.end = m.begin

handle_packet_beginning_msg(m, st) ==
    LET c == ClassOf(m.stream) IN
    IF (st.discarded_events_state.in \/ st.discarded_packets_state.in) /\ ~(c.tsBegin /\ c.tsEnd)
    THEN Abort(st, "time range without packet times")
    ELSE IF \/ /\ st.discarded_events_state.in
               /\ st.discarded_events_state.begin # ExpectedDiscEventsBegin(m, st)
            \/ ~DiscPacketsFit(m, st)
    THEN Error(st)
    ELSE IF st.is_open
    THEN Abort(st, "packet already open")
    ELSE Result(fs_sink_stream_open_packet([st EXCEPT !.discarded_packets_state.in = FALSE],
                                           m.begin),
                <<>>)

handle_packet_end_msg(m, st) ==
    IF st.discarded_events_state.in /\ st.discarded_events_state.end # m.begin
    THEN Error(st)
    ELSE IF ~st.is_open
    THEN Abort(st, "no open packet")
    ELSE Result([fs_sink_stream_close_packet(st, m.begin)
                    EXCEPT !.discarded_events_state.in = FALSE],
                <<ClosedPacket(m.stream, st, m.begin)>>)

\* What handle_stream_beginning_msg() refuses.
Unsupported(c) ==
    \/ ~c.packets /\ ~env.ignore_discarded_events /\ c.discEvents
    \/ ~env.ignore_discarded_events /\ c.discEventsCs /\ ~(c.tsBegin /\ c.tsEnd)
    \/ ~env.ignore_discarded_packets /\ c.discPacketsCs /\ ~(c.tsBegin /\ c.tsEnd)

\* The file is closed with the stream object.
handle_stream_end_msg(m, st) ==
    LET artificial == ~ClassOf(m.stream).packets /\ st.is_open IN
    [Result(st, IF artificial THEN <<ClosedPacket(m.stream, st, NoCs)>> ELSE <<>>)
        EXCEPT !.gone = TRUE]

\* What a discarded items message adds to a counter.
CountOf(m) == IF m.count = NoCount THEN 1 ELSE m.count

\* The new time range, once a discarded items message with times is accepted.
RangeOf(m, hasTimes, old) ==
    IF hasTimes THEN [in |-> TRUE, begin |-> m.begin, end |-> m.end] ELSE old

handle_discarded_events_msg(m, st) ==
    LET c == ClassOf(m.stream) IN
    IF env.ignore_discarded_events
    THEN Result(st, <<>>)
    ELSE IF st.discarded_events_state.in \/ (st.is_open /\ c.discEventsCs)
    THEN Error(st)
    ELSE Result([st EXCEPT !.discarded_events_state = RangeOf(m, c.discEventsCs, @),
                           !.discarded_events_counter = @ + CountOf(m)], <<>>)

handle_discarded_packets_msg(m, st) ==
    LET c == ClassOf(m.stream) IN
    IF env.ignore_discarded_packets
    THEN Result(st, <<>>)
    ELSE IF st.discarded_packets_state.in
    THEN Error(st)
    ELSE IF st.is_open
    THEN Abort(st, "discarded packets within a packet")
    ELSE Result([st EXCEPT !.discarded_packets_state = RangeOf(m, c.discPacketsCs, @),
                           !.seq_num = @ + CountOf(m)], <<>>)

-----------------------------------------------------------------------------
(* Upstream, and the actions.                                              *)

Times == up.now..env.MaxTime

\* The clock snapshots <<begin, end>> of a message of this type.
Snapshots(c, type) ==
    LET one == IF \/ type = "EV" /\ c.clock
                  \/ type = "PB" /\ c.tsBegin
                  \/ type = "PE" /\ c.tsEnd
               THEN Times ELSE {NoCs}
        two == (type = "DE" /\ c.discEventsCs) \/ (type = "DP" /\ c.discPacketsCs)
    IN  IF two THEN {r \in Times \X Times : r[1] <= r[2]} ELSE {<<t, t>> : t \in one}

\* The messages of this type which upstream may have next.
Offered(type) ==
    {Message(type, s, r[1], r[2], k) :
        s \in {q \in Used : /\ type \in CreatableTypes(ClassOf(q))
                            /\ MipAllows(ClassOf(q), up.phase[q], type)},
        r \in UNION {Snapshots(ClassOf(q), type) : q \in Used},
        k \in IF type \in {"DE", "DP"} THEN env.Counts ELSE {NoCount}}

\* Upstream gives message m.
Take(m) ==
    /\ <<m.begin, m.end>> \in Snapshots(ClassOf(m.stream), m.type)
    /\ up' = [phase |-> [up.phase EXCEPT ![m.stream] = MipNext(@, m.type)],
              now |-> IF m.begin = NoCs THEN up.now ELSE m.begin,
              left |-> up.left - 1,
              last |-> <<m>>]

\* A handler has to create a trace, and fs_sink_trace_create() cannot: on its error
\* path, fs_sink_trace_destroy() asserts that there is a path for the metadata.
TraceFails ==
    /\ aborted' = "no metadata path"
    /\ UNCHANGED <<env, traces, streams, disk, metadata, status, hist>>

\* The handler of message m is done, with result r.
Apply(m, r) ==
    LET s == m.stream
        f == r.st.file
    IN  /\ status' = r.status
        /\ aborted' = r.aborted
        /\ traces' = traces \cup {env.TraceOf[s]}
        /\ streams' = IF r.gone THEN [q \in DOMAIN streams \ {s} |-> streams[q]]
                                ELSE (s :> r.st) @@ streams
           \* a new stream object truncates its file
        /\ disk' = (f :> (IF s \in DOMAIN streams THEN disk[f] ELSE <<>>) \o r.written) @@ disk
        /\ hist' = IF r.status = "OK" THEN [hist EXCEPT ![s] = Append(@, m)] ELSE hist
        /\ UNCHANGED <<env, metadata>>

Refuse == status' = "ERROR" /\ UNCHANGED <<env, traces, streams, disk, metadata, aborted, hist>>

Consuming == status = "OK" /\ aborted = "no"

\* A handler which starts with borrow_stream().
Handle(m, Handler) ==
    /\ Take(m)
    /\ IF borrow_stream_Fails(m.stream) THEN Refuse
       ELSE IF NeedsTrace(m.stream) /\ env.mkdirFails THEN TraceFails
       ELSE Apply(m, Handler)

ConsumeType(type) == Consuming /\ up.left > 0 /\ \E s \in Used : type \in CreatableTypes(ClassOf(s))

ConsumeEvent ==
    /\ ConsumeType("EV")
    /\ \E m \in Offered("EV") : Handle(m, handle_event_msg(m, Borrowed(m.stream)))

ConsumePacketBeginning ==
    /\ ConsumeType("PB")
    /\ \E m \in Offered("PB") : Handle(m, handle_packet_beginning_msg(m, Borrowed(m.stream)))

ConsumePacketEnd ==
    /\ ConsumeType("PE")
    /\ \E m \in Offered("PE") : Handle(m, handle_packet_end_msg(m, Borrowed(m.stream)))

ConsumeStreamBeginning ==
    /\ ConsumeType("SB")
    /\ \E m \in Offered("SB") :
          IF Unsupported(ClassOf(m.stream))
          THEN Take(m) /\ Refuse
          ELSE Handle(m, Result(Borrowed(m.stream), <<>>))

ConsumeStreamEnd ==
    /\ ConsumeType("SE")
    /\ \E m \in Offered("SE") : Handle(m, handle_stream_end_msg(m, Borrowed(m.stream)))

ConsumeDiscardedEvents ==
    /\ ConsumeType("DE")
    /\ \E m \in Offered("DE") : Handle(m, handle_discarded_events_msg(m, Borrowed(m.stream)))

ConsumeDiscardedPackets ==
    /\ ConsumeType("DP")
    /\ \E m \in Offered("DP") : Handle(m, handle_discarded_packets_msg(m, Borrowed(m.stream)))

\* Upstream is ended: so is the sink.
ConsumeEnd ==
    /\ Consuming
    /\ \A s \in Used : up.phase[s] \in {"none", "ended"}
    /\ status' = "END"
    /\ UNCHANGED <<env, up, traces, streams, disk, metadata, aborted, hist>>

\* fs_sink_trace_destroy() for the traces T: their streams go, and with them the
\* packets which are still open; then the metadata is written.
fs_sink_trace_destroy(T) ==
    /\ traces' = traces \ T
    /\ streams' = [s \in {q \in DOMAIN streams : env.TraceOf[q] \notin T} |-> streams[s]]
    /\ metadata' = metadata \cup {make_trace_path(t) : t \in T}

\* Nobody needs the trace anymore: ir_trace_destruction_listener().
TraceDestroyed ==
    /\ Consuming
    /\ env.releases
    /\ \E t \in traces :
          /\ \A s \in Used : env.TraceOf[s] = t => up.phase[s] = "ended"
          /\ fs_sink_trace_destroy({t})
    /\ UNCHANGED <<env, up, disk, status, aborted, hist>>

\* ctf_fs_sink_finalize(): after the end, an error, or in the middle of an
\* interrupted run.
Finalize ==
    /\ status \in {"OK", "END", "ERROR"}
    /\ aborted = "no"
    /\ status' = "finalized"
    /\ fs_sink_trace_destroy(traces)
    /\ UNCHANGED <<env, up, disk, aborted, hist>>

SinkInit ==
    /\ env \in SinkScenarios
    /\ up = [phase |-> [s \in Used |-> "none"], now |-> 0, left |-> env.MaxMsgs, last |-> <<>>]
    /\ traces = {}
    /\ streams = <<>>
    /\ disk = <<>>
    /\ metadata = {}
    /\ status = "OK"
    /\ aborted = "no"
    /\ hist = [s \in Used |-> <<>>]

SinkNext ==
    \/ ConsumeEvent
    \/ ConsumePacketBeginning
    \/ ConsumePacketEnd
    \/ ConsumeStreamBeginning
    \/ ConsumeStreamEnd
    \/ ConsumeDiscardedEvents
    \/ ConsumeDiscardedPackets
    \/ ConsumeEnd
    \/ TraceDestroyed
    \/ Finalize
=============================================================================
