----------------------------- MODULE CtfRoundTrip -----------------------------
(***************************************************************************)
(* A sink.ctf.fs component which writes traces, and then a src.ctf.fs      *)
(* component which reads one of them back; or a src.ctf.fs component which *)
(* reads the traces of other tracers.                                      *)
(***************************************************************************)
EXTENDS FsSink, FsSource

vars == <<sinkVars, srcVars>>

\* The input came from the sink.
Written == up.left < env.MaxMsgs

-----------------------------------------------------------------------------
\* The class of a stream as the metadata which the sink writes describes it:
\* packets always have a sequence number, and discarded items have times as soon
\* as there is a clock.
ReadClass(c) ==
    [packets |-> TRUE, discEvents |-> c.discEvents, discPackets |-> TRUE, clock |-> c.clock,
     tsBegin |-> c.tsBegin, tsEnd |-> c.tsEnd, discEventsCs |-> c.discEvents /\ c.clock,
     discPacketsCs |-> c.clock]

WrittenTo(dir) == {s \in Used : hist[s] # <<>> /\ make_trace_path(env.TraceOf[s]) = dir}

\* The metadata of the directory describes all its streams: they are of one trace.
Readable(dir) == \A q, r \in WrittenTo(dir) : env.TraceOf[q] = env.TraceOf[r]

\* The sink is gone: a source reads a directory.
StartReading ==
    /\ status = "finalized"
    /\ loading = "no"
    /\ \E dir \in metadata :
          LET names == SetToSeq({f \in DOMAIN disk : f[1] = dir}) IN
          /\ Readable(dir)
          /\ input' = [files |-> [fid \in {1} \X DOMAIN names |->
                                     [packets |-> disk[names[fid[2]]], idx |-> "none"]],
                       counts |-> <<1>>, tracer |-> NoTracer,
                       classOf |-> [s \in Streams |->
                           ReadClass(ClassOf(IF s \in Used THEN s ELSE CHOOSE q \in Used : TRUE))],
                       ids |-> TRUE, seeks |-> 0, path |-> dir]
          /\ unread' = DOMAIN input'.files
          /\ loaded' = <<(<<>>)>>
          /\ loading' = "files"
    /\ UNCHANGED <<sinkVars, groups, group, it, outVars, srcAborted>>

SinkStep == loading = "no" /\ SinkNext /\ UNCHANGED srcVars

SourceStep == SourceNext /\ UNCHANGED sinkVars

\* Nothing is left to do.
Over ==
    \/ aborted # "no" \/ srcAborted # "no"
    \/ status = "finalized" /\ loading = "no" /\ ~\E dir \in metadata : Readable(dir)
    \/ loading = "failed"
    \/ loading = "done" /\ groups = <<>>
    \/ answer \in {"END", "ERROR"}

Done == Over /\ UNCHANGED vars

NoInput ==
    [files |-> <<>>, counts |-> <<>>, tracer |-> NoTracer, classOf |-> <<>>, ids |-> TRUE,
     seeks |-> 0, path |-> "none"]

Init ==
    /\ SourceIdle
    /\ \/ /\ SinkInit
          /\ SourceStarts(NoInput)
          /\ loading = "no"
       \/ /\ SinkInit
          /\ env = CHOOSE e \in SinkScenarios : TRUE
          /\ \E r \in SourceScenarios : SourceStarts(r)
          /\ loading = "files"

Next ==
    \/ SinkStep
    \/ StartReading
    \/ SourceStep
    \/ Done

Spec == Init /\ [][Next]_vars

\* The source is called until its iterator is ended; nobody has to seek.
FairSpec == Spec /\ WF_vars(StartReading) /\ WF_vars(Reading /\ UNCHANGED sinkVars)

-----------------------------------------------------------------------------
(* What the manual page of the sink, babeltrace2-sink.ctf.fs(7), asks of   *)
(* the discarded items messages of a stream: "Input message constraints".  *)

IsType(h, types) == {i \in DOMAIN h : h[i].type \in types}

\* The last message of these types before position i, and the first one after it.
LastBefore(h, i, types) == {j \in IsType(h, types) : j < i /\ \A k \in IsType(h, types) : k < i => k <= j}
FirstAfter(h, i, types) == {j \in IsType(h, types) : j > i /\ \A k \in IsType(h, types) : k > i => k >= j}

HasTimes(m) == m.begin # NoCs

\* No packet is open at message i.
Outside(h, i) ==
    \A j \in LastBefore(h, i, {"PB"}) : \E k \in LastBefore(h, i, {"PE"}) : j < k

\* Message i begins with the last packet end.
BeginsWithPacketEnd(h, i) == \E j \in LastBefore(h, i, {"PE"}) : h[j].begin = h[i].begin

\* Message i ends with the next packet end, or beginning for discarded packets, and
\* no other one of its type goes up to there: their time ranges would overlap.
EndsAlone(h, i) ==
    LET type  == h[i].type
        until == FirstAfter(h, i, {IF type = "DE" THEN "PE" ELSE "PB"})
    IN  /\ \A j \in until : h[j].begin = h[i].end
        /\ \A j \in FirstAfter(h, i, {type}) :
              until # FirstAfter(h, j, {IF type = "DE" THEN "PE" ELSE "PB"})

\* Everything which the page asks of message i, as far as the messages after it tell:
\* it has times, it is between a packet end and a packet beginning, and its times
\* are those of the packets around it.
AsThePageAsks(h, i) ==
    LET next == FirstAfter(h, i, {"PB"}) IN
    /\ HasTimes(h[i])
    /\ Outside(h, i)
    /\ EndsAlone(h, i)
    /\ next # {} \/ IsType(h, {"SE"}) # {} => next # {} /\ BeginsWithPacketEnd(h, i)

\* What the sink lets through against its page: discarded items without times, at
\* any place; discarded events before the first packet, which begin with it; and
\* discarded items, whatever their beginning, when no packet follows.
LetThrough(h, i) ==
    LET next == FirstAfter(h, i, {"PB"}) IN
    \/ ~HasTimes(h[i])
    \/ /\ Outside(h, i)
       /\ EndsAlone(h, i)
       /\ \/ next = {}
          \/ /\ h[i].type = "DE" /\ LastBefore(h, i, {"PE"}) = {}
             /\ \A j \in next : h[j].begin = h[i].begin

\* The discarded items which the sink does not ignore.
Checked ==
    (IF env.ignore_discarded_events THEN {} ELSE {"DE"})
      \cup (IF env.ignore_discarded_packets THEN {} ELSE {"DP"})

Compliant(h) == \A i \in IsType(h, Checked) : AsThePageAsks(h, i) \/ LetThrough(h, i)

\* Another trace is being written, and there must be a single one.
SecondTrace(s) ==
    /\ env.assume_single_trace
    /\ \E q \in Used : env.TraceOf[q] # env.TraceOf[s] /\ hist[q] # <<>>

\* The sink refuses a message exactly when the messages of its stream do not
\* comply anymore: consume() fails for no other reason, and what it accepts is as
\* its manual page asks, with three exceptions which the page forbids and nothing
\* in fs-sink.cpp refuses: discarded items without times ("must have times"),
\* discarded events before the first packet and discarded items after the last one
\* ("between a packet end and a packet beginning message").
SinkAcceptsExactly ==
    /\ \A s \in Used : Compliant(hist[s])
    /\ status = "ERROR" =>
          LET m == up.last[1]
              s == m.stream
          IN  \/ ~Compliant(Append(hist[s], m))
              \/ m.type = "SB" /\ Unsupported(ClassOf(s))
              \/ SecondTrace(s)

-----------------------------------------------------------------------------
(* What can be read back.                                                  *)

\* The component is created.
Loaded == loading = "done" /\ srcAborted = "no"

OfType(h, types) == SelectSeq(h, LAMBDA m : m.type \in types)
TimesIn(h, types) == [i \in DOMAIN OfType(h, types) |-> OfType(h, types)[i].begin]
CountIn(h, type) == FoldLeft(LAMBDA n, m : n + CountOf(m), 0, OfType(h, {type}))

\* The part of h up to its last message of this type, and after its first one.
UpToLast(h, type) == SubSeq(h, 1, CHOOSE i \in IsType(h, {type}) : \A j \in IsType(h, {type}) : j <= i)
AfterFirst(h, type) ==
    SubSeq(h, 1 + CHOOSE i \in IsType(h, {type}) : \A j \in IsType(h, {type}) : i <= j, Len(h))

\* The same discarded items messages, with an explicit count.
SameItems(g, h, type) ==
    LET a == OfType(g, {type})
        b == OfType(h, {type})
    IN  /\ Len(a) = Len(b)
        /\ \A i \in DOMAIN a : a[i] = [b[i] EXCEPT !.count = CountOf(b[i])]

\* A later stream of the trace took the file of stream s, once s was ended.
Overwritten(s) ==
    \E q \in Used \ {s} : /\ hist[q] # <<>> /\ env.NameOf[q] = env.NameOf[s]
                           /\ env.TraceOf[q] = env.TraceOf[s]
                           /\ IsType(hist[s], {"SE"}) # {}

\* The messages of stream S were read back.
StreamIsReadBack ==
    LET h       == hist[S]
        c       == ClassOf(S)
        closed  == UpToLast(h, "PE")
        between == AfterFirst(closed, "PE")
        gap     == AfterFirst(UpToLast(closed, "PB"), "PE")
    IN  IF ~c.packets
        THEN /\ IsPrefix(TimesIn(delivered, {"EV"}), TimesIn(h, {"EV"}))
             /\ IsType(h, {"SE"}) # {} => TimesIn(delivered, {"EV"}) = TimesIn(h, {"EV"})
        ELSE /\ TimesIn(delivered, {"PB", "EV", "PE"}) = TimesIn(closed, {"PB", "EV", "PE"})
             /\ ~env.ignore_discarded_events =>
                   /\ CountIn(delivered, "DE") = CountIn(between, "DE")
                   /\ c.discEventsCs => SameItems(delivered, between, "DE")
             /\ ~env.ignore_discarded_packets /\ Cardinality(IsType(closed, {"PE"})) > 1 =>
                   /\ CountIn(delivered, "DP") = CountIn(gap, "DP")
                   /\ c.discPacketsCs => SameItems(delivered, gap, "DP")

\* What a sink wrote, a source reads back.  Each stream with a closed packet is
\* there, whatever the names of the others; its event records are those of the
\* packets which were closed, with their times; its discarded items are those which
\* lie between its first packet and its last one, with the same times and counts,
\* or the same total when they had no times (fs-sink.cpp, fs-sink-stream.cpp,
\* msg-iter.cpp).  The one loss: make_unique_stream_file_name() only knows the live
\* streams, so that a later stream may take the file of an ended one.
WrittenIsReadBack ==
    Written =>
        /\ Loaded =>
              \A s \in WrittenTo(input.path) :
                  \/ \E g \in DOMAIN groups : groups[g].stream = s
                  \/ IsType(hist[s], {"PE"}) = {} \/ Overwritten(s)
        /\ it.done => StreamIsReadBack

-----------------------------------------------------------------------------
(* The index.                                                              *)

FilesOf(s) == {fid \in DOMAIN input.files : /\ input.files[fid].packets # <<>>
                                            /\ input.files[fid].packets[1].stream = s}
PacketsOf(s) == UNION {Range(input.files[fid].packets) : fid \in FilesOf(s)}

\* The files of stream s can be put together: packets have times which tell them
\* apart, and all the files have the same kind of index.
Mergeable(s) ==
    /\ input.ids
    /\ \A p \in PacketsOf(s) : p.begin # NoCs
    /\ \A p, q \in PacketsOf(s) : p # q => p.begin # q.begin
    /\ \A fid \in FilesOf(s) : LET ps == input.files[fid].packets
                                IN  \A j, k \in DOMAIN ps : j < k => ps[j].begin < ps[k].begin
    /\ Cardinality({input.files[fid].idx : fid \in FilesOf(s)}) <= 1

\* Whatever the order in which the files are found, and however the snapshots of a
\* trace overlap: a stream whose files can be put together has one group, where each
\* of its packets has one entry, in the order of their beginning times.  In any
\* case, a packet is only left out because another one looks the same (fs.cpp).
PacketsReadOnce ==
    Loaded =>
        /\ \A g \in DOMAIN groups :
              LET s  == groups[g].stream
                  ps == PacketsOfIndex(groups[g].index)
              IN  Mergeable(s) /\ (Cardinality(FilesOf(s)) > 1) =>
                      /\ \A h \in DOMAIN groups : groups[h].stream = s => h = g
                      /\ Range(ps) = PacketsOf(s)
                      /\ \A j, k \in DOMAIN ps : j < k => ps[j].begin < ps[k].begin
        /\ \A s \in Streams : \A p \in PacketsOf(s) :
              \E g \in DOMAIN groups : \E q \in Range(PacketsOfIndex(groups[g].index)) :
                  \/ q = p
                  \/ q.stream = s /\ <<Size(q), q.begin, q.end>> = <<Size(p), p.begin, p.end>>

-----------------------------------------------------------------------------
(* The messages.                                                           *)

Min2(a, b) == IF a <= b THEN a ELSE b
LastTime(p) == decode_packet_last_event_timestamp(p)

\* The times which a packet has once its tracer is excused.
RealBegin(p) ==
    IF Quirks.eventBefore THEN Min2(p.begin, IF p.events = <<>> THEN p.end ELSE p.events[1]) ELSE p.begin
RealEnd(p) ==
    IF \/ Quirks.pktEndZero /\ p.end = 0 /\ p.begin # 0
       \/ Quirks.eventAfter /\ p.end < LastTime(p)
    THEN LastTime(p) ELSE p.end

Excused(p) == RealBegin(p) # p.begin \/ RealEnd(p) # p.end

Sorted(ts) == \A i \in 1..(Len(ts) - 1) : ts[i] <= ts[i + 1]

\* The packets of the group of the iterator, in the order of the index.
Read == PacketsOfIndex(G.index)

\* The tracer, once excused, wrote times which never go back.
WellTimed ==
    Sorted(FoldLeft(LAMBDA ts, p : ts \o <<RealBegin(p)>> \o p.events \o <<RealEnd(p)>>, <<>>, Read))

\* A packet which needs an excuse comes with discarded items: their times are the
\* ones the tracer wrote, not the ones of the packet messages around them.
ExcusedGap ==
    \E k \in 2..Len(Read) :
        /\ Excused(Read[k - 1]) \/ Excused(Read[k])
        /\ Read[k].disc > Read[k - 1].disc \/ Read[k].seq > Read[k - 1].seq + 1

PhaseAfter(h) ==
    FoldLeft(LAMBDA ph, m : IF ph # "illegal" /\ MipAllows(SrcClass(S), ph, m.type)
                            THEN MipNext(ph, m.type) ELSE "illegal", "none", h)

\* The messages of a stream always follow the protocol; and when the tracer only
\* has the bugs which the component knows, their times never go back, and they "satisfy
\* all the requirements" of the sink (babeltrace2-sink.ctf.fs.7.txt:190).  Two
\* exceptions: the time range of discarded items next to a packet with wrong times,
\* and discarded items without times when there is no clock (msg-iter.cpp).
ReadIsLegal ==
    group # 0 /\ srcAborted = "no" =>
        /\ PhaseAfter(delivered) # "illegal"
        /\ answer = "END" => PhaseAfter(delivered) = "ended"
        /\ WellTimed /\ ~ExcusedGap =>
              /\ Sorted(SelectSeq(TimesIn(delivered, StreamTypes), LAMBDA t : t # NoCs))
              /\ SrcClass(S).clock =>
                    \A i \in IsType(delivered, {"DE", "DP"}) : AsThePageAsks(delivered, i)

\* A message iterator which seeks its beginning delivers the same messages again;
\* and it fails where the data cannot be decoded.  The one exception: an error
\* which was saved before the seek is returned after it (fs.cpp).
SeekRestarts ==
    /\ IsPrefix(before, delivered) \/ IsPrefix(delivered, before)
    /\ answer = "END" => IsPrefix(before, delivered)
    /\ answer = "ERROR" => stale \/ it.items[1].type = "undecodable"

\* The range which the "babeltrace.trace-infos" query tells for a stream is the one
\* of its messages.  It ends too early with the last event record when the tracer
\* may write event records after the end of a packet, and begins too late with the
\* first packet when it may write them before (query.cpp, fs.cpp).
QueryRangeIsTight ==
    it.done /\ srcAborted = "no" =>
        LET range == populate_stream_info(G.index)
            ts    == {delivered[i].begin : i \in DOMAIN delivered} \ {NoCs}
            last  == Read[Len(Read)]
        IN  range # <<>> /\ WellTimed /\ ~ExcusedGap =>
                /\ \A t \in ts : range[1] <= t \/ (Quirks.eventBefore /\ Excused(Read[1]))
                /\ range[1] \in ts \/ (Quirks.eventBefore /\ Excused(Read[1]))
                /\ \A t \in ts : t <= range[2] \/ (Quirks.eventAfter /\ last.end > LastTime(last))
                /\ range[2] \in ts

\* The assertions which the code can really fail, and on what.
KnownFailure ==
    CASE srcAborted = "no first event record" ->
           Quirks.eventBefore /\ \E s \in Streams : \E p \in PacketsOf(s) : p.events = <<>>
      [] srcAborted = "stream ID is not unique" ->
           \E s \in Streams : Cardinality(FilesOf(s)) > 1 /\ \E p \in PacketsOf(s) : p.begin = NoCs
      [] srcAborted = "no packet time" ->
           SrcClass(S).clock /\ ~(SrcClass(S).tsBegin /\ SrcClass(S).tsEnd)
      [] srcAborted = "ends before its beginning" ->
           \E k \in 2..Len(Read) : Read[k - 1].end > Min2(Read[k].begin, Read[k].end)
      [] srcAborted = "offset underflow" -> ~Mergeable(S)
      [] OTHER -> FALSE

TypeOK ==
    /\ env \in SinkScenarios /\ traces \subseteq Range(env.TraceOf)
    /\ DOMAIN streams \subseteq Used /\ DOMAIN hist = Used
    /\ \A s \in DOMAIN streams : Len(streams[s].events) <= env.MaxMsgs
    /\ {f[1] : f \in DOMAIN disk} \subseteq {make_trace_path(t) : t \in Range(env.TraceOf)}
    /\ status \in {"none", "OK", "END", "ERROR", "finalized"}
    /\ loading \in {"no", "files", "done", "failed"}
    /\ unread \subseteq DOMAIN input.files /\ group \in 0..Len(groups)
    /\ call \in -1..Capacity /\ {next_saved_error, stale} \subseteq BOOLEAN
    /\ answer \in {"none", "OK", "END", "ERROR"}

\* The state is well typed; no assertion of the sink fails whatever the messages, and none of the source
\* whatever the traces, but for the known ones: a directory which cannot be made;
\* an empty packet of an old barectf; two files of a stream without packet times;
\* discarded items between packets without times, or whose times go back, which the
\* library refuses ("beginning-default-clock-snapshot-lteq-end"); packets which begin
\* together.
NoAssertionFails ==
    /\ TypeOK
    /\ aborted = "no" \/ (aborted = "no metadata path" /\ env.mkdirFails)
    /\ srcAborted = "no" \/ KnownFailure

\* A source which starts to read comes to an end: its iterator is ended or fails.
ReadingEnds == (loading = "files") ~> Over
=============================================================================
