------------------------------- MODULE FsSource -------------------------------
(***************************************************************************)
(* A src.ctf.fs component (src/plugins/ctf/fs-src) and one of its message  *)
(* iterators, with the CTF message iterator which decodes the packets      *)
(* (src/plugins/ctf/common/src/msg-iter.cpp).                              *)
(*                                                                         *)
(* The files of each input directory are read in whatever order the system *)
(* lists them; then the traces are merged, the indexes corrected and the   *)
(* streams created.  A message iterator decodes the packets of one stream, *)
(* item by item, within "next" calls which return up to Capacity messages. *)
(* Downstream is external: it calls "next", and may make the iterator seek *)
(* its beginning between two calls.                                        *)
(***************************************************************************)
EXTENDS FsIndex

CONSTANTS
    Capacity,           \* the capacity of the message array of a "next" call
    SourceScenarios     \* traces which other tracers wrote, see IsSourceScenario

\* Which tracer wrote the trace, or NoTracer when its environment does not tell.
NoTracer == [name |-> "", major |-> 0, minor |-> 0, patch |-> 0]

\* The traces to read: their files by <<directory number, file number>>, each with
\* packets of one stream, the number
\* of classes of each metadata stream, the tracer, the classes of the streams,
\* whether packet headers have a stream ID, how many times downstream seeks, and
\* the path of the directories.
IsSourceScenario(r) ==
    /\ r.counts \in Seq(Nat)
    /\ DOMAIN r.files \subseteq (DOMAIN r.counts) \X Nat
    /\ \A fid \in DOMAIN r.files :
          /\ r.files[fid].idx \in IdxVersions
          /\ \A k \in DOMAIN r.files[fid].packets :
                LET p == r.files[fid].packets[k]
                IN  /\ p.stream \in Streams /\ (p.ok \/ p.events # <<>>)
                    /\ p.stream = r.files[fid].packets[1].stream
    /\ r.classOf \in [Streams -> CtfClasses]
    /\ r.ids \in BOOLEAN
    /\ r.seeks \in Nat

ASSUME FsSourceAssumption ==
    /\ Capacity \in Nat \ {0}
    /\ \A r \in SourceScenarios : IsSourceScenario(r)

VARIABLES
    input,              \* the scenario: the traces to read
    unread,             \* the files which are not indexed yet
    loaded,             \* the ds_file_groups of the trace of each directory
    groups,             \* the ds_file_groups of the component, once merged and corrected
    loading,            \* "no", "files", "done", or "failed": the component is not created
    group,              \* the group of the message iterator, 0 without one
    it,                 \* the CTF message iterator
    call,               \* the messages which the current "next" call has, -1 without a call
    next_saved_error,   \* an error waits for the next "next" call
    answer,             \* what "next" last returned
    seeks,              \* how many more times downstream seeks
    delivered,          \* history: the messages since the iterator was created or sought
    before,             \* history: the messages which were delivered before the last seek
    srcAborted,         \* "no", or the assertion which failed
    stale               \* history: next_saved_error is older than the last seek

loadVars == <<input, unread, loaded, groups, loading>>
outVars == <<call, next_saved_error, answer, seeks, delivered, before, stale>>
srcVars == <<loadVars, group, it, outVars, srcAborted>>

SrcClass(s) == input.classOf[s]
IdOf(s) == IF input.ids THEN s ELSE NoId
Dirs == DOMAIN input.counts

-----------------------------------------------------------------------------
(* Creating the component: ctf_fs_component_create_ctf_fs_trace().         *)

\* The files of the directory which is being read.
CurrentDir == CHOOSE d \in Dirs : /\ \E fid \in unread : fid[1] = d
                                  /\ \A fid \in unread : d <= fid[1]

\* Indexes one more file; create_ds_file_groups() skips an empty one.
AddDsFile ==
    /\ loading = "files"
    /\ \E fid \in {f \in unread : f[1] = CurrentDir} :
          LET f == input.files[fid] IN
          /\ unread' = unread \ {fid}
          /\ loaded' = IF f.packets = <<>> THEN loaded
                       ELSE LET s == f.packets[1].stream IN
                            [loaded EXCEPT ![fid[1]] =
                                add_ds_file_to_ds_file_group(@, fid, f, IdOf(s), SrcClass(s).clock)]
    /\ UNCHANGED <<input, groups, loading, group, it, outVars, srcAborted>>

PacketsOfIndex(index) ==
    [k \in DOMAIN index |-> PacketAt(input.files[index[k].file].packets, index[k].offsetInFile)]

\* The last packet of a group has to be decoded, and cannot be or has no time.
LastPacketIsBad(g) ==
    LET packets == PacketsOfIndex(g.index)
        last    == packets[Len(packets)]
    IN  /\ ~last.ok \/ decode_packet_last_event_timestamp(last) = NoCs
        /\ \/ QuirksOf(input.tracer).eventAfter
           \/ QuirksOf(input.tracer).pktEndZero /\ last.end = 0 /\ last.begin # 0

\* Corrects the index of a group and computes its offsets.
Corrected(g) ==
    [g EXCEPT !.index =
        updateOffsetsInStream(fix_packet_index_tracer_bugs(input.tracer, @, PacketsOfIndex(@)))]

\* The groups of the component before any correction.
Merged == IF Len(loaded) > 1 THEN merge_ctf_fs_traces(loaded, input.counts) ELSE loaded[1]

\* Merges, corrects, computes the offsets and creates the streams.  The groups are
\* sorted by path: this only orders the output ports.
CreateTrace ==
    /\ loading = "files"
    /\ unread = {}
    /\ \E merged \in {Merged} :
          LET bad   == \E g \in DOMAIN merged : LastPacketIsBad(merged[g])
              empty == /\ QuirksOf(input.tracer).eventBefore
                       /\ \E g \in DOMAIN merged : FirstEventMissing(PacketsOfIndex(merged[g].index))
              twice == \E g, h \in DOMAIN merged :
                           /\ g # h
                           /\ merged[g].stream_id # NoId
                           /\ merged[g].stream_id = merged[h].stream_id
          IN  /\ groups' = IF bad \/ empty THEN groups ELSE [g \in DOMAIN merged |-> Corrected(merged[g])]
              /\ loading' = IF bad THEN "failed" ELSE "done"
              /\ srcAborted' = CASE bad -> "no"
                                 [] empty /\ ~bad -> "no first event record"
                                 [] twice /\ ~empty /\ ~bad -> "stream ID is not unique"
                                 [] OTHER -> "no"
    /\ UNCHANGED <<input, unread, loaded, group, it, outVars>>

-----------------------------------------------------------------------------
(* The CTF message iterator: class MsgIter.                                *)

\* A new one: offset is where the next buffer starts, buf the packets left in the
\* current one, items the items left in the current packet.
FreshIter ==
    [offset |-> 0, buf |-> <<>>, items |-> <<>>, queue |-> <<>>, curPkt |-> FALSE, curMsg |-> <<>>,
     pktBegin |-> NoCs, pktEnd |-> NoCs, curClk |-> NoCs, curDisc |-> NoCount, curSeq |-> NoCount,
     delay |-> FALSE, emittedSB |-> FALSE, done |-> FALSE]

\* The items of a packet after its first one, as far as they have a handler here.
Item(type, p, ts) == [type |-> type, pkt |-> p, ts |-> ts]

EventItems(p) ==
    FoldLeft(LAMBDA items, ts : items \o <<Item("EventRecordInfo", p, ts), Item("EventRecordEnd", p, ts)>>,
             <<>>, p.events)

ItemsOf(p) ==
    <<Item("DataStreamInfo", p, NoCs), Item("PktInfo", p, NoCs)>> \o EventItems(p)
      \o <<Item(IF p.ok THEN "PktEnd" ELSE "undecodable", p, NoCs)>>

Quirks == QuirksOf(input.tracer)
G == groups[group]
S == G.stream

\* A "next" call is looking for a message: none is in the queue.
Decoding(type) ==
    /\ srcAborted = "no"
    /\ call >= 0
    /\ it.queue = <<>>
    /\ ~it.done
    /\ it.items # <<>>
    /\ it.items[1].type = type

\* The item is handled, and the iterator is now i.
Handled(i) ==
    /\ it' = [i EXCEPT !.items = Tail(@)]
    /\ UNCHANGED <<loadVars, group, outVars, srcAborted>>

SrcAbort(what) ==
    /\ srcAborted' = what
    /\ UNCHANGED <<loadVars, group, it, outVars>>

Queue(i, m) == [i EXCEPT !.queue = Append(@, m)]

\* The next packet of the medium starts, in the current buffer or in a new one.
HandlePktBegin ==
    LET K     == EntriesFrom(G.index, it.offset)
        k     == CHOOSE k \in K : \A j \in K : k <= j
        fresh == BufPackets(input.files[G.index[k].file].packets, BufRange(G.index, k, it.offset))
        buf   == IF it.buf # <<>> THEN it.buf ELSE fresh
    IN  /\ srcAborted = "no"
        /\ call >= 0
        /\ it.queue = <<>> /\ it.items = <<>> /\ ~it.done
        /\ it.buf # <<>> \/ K # {}
        /\ IF it.buf = <<>> /\ ~BufIsSafe(G.index, k, it.offset)
           THEN SrcAbort("offset underflow")
           ELSE IF it.curPkt
           THEN SrcAbort("current packet")
           ELSE /\ it' = [it EXCEPT !.curPkt = TRUE, !.items = ItemsOf(buf[1].p),
                                    !.buf = Tail(buf), !.offset = @ + Size(buf[1].p)]
                /\ UNCHANGED <<loadVars, group, outVars, srcAborted>>

HandleDataStreamInfo ==
    /\ Decoding("DataStreamInfo")
    /\ Handled(IF it.emittedSB THEN it
               ELSE Queue([it EXCEPT !.emittedSB = TRUE], Message("SB", S, NoCs, NoCs, NoCount)))

\* _emitPktBeginMsg()
EmitPktBegin(i, clk) ==
    Queue([i EXCEPT !.curClk = IF clk = NoCs THEN @ ELSE clk], Message("PB", S, clk, clk, NoCount))

\* _emitDelayedPktBeginMsg()
EmitDelayedPktBegin(i, other) ==
    LET clk == CASE i.pktBegin # NoCs /\ other # NoCs -> IF other < i.pktBegin THEN other ELSE i.pktBegin
                 [] i.pktBegin # NoCs -> i.pktBegin
                 [] OTHER -> other
    IN  EmitPktBegin([i EXCEPT !.delay = FALSE], clk)

\* How many packets are missing before packet p.
DiscPacketsCount(p) == p.seq - it.curSeq - 1

\* The times of a discarded events message: _createInitDiscEventsMsg().
DiscEventsRange(p) == <<it.pktEnd, p.end>>

\* What is wrong with the times of a discarded items message: an optional value is
\* read without being there, or the library refuses to create the message.
RangeFault(r) ==
    CASE NoCs \in {r[1], r[2]} -> "no packet time"
      [] NoCs \notin {r[1], r[2]} /\ r[1] > r[2] -> "ends before its beginning"
      [] OTHER -> "no"

HandlePktInfo ==
    /\ Decoding("PktInfo")
    /\ LET p      == it.items[1].pkt
           c      == SrcClass(S)
           de     == it.curDisc # NoCount /\ p.disc > it.curDisc
           dp     == it.curSeq # NoCount /\ it.curSeq + 1 < p.seq
           deCs   == IF c.clock THEN DiscEventsRange(p) ELSE <<NoCs, NoCs>>
           dpCs   == IF c.clock THEN <<it.pktEnd, p.begin>> ELSE <<NoCs, NoCs>>
           saved  == [it EXCEPT !.pktBegin = p.begin, !.pktEnd = p.end, !.curDisc = p.disc,
                                !.curSeq = p.seq]
           disc   == IF de THEN Queue(saved, Message("DE", S, deCs[1], deCs[2], p.disc - it.curDisc))
                     ELSE saved
           both   == IF dp THEN Queue(disc, Message("DP", S, dpCs[1], dpCs[2], DiscPacketsCount(p)))
                     ELSE disc
           deFault == IF de /\ c.clock THEN RangeFault(deCs) ELSE "no"
           dpFault == IF dp /\ c.clock THEN RangeFault(dpCs) ELSE "no"
           fault   == IF deFault # "no" THEN deFault ELSE dpFault
       IN  IF fault # "no"
           THEN SrcAbort(fault)
           ELSE Handled(IF Quirks.eventBefore THEN [both EXCEPT !.delay = TRUE]
                        ELSE EmitPktBegin(both, p.begin))

HandleEventRecordInfo ==
    /\ Decoding("EventRecordInfo")
    /\ LET ts == it.items[1].ts
           i  == IF it.delay THEN EmitDelayedPktBegin(it, ts) ELSE it
       IN  Handled([i EXCEPT !.curClk = IF ts = NoCs THEN @ ELSE ts,
                             !.curMsg = <<Message("EV", S, ts, ts, NoCount)>>])

HandleEventRecordEnd ==
    /\ Decoding("EventRecordEnd")
    /\ Handled([it EXCEPT !.queue = @ \o it.curMsg, !.curMsg = <<>>])

\* Plausible slip: the packet end message always has the time of the packet.
PktEndTime_AsWritten(i) == i.pktEnd

\* The time of a packet end message: _createPktEndMsgAndUpdateCurDefClkVal() uses
\* the current one when a quirk says that the one of the packet is wrong.
PktEndTime(i) ==
    IF \/ Quirks.pktEndZero /\ i.pktBegin # NoCs /\ i.pktBegin # 0 /\ i.pktEnd = 0
       \/ Quirks.eventAfter /\ i.curClk # NoCs /\ i.pktEnd # NoCs /\ i.pktEnd < i.curClk
    THEN i.curClk ELSE i.pktEnd

HandlePktEnd ==
    /\ Decoding("PktEnd")
    /\ LET i   == IF it.delay THEN EmitDelayedPktBegin(it, it.pktEnd) ELSE it
           clk == PktEndTime(i)
       IN  Handled(Queue([i EXCEPT !.curClk = IF clk = NoCs THEN @ ELSE clk, !.curPkt = FALSE],
                         Message("PE", S, clk, clk, NoCount)))

-----------------------------------------------------------------------------
(* The message iterator of the component.                                  *)

\* ctf_fs_iterator_init() for one of the output ports.
InitIterator ==
    /\ loading = "done" /\ srcAborted = "no"
    /\ group = 0
    /\ group' \in DOMAIN groups
    /\ it' = FreshIter
    /\ UNCHANGED <<loadVars, outVars, srcAborted>>

\* ctf_fs_iterator_next() starts: it returns a saved error, or looks for messages.
CallNext ==
    /\ srcAborted = "no"
    /\ group # 0
    /\ call = -1
    /\ answer \notin {"END", "ERROR"}
    /\ IF next_saved_error
       THEN answer' = "ERROR" /\ next_saved_error' = FALSE /\ UNCHANGED call
       ELSE call' = 0 /\ UNCHANGED <<answer, next_saved_error>>
    /\ UNCHANGED <<loadVars, group, it, seeks, delivered, before, srcAborted, stale>>

\* The call has message m, and goes on unless the array is full.
Deliver(m) ==
    /\ delivered' = Append(delivered, m)
    /\ IF call + 1 = Capacity
       THEN call' = -1 /\ answer' = "OK"
       ELSE call' = call + 1 /\ UNCHANGED answer
    /\ UNCHANGED <<loadVars, group, next_saved_error, seeks, before, srcAborted, stale>>

\* _releaseNextMsg()
ReleaseNextMsg ==
    /\ srcAborted = "no"
    /\ call >= 0
    /\ it.queue # <<>>
    /\ it' = [it EXCEPT !.queue = Tail(@)]
    /\ Deliver(it.queue[1])

\* No more items: the stream ends.
EndOfItems ==
    /\ srcAborted = "no"
    /\ call >= 0
    /\ it.queue = <<>> /\ it.items = <<>> /\ it.buf = <<>> /\ ~it.done
    /\ EntriesFrom(G.index, it.offset) = {}
    /\ it' = [it EXCEPT !.done = TRUE]
    /\ Deliver(Message("SE", S, NoCs, NoCs, NoCount))

\* Plausible slip: a call without a message says that there are more.
ReturnAtEnd_NeverEnded ==
    /\ srcAborted = "no"
    /\ call >= 0
    /\ it.done
    /\ answer' = "OK"
    /\ call' = -1
    /\ UNCHANGED <<loadVars, group, it, next_saved_error, seeks, delivered, before, srcAborted, stale>>

\* The iterator is done: the call returns its messages, or that it is ended.
ReturnAtEnd ==
    /\ srcAborted = "no"
    /\ call >= 0
    /\ it.done
    /\ answer' = IF call > 0 THEN "OK" ELSE "END"
    /\ call' = -1
    /\ UNCHANGED <<loadVars, group, it, next_saved_error, seeks, delivered, before, srcAborted, stale>>

\* An item cannot be decoded: the call returns its messages first.
ReturnError ==
    /\ Decoding("undecodable")
    /\ IF call > 0
       THEN answer' = "OK" /\ next_saved_error' = TRUE /\ stale' = FALSE
       ELSE answer' = "ERROR" /\ UNCHANGED <<next_saved_error, stale>>
    /\ call' = -1
    /\ UNCHANGED <<loadVars, group, it, seeks, delivered, before, srcAborted>>

\* Plausible slip: the new CTF message iterator starts with the current packet.
instantiateMsgIter_SamePacket ==
    [FreshIter EXCEPT !.offset = IF it.items = <<>> THEN 0 ELSE it.offset - Size(it.items[1].pkt)]

\* instantiateMsgIter(): a new one, on a new medium.
instantiateMsgIter == FreshIter

\* ctf_fs_iterator_seek_beginning(); a saved error stays.
SeekBeginning ==
    /\ srcAborted = "no"
    /\ group # 0
    /\ call = -1
    /\ answer # "ERROR"
    /\ seeks > 0
    /\ seeks' = seeks - 1
    /\ it' = instantiateMsgIter
    /\ answer' = "none"
    /\ delivered' = <<>>
    /\ before' = delivered
    /\ stale' = next_saved_error
    /\ UNCHANGED <<loadVars, group, call, next_saved_error, srcAborted>>

\* The component starts on input r.
SourceStarts(r) ==
    /\ input = r
    /\ unread = DOMAIN r.files
    /\ loaded = [d \in DOMAIN r.counts |-> <<>>]
    /\ seeks = r.seeks

SourceIdle ==
    /\ groups = <<>>
    /\ group = 0
    /\ it = FreshIter
    /\ call = -1
    /\ next_saved_error = FALSE
    /\ answer = "none"
    /\ delivered = <<>>
    /\ before = <<>>
    /\ srcAborted = "no"
    /\ stale = FALSE

SourceNext ==
    \/ AddDsFile
    \/ CreateTrace
    \/ InitIterator
    \/ CallNext
    \/ HandlePktBegin
    \/ HandleDataStreamInfo
    \/ HandlePktInfo
    \/ HandleEventRecordInfo
    \/ HandleEventRecordEnd
    \/ HandlePktEnd
    \/ ReleaseNextMsg
    \/ EndOfItems
    \/ ReturnAtEnd
    \/ ReturnError
    \/ SeekBeginning

\* "next" is called until the iterator is ended, and each call runs to its end.
Reading ==
    \/ AddDsFile \/ CreateTrace \/ InitIterator \/ CallNext \/ HandlePktBegin \/ HandleDataStreamInfo
    \/ HandlePktInfo \/ HandleEventRecordInfo \/ HandleEventRecordEnd \/ HandlePktEnd
    \/ ReleaseNextMsg \/ EndOfItems \/ ReturnAtEnd \/ ReturnError
=============================================================================
