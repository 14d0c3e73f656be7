------------------------------- MODULE FsIndex -------------------------------
(***************************************************************************)
(* The packet indexes of a src.ctf.fs component                            *)
(* (src/plugins/ctf/fs-src/fs.cpp and data-stream-file.cpp): one for each  *)
(* data stream file, merged when several files hold packets of the same    *)
(* stream, because a stream has several files or because several snapshots *)
(* of the same trace are read together, and then corrected for known       *)
(* tracer bugs.                                                            *)
(*                                                                         *)
(* A data stream file is a record: its packets and the version of its LTTng*)
(* index file ("none" without one).  Offsets and sizes count the header of *)
(* a packet as one and each event record as one.                           *)
(***************************************************************************)
EXTENDS CtfTrace, SequencesExt

IdxVersions == {"none", "1.0", "1.1"}

\* struct ctf_fs_ds_index_entry
Entry(fid, offset, p, seq) ==
    [file |-> fid, offsetInFile |-> offset, offsetInStream |-> offset, packetSize |-> Size(p),
     timestamp_begin |-> p.begin, timestamp_end |-> p.end, packet_seq_num |-> seq]

TotalSize(packets) == FoldLeft(LAMBDA n, p : n + Size(p), 0, packets)

OffsetOf(packets, k) == TotalSize(SubSeq(packets, 1, k - 1))

\* The packet of a file at this offset.
PacketAt(packets, offset) ==
    packets[CHOOSE k \in DOMAIN packets : OffsetOf(packets, k) = offset]

\* build_index_from_idx_file() does not give up: there is an index file and a
\* clock, and no packet of the index ends before it begins.
HasUsableIdx(f, clock) ==
    /\ f.idx # "none"
    /\ clock
    /\ \A k \in DOMAIN f.packets : f.packets[k].end >= f.packets[k].begin

\* ctf_fs_ds_file_build_index(): only an LTTng index of version 1.1 gives the
\* entries a sequence number.
ctf_fs_ds_file_build_index(fid, f, clock) ==
    [k \in DOMAIN f.packets |->
        Entry(fid, OffsetOf(f.packets, k), f.packets[k],
              IF HasUsableIdx(f, clock) /\ f.idx = "1.1" THEN f.packets[k].seq ELSE NoCount)]

ds_index_entries_equal(a, b) ==
    /\ a.packetSize = b.packetSize
    /\ a.timestamp_begin = b.timestamp_begin
    /\ a.timestamp_end = b.timestamp_end
    /\ a.packet_seq_num = b.packet_seq_num

\* The place of the first entry which begins with this one or after it.
InsertionSpot(index, entry) ==
    LET K == {k \in DOMAIN index : entry.timestamp_begin <= index[k].timestamp_begin}
    IN  IF K = {} THEN Len(index) + 1 ELSE CHOOSE k \in K : \A j \in K : k <= j

\* Plausible slip: the entry goes where it belongs, whether it is there or not.
ds_index_insert_ds_index_entry_sorted_Again(index, entry) ==
    InsertAt(index, InsertionSpot(index, entry), entry)

ds_index_insert_ds_index_entry_sorted(index, entry) ==
    LET k == InsertionSpot(index, entry)
    IN  IF k <= Len(index) /\ ds_index_entries_equal(entry, index[k])
        THEN index
        ELSE InsertAt(index, k, entry)

merge_ctf_fs_ds_indexes(dest, src) ==
    FoldLeft(LAMBDA index, entry : ds_index_insert_ds_index_entry_sorted(index, entry), dest, src)

-----------------------------------------------------------------------------
(* Data stream file groups: one for each stream of the trace.              *)

Group(s, id, index, fids) == [stream |-> s, stream_id |-> id, index |-> index, files |-> fids]

\* Plausible slip: files of the same stream are never put together.
add_ds_file_to_ds_file_group_Alone(groups, fid, f, id, clock) ==
    Append(groups, Group(f.packets[1].stream, id, ctf_fs_ds_file_build_index(fid, f, clock), <<fid>>))

\* A file without a stream ID or without times gets a group of its own.
add_ds_file_to_ds_file_group(groups, fid, f, id, clock) ==
    LET first  == f.packets[1]
        index  == ctf_fs_ds_file_build_index(fid, f, clock)
        same   == {g \in DOMAIN groups : groups[g].stream = first.stream /\ groups[g].stream_id = id}
    IN  IF id = NoId \/ first.begin = NoCs \/ same = {}
        THEN Append(groups, Group(first.stream, id, index, <<fid>>))
        ELSE LET g == CHOOSE g \in same : \A h \in same : g <= h
             IN  [groups EXCEPT ![g].index = merge_ctf_fs_ds_indexes(@, index),
                                ![g].files = Append(@, fid)]

merge_ctf_fs_ds_file_groups(dest, src) ==
    [dest EXCEPT !.files = @ \o src.files, !.index = merge_ctf_fs_ds_indexes(@, src.index)]

\* Merges the groups of a trace into those of another one: a group goes to the
\* first group with the same ID among the initial ones, or to a new, empty one.
merge_matching_ctf_fs_ds_file_groups(dest, src) ==
    LET Same(g) == {d \in DOMAIN dest : /\ g.stream_id # NoId
                                         /\ dest[d].stream_id = g.stream_id
                                         /\ dest[d].stream = g.stream}
        One(groups, g) ==
            IF Same(g) = {}
            THEN Append(groups, merge_ctf_fs_ds_file_groups(Group(g.stream, g.stream_id, <<>>, <<>>), g))
            ELSE LET d == CHOOSE d \in Same(g) : \A e \in Same(g) : d <= e
                 IN  [groups EXCEPT ![d] = merge_ctf_fs_ds_file_groups(@, g)]
    IN  FoldLeft(One, dest, src)

\* The traces are sequences of groups, counts how many classes the metadata of
\* each has.  The first one with the most classes takes the groups of the others.
merge_ctf_fs_traces(traces, counts) ==
    LET winner == CHOOSE i \in DOMAIN traces :
                      \A j \in DOMAIN traces : counts[j] <= counts[i] /\ (counts[j] = counts[i] => i <= j)
        others == SelectSeq([i \in DOMAIN traces |-> i], LAMBDA i : i # winner)
    IN  FoldLeft(LAMBDA groups, i : merge_matching_ctf_fs_ds_file_groups(groups, traces[i]),
                 traces[winner], others)

-----------------------------------------------------------------------------
(* Corrections for tracer bugs.  packetOf gives the packet of an entry.    *)

\* Compares versions: major, minor and patch.
is_tracer_affected_by_lttng_event_after_packet_bug(t) ==
    \/ /\ t.name = "lttng-ust"
       /\ t.major < 2 \/ (t.major = 2 /\ t.minor < 11)
    \/ /\ t.name = "lttng-modules"
       /\ \/ t.major < 2
          \/ t.major = 2 /\ t.minor < 9
          \/ t.major = 2 /\ t.minor = 9 /\ t.patch < 13
          \/ t.major = 2 /\ t.minor = 10 /\ t.patch < 10

is_tracer_affected_by_barectf_event_before_packet_bug(t) ==
    /\ t.name = "barectf"
    /\ \/ t.major < 2
       \/ t.major = 2 /\ t.minor < 3
       \/ t.major = 2 /\ t.minor = 3 /\ t.patch < 1

is_tracer_affected_by_lttng_crash_quirk(t) == t.name \in {"lttng-ust", "lttng-modules"}

\* The time of the last event record, or of the beginning of the packet.
decode_packet_last_event_timestamp(p) == IF p.events = <<>> THEN p.begin ELSE p.events[Len(p.events)]

fix_index_lttng_event_after_packet_bug(index, packetOf) ==
    [k \in DOMAIN index |->
        [index[k] EXCEPT !.timestamp_end =
            IF k < Len(index) THEN index[k + 1].timestamp_begin
                              ELSE decode_packet_last_event_timestamp(packetOf[k])]]

\* decode_packet_first_event_timestamp() reaches the end of the packet without an
\* event record, where it asserts that there is one more item.
FirstEventMissing(packetOf) == \E k \in DOMAIN packetOf : k > 1 /\ packetOf[k].events = <<>>

fix_index_barectf_event_before_packet_bug(index, packetOf) ==
    [k \in DOMAIN index |->
        [index[k] EXCEPT
            !.timestamp_begin = IF k > 1 THEN packetOf[k].events[1] ELSE @,
            !.timestamp_end = IF k < Len(index) THEN packetOf[k + 1].events[1] ELSE @]]

\* Plausible slip: the last packet is left as it is.
fix_index_lttng_crash_quirk_NotLast(index, packetOf) ==
    [k \in DOMAIN index |->
        [index[k] EXCEPT !.timestamp_end =
            IF @ # 0 \/ index[k].timestamp_begin = 0 \/ k = Len(index) THEN @
            ELSE index[k + 1].timestamp_begin]]

fix_index_lttng_crash_quirk(index, packetOf) ==
    [k \in DOMAIN index |->
        [index[k] EXCEPT !.timestamp_end =
            IF @ # 0 \/ index[k].timestamp_begin = 0 THEN @
            ELSE IF k < Len(index) THEN index[k + 1].timestamp_begin
            ELSE decode_packet_last_event_timestamp(packetOf[k])]]

\* fix_packet_index_tracer_bugs(), for one group.
fix_packet_index_tracer_bugs(t, index, packetOf) ==
    LET after  == IF is_tracer_affected_by_lttng_event_after_packet_bug(t)
                  THEN fix_index_lttng_event_after_packet_bug(index, packetOf) ELSE index
        before == IF is_tracer_affected_by_barectf_event_before_packet_bug(t)
                  THEN fix_index_barectf_event_before_packet_bug(after, packetOf) ELSE after
    IN  IF is_tracer_affected_by_lttng_crash_quirk(t)
        THEN fix_index_lttng_crash_quirk(before, packetOf) ELSE before

\* struct MsgIterQuirks, as fix_packet_index_tracer_bugs() sets it.
QuirksOf(t) ==
    [pktEndZero   |-> is_tracer_affected_by_lttng_crash_quirk(t),
     eventAfter   |-> is_tracer_affected_by_lttng_event_after_packet_bug(t),
     eventBefore  |-> is_tracer_affected_by_barectf_event_before_packet_bug(t)]

\* The range which populate_stream_info() gives for a stream: none without times.
populate_stream_info(index) ==
    LET b == index[1].timestamp_begin
        e == index[Len(index)].timestamp_end
    IN  IF NoCs \in {b, e} THEN <<>> ELSE <<b, e>>

-----------------------------------------------------------------------------
(* The medium: the data of a group as one sequence of bytes.               *)

updateOffsetsInStream(index) ==
    [k \in DOMAIN index |->
        [index[k] EXCEPT !.offsetInStream =
            FoldLeft(LAMBDA n, e : n + e.packetSize, 0, SubSeq(index, 1, k - 1))]]

\* Medium::_mFindIndexEntryForOffset(): the entries which hold this offset or
\* follow it.
EntriesFrom(index, offset) ==
    {k \in DOMAIN index : index[k].offsetInStream + index[k].packetSize - 1 >= offset}

\* Where Medium::buf() ends: the last of the entries which follow entry k in its file.
EndEntry(index, k) ==
    CHOOSE e \in k..Len(index) :
        /\ \A j \in k..e : index[j].file = index[k].file
        /\ e < Len(index) => index[e + 1].file # index[k].file

\* Medium::buf() at the offset of entry k: the offsets [from, to) in its file.  The
\* file is mapped as a whole.
BufRange(index, k, offset) ==
    [from |-> offset - (index[k].offsetInStream - index[k].offsetInFile),
     to   |-> LET e == EndEntry(index, k) IN index[e].offsetInFile + index[e].packetSize]

\* The subtractions of Medium::buf() do not underflow.
BufIsSafe(index, k, offset) ==
    /\ index[k].offsetInFile <= index[k].offsetInStream
    /\ BufRange(index, k, offset).from < BufRange(index, k, offset).to

\* The packets of a buffer.
BufPackets(packets, range) ==
    SelectSeq([k \in DOMAIN packets |-> [p |-> packets[k], at |-> OffsetOf(packets, k)]],
              LAMBDA r : r.at >= range.from /\ r.at < range.to)
=============================================================================
