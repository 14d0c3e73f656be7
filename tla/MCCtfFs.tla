------------------------------- MODULE MCCtfFs -------------------------------
(***************************************************************************)
(* Small instances of CtfRoundTrip.                                        *)
(***************************************************************************)
EXTENDS CtfRoundTrip

CONSTANTS s1, s2

MCStreams == {s1, s2}

Class(packets, discEvents, discPackets, clock, ts, cs) ==
    [packets |-> packets, discEvents |-> discEvents, discPackets |-> discPackets, clock |-> clock,
     tsBegin |-> ts, tsEnd |-> ts, discEventsCs |-> cs /\ discEvents,
     discPacketsCs |-> cs /\ discPackets]

Plain == Class(TRUE, FALSE, FALSE, TRUE, TRUE, FALSE)
WithEvents == Class(TRUE, TRUE, FALSE, TRUE, TRUE, TRUE)
WithPackets == Class(TRUE, FALSE, TRUE, TRUE, TRUE, TRUE)
NoTimes == Class(TRUE, TRUE, TRUE, FALSE, FALSE, FALSE)
Untimed == Class(TRUE, TRUE, TRUE, TRUE, FALSE, FALSE)
Artificial == Class(FALSE, FALSE, FALSE, TRUE, FALSE, FALSE)
Refused == Class(FALSE, TRUE, FALSE, TRUE, FALSE, FALSE)

\* One stream of this class.
One(c, msgs, time, counts) ==
    [ClassOf |-> (s1 :> c), NameOf |-> [s \in MCStreams |-> "a"],
     TraceOf |-> [s \in MCStreams |-> "t1"],
     assume_single_trace |-> FALSE, ignore_discarded_events |-> FALSE,
     ignore_discarded_packets |-> FALSE, mkdirFails |-> FALSE, releases |-> FALSE,
     MaxMsgs |-> msgs, MaxTime |-> time, Counts |-> counts]

\* Two streams with the same name.
Two(c, msgs, time) == [One(c, msgs, time, {NoCount}) EXCEPT !.ClassOf = [s \in MCStreams |-> c]]

MCSinkScenarios ==
    {One(WithEvents, 8, 1, {NoCount, 2}), One(WithPackets, 8, 1, {2}),
     One(NoTimes, 7, 0, {NoCount}), One(Untimed, 7, 0, {NoCount}),
     One(Artificial, 6, 1, {NoCount}), One(Refused, 3, 0, {NoCount}),
     [One(WithEvents, 5, 1, {NoCount}) EXCEPT !.ignore_discarded_events = TRUE],
     [One(WithPackets, 5, 1, {NoCount}) EXCEPT !.ignore_discarded_packets = TRUE],
     Two(Plain, 7, 0),
     [Two(Plain, 7, 0) EXCEPT !.TraceOf = (s1 :> "t1" @@ s2 :> "t2"), !.releases = TRUE],
     [Two(Plain, 7, 0) EXCEPT !.TraceOf = (s1 :> "t1" @@ s2 :> "t2"), !.releases = TRUE,
                              !.assume_single_trace = TRUE],
     [One(Plain, 2, 0, {NoCount}) EXCEPT !.mkdirFails = TRUE]}

-----------------------------------------------------------------------------
(* Traces of other tracers.                                                *)

Timed == Class(TRUE, TRUE, TRUE, TRUE, TRUE, TRUE)

Tracer(name, minor, patch) == [name |-> name, major |-> 2, minor |-> minor, patch |-> patch]

Files(packets, idx) == [packets |-> packets, idx |-> idx]

Given(files, counts, tracer, c, ids, n) ==
    [files |-> files, counts |-> counts, tracer |-> tracer, classOf |-> [s \in MCStreams |-> c],
     ids |-> ids, seeks |-> n, path |-> "given"]

\* Three packets of a stream; events and packets were discarded between the last two.
P(k) == <<Packet(s1, 1, 2, 0, 0, <<1, 2>>, TRUE), Packet(s1, 3, 4, 0, 1, <<3>>, TRUE),
          Packet(s1, 5, 6, 2, 4, <<>>, TRUE)>>[k]
Range3 == {r \in (1..3) \X (1..3) : r[1] <= r[2]}
Part(r) == [k \in 1..(r[2] - r[1] + 1) |-> P(r[1] + k - 1)]

\* Two snapshots of the trace, which may overlap, with index files or not.
Snapshots2 ==
    {Given((<<1, 1>> :> Files(Part(r), i)) @@ (<<2, 1>> :> Files(Part(q), j)), n, NoTracer, Timed, TRUE, 0) :
        r \in Range3, q \in Range3, i \in {"none", "1.1"}, j \in {"none", "1.1"},
        n \in {<<1, 1>>, <<1, 2>>}}

\* A stream which is spread over two files of a directory, with another stream.
Spread ==
    {Given((<<1, 1>> :> Files(<<P(1), P(3)>>, "none")) @@ (<<1, 2>> :> Files(<<P(2)>>, "none"))
             @@ (<<1, 3>> :> Files(<<Packet(s2, 2, 5, 0, 0, <<4>>, TRUE)>>, "none"))
             @@ (<<1, 4>> :> Files(<<>>, "none")),
           <<1>>, NoTracer, Timed, ids, 0) : ids \in BOOLEAN}

\* Packets without times, and packets which begin together.
Alike ==
    {<<Untimed, Packet(s1, NoCs, NoCs, 0, 0, <<1>>, TRUE), Packet(s1, NoCs, NoCs, 0, 1, v, TRUE)>> :
        v \in {<<2>>, <<2, 2>>}}
    \cup {<<Timed, Packet(s1, 1, 1, 0, 0, <<>>, TRUE), Packet(s1, 1, 2, 0, 1, <<2>>, TRUE)>>}

\* Two snapshots of a trace, where only the second one has the stream of such packets,
\* or both have it; or a directory with two files of it.
Twins ==
    {[Given((<<1, 1>> :> Files(<<p>>, "none")) @@ (<<2, 1>> :> Files(<<a[2], a[3]>>, "none")),
            <<1, 1>>, NoTracer, a[1], TRUE, 0) EXCEPT !.classOf[s2] = Timed] :
        a \in Alike, p \in {Packet(s2, 2, 5, 0, 0, <<4>>, TRUE)}}
    \cup {Given((<<1, 1>> :> Files(<<a[2]>>, "none")) @@ (<<2, 1>> :> Files(<<a[2], a[3]>>, "none")),
                <<1, 1>>, NoTracer, a[1], TRUE, 0) : a \in Alike}
    \cup {Given((<<1, 1>> :> Files(<<a[2]>>, "none")) @@ (<<1, 2>> :> Files(<<a[3]>>, "none")),
                <<1>>, NoTracer, a[1], TRUE, 0) : a \in Alike}

\* Tracers with bugs, and one without.
Buggy ==
    {Given(<<1, 1>> :> Files(<<Packet(s1, 1, e, 0, 0, v, TRUE), Packet(s1, b, f, d[1], d[2], w, TRUE)>>, "none"),
           <<1>>, t, Timed, TRUE, 0) :
        e \in {0, 2, 3}, v \in {<<>>, <<1>>, <<2>>, <<3>>}, b \in {2, 3}, f \in {0, 3}, d \in {<<0, 1>>, <<1, 1>>, <<0, 3>>},
        w \in {<<>>, <<1>>, <<2>>, <<3>>},
        t \in {NoTracer, Tracer("lttng-ust", 10, 9), Tracer("lttng-modules", 10, 10),
               Tracer("barectf", 3, 0)}}

\* A packet which cannot be decoded.
Broken ==
    {Given(<<1, 1>> :> Files(ps, "none"), <<1>>, t, Timed, TRUE, 2) :
        ps \in {<<P(1), [P(2) EXCEPT !.ok = FALSE]>>, <<[P(1) EXCEPT !.ok = FALSE]>>, <<P(2), P(3)>>},
        t \in {NoTracer, Tracer("lttng-ust", 10, 9)}}

MCSourceScenarios == Snapshots2 \cup Spread \cup Twins \cup Buggy \cup Broken
=============================================================================
