------------------------------- MODULE MCMuxer -------------------------------
(* Small environments for Muxer.                                           *)
EXTENDS Muxer, TLC

CONSTANTS a, b, c

Clk(ptr, origin, id) == [ptr |-> ptr, origin |-> origin, id |-> id]

Msg(up, ts, stream, type, attr, count, clk) ==
    [up |-> up, ts |-> ts, stream |-> stream, type |-> type, attr |-> attr, count |-> count,
     clk |-> clk]

\* Clock classes: two with one known origin, one with another, two with the same
\* identity and one without any.
K1 == Clk(1, 1, 1)
K2 == Clk(2, 1, NoId)
K3 == Clk(3, 2, 1)
K4 == Clk(4, UnknownOrigin, 1)
K5 == Clk(5, UnknownOrigin, 1)
K6 == Clk(6, UnknownOrigin, NoId)

SB(up, stream, ts, clk) == Msg(up, ts, stream, "SB", 1, None, clk)
SE(up, stream, ts, clk) == Msg(up, ts, stream, "SE", 1, None, clk)
EV(up, stream, ts, attr, clk) == Msg(up, ts, stream, "EV", attr, None, clk)
Inactivity(up, ts, clk) == Msg(up, ts, None, "IN", 1, None, clk)
Scenario(qa, qb, qc, fails, canSeek, asks) ==
    [content |-> (a :> qa) @@ (b :> qb) @@ (c :> qc), order |-> <<a, b, c>>,
     fails |-> fails, canSeek |-> canSeek, asks |-> asks]

\* Equal timestamps, messages without a timestamp, inactivity messages.
Ties ==
    Scenario(<<SB(a, 1, NoTs, K1), EV(a, 1, 1, 2, K1), SE(a, 1, NoTs, K1)>>,
             <<SB(b, 1, 1, K2), EV(b, 1, 1, 1, K2), SE(b, 1, 2, K2)>>,
             <<Inactivity(c, 1, K1), Inactivity(c, 2, K1)>>, TRUE, TRUE, FALSE)

\* The three upstream iterators announce streams with clocks k, l and m.
Clocks(k, l, m) ==
    Scenario(<<SB(a, 1, NoTs, k), SE(a, 1, NoTs, k)>>, <<SB(b, 2, NoTs, l), SE(b, 2, NoTs, l)>>,
             <<SB(c, 3, NoTs, m), SE(c, 3, NoTs, m)>>, FALSE, TRUE, TRUE)

\* Every sequence of at most two events with timestamps in order.
Events(up, stream) ==
    {<<EV(up, stream, t[1], 1, K1), EV(up, stream, t[2], 2, K1)>> :
        t \in {t \in {NoTs, 1, 2} \X {NoTs, 1, 2} : t # <<2, 1>>}}
    \cup {<<EV(up, stream, t, 1, K1)>> : t \in {NoTs, 1, 2}}

\* Two streams with events, and an upstream iterator which is inactive.
Orders ==
    {Scenario(<<SB(a, 1, NoTs, K1)>> \o qa, <<SB(b, 2, NoTs, K1)>> \o qb,
              <<Inactivity(c, t, K2)>>, TRUE, FALSE, FALSE) :
        qa \in Events(a, 1), qb \in Events(b, 2), t \in {1, 2}}

Conforming ==
    {Ties} \cup Orders \cup {Clocks(t[1], t[2], t[3]) :
        t \in {<<K1, K2, K3>>, <<K4, K5, K1>>, <<K6, K6, K4>>, <<NoClock, NoClock, K2>>,
               <<K2, K6, K1>>, <<K4, K6, NoClock>>}}

\* Downstream asks whether the muxer can seek after getting messages from a call
\* which met an error.
Asking ==
    {Scenario(<<SB(a, 1, 1, K1), SE(a, 1, 1, K1)>>, <<SB(b, 2, 2, K1), SE(b, 2, 2, K1)>>, <<>>,
              TRUE, FALSE, TRUE)}

AllScenarios == Conforming \cup Asking
AllContents == {s.content : s \in AllScenarios}
AllMessages == UNION {{s.content[u][i] : i \in DOMAIN s.content[u]} : s \in AllScenarios, u \in {a, b, c}}

\* The merge of these contents is determined.
ASSUME MCAssumption == NoTies
=============================================================================
