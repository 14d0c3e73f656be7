------------------------------ MODULE MCTrimmer ------------------------------
(* Small environments for Trimmer.                                         *)
EXTENDS Trimmer, TLC

CONSTANTS s1, s2

Class(packets, discards, clock, packetCs, discCs, streamCs) ==
    [packets |-> packets, discEvents |-> discards, discPackets |-> discards /\ packets,
     hasClock |-> clock, packetCs |-> packetCs, discEventsCs |-> discCs, discPacketsCs |-> discCs,
     streamCs |-> streamCs]

Clock(offset, frequency) == [offset_seconds |-> offset, offset_cycles |-> 0, frequency |-> frequency]
SameAsNs == Clock(0, NsPerSecond)

Param(kind, ns) == [kind |-> kind, ns |-> ns]
Absent == Param("absent", 0)

Scenario(classes, clocks, b, e, types, maxMsgs, maxRaw, answers, fails) ==
    [ClassOf |-> classes, ClockOf |-> clocks, InClock |-> SameAsNs, Begin |-> b, End |-> e,
     Types |-> types, MaxMsgs |-> maxMsgs, MaxRaw |-> maxRaw, SeekAnswers |-> answers, Fails |-> fails]

Packetised == Class(TRUE, FALSE, TRUE, TRUE, TRUE, BOOLEAN)
Plain == Class(FALSE, FALSE, TRUE, TRUE, TRUE, {FALSE})
Everything == Class(TRUE, TRUE, TRUE, TRUE, TRUE, {FALSE})

TwoClasses == (s1 :> Packetised) @@ (s2 :> Plain)
One(class) == s1 :> class
Clocks(c1, c2) == (s1 :> c1) @@ (s2 :> c2)
SameClocks == Clocks(SameAsNs, SameAsNs)

\* A clock whose periods are one and a half nanosecond.
Rounded == Clock(0, 4)

Trimmed ==
    \* Two streams, one with packets, and inactivity; with and without an end.
    {Scenario(TwoClasses, SameClocks, Absent, e, {"EV", "PB", "IN"}, 6, 2, {"OK"}, FALSE) :
        e \in {Absent, Param("time", 1)}}
    \* Discarded items, with a clock which starts before or after the range's end, or
    \* whose values are not nanoseconds.
      \cup {Scenario(One(Everything), Clocks(c, SameAsNs), Absent, Param("time", 3),
                     StreamTypes, 5, 4, {"OK"}, FALSE) : c \in {SameAsNs, Clock(1, 6)}}
      \cup {Scenario(One(Everything), Clocks(c, SameAsNs), Absent, Param("time", 1),
                     {"DE", "DP", "EV"}, 4, 4, {"OK"}, FALSE) : c \in {Rounded, Clock(0, 12)}}
    \* Clocks whose values are rounded.
      \cup {Scenario((s1 :> Plain) @@ (s2 :> Plain), Clocks(c, Clock(0, 12)), Absent, Param("time", e),
                     {"EV"}, 7, 3, {"OK"}, FALSE) : c \in {Rounded, Clock(0, 3)}, e \in {1, 2}}
    \* A time of the day or a date too early, for either bound; upstream may fail.
      \cup {Scenario(One(Packetised), SameClocks, b, e, {"EV", "IN"}, 3, 7, {"OK", "AGAIN", "ERROR"}, TRUE) :
               b \in {Absent, Param("time of day", 3), Param("early date", 0)},
               e \in {Absent, Param("time", 4), Param("time of day", 2)}}
    \* Streams which the trimmer does not support, when it trims or looks for a date.
      \cup {Scenario(One(Class(TRUE, TRUE, clock, packetCs, discCs, {FALSE})), SameClocks, Absent,
                     e, {"EV"}, 4, 1, {"OK"}, FALSE) :
               clock \in BOOLEAN, packetCs \in BOOLEAN, discCs \in BOOLEAN,
               e \in {Param("time", 1), Param("time of day", 1)}}
=============================================================================
