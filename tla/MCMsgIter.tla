------------------------------ MODULE MCMsgIter ------------------------------
(* Small environments for MsgIter.                                         *)
EXTENDS MsgIter

CONSTANTS s1, s2

Class(packets, discards, packetCs, streamCs) ==
    [packets |-> packets, discEvents |-> discards, discPackets |-> discards,
     packetCs |-> packetCs, discCs |-> discards, streamCs |-> streamCs]

Scenario(classOf, maxContent, maxTime, byItself, safeStraddle, inactivity, mayFail) ==
    [ClassOf |-> classOf, MaxContent |-> maxContent, MaxTime |-> maxTime,
     CanSeekByItself |-> byItself, SafeStraddle |-> safeStraddle,
     Inactivity |-> inactivity, MayFail |-> mayFail]

\* A packetised stream, and a plain stream.
TwoStreams(packetCs, streamCs) ==
    (s1 :> Class(TRUE, FALSE, packetCs, streamCs)) @@ (s2 :> Class(FALSE, FALSE, FALSE, {FALSE}))

\* One stream with everything, discarded items with clock snapshots included.
OneStream == s1 :> Class(TRUE, TRUE, TRUE, {FALSE})

\* The longest sequences are those without inactivity messages and failures.
Conforming ==
    {Scenario(TwoStreams(FALSE, BOOLEAN), 5, 1, {FALSE}, TRUE, FALSE, TRUE),
     Scenario(TwoStreams(TRUE, {FALSE}), 6, 1, {FALSE}, TRUE, FALSE, FALSE),
     Scenario(OneStream, 4, 2, {TRUE, FALSE}, TRUE, FALSE, TRUE),
     Scenario(OneStream, 4, 1, {FALSE}, TRUE, TRUE, TRUE),
     Scenario(OneStream, 5, 1, {TRUE, FALSE}, TRUE, FALSE, FALSE),
     Scenario(OneStream, 3, 1, {FALSE}, FALSE, TRUE, TRUE)}
=============================================================================
