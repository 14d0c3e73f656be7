------------------------------- MODULE CtfTrace -------------------------------
(***************************************************************************)
(* What a sink.ctf.fs component leaves on the file system and what a       *)
(* src.ctf.fs component finds there, with the messages on both sides: the  *)
(* data which the modules about CTF traces share.                          *)
(*                                                                         *)
(* The payload of an event is left out: an event record is its timestamp.  *)
(* Times are raw values of one clock; NoCs stands for a missing one, and   *)
(* also for the UINT64_C(-1) which both components use for "not set".      *)
(***************************************************************************)
EXTENDS MessageSequence, Sequences, FiniteSets

NoCount == -1       \* no counter snapshot, no count, or no sequence number
NoId == -1          \* a packet header without a data stream ID

\* The properties of a stream class which decide what is written and read.
CtfClasses ==
    {c \in [packets : BOOLEAN, discEvents : BOOLEAN, discPackets : BOOLEAN, clock : BOOLEAN,
            tsBegin : BOOLEAN, tsEnd : BOOLEAN, discEventsCs : BOOLEAN, discPacketsCs : BOOLEAN] :
        \* the preconditions of the setters of a stream class
        /\ c.tsBegin \/ c.tsEnd => c.packets /\ c.clock
        /\ c.discPackets => c.packets
        /\ c.discEventsCs => c.discEvents /\ c.clock
        /\ c.discPacketsCs => c.discPackets /\ c.clock}

\* A message: "begin" is its only clock snapshot but for discarded items.
Message(type, s, b, e, count) ==
    [type |-> type, stream |-> s, begin |-> b, end |-> e, count |-> count]

\* A packet in a data stream file: what its header and its context say (NoCs or
\* NoCount for an absent field), the timestamps of its event records, and whether
\* what follows them can be decoded.
Packet(s, b, e, disc, seq, events, ok) ==
    [stream |-> s, begin |-> b, end |-> e, disc |-> disc, seq |-> seq, events |-> events,
     ok |-> ok]

\* The size of a packet: its header and context, and its event records.
Size(p) == 1 + Len(p.events)
=============================================================================
