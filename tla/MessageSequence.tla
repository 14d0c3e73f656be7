--------------------------- MODULE MessageSequence ---------------------------
(***************************************************************************)
(* The per-stream message sequence rules, as the library's developer mode  *)
(* enforces them on everything a message iterator's "next" method returns  *)
(* (src/lib/graph/iterator.c), next to the rules of the message            *)
(* interchange protocol (MIP) they stand for.                              *)
(*                                                                         *)
(* A message is a record: its type, its stream, its packet and its         *)
(* beginning and end default clock snapshots (nanoseconds from origin,     *)
(* NoCs when the message has none; "end" only differs from "begin" for     *)
(* discarded items messages).                                              *)
(*                                                                         *)
(*   SB, SE  stream beginning, end        PB, PE  packet beginning, end    *)
(*   EV      event                        DE, DP  discarded events, packets*)
(*   IN      message iterator inactivity (belongs to no stream)            *)
(***************************************************************************)
EXTENDS Integers

CONSTANTS
    Streams,    \* the streams whose messages an iterator returns
    Packets,    \* packet objects
    NoPacket,   \* NULL, as a packet
    NoStream    \* what get_stream_from_msg() returns for an IN message

ASSUME SequenceAssumption ==
    /\ NoPacket \notin Packets
    /\ NoStream \notin Streams

NoCs == -1

StreamTypes == {"SB", "SE", "PB", "PE", "EV", "DE", "DP"}

\* The capabilities of a stream class the sequence rules look at.  The
\* preconditions of the stream class setters make discarded packets imply packets.
Classes == {c \in [packets : BOOLEAN, discEvents : BOOLEAN, discPackets : BOOLEAN] :
               c.discPackets => c.packets}

\* The message types which one can create for a stream of class c.
CreatableTypes(c) ==
    {"SB", "SE", "EV"}
      \cup (IF c.packets THEN {"PB", "PE"} ELSE {})
      \cup (IF c.discEvents THEN {"DE"} ELSE {})
      \cup (IF c.discPackets THEN {"DP"} ELSE {})

\* The packets which a message of this type may have: the packet messages of
\* a stream, and its events when its class supports packets, have one.
CreatablePackets(c, type) ==
    IF type \in {"PB", "PE"} \/ (type = "EV" /\ c.packets) THEN Packets ELSE {NoPacket}

-----------------------------------------------------------------------------
(* The validator: struct per_stream_state and its updates.                 *)

If(cond, types) == IF cond THEN types ELSE {}

\* Plausible slip: the DE case forgets that the stream may be within a packet.
update_expected_msg_type_NoPacketTest(c, cur_packet, type) ==
    CASE type = "DE" -> {"DE", "SE"} \cup If(c.packets, {"PB"} \cup If(c.discPackets, {"DP"}))
                                     \cup If(~c.packets, {"EV"})
      [] type = "SB" -> {"SE"} \cup If(c.packets, {"PB"} \cup If(c.discPackets, {"DP"}))
                               \cup If(~c.packets, {"EV"}) \cup If(c.discEvents, {"DE"})
      [] type = "SE" -> {}
      [] type = "EV" -> {"EV", IF c.packets THEN "PE" ELSE "SE"} \cup If(c.discEvents, {"DE"})
      [] type = "PB" -> {"EV", "PE"} \cup If(c.discEvents, {"DE"})
      [] type = "PE" -> {"PB", "SE"} \cup If(c.discEvents, {"DE"}) \cup If(c.discPackets, {"DP"})
      [] type = "DP" -> {"DP", "PB", "SE"} \cup If(c.discEvents, {"DE"})

\* The types which may follow a message of this type.
update_expected_msg_type(c, cur_packet, type) ==
    CASE type = "SB" -> {"SE"} \cup If(c.packets, {"PB"} \cup If(c.discPackets, {"DP"}))
                               \cup If(~c.packets, {"EV"}) \cup If(c.discEvents, {"DE"})
      [] type = "SE" -> {}
      [] type = "EV" -> {"EV", IF c.packets THEN "PE" ELSE "SE"} \cup If(c.discEvents, {"DE"})
      [] type = "PB" -> {"EV", "PE"} \cup If(c.discEvents, {"DE"})
      [] type = "PE" -> {"PB", "SE"} \cup If(c.discEvents, {"DE"}) \cup If(c.discPackets, {"DP"})
      [] type = "DE" -> IF cur_packet # NoPacket
                        THEN {"DE", "EV", "PE"}
                        ELSE {"DE", "SE"}
                               \cup If(c.packets, {"PB"} \cup If(c.discPackets, {"DP"}))
                               \cup If(~c.packets, {"EV"})
      [] type = "DP" -> {"DP", "PB", "SE"} \cup If(c.discEvents, {"DE"})

\* What get_per_stream_state() creates for a stream without messages yet.
FreshState == [seen |-> FALSE, cur_packet |-> NoPacket, expected |-> {"SB"}]

StreamStates == [seen : BOOLEAN, cur_packet : Packets \cup {NoPacket}, expected : SUBSET StreamTypes]

assert_post_dev_expected_sequence(st, type) == type \in st.expected

\* The plain assertions of assert_post_dev_expected_packet().
CurPacketAsserts(st, type) ==
    /\ type = "PB" => st.cur_packet = NoPacket
    /\ type = "PE" => st.cur_packet # NoPacket

\* Its post-condition: an event or a packet end message is in the open packet.
assert_post_dev_expected_packet(st, type, packet) ==
    type \in {"EV", "PE"} => packet = st.cur_packet

\* The state of the stream once the message is accepted.
ValidatorStep(c, st, type, packet) ==
    [seen       |-> TRUE,
     expected   |-> update_expected_msg_type(c, st.cur_packet, type),
     cur_packet |-> CASE type = "PB" -> packet
                      [] type = "PE" -> NoPacket
                      [] OTHER -> st.cur_packet]

\* assert_post_dev_next() when "next" returns END: every known stream is ended.
StreamIsEnded(st) == st.seen => st.expected = {}

-----------------------------------------------------------------------------
(* The protocol's own rules, as regular expressions over one stream:       *)
(*     without packets:  SB (EV | DE)* SE                                  *)
(*     with packets:     SB ((PB (EV | DE)* PE) | DE | DP)* SE             *)
(* "none": no message yet; "stream": between SB and SE and not within a    *)
(* packet; "packet": between PB and PE; "ended": after SE.                 *)

Phases == {"none", "stream", "packet", "ended"}

MipAllows(c, phase, type) ==
    CASE phase = "none"   -> type = "SB"
      [] phase = "stream" -> type \in {"SE", "DE"} \cup (IF c.packets THEN {"PB", "DP"} ELSE {"EV"})
      [] phase = "packet" -> type \in {"EV", "DE", "PE"}
      [] phase = "ended"  -> FALSE

MipNext(phase, type) ==
    CASE type = "SB" -> "stream"
      [] type = "PB" -> "packet"
      [] type = "PE" -> "stream"
      [] type = "SE" -> "ended"
      [] OTHER -> phase
=============================================================================
