---------------------------- MODULE TrimmerProofs ----------------------------
(* The trimmer, for every range, every set of streams and every conforming *)
(* upstream iterator: its assertions hold, and its output is legal and is  *)
(* the range.                                                              *)
EXTENDS Trimmer, FiniteSetTheorems, TLAPS

\* The time given to the provers for each leaf.
USE SMTT(20), ZenonT(20)

-----------------------------------------------------------------------------
(* Clock conversions.                                                      *)

LEMMA DivFact ==
    ASSUME NEW a \in Nat, NEW b \in Nat \ {0}
    PROVE  a \div b \in Nat /\ b * (a \div b) <= a
OBVIOUS

LEMMA DivBound ==
    ASSUME NEW a \in Nat, NEW b \in Nat \ {0}, NEW q \in Nat, a <= b * q
    PROVE  a \div b <= q
OBVIOUS

LEMMA DivMonotone ==
    ASSUME NEW a \in Nat, NEW c \in Nat, a <= c, NEW b \in Nat \ {0}
    PROVE  a \div b <= c \div b
OBVIOUS

\* A clock value is a time which is not before the origin of the clock.
LEMMA NsFact ==
    ASSUME NEW cc, IsClockClass(cc), NEW raw \in Nat
    PROVE  /\ bt_util_get_base_offset_ns(cc) \in Nat
           /\ bt_util_ns_from_origin_clock_class(cc, raw) \in Nat
           /\ bt_util_get_base_offset_ns(cc) <= bt_util_ns_from_origin_clock_class(cc, raw)
<1>1. /\ cc.offset_seconds \in Nat /\ cc.offset_cycles \in Nat /\ cc.frequency \in Nat \ {0}
  BY DEF IsClockClass, ClockClasses
<1>2. NsPerSecond * cc.offset_cycles \in Nat /\ NsPerSecond * raw \in Nat
  BY <1>1, NsPerSecondAssumption
<1>3. /\ bt_util_ns_from_value(cc.frequency, cc.offset_cycles) \in Nat
      /\ bt_util_ns_from_value(cc.frequency, raw) \in Nat
  BY <1>1, <1>2, DivFact, Zenon DEF bt_util_ns_from_value
<1>4. cc.offset_seconds * NsPerSecond \in Nat
  BY <1>1, NsPerSecondAssumption
<1> QED
  BY <1>3, <1>4 DEF bt_util_get_base_offset_ns, bt_util_ns_from_origin_clock_class

\* Time goes on with the values of a clock.
LEMMA NsMonotone ==
    ASSUME NEW cc, IsClockClass(cc), NEW a \in Nat, NEW c \in Nat, a <= c
    PROVE  bt_util_ns_from_origin_clock_class(cc, a) <= bt_util_ns_from_origin_clock_class(cc, c)
<1>1. cc.frequency \in Nat \ {0} /\ bt_util_get_base_offset_ns(cc) \in Nat
  BY NsFact DEF IsClockClass, ClockClasses
<1>2. NsPerSecond * a \in Nat /\ NsPerSecond * c \in Nat /\ NsPerSecond * a <= NsPerSecond * c
  BY NsPerSecondAssumption
<1>3. /\ bt_util_ns_from_value(cc.frequency, a) \in Nat /\ bt_util_ns_from_value(cc.frequency, c) \in Nat
      /\ bt_util_ns_from_value(cc.frequency, a) <= bt_util_ns_from_value(cc.frequency, c)
  BY <1>1, <1>2, DivFact, DivMonotone, Zenon DEF bt_util_ns_from_value
<1> QED BY <1>1, <1>3 DEF bt_util_ns_from_origin_clock_class

\* The time of the clock value of a time is that time or before it: both
\* conversions round down.
LEMMA RoundedNsFact ==
    ASSUME NEW cc, IsClockClass(cc), NEW ns \in Nat, ClockValueExists(cc, ns)
    PROVE  /\ bt_common_clock_value_from_ns_from_origin(cc, ns) \in Nat
           /\ RoundedNs(cc, ns) \in Nat /\ RoundedNs(cc, ns) <= ns
<1> DEFINE base == bt_util_get_base_offset_ns(cc)
           f == cc.frequency
           value == ns - base
           periods == value \div NsPerSecond
           rem == value - periods * NsPerSecond
           part == (f * rem) \div NsPerSecond
           cycles == part + periods * f
<1>1. base \in Nat /\ f \in Nat \ {0} /\ NsPerSecond \in Nat \ {0}
  BY NsFact, NsPerSecondAssumption DEF IsClockClass, ClockClasses
<1>2. value \in Nat
  BY <1>1 DEF ClockValueExists
<1> HIDE DEF base, f, value
<1>3. periods \in Nat /\ NsPerSecond * periods <= value
  BY <1>1, <1>2, DivFact, Zenon
<1> HIDE DEF periods
<1>4. rem \in Nat
  BY <1>1, <1>2, <1>3
<1> HIDE DEF rem
<1>5. part \in Nat /\ NsPerSecond * part <= f * rem
  <2>1. f * rem \in Nat
    BY <1>1, <1>4
  <2> QED BY <1>1, <2>1, DivFact, Zenon
<1> HIDE DEF part
<1>6. periods * f \in Nat /\ cycles \in Nat
  BY <1>1, <1>3, <1>5
<1>7. NsPerSecond * cycles = NsPerSecond * part + NsPerSecond * (periods * f)
  BY <1>1, <1>5, <1>6
<1>8. NsPerSecond * (periods * f) = f * (periods * NsPerSecond)
  BY <1>1, <1>3
<1>9. f * rem + f * (periods * NsPerSecond) = f * value
  BY <1>1, <1>2, <1>3, <1>4 DEF rem
<1>10. NsPerSecond * cycles <= f * value
  BY <1>1, <1>2, <1>3, <1>4, <1>5, <1>6, <1>7, <1>8, <1>9
<1>11. NsPerSecond * cycles \in Nat
  BY <1>1, <1>6
<1> HIDE DEF cycles
<1>12. (NsPerSecond * cycles) \div f \in Nat /\ (NsPerSecond * cycles) \div f <= value
  BY <1>1, <1>2, <1>10, <1>11, DivFact, DivBound, Zenon
<1>13. /\ RoundedNs(cc, ns) = base + (NsPerSecond * cycles) \div f
       /\ bt_common_clock_value_from_ns_from_origin(cc, ns) = cycles
  BY Zenon DEF RoundedNs, bt_util_ns_from_origin_clock_class, bt_util_ns_from_value,
         bt_common_clock_value_from_ns_from_origin, base, f, value, periods, rem, part, cycles
<1> QED
  BY <1>1, <1>2, <1>6, <1>12, <1>13 DEF value

-----------------------------------------------------------------------------
(* The inductive invariant.                                                *)

\* The range is known and upstream is at its beginning or after it.
InRange == state \in {"TRIM", "ENDING", "ENDED"}

\* Messages pass: the trimmer is not ending its streams, and nothing failed.
Passing == state = "TRIM" /\ within # "ending" /\ Running

PhaseType == [Streams -> Phases]
PacketType == [Streams -> Packets \cup {NoPacket}]
UpType == [phase : PhaseType, packet : PacketType, now : Nat, left : Nat]
Verdicts == {"legal", "back in time", "out of sequence"}
OutRecord == [phase : PhaseType, packet : PacketType, last : Nat, reach : Nat, count : Nat,
              verdict : Verdicts]

OutType ==
    /\ out \in OutRecord
    /\ cut \in Messages \cup {NoMessage}

\* An upstream stream is in a packet when its phase says so, and its class allows it.
Upstream ==
    \A s \in Streams :
        /\ up.phase[s] = "packet" => up.packet[s] \in Packets /\ env.ClassOf[s].packets
        /\ up.phase[s] # "packet" => up.packet[s] = NoPacket

\* The clock value of the end of the range is not the last one of the range.
EndIsRounded == \E s \in Used : Ns(s, ClippedEnd(s) + 1) <= end.ns

\* Where the calls are: the assertion of state_set_trimmer_iterator_bounds() can only
\* fail after a seek which asked to try again, and the precondition of the creation of
\* clipped discarded items only when the end of the range is rounded.
Control ==
    /\ within = "seek" => state = "SET_BOUNDS_NS_FROM_ORIGIN"
    /\ within \in {"batch", "ending"} => state = "TRIM"
    /\ state = "SET_BOUNDS_NS_FROM_ORIGIN" /\ within = "no" /\ begin.is_set /\ end.is_set =>
          status \in {"AGAIN", "ERROR"}
    /\ state = "ENDED" <=> status = "END" /\ state # "SET_BOUNDS_NS_FROM_ORIGIN"
    /\ aborted # "no" =>
          \/ aborted = "a bound is not set" /\ status = "AGAIN"
          \/ aborted = "ends before its beginning" /\ EndIsRounded

\* Nothing was pushed before the initial seek.
Untouched ==
    ~InRange =>
        /\ DOMAIN stream_states = {} /\ cut = NoMessage
        /\ out.phase = NoPhase /\ out.packet = NoOpenPacket /\ out.verdict = "legal"
        /\ out.last = 0 /\ out.reach = 0 /\ out.count = 0

\* The streams which are open in the output: they are supported, they had a time if
\* a packet is open, and the end of the range is a time of their clock if they had one.
Known ==
    \A s \in DOMAIN stream_states :
        /\ IsSupported(env.ClassOf[s])
        /\ stream_states[s].cur_packet # NoPacket => stream_states[s].seen_clock_snapshot
        /\ stream_states[s].seen_clock_snapshot /\ ~end.is_infinite =>
              \/ ClockValueExists(ClockOf(s), end.ns)
              \/ within = "ending" /\ cut.type \in {"DE", "DP"} /\ cut.stream = s

\* While messages pass, downstream is where upstream is.
Follows ==
    Passing =>
        /\ out.phase = up.phase /\ out.packet = up.packet /\ out.last <= up.now
        /\ out.count = env.MaxMsgs - up.left
        /\ DOMAIN stream_states = {s \in Streams : up.phase[s] \in {"stream", "packet"}}
        /\ \A s \in DOMAIN stream_states : stream_states[s].cur_packet = up.packet[s]
        /\ out.verdict = "legal" /\ cut = NoMessage

\* Why the range ended.
CutIsBeyond ==
    IF cut = NoMessage THEN UpstreamIsOver
    ELSE InactivityCut \/ (~end.is_infinite /\ get_msg_ns_from_origin(cut) > end.ns)

\* While the streams are ended, those left are where upstream is, the others are ended.
Ending ==
    state = "TRIM" /\ within = "ending" =>
        /\ CutIsBeyond
        /\ \A s \in Streams :
              IF s \in DOMAIN stream_states
              THEN /\ up.phase[s] \in {"stream", "packet"} /\ out.phase[s] = up.phase[s]
                   /\ out.packet[s] = up.packet[s] /\ stream_states[s].cur_packet = up.packet[s]
              ELSE out.phase[s] = IF up.phase[s] = "none" THEN "none" ELSE "ended"

AllEnded ==
    state \in {"ENDING", "ENDED"} =>
        /\ CutIsBeyond
        /\ ~InactivityCut =>
              \A s \in Streams : out.phase[s] = IF up.phase[s] = "none" THEN "none" ELSE "ended"

\* The times of the output.
InTime ==
    /\ InRange /\ ~end.is_infinite => out.last <= end.ns /\ out.reach <= end.ns
    /\ out.verdict # "out of sequence"
    /\ out.verdict = "back in time" => \E s \in Used : RoundedNs(ClockOf(s), end.ns) # end.ns

Inv ==
    /\ TypeOK /\ OutType
    /\ Upstream /\ Control /\ Untouched /\ Known
    /\ Follows /\ Ending /\ AllEnded /\ InTime

-----------------------------------------------------------------------------
(* Facts about the environment and its messages.                           *)

LEMMA EnvFact ==
    ASSUME TypeOK
    PROVE  /\ Used \subseteq Streams /\ \A s \in Used : env.ClassOf[s] \in TrimmerClasses
           /\ \A s \in Used \cup {NoStream} : IsClockClass(ClockOf(s))
           /\ env.Types \subseteq StreamTypes \cup {"IN"}
           /\ env.MaxMsgs \in Nat /\ env.MaxRaw \in Nat
           /\ env.Begin \in BoundParams /\ env.End \in BoundParams
<1>1. env \in ScenarioType
  BY TrimmerAssumption, Zenon DEF TypeOK
<1>2. env.ClassOf \in UNION {[S -> TrimmerClasses] : S \in SUBSET Streams}
  BY <1>1, Zenon DEF ScenarioType
<1>3. PICK S \in SUBSET Streams : env.ClassOf \in [S -> TrimmerClasses]
  BY <1>2, Zenon
<1>4. Used \subseteq Streams /\ \A s \in Used : env.ClassOf[s] \in TrimmerClasses
  BY <1>3, Zenon DEF Used
<1>5. \A s \in Used \cup {NoStream} : IsClockClass(ClockOf(s))
  BY <1>4, TrimmerAssumption, SequenceAssumption, Zenon DEF TypeOK, ClockOf
<1>6. /\ env.Types \subseteq StreamTypes \cup {"IN"}
      /\ env.MaxMsgs \in Nat /\ env.MaxRaw \in Nat
      /\ env.Begin \in BoundParams /\ env.End \in BoundParams
  BY <1>1, Zenon DEF ScenarioType
<1> QED BY <1>4, <1>5, <1>6, Zenon

MessageType ==
    [type : StreamTypes \cup {"IN"}, stream : Used \cup {NoStream}, packet : Packets \cup {NoPacket},
     begin : Nat \cup {NoCs}, end : Nat \cup {NoCs}]

LEMMA MessageFact ==
    ASSUME TypeOK, NEW m \in Messages
    PROVE  m \in MessageType /\ (m.type = "IN" <=> m.stream = NoStream)
<1> DEFINE Raw == {NoCs} \cup 0 .. env.MaxRaw
           Types == env.Types \cup {"SB", "SE", "PE"}
<1>1. /\ Raw \subseteq Nat \cup {NoCs} /\ Types \subseteq StreamTypes \cup {"IN"}
      /\ NoStream \notin Used
  BY EnvFact, SequenceAssumption DEF StreamTypes
<1>2. \/ \E b \in Raw : m = Message("IN", NoStream, NoPacket, b, b)
      \/ \E type \in Types \ {"DE", "DP", "IN"}, s \in Used, p \in Packets \cup {NoPacket}, b \in Raw :
            m = Message(type, s, p, b, b)
      \/ \E type \in Types \cap {"DE", "DP"}, s \in Used, b \in Raw, e \in Raw :
            m = Message(type, s, NoPacket, b, e)
  BY DEF Messages
<1> HIDE DEF Raw, Types
<1> QED BY <1>1, <1>2 DEF Message, MessageType

\* The time of a message with a clock snapshot.
LEMMA TimeFact ==
    ASSUME TypeOK, NEW m \in MessageType
    PROVE  /\ m.begin = NoCs => get_msg_ns_from_origin(m) = NoCs
           /\ m.begin # NoCs =>
                 /\ get_msg_ns_from_origin(m) \in Nat /\ get_msg_ns_from_origin(m) # NoCs
                 /\ ClockValueExists(ClockOf(m.stream), get_msg_ns_from_origin(m))
<1>1. m.begin = NoCs => get_msg_ns_from_origin(m) = NoCs
  BY Zenon DEF get_msg_ns_from_origin, Ns
<1>2. ASSUME m.begin # NoCs
      PROVE  /\ get_msg_ns_from_origin(m) \in Nat
             /\ ClockValueExists(ClockOf(m.stream), get_msg_ns_from_origin(m))
  <2>1. m.begin \in Nat /\ IsClockClass(ClockOf(m.stream))
    BY <1>2, EnvFact, Zenon DEF MessageType
  <2>2. get_msg_ns_from_origin(m) = bt_util_ns_from_origin_clock_class(ClockOf(m.stream), m.begin)
    BY <1>2, Zenon DEF get_msg_ns_from_origin, Ns
  <2> QED BY <2>1, <2>2, NsFact, Zenon DEF ClockValueExists
<1> QED BY <1>1, <1>2 DEF NoCs

\* Where streams and packets are after a message.
PhaseNext(phase, m) ==
    IF m.stream = NoStream THEN phase ELSE [phase EXCEPT ![m.stream] = MipNext(@, m.type)]
PacketNext(packet, m) ==
    IF m.stream = NoStream THEN packet
    ELSE [packet EXCEPT ![m.stream] = CASE m.type = "PB" -> m.packet [] m.type = "PE" -> NoPacket [] OTHER -> @]

LEMMA NextTypes ==
    ASSUME TypeOK, NEW m \in MessageType, NEW phase \in PhaseType, NEW packet \in PacketType
    PROVE  PhaseNext(phase, m) \in PhaseType /\ PacketNext(packet, m) \in PacketType
<1>1. \A p \in Phases : MipNext(p, m.type) \in Phases
  BY Zenon DEF MipNext, Phases
<1>2. m.packet \in Packets \cup {NoPacket}
  BY Zenon DEF MessageType
<1> QED BY <1>1, <1>2, Zenon DEF PhaseNext, PacketNext, PhaseType, PacketType

LEMMA NeededIsNat ==
    ASSUME TypeOK, NEW w
    PROVE  NeededBy(w) \in Nat
<1>1. IsFiniteSet(Used)
  BY EnvFact, TrimmerAssumption, FS_Subset, Zenon
<1>2. \A P : P \in SUBSET Used => Cardinality(P) \in Nat
  BY <1>1, FS_Subset, FS_CardinalityType, Zenon
<1> QED BY <1>2 DEF NeededBy

LEMMA AdvanceFact ==
    ASSUME TypeOK, NEW m \in MessageType, Offers(m)
    PROVE  /\ Advance(m) \in UpType
           /\ Advance(m).phase = PhaseNext(up.phase, m) /\ Advance(m).packet = PacketNext(up.packet, m)
           /\ Advance(m).now = IF m.begin = NoCs THEN up.now ELSE get_msg_ns_from_origin(m)
           /\ up.now <= Advance(m).now
           /\ Advance(m).left = up.left - 1
<1>1. up \in UpType
  BY Zenon DEF TypeOK, UpType, PhaseType, PacketType
<1>2. PICK phase \in PhaseType : phase = PhaseNext(up.phase, m)
  BY <1>1, NextTypes, Zenon DEF UpType
<1>3. PICK packet \in PacketType : packet = PacketNext(up.packet, m)
  BY <1>1, NextTypes, Zenon DEF UpType
<1>4. Follow(up, m) = [phase |-> phase, packet |-> packet, now |-> up.now, left |-> up.left]
  BY <1>1, <1>2, <1>3, Zenon DEF Follow, PhaseNext, PacketNext, UpType
<1>5. up.left - 1 \in Nat
  <2>1. up.left > NeededBy(Follow(up, m)) /\ up.left \in Nat
    BY <1>1, Zenon DEF Offers, UpType
  <2> QED BY <2>1, NeededIsNat
<1>6. PICK now \in Nat : now = (IF m.begin = NoCs THEN up.now ELSE get_msg_ns_from_origin(m)) /\ up.now <= now
  BY <1>1, TimeFact DEF UpType, Offers
<1>7. Advance(m) = [phase |-> phase, packet |-> packet, now |-> now, left |-> up.left - 1]
  BY <1>4, <1>6 DEF Advance
<1> QED BY <1>2, <1>3, <1>5, <1>6, <1>7 DEF UpType

LEMMA PushFact ==
    ASSUME TypeOK, NEW o \in OutRecord, NEW m \in MessageType, NEW t, t \in Nat \cup {NoCs},
           NEW u, u \in Nat \cup {NoCs}
    PROVE  /\ push_message(o, m, t, u) \in OutRecord
           /\ push_message(o, m, t, u).phase = PhaseNext(o.phase, m)
           /\ push_message(o, m, t, u).packet = PacketNext(o.packet, m)
           /\ push_message(o, m, t, u).last = IF t = NoCs THEN o.last ELSE t
           /\ push_message(o, m, t, u).verdict = VerdictOn(o, m, t)
           /\ push_message(o, m, t, u).reach = IF u > o.reach THEN u ELSE o.reach
           /\ push_message(o, m, t, u).count = o.count + 1
<1>1. PICK phase \in PhaseType : phase = PhaseNext(o.phase, m)
  BY NextTypes, Zenon DEF OutRecord
<1>2. PICK packet \in PacketType : packet = PacketNext(o.packet, m)
  BY NextTypes, Zenon DEF OutRecord
<1>3. PICK verdict \in Verdicts : verdict = VerdictOn(o, m, t)
  BY Zenon DEF VerdictOn, OutRecord, Verdicts
<1>4. PICK last \in Nat : last = IF t = NoCs THEN o.last ELSE t
  BY Zenon DEF OutRecord
<1>5. Follow(o, m) = [phase |-> phase, packet |-> packet, last |-> o.last, reach |-> o.reach, count |-> o.count,
                      verdict |-> o.verdict]
  BY <1>1, <1>2, Zenon DEF Follow, PhaseNext, PacketNext, OutRecord
<1>6. o.reach \in Nat /\ o.count \in Nat
  BY Zenon DEF OutRecord
<1>7. PICK reach \in Nat : reach = IF u > o.reach THEN u ELSE o.reach
  BY <1>6 DEF NoCs
<1>8. PICK count \in Nat : count = o.count + 1
  BY <1>6
<1>9. push_message(o, m, t, u) = [phase |-> phase, packet |-> packet, last |-> last, reach |-> reach, count |-> count,
                                  verdict |-> verdict]
  BY <1>3, <1>4, <1>5, <1>7, <1>8 DEF push_message
<1> QED BY <1>1, <1>2, <1>3, <1>4, <1>7, <1>8, <1>9 DEF OutRecord

-----------------------------------------------------------------------------
(* Steps which only move the control.                                      *)

data == <<env, up, boundVars, stream_states, out, cut>>

LEMMA SameEnv ==
    ASSUME env' = env
    PROVE  Used' = Used /\ Messages' = Messages /\ \A s : ClockOf(s)' = ClockOf(s)
BY DEF Used, Messages, ClockOf

LEMMA SameRounding ==
    ASSUME UNCHANGED <<env, boundVars>>
    PROVE  EndIsRounded' = EndIsRounded
BY Zenon DEF boundVars, EndIsRounded, Used, Ns, ClippedEnd, ClockOf

LEMMA SameCut ==
    ASSUME UNCHANGED <<env, up, boundVars, cut>>
    PROVE  InactivityCut' = InactivityCut /\ CutIsBeyond' = CutIsBeyond
BY Zenon DEF boundVars, InactivityCut, CutIsBeyond, UpstreamIsOver, get_msg_ns_from_origin, Ns, ClockOf

\* What such a step preserves, given where it may go.
LEMMA ControlFrame ==
    ASSUME Inv, UNCHANGED data, InRange' = InRange, Passing' => Passing,
           within = "ending" => within' = "ending",
           state' \in {"ENDING", "ENDED"} => state \in {"ENDING", "ENDED"}
    PROVE  /\ OutType' /\ Upstream' /\ Untouched' /\ Known' /\ Follows' /\ AllEnded' /\ InTime'
           /\ within' = within /\ state' = state => Ending'
<1>1. OutType' /\ Upstream' /\ Untouched'
  BY SameEnv, Zenon DEF Inv, data, OutType, Upstream, Untouched
<1>2. Known'
  BY SameEnv, Zenon DEF Inv, data, boundVars, Known
<1>3. Follows'
  BY Zenon DEF Inv, data, Follows
<1>4. AllEnded' /\ (within' = within /\ state' = state => Ending')
  BY SameCut, Zenon DEF Inv, data, AllEnded, Ending
<1>5. InTime'
  BY SameEnv, Zenon DEF Inv, data, boundVars, InTime
<1> QED BY <1>1, <1>2, <1>3, <1>4, <1>5, Zenon

LEMMA BoundsAlreadySetStep ==
    ASSUME Inv, BoundsAlreadySet
    PROVE  Inv'
<1>1. UNCHANGED <<data, state, queued, within, status>> /\ aborted' = "a bound is not set"
  BY Zenon DEF BoundsAlreadySet, data
<1>2. TypeOK'
  BY <1>1, SameEnv, Zenon DEF Inv, TypeOK, data, boundVars
<1>3. Control'
  BY <1>1, Zenon DEF Inv, Control, data, boundVars, BoundsAlreadySet, Running
<1>4. InRange' = InRange /\ ~Passing'
  BY <1>1, Zenon DEF InRange, Passing, Running
<1> QED BY <1>1, <1>2, <1>3, <1>4, ControlFrame, Zenon DEF Inv

LEMMA NoDateStep ==
    ASSUME Inv, NoDate
    PROVE  Inv'
<1>1. UNCHANGED <<data, state, queued, within, aborted>> /\ status' = "END"
  BY Zenon DEF NoDate, data
<1>2. TypeOK'
  BY <1>1, SameEnv, Zenon DEF Inv, TypeOK, data, boundVars
<1>3. Control'
  BY <1>1, Zenon DEF Inv, Control, data, boundVars, NoDate, Running
<1>4. InRange' = InRange /\ ~Passing'
  BY <1>1, Zenon DEF InRange, Passing, Running
<1> QED BY <1>1, <1>2, <1>3, <1>4, ControlFrame, Zenon DEF Inv

LEMMA EndOfBatchStep ==
    ASSUME Inv, EndOfBatch
    PROVE  Inv'
<1>1. UNCHANGED <<data, state, queued, status, aborted>> /\ within' = "no" /\ within = "batch" /\ state = "TRIM"
  BY Zenon DEF EndOfBatch, data
<1>2. TypeOK'
  BY <1>1, SameEnv, Zenon DEF Inv, TypeOK, data, boundVars
<1>3. Control'
  BY <1>1, Zenon DEF Inv, Control, data, boundVars, EndOfBatch, Running
<1>4. InRange' = InRange /\ (Passing' => Passing)
  BY <1>1, Zenon DEF InRange, Passing, Running
<1>5. Ending'
  BY <1>1, Zenon DEF Ending
<1> QED BY <1>1, <1>2, <1>3, <1>4, <1>5, ControlFrame, Zenon DEF Inv

LEMMA UpstreamAnswersStep ==
    ASSUME Inv, NEW answer \in {"AGAIN", "ERROR"}, UpstreamAnswers(answer)
    PROVE  Inv'
<1>1. UNCHANGED <<data, state, queued, within, aborted>> /\ status' = answer
  BY Zenon DEF UpstreamAnswers, data
<1>2. TypeOK'
  BY <1>1, SameEnv, Zenon DEF Inv, TypeOK, data, boundVars
<1>3. Control'
  BY <1>1, Zenon DEF Inv, Control, data, boundVars, UpstreamAnswers, Running
<1>4. InRange' = InRange /\ (Passing' => Passing)
  BY <1>1, Zenon DEF InRange, Passing, Running, UpstreamAnswers
<1> QED BY <1>1, <1>2, <1>3, <1>4, ControlFrame, Zenon DEF Inv

LEMMA FillArrayStep ==
    ASSUME Inv, FillArray
    PROVE  Inv'
<1>1. UNCHANGED <<data, state, within, aborted>> /\ status' = "OK"
  BY Zenon DEF FillArray, data
<1>2. queued' \in Nat
  <2>1. queued \in Nat /\ BatchSize \in Nat /\ queued' = IF queued > BatchSize THEN queued - BatchSize ELSE 0
    BY TrimmerAssumption, Zenon DEF FillArray, Inv, TypeOK
  <2> QED BY <2>1
<1>3. TypeOK'
  BY <1>1, <1>2, SameEnv, Zenon DEF Inv, TypeOK, data, boundVars
<1>4. Control'
  BY <1>1, Zenon DEF Inv, Control, data, boundVars, FillArray, Running
<1>5. InRange' = InRange /\ (Passing' => Passing)
  BY <1>1, Zenon DEF InRange, Passing, Running, FillArray
<1> QED BY <1>1, <1>3, <1>4, <1>5, ControlFrame, Zenon DEF Inv

LEMMA EndedStep ==
    ASSUME Inv, Ended
    PROVE  Inv'
<1>1. UNCHANGED <<data, queued, within, aborted>> /\ status' = "END" /\ state = "ENDING" /\ state' = "ENDED"
  BY Zenon DEF Ended, data
<1>2. TypeOK'
  BY <1>1, SameEnv, Zenon DEF Inv, TypeOK, data, boundVars
<1>3. Control'
  BY <1>1, Zenon DEF Inv, Control, data, boundVars, Ended, Running
<1>4. InRange' = InRange /\ ~Passing' /\ Ending'
  BY <1>1 DEF InRange, Passing, Running, Ending
<1> QED BY <1>1, <1>2, <1>3, <1>4, ControlFrame, Zenon DEF Inv

\* Upstream is over, so that no stream is left to end.
LEMMA UpstreamEndsStep ==
    ASSUME Inv, UpstreamEnds
    PROVE  Inv'
<1>1. /\ UNCHANGED <<data, state, queued, status, aborted>> /\ within = "no" /\ within' = "ending"
      /\ state = "TRIM" /\ Passing /\ UpstreamIsOver
  BY Zenon DEF UpstreamEnds, data, Passing
<1>2. TypeOK'
  BY <1>1, SameEnv, Zenon DEF Inv, TypeOK, data, boundVars
<1>3. Control'
  BY <1>1, Zenon DEF Inv, Control, data, boundVars, Passing, Running
<1>4. InRange' = InRange /\ ~Passing'
  BY <1>1, Zenon DEF InRange, Passing
<1>5. Ending'
  <2>1. CutIsBeyond'
    BY <1>1, SameCut, Zenon DEF Inv, Follows, CutIsBeyond, data
  <2>2. \A s \in Streams : s \notin DOMAIN stream_states /\ out.phase[s] = up.phase[s]
                            /\ up.phase[s] \in {"none", "ended"}
    BY <1>1, Zenon DEF Inv, Follows, UpstreamIsOver
  <2> QED BY <1>1, <2>1, <2>2, Zenon DEF Ending, data
<1> QED BY <1>1, <1>2, <1>3, <1>4, <1>5, ControlFrame, Zenon DEF Inv

-----------------------------------------------------------------------------
(* Finding the range and seeking its beginning.                            *)

BoundType == [is_set : BOOLEAN, is_infinite : BOOLEAN, ns : Nat, time : Nat]

LEMMA InitInv == Init => Inv
<1> SUFFICES ASSUME Init PROVE Inv
  BY Zenon
<1>1. env \in ScenarioType
  BY TrimmerAssumption, Zenon DEF Init
<1>2. env.Begin \in BoundParams /\ env.End \in BoundParams /\ env.MaxMsgs \in Nat
  BY <1>1, Zenon DEF ScenarioType
<1>3. begin \in BoundType /\ end \in BoundType
  BY <1>2, Zenon DEF Init, set_bound_from_param, Infinite, At, TimeOfDay, BoundParams, BoundType
<1>4. NoPhase \in PhaseType /\ NoOpenPacket \in PacketType
  BY Zenon DEF NoPhase, NoOpenPacket, PhaseType, PacketType, Phases
<1>5. up \in UpType /\ out \in OutRecord
  BY <1>2, <1>4, Zenon DEF Init, UpstreamFrom, UpType, OutRecord, Verdicts
<1>6. DOMAIN stream_states = {}
  BY DEF Init
<1>7. TypeOK
  BY <1>3, <1>5, <1>6, Zenon DEF Init, TypeOK, UpType, OutRecord, PhaseType, PacketType, BoundType, Verdicts
<1>8. OutType
  BY <1>5, Zenon DEF Init, OutType
<1>9. Upstream
  BY Zenon DEF Init, Upstream, UpstreamFrom, NoPhase, NoOpenPacket
<1>10. Control
  BY Zenon DEF Init, Control
<1>11. ~InRange
  BY Zenon DEF Init, InRange
<1>12. Untouched /\ Known
  BY <1>6, Zenon DEF Init, Untouched, Known
<1>13. Follows /\ Ending /\ AllEnded /\ InTime
  BY <1>11, Zenon DEF Init, Follows, Passing, Ending, AllEnded, InTime, InRange
<1> QED BY <1>7, <1>8, <1>9, <1>10, <1>12, <1>13, Zenon DEF Inv

\* A bound completed with the date of a message.
LEMMA BoundFact ==
    ASSUME NEW b \in BoundType, NEW ns \in Nat
    PROVE  set_trimmer_iterator_bound(b, ns) \in BoundType /\ set_trimmer_iterator_bound(b, ns).is_set
<1>1. PICK day \in Nat \ {0} : day = SecondsPerDay * NsPerSecond
  BY TrimmerAssumption, NsPerSecondAssumption
<1>2. PICK q \in Nat : q = ns \div day
  BY <1>1, DivFact, Zenon
<1>3. PICK start \in Nat : start = q * day
  BY <1>1, <1>2
<1>4. set_trimmer_iterator_bound(b, ns) = At(start + b.time)
  BY <1>1, <1>2, <1>3, Zenon DEF set_trimmer_iterator_bound
<1>5. start + b.time \in Nat
  BY DEF BoundType
<1> QED BY <1>4, <1>5 DEF At, BoundType

\* A message leaves every upstream stream where its class and its packet say.
LEMMA AdvanceUpstream ==
    ASSUME TypeOK, Upstream, NEW m \in MessageType, Offers(m), env' = env, up' = Advance(m)
    PROVE  Upstream'
<1>1. up'.phase = PhaseNext(up.phase, m) /\ up'.packet = PacketNext(up.packet, m)
  BY AdvanceFact, Zenon
<1>2. up.phase \in PhaseType /\ up.packet \in PacketType
  BY Zenon DEF TypeOK, PhaseType, PacketType
<1>3. CASE m.stream = NoStream
  BY <1>1, <1>3, Zenon DEF Upstream, PhaseNext, PacketNext
<1>4. CASE m.stream # NoStream
  <2>1. /\ m.stream \in Used /\ Used \subseteq Streams
        /\ m.type \in CreatableTypes(env.ClassOf[m.stream])
        /\ m.packet \in CreatablePackets(env.ClassOf[m.stream], m.type)
        /\ MipAllows(env.ClassOf[m.stream], up.phase[m.stream], m.type)
    BY <1>4, EnvFact, Zenon DEF Offers, IsLegal
  <2>2. ASSUME NEW s \in Streams, s # m.stream
        PROVE  up'.phase[s] = up.phase[s] /\ up'.packet[s] = up.packet[s]
    BY <1>1, <1>2, <1>4, <2>2, Zenon DEF PhaseNext, PacketNext, PhaseType, PacketType
  <2>3. /\ up'.phase[m.stream] = MipNext(up.phase[m.stream], m.type)
        /\ up'.packet[m.stream] = CASE m.type = "PB" -> m.packet [] m.type = "PE" -> NoPacket
                                    [] OTHER -> up.packet[m.stream]
    BY <1>1, <1>2, <1>4, <2>1, Zenon DEF PhaseNext, PacketNext, PhaseType, PacketType
  <2>4. /\ up'.phase[m.stream] = "packet" => up'.packet[m.stream] \in Packets /\ env.ClassOf[m.stream].packets
        /\ up'.phase[m.stream] # "packet" => up'.packet[m.stream] = NoPacket
    BY <1>2, <2>1, <2>3, Zenon DEF Upstream, MipNext, MipAllows, CreatableTypes, CreatablePackets, PhaseType, Phases
  <2> QED BY <2>2, <2>4, Zenon DEF Upstream
<1> QED BY <1>3, <1>4, Zenon

LEMMA FindDateStep ==
    ASSUME Inv, FindDate
    PROVE  Inv'
<1>1. PICK m \in Messages :
        /\ Offers(m) /\ up' = Advance(m)
        /\ IF HasNoClock(m) THEN status' = "ERROR" /\ UNCHANGED <<boundVars, within>>
           ELSE IF m.begin = NoCs THEN UNCHANGED <<boundVars, within, status>>
           ELSE /\ begin' = IF begin.is_set THEN begin
                            ELSE set_trimmer_iterator_bound(begin, get_msg_ns_from_origin(m))
                /\ end' = IF end.is_set THEN end
                          ELSE set_trimmer_iterator_bound(end, get_msg_ns_from_origin(m))
                /\ \/ within' = "seek" /\ UNCHANGED status
                   \/ status' = "ERROR" /\ UNCHANGED within
  BY Zenon DEF FindDate
<1>2. /\ UNCHANGED <<env, state, stream_states, queued, aborted, out, cut>>
      /\ Running /\ state = "SET_BOUNDS_NS_FROM_ORIGIN" /\ within = "no" /\ (~begin.is_set \/ ~end.is_set)
  BY Zenon DEF FindDate
<1>3. TypeOK /\ m \in MessageType
  BY MessageFact, Zenon DEF Inv
<1>4. up' \in UpType
  BY <1>1, <1>3, AdvanceFact, Zenon
<1>5. begin \in BoundType /\ end \in BoundType
  BY <1>3, Zenon DEF TypeOK, BoundType
<1>6. begin' \in BoundType /\ end' \in BoundType
  BY <1>1, <1>3, <1>5, TimeFact, BoundFact, Zenon DEF boundVars
<1>7. status' \in {status, "ERROR"} /\ within' \in {"no", "seek"}
  BY <1>1, <1>2, Zenon
<1>8. TypeOK'
  BY <1>2, <1>3, <1>4, <1>6, <1>7, SameEnv, Zenon DEF TypeOK, UpType, PhaseType, PacketType, BoundType
<1>9. Upstream'
  BY <1>1, <1>2, <1>3, AdvanceUpstream, Zenon DEF Inv
<1>10. Control'
  BY <1>1, <1>2, Zenon DEF Inv, Control, Running, boundVars
<1>11. ~InRange /\ ~InRange'
  BY <1>2, Zenon DEF InRange
<1>12. OutType'
  BY <1>2, SameEnv, Zenon DEF Inv, OutType
<1>13. Untouched' /\ Known'
  BY <1>2, <1>11, Zenon DEF Inv, Untouched, Known
<1>14. Follows' /\ Ending' /\ AllEnded' /\ InTime'
  BY <1>2, <1>11, Zenon DEF Inv, Untouched, Follows, Passing, Ending, AllEnded, InTime, InRange
<1> QED BY <1>8, <1>9, <1>10, <1>12, <1>13, <1>14, Zenon DEF Inv

LEMMA SeekStep ==
    ASSUME Inv, NEW answer \in {"OK", "AGAIN", "ERROR"}, state_seek_initially(answer)
    PROVE  Inv'
<1>1. /\ UNCHANGED <<env, boundVars, stream_states, queued, aborted, out, cut>> /\ within' = "no"
      /\ Running /\ (within = "seek" \/ state = "SEEK_INITIALLY")
      /\ status' = IF answer = "OK" THEN status ELSE answer
  BY Zenon DEF state_seek_initially
<1>2. ~InRange /\ state \in {"SET_BOUNDS_NS_FROM_ORIGIN", "SEEK_INITIALLY"}
  BY <1>1, Zenon DEF Inv, Control, InRange
<1>3. CASE answer = "OK"
  <2>1. /\ state' = "TRIM" /\ up' = UpstreamFrom(IF begin.is_infinite THEN 0 ELSE begin.ns) /\ UNCHANGED status
    BY <1>1, <1>3, Zenon DEF state_seek_initially
  <2>2. (IF begin.is_infinite THEN 0 ELSE begin.ns) \in Nat /\ env.MaxMsgs \in Nat
    BY EnvFact, Zenon DEF Inv, TypeOK
  <2>3. NoPhase \in PhaseType /\ NoOpenPacket \in PacketType
    BY Zenon DEF NoPhase, NoOpenPacket, PhaseType, PacketType, Phases
  <2>4. up' \in UpType /\ up'.phase = NoPhase /\ up'.packet = NoOpenPacket /\ up'.left = env.MaxMsgs
    BY <2>1, <2>2, <2>3, Zenon DEF UpstreamFrom, UpType
  <2>5. TypeOK'
    BY <1>1, <2>1, <2>4, SameEnv, Zenon DEF Inv, TypeOK, UpType, PhaseType, PacketType, boundVars
  <2>6. OutType' /\ Upstream'
    BY <1>1, <2>4, SameEnv, Zenon DEF Inv, OutType, Upstream, NoPhase, NoOpenPacket
  <2>7. Control' /\ Untouched'
    BY <1>1, <1>2, <2>1, Zenon DEF Inv, Control, Running, Untouched, InRange
  <2>8. Known'
    BY <1>1, <1>2, Zenon DEF Inv, Untouched, Known
  <2>9. out'.last <= up'.now
    BY <1>1, <1>2, <2>4 DEF Inv, Untouched, UpType
  <2>10. Follows'
    <3>1. out'.count = env.MaxMsgs - up'.left
      BY <1>1, <1>2, <2>2, <2>4 DEF Inv, Untouched
    <3> QED BY <1>1, <1>2, <2>4, <2>9, <3>1, Zenon DEF Inv, Untouched, Follows, NoPhase
  <2>11. Ending' /\ AllEnded'
    BY <1>1, <2>1, Zenon DEF Ending, AllEnded
  <2>12. out'.last = 0 /\ out'.reach = 0 /\ out'.verdict = "legal"
    BY <1>1, <1>2, Zenon DEF Inv, Untouched
  <2>13. InTime'
    <3>1. end.ns \in Nat /\ end' = end
      BY <1>1, Zenon DEF Inv, TypeOK, boundVars
    <3> QED BY <2>12, <3>1 DEF InTime
  <2> QED BY <2>5, <2>6, <2>7, <2>8, <2>10, <2>11, <2>13, Zenon DEF Inv
<1>4. CASE answer # "OK"
  <2>1. UNCHANGED <<data, state, queued, aborted>>
    BY <1>1, <1>4, Zenon DEF state_seek_initially, data
  <2>2. TypeOK'
    BY <1>1, <2>1, SameEnv, Zenon DEF Inv, TypeOK, data, boundVars
  <2>3. Control'
    BY <1>1, <1>2, <1>4, <2>1, Zenon DEF Inv, Control, data, boundVars, Running
  <2>4. InRange' = InRange /\ ~Passing' /\ Ending' /\ within # "ending"
    BY <1>1, <1>2, <2>1, Zenon DEF InRange, Passing, Ending, Inv, Control
  <2>5. state' \notin {"ENDING", "ENDED"}
    BY <1>2, <2>1, Zenon
  <2> QED BY <2>1, <2>2, <2>3, <2>4, <2>5, ControlFrame, Zenon DEF Inv
<1> QED BY <1>3, <1>4, Zenon

-----------------------------------------------------------------------------
(* Handling a message.                                                     *)

\* What is legal after upstream's messages is legal after the same messages downstream.
LEMMA SameLegal ==
    ASSUME out.phase = up.phase, out.packet = up.packet, NEW m, IsLegal(up, m)
    PROVE  IsLegal(out, m)
BY Zenon DEF IsLegal

\* Clipped discarded items of the range only end before their beginning when the clock
\* has a value after the one of the range's end and still in the range.
LEMMA ClippedFact ==
    ASSUME Inv, NEW m \in MessageType, m.stream \in Used, m.begin # NoCs, IsClipped(m), ~BeyondEnd(m),
           ClockValueExists(ClockOf(m.stream), end.ns), m.begin > ClippedEnd(m.stream)
    PROVE  EndIsRounded
<1> DEFINE cc == ClockOf(m.stream)
           last == ClippedEnd(m.stream)
<1>1. IsClockClass(cc) /\ end.ns \in Nat /\ m.begin \in Nat
  BY EnvFact, Zenon DEF Inv, TypeOK, MessageType
<1>2. last \in Nat
  BY <1>1, RoundedNsFact, Zenon DEF ClippedEnd
<1>3. m.begin > last
  BY Zenon
<1> HIDE DEF last
<1>4. last + 1 \in Nat /\ last + 1 # NoCs /\ last + 1 <= m.begin
  BY <1>1, <1>2, <1>3 DEF NoCs
<1>5. /\ bt_util_ns_from_origin_clock_class(cc, last + 1) <= bt_util_ns_from_origin_clock_class(cc, m.begin)
      /\ bt_util_ns_from_origin_clock_class(cc, last + 1) \in Nat
      /\ bt_util_ns_from_origin_clock_class(cc, m.begin) \in Nat
  BY <1>1, <1>4, NsFact, NsMonotone, Zenon
<1>6. Ns(m.stream, last + 1) = bt_util_ns_from_origin_clock_class(cc, last + 1)
  BY <1>4, Zenon DEF Ns
<1>7. get_msg_ns_from_origin(m) = bt_util_ns_from_origin_clock_class(cc, m.begin)
  BY Zenon DEF get_msg_ns_from_origin, Ns
<1> HIDE DEF cc
<1>8. ~(get_msg_ns_from_origin(m) > end.ns)
  <2>1. m.stream # NoStream /\ ~end.is_infinite /\ get_msg_ns_from_origin(m) # NoCs
    BY EnvFact, TimeFact, SequenceAssumption, Zenon DEF Inv, IsClipped
  <2> QED BY <2>1, Zenon DEF BeyondEnd
<1>9. Ns(m.stream, last + 1) <= end.ns
  BY <1>1, <1>5, <1>6, <1>7, <1>8
<1> QED BY <1>9, Zenon DEF EndIsRounded, last

\* While messages pass, the assertions of handle_message_with_stream() hold: the
\* trimmer knows the streams which upstream has begun and their packets, and the
\* classes which it supports have times on all their packets and discarded items.
LEMMA NoAssertion ==
    ASSUME Inv, Passing, NEW m \in MessageType, Offers(m)
    PROVE  AssertionOn(m) = "no" \/ (AssertionOn(m) = "ends before its beginning" /\ EndIsRounded)
<1>1. CASE m.stream = NoStream
  BY <1>1, Zenon DEF AssertionOn
<1>2. CASE m.stream # NoStream
  <2> DEFINE s == m.stream
             c == env.ClassOf[s]
  <2>1. /\ s \in Used /\ s \in Streams /\ m.type \in CreatableTypes(c)
        /\ MipAllows(c, up.phase[s], m.type) /\ (m.begin # NoCs) \in MayHaveCs(s, m.type)
    BY <1>2, EnvFact, Zenon DEF Inv, Offers, IsLegal
  <2>2. up.phase[s] \in Phases
    BY <2>1, Zenon DEF Inv, TypeOK
  <2>3. s \in DOMAIN stream_states <=> up.phase[s] \in {"stream", "packet"}
    BY <2>1, Zenon DEF Inv, Follows
  <2>4. CASE m.type = "SB"
    <3>1. s \notin DOMAIN stream_states
      BY <2>1, <2>2, <2>3, <2>4, Zenon DEF MipAllows, Phases
    <3> QED BY <1>2, <2>4, <3>1, Zenon DEF AssertionOn
  <2>5. CASE m.type # "SB"
    <3>1. s \in DOMAIN stream_states
      BY <2>1, <2>2, <2>3, <2>5, Zenon DEF MipAllows, Phases
    <3>2. IsSupported(c) /\ stream_states[s].cur_packet = up.packet[s]
      BY <3>1, Zenon DEF Inv, Known, Follows
    <3>3. m.type = "PB" => up.packet[s] = NoPacket
      BY <2>1, <2>2, Zenon DEF MipAllows, Phases, Inv, Upstream
    <3>4. m.type = "PE" => up.packet[s] # NoPacket
      BY <2>1, <2>2, SequenceAssumption, Zenon DEF MipAllows, Phases, Inv, Upstream
    <3>5. m.type \in {"PB", "PE", "DE", "DP"} => m.begin # NoCs
      <4>1. c \in TrimmerClasses
        BY <2>1, EnvFact, Zenon DEF Inv
      <4>2. m.type = "DP" => c.packets
        BY <2>1, <2>2, Zenon DEF MipAllows, Phases
      <4> QED BY <2>1, <3>2, <4>1, <4>2, Zenon DEF CreatableTypes, IsSupported, MayHaveCs, TrimmerClasses
    <3>6. IsClipped(m) => m.begin # NoCs
      BY <3>5, Zenon DEF IsClipped
    <3>7. /\ IsClipped(m) /\ ~BeyondEnd(m) /\ ClockValueExists(ClockOf(m.stream), end.ns)
          /\ m.begin > ClippedEnd(m.stream)
          => EndIsRounded
      BY <2>1, <3>6, ClippedFact, Zenon
    <3> QED BY <1>2, <2>5, <3>1, <3>2, <3>3, <3>4, <3>5, <3>7, Zenon DEF AssertionOn
  <2> QED BY <2>4, <2>5, Zenon
<1> QED BY <1>1, <1>2, Zenon

StateRecord == [seen_clock_snapshot : BOOLEAN, cur_packet : Packets \cup {NoPacket}]

\* The trimmer's view ss of the streams, when upstream is at the given phases and
\* packets, after a message m which passes.
View(ss, phase, packet, m) ==
    /\ DOMAIN ss = {x \in Streams : phase[x] \in {"stream", "packet"}}
    /\ \A x \in DOMAIN ss : ss[x] \in StateRecord /\ ss[x].cur_packet = packet[x]
    /\ \A x \in DOMAIN ss : x # m.stream => x \in DOMAIN stream_states /\ ss[x] = stream_states[x]
    /\ m.stream \in DOMAIN ss =>
          /\ m.type = "SB" \/ m.stream \in DOMAIN stream_states
          /\ ss[m.stream].cur_packet # NoPacket => ss[m.stream].seen_clock_snapshot
          /\ ss[m.stream].seen_clock_snapshot =>
                \/ m.begin # NoCs
                \/ m.stream \in DOMAIN stream_states /\ stream_states[m.stream].seen_clock_snapshot

\* The state of the message's stream, when it is not the first or the last one of it.
LEMMA SeenFact ==
    ASSUME NEW m \in MessageType, m.stream \in DOMAIN stream_states, stream_states[m.stream] \in StateRecord,
           m.type \in {"PB", "PE", "EV", "DE", "DP"}
    PROVE  \E st \in StateRecord :
              /\ StatesAfter(m) = [x \in DOMAIN stream_states \cup {m.stream} |->
                                      IF x = m.stream THEN st ELSE stream_states[x]]
              /\ st.cur_packet = CASE m.type = "PB" -> m.packet [] m.type = "PE" -> NoPacket
                                   [] OTHER -> stream_states[m.stream].cur_packet
              /\ st.seen_clock_snapshot <=> stream_states[m.stream].seen_clock_snapshot \/ m.begin # NoCs
<1>1. PICK seen \in BOOLEAN : seen = (stream_states[m.stream].seen_clock_snapshot \/ m.begin # NoCs)
  BY Zenon
<1>2. PICK packet \in Packets \cup {NoPacket} :
        packet = CASE m.type = "PB" -> m.packet [] m.type = "PE" -> NoPacket
                   [] OTHER -> stream_states[m.stream].cur_packet
  BY Zenon DEF MessageType, StateRecord
<1>3. PICK st \in StateRecord : st = [seen_clock_snapshot |-> seen, cur_packet |-> packet]
  BY Zenon DEF StateRecord
<1>4. StatesAfter(m) = [x \in DOMAIN stream_states \cup {m.stream} |->
                           IF x = m.stream THEN st ELSE stream_states[x]]
  <2>1. CASE m.type = "PB"
    BY <1>1, <1>2, <1>3, <2>1, Zenon DEF StatesAfter
  <2>2. CASE m.type = "PE"
    BY <1>1, <1>2, <1>3, <2>2, Zenon DEF StatesAfter
  <2>3. CASE m.type \in {"EV", "DE", "DP"}
    BY <1>1, <1>2, <1>3, <2>3, Zenon DEF StatesAfter
  <2> QED BY <2>1, <2>2, <2>3, Zenon
<1> QED BY <1>1, <1>2, <1>3, <1>4, Zenon

LEMMA ViewFact ==
    ASSUME Inv, Passing, NEW m \in MessageType, Offers(m), m.type = "IN" <=> m.stream = NoStream
    PROVE  View(StatesAfter(m), PhaseNext(up.phase, m), PacketNext(up.packet, m), m)
<1> DEFINE s == m.stream
           phase == PhaseNext(up.phase, m)
           packet == PacketNext(up.packet, m)
           ss == StatesAfter(m)
<1> SUFFICES View(ss, phase, packet, m)
  BY Zenon
<1>1. up.phase \in PhaseType /\ up.packet \in PacketType
  BY Zenon DEF Inv, TypeOK, PhaseType, PacketType
<1>2. /\ DOMAIN stream_states = {x \in Streams : up.phase[x] \in {"stream", "packet"}}
      /\ \A x \in DOMAIN stream_states : /\ stream_states[x].cur_packet = up.packet[x]
                                         /\ stream_states[x] \in StateRecord
      /\ \A x \in DOMAIN stream_states :
            stream_states[x].cur_packet # NoPacket => stream_states[x].seen_clock_snapshot
  BY Zenon DEF Inv, Follows, TypeOK, Known, StateRecord
<1>3. CASE s = NoStream
  <2>1. phase = up.phase /\ packet = up.packet
    BY <1>3, Zenon DEF PhaseNext, PacketNext
  <2>2. ss = stream_states
    BY <1>3, Zenon DEF StatesAfter
  <2>3. s \notin Streams
    BY <1>3, SequenceAssumption, Zenon
  <2> QED BY <1>2, <2>1, <2>2, <2>3, Zenon DEF View
<1>4. CASE s # NoStream
  <2>1. /\ s \in Streams /\ m.type \in StreamTypes
        /\ MipAllows(env.ClassOf[s], up.phase[s], m.type)
        /\ (up.phase[s] # "packet" => up.packet[s] = NoPacket)
    BY <1>4, EnvFact, Zenon DEF Inv, Offers, IsLegal, MessageType, Upstream
  <2>2. \A x \in Streams : x # s => phase[x] = up.phase[x] /\ packet[x] = up.packet[x]
    BY <1>1, <1>4, Zenon DEF PhaseNext, PacketNext, PhaseType, PacketType
  <2>3. /\ phase[s] = MipNext(up.phase[s], m.type)
        /\ packet[s] = CASE m.type = "PB" -> m.packet [] m.type = "PE" -> NoPacket [] OTHER -> up.packet[s]
    BY <1>1, <1>4, <2>1, Zenon DEF PhaseNext, PacketNext, PhaseType, PacketType
  <2>4. up.phase[s] \in Phases
    BY <1>1, <2>1, Zenon DEF PhaseType
  <2> HIDE DEF phase, packet
  <2>5. CASE m.type = "SB"
    <3>1. up.phase[s] = "none" /\ phase[s] = "stream" /\ packet[s] = NoPacket
      BY <2>1, <2>3, <2>4, <2>5, Zenon DEF MipAllows, MipNext, Phases
    <3>2. PICK seen \in BOOLEAN : seen = (m.begin # NoCs)
      BY Zenon
    <3>3. PICK st \in StateRecord : st = [seen_clock_snapshot |-> seen, cur_packet |-> NoPacket]
      BY Zenon DEF StateRecord
    <3>4. ss = [x \in DOMAIN stream_states \cup {s} |-> IF x = s THEN st ELSE stream_states[x]]
      BY <2>5, <3>2, <3>3, Zenon DEF StatesAfter
    <3> HIDE DEF ss
    <3>5. DOMAIN ss = {x \in Streams : phase[x] \in {"stream", "packet"}}
      BY <1>2, <2>1, <2>2, <3>1, <3>4, Zenon
    <3>6. ss[s] = st /\ \A x \in DOMAIN ss : x # s => x \in DOMAIN stream_states /\ ss[x] = stream_states[x]
      BY <3>4, Zenon
    <3>7. st.cur_packet = NoPacket /\ (st.seen_clock_snapshot => m.begin # NoCs)
      BY <3>2, <3>3, Zenon
    <3>8. \A x \in DOMAIN ss : ss[x] \in StateRecord /\ ss[x].cur_packet = packet[x]
      <4>1. ASSUME NEW x \in DOMAIN ss, x # s PROVE ss[x] \in StateRecord /\ ss[x].cur_packet = packet[x]
        <5>1. x \in Streams /\ x \in DOMAIN stream_states /\ ss[x] = stream_states[x]
          BY <3>5, <3>6, <4>1, Zenon
        <5> QED BY <1>2, <2>2, <4>1, <5>1, Zenon
      <4> QED BY <3>1, <3>6, <3>7, <4>1, Zenon
    <3> QED BY <2>5, <3>5, <3>6, <3>7, <3>8, Zenon DEF View
  <2>6. CASE m.type \in {"PB", "PE", "EV", "DE", "DP"}
    <3>1. up.phase[s] \in {"stream", "packet"} /\ phase[s] \in {"stream", "packet"}
      BY <2>1, <2>3, <2>4, <2>6, Zenon DEF MipAllows, MipNext, Phases
    <3>2. s \in DOMAIN stream_states /\ stream_states[s] \in StateRecord /\ stream_states[s].cur_packet = up.packet[s]
      BY <1>2, <2>1, <3>1, Zenon
    <3>3. PICK st \in StateRecord :
            /\ ss = [x \in DOMAIN stream_states \cup {s} |-> IF x = s THEN st ELSE stream_states[x]]
            /\ st.cur_packet = packet[s]
            /\ st.seen_clock_snapshot <=> stream_states[s].seen_clock_snapshot \/ m.begin # NoCs
      BY <2>3, <2>6, <3>2, SeenFact, Zenon
    <3> HIDE DEF ss
    <3>4. DOMAIN ss = {x \in Streams : phase[x] \in {"stream", "packet"}}
      BY <1>2, <2>1, <2>2, <3>1, <3>2, <3>3, Zenon
    <3>5. st.cur_packet # NoPacket => st.seen_clock_snapshot
      <4>1. m.type = "PB" => m.begin # NoCs
        <5>1. AssertionOn(m) # "message has a time"
          BY NoAssertion, Zenon
        <5> QED BY <1>4, <3>2, <5>1, Zenon DEF AssertionOn
      <4>2. m.type # "PB" => packet[s] \in {NoPacket, stream_states[s].cur_packet}
        BY <2>3, <3>2, Zenon
      <4> QED BY <1>2, <3>2, <3>3, <4>1, <4>2, Zenon
    <3>6. ss[s] = st /\ \A x \in DOMAIN ss : x # s => x \in DOMAIN stream_states /\ ss[x] = stream_states[x]
      BY <3>3, Zenon
    <3>7. \A x \in DOMAIN ss : ss[x] \in StateRecord /\ ss[x].cur_packet = packet[x]
      <4>1. ASSUME NEW x \in DOMAIN ss, x # s PROVE ss[x] \in StateRecord /\ ss[x].cur_packet = packet[x]
        <5>1. x \in Streams /\ x \in DOMAIN stream_states /\ ss[x] = stream_states[x]
          BY <3>4, <3>6, <4>1, Zenon
        <5> QED BY <1>2, <2>2, <4>1, <5>1, Zenon
      <4> QED BY <3>3, <3>6, <4>1, Zenon
    <3> QED BY <3>2, <3>3, <3>4, <3>5, <3>6, <3>7, Zenon DEF View
  <2>7. CASE m.type = "SE"
    <3>1. phase[s] = "ended"
      BY <2>3, <2>7, Zenon DEF MipNext
    <3>2. ss = [x \in DOMAIN stream_states \ {s} |-> stream_states[x]]
      BY <2>7, Zenon DEF StatesAfter
    <3> HIDE DEF ss
    <3>3. DOMAIN ss = {x \in Streams : phase[x] \in {"stream", "packet"}}
      BY <1>2, <2>1, <2>2, <3>1, <3>2, Zenon
    <3> QED BY <1>2, <2>2, <3>2, <3>3, Zenon DEF View
  <2> QED BY <2>1, <2>5, <2>6, <2>7, Zenon DEF StreamTypes
<1> QED BY <1>3, <1>4, Zenon

\* What is passed on is about times of the range.
LEMMA ReachFact ==
    ASSUME TypeOK, NEW m \in MessageType, Offers(m), ~BeyondEnd(m),
           IsClipped(m) => ClockValueExists(ClockOf(m.stream), end.ns)
    PROVE  /\ Ns(m.stream, EndOf(m)) \in Nat \cup {NoCs}
           /\ ~end.is_infinite => Ns(m.stream, EndOf(m)) <= end.ns
<1>1. IsClockClass(ClockOf(m.stream)) /\ end.ns \in Nat /\ m.end \in Nat \cup {NoCs}
  BY EnvFact, Zenon DEF TypeOK, MessageType
<1>2. CASE IsClipped(m)
  <2>1. /\ ClippedEnd(m.stream) \in Nat
        /\ RoundedNs(ClockOf(m.stream), end.ns) \in Nat /\ RoundedNs(ClockOf(m.stream), end.ns) <= end.ns
    BY <1>1, <1>2, RoundedNsFact, Zenon DEF ClippedEnd
  <2>2. ClippedEnd(m.stream) # NoCs
    BY <2>1 DEF NoCs
  <2>3. Ns(m.stream, EndOf(m)) = RoundedNs(ClockOf(m.stream), end.ns)
    BY <1>2, <2>2, Zenon DEF EndOf, Ns, ClippedEnd, RoundedNs
  <2> QED BY <2>1, <2>3, Zenon
<1>3. CASE ~IsClipped(m)
  <2>1. EndOf(m) = m.end
    BY <1>3, Zenon DEF EndOf
  <2>2. Ns(m.stream, m.end) \in Nat \cup {NoCs}
    BY <1>1, NsFact, Zenon DEF Ns
  <2>3. ASSUME ~end.is_infinite PROVE ~(Ns(m.stream, m.end) > end.ns)
    <3>1. CASE m.type \in {"DE", "DP"}
      BY <1>3, <2>3, <3>1, Zenon DEF IsClipped
    <3>2. CASE m.type \notin {"DE", "DP"}
      <4>1. Ns(m.stream, m.end) = get_msg_ns_from_origin(m)
        BY <3>2, Zenon DEF Offers, get_msg_ns_from_origin
      <4>2. get_msg_ns_from_origin(m) = NoCs \/ ~(get_msg_ns_from_origin(m) > end.ns)
        BY <2>3, Zenon DEF BeyondEnd
      <4> QED BY <1>1, <4>1, <4>2 DEF NoCs
    <3> QED BY <3>1, <3>2, Zenon
  <2> QED BY <1>1, <2>1, <2>2, <2>3 DEF NoCs
<1> QED BY <1>2, <1>3, Zenon

\* A message of the range: what upstream may return next, downstream may get next.
LEMMA PassStep ==
    ASSUME Inv, Passing, NEW m \in MessageType, m.type = "IN" <=> m.stream = NoStream, Offers(m), Pass(m),
           UNCHANGED <<env, state, boundVars, aborted>>
    PROVE  Inv'
<1> DEFINE t == get_msg_ns_from_origin(m)
<1>1. up' \in UpType /\ Upstream'
  BY AdvanceFact, AdvanceUpstream, Zenon DEF Inv, Pass
<1>2. ~InRange' => ~InRange
  BY Zenon DEF InRange
<1>3. state = "TRIM" /\ InRange /\ InRange' /\ within # "ending" /\ cut' = cut /\ up' = Advance(m)
  BY Zenon DEF Passing, InRange, Pass
<1>4. CASE status' = "ERROR" /\ UNCHANGED <<stream_states, queued, within, out>>
  <2>1. TypeOK'
    BY <1>1, <1>4, SameEnv, Zenon DEF Inv, TypeOK, UpType, PhaseType, PacketType, boundVars
  <2>2. OutType'
    BY <1>3, <1>4, SameEnv, Zenon DEF Inv, OutType
  <2>3. Control'
    BY <1>3, <1>4, Zenon DEF Inv, Control, Passing, Running
  <2>4. Untouched' /\ Follows' /\ Ending' /\ AllEnded'
    BY <1>3, <1>4, Zenon DEF Untouched, Follows, Passing, Running, Ending, AllEnded
  <2>5. Known' /\ InTime'
    BY <1>3, <1>4, SameEnv, Zenon DEF Inv, Known, InTime, boundVars
  <2> QED BY <1>1, <2>1, <2>2, <2>3, <2>4, <2>5, Zenon DEF Inv
<1>5. CASE /\ m.type = "SB" => IsSupported(env.ClassOf[m.stream])
           /\ stream_states' = StatesAfter(m) /\ out' = push_message(out, m, t, Ns(m.stream, EndOf(m)))
           /\ queued' = queued + 1 /\ within' = "batch" /\ status' = status
           /\ IsClipped(m) => ClockValueExists(ClockOf(m.stream), end.ns)
  <2>1. t \in Nat \cup {NoCs} /\ (t = NoCs <=> m.begin = NoCs)
    BY TimeFact, Zenon DEF Inv
  <2>2. /\ out.phase = up.phase /\ out.packet = up.packet /\ out.last <= up.now
        /\ out.verdict = "legal" /\ cut = NoMessage /\ out \in OutRecord
    BY Zenon DEF Inv, Follows, OutType
  <2>3. PICK u \in Nat \cup {NoCs} : u = Ns(m.stream, EndOf(m)) /\ (~end.is_infinite => u <= end.ns)
    BY <1>5, ReachFact, Zenon DEF Inv, Pass
  <2>4. /\ out' \in OutRecord /\ out'.phase = up'.phase /\ out'.packet = up'.packet
        /\ out'.last = (IF t = NoCs THEN out.last ELSE t) /\ out'.verdict = VerdictOn(out, m, t)
        /\ out'.reach = (IF u > out.reach THEN u ELSE out.reach) /\ out'.count = out.count + 1
    <3>1. TypeOK /\ out \in OutRecord /\ t \in Nat \cup {NoCs} /\ u \in Nat \cup {NoCs}
      BY <2>1, <2>2, <2>3, Zenon DEF Inv
    <3>2. up'.phase = PhaseNext(up.phase, m) /\ up'.packet = PacketNext(up.packet, m)
      BY <1>3, <3>1, AdvanceFact, Zenon
    <3>3. out' = push_message(out, m, t, u)
      BY <1>5, <2>3, Zenon
    <3> HIDE DEF t
    <3>4. /\ push_message(out, m, t, u) \in OutRecord
          /\ push_message(out, m, t, u).phase = PhaseNext(out.phase, m)
          /\ push_message(out, m, t, u).packet = PacketNext(out.packet, m)
          /\ push_message(out, m, t, u).last = IF t = NoCs THEN out.last ELSE t
          /\ push_message(out, m, t, u).verdict = VerdictOn(out, m, t)
          /\ push_message(out, m, t, u).reach = IF u > out.reach THEN u ELSE out.reach
          /\ push_message(out, m, t, u).count = out.count + 1
      BY <3>1, PushFact
    <3> QED BY <2>2, <3>2, <3>3, <3>4, Zenon
  <2>5. View(stream_states', up'.phase, up'.packet, m)
    BY <1>3, <1>5, ViewFact, AdvanceFact, Zenon DEF Inv
  <2>6. TypeOK'
    <3>1. DOMAIN stream_states' \subseteq Used
      <4>1. \A x \in DOMAIN stream_states' : x \in DOMAIN stream_states \/ x = m.stream
        BY <2>5, Zenon DEF View
      <4>2. m.stream \in Streams => m.stream \in Used
        BY SequenceAssumption, Zenon DEF MessageType
      <4> QED BY <2>5, <4>1, <4>2, Zenon DEF Inv, TypeOK, View
    <3>2. \A x \in DOMAIN stream_states' : stream_states'[x] \in StateRecord
      BY <2>5, Zenon DEF View
    <3>3. queued' \in Nat
      <4>1. queued \in Nat /\ queued' = queued + 1
        BY <1>5, Zenon DEF Inv, TypeOK
      <4> QED BY <4>1
    <3> QED BY <1>1, <1>5, <2>4, <3>1, <3>2, <3>3, SameEnv, Zenon
            DEF Inv, TypeOK, UpType, OutRecord, Verdicts, PhaseType, PacketType, StateRecord, boundVars
  <2>7. OutType'
    BY <1>3, <2>4, SameEnv, Zenon DEF Inv, OutType
  <2>8. Control' /\ Untouched' /\ Ending' /\ AllEnded'
    BY <1>3, <1>5, Zenon DEF Inv, Control, Passing, Running, Untouched, Ending, AllEnded
  <2>9. t # NoCs /\ ~end.is_infinite => t <= end.ns
    <3>1. end.ns \in Nat
      BY Zenon DEF Inv, TypeOK
    <3> QED BY <2>1, <3>1 DEF Pass, BeyondEnd
  <2>10. Known'
    <3> SUFFICES ASSUME NEW x \in DOMAIN stream_states'
                 PROVE  /\ IsSupported(env.ClassOf[x])
                        /\ stream_states'[x].cur_packet # NoPacket => stream_states'[x].seen_clock_snapshot
                        /\ stream_states'[x].seen_clock_snapshot /\ ~end.is_infinite =>
                              ClockValueExists(ClockOf(x), end.ns)
      BY SameEnv, Zenon DEF Known, boundVars
    <3>1. CASE x # m.stream
      BY <1>3, <2>5, <3>1, Zenon DEF View, Inv, Known
    <3>2. CASE x = m.stream
      <4>1. IsSupported(env.ClassOf[x])
        BY <1>5, <2>5, <3>2, Zenon DEF View, Inv, Known
      <4>2. m.begin # NoCs /\ ~end.is_infinite => ClockValueExists(ClockOf(x), end.ns)
        <5>1. x \in Used
          BY <3>2, <2>6, SameEnv, Zenon DEF TypeOK
        <5>2. bt_util_get_base_offset_ns(ClockOf(x)) \in Nat /\ end.ns \in Nat
          BY <5>1, EnvFact, NsFact, Zenon DEF Inv, TypeOK
        <5>3. m.begin # NoCs => t \in Nat /\ ClockValueExists(ClockOf(x), t)
          BY <3>2, TimeFact, Zenon DEF Inv
        <5> QED BY <2>1, <2>9, <5>2, <5>3 DEF ClockValueExists
      <4> QED BY <1>3, <2>5, <3>2, <4>1, <4>2, Zenon DEF View, Inv, Known
    <3> QED BY <3>1, <3>2, Zenon
  <2>11. out'.verdict = "legal" /\ out'.last <= up'.now
    <3>1. IsLegal(out, m)
      BY <2>2, SameLegal, Zenon DEF Offers
    <3>2. t # NoCs => t \in Nat /\ t >= up.now /\ up'.now = t
      BY <1>3, <2>1, AdvanceFact, Zenon DEF Inv, Offers
    <3>3. t = NoCs => up'.now = up.now
      BY <1>3, <2>1, AdvanceFact, Zenon DEF Inv
    <3>4. up.now \in Nat /\ out.last \in Nat
      BY <2>2, Zenon DEF Inv, TypeOK, OutRecord
    <3>5. t # NoCs => ~(t < out.last)
      BY <2>2, <3>2, <3>4
    <3>6. out'.verdict = "legal"
      BY <2>2, <2>4, <3>1, <3>5, Zenon DEF VerdictOn
    <3> QED BY <2>2, <2>4, <3>2, <3>3, <3>4, <3>6
  <2>12. Follows'
    <3>1. out.count = env.MaxMsgs - up.left /\ up'.left = up.left - 1 /\ env' = env
      BY <1>3, AdvanceFact, Zenon DEF Inv, Follows
    <3>2. env.MaxMsgs \in Nat /\ up.left \in Nat
      BY EnvFact, Zenon DEF Inv, TypeOK
    <3>3. out'.count = env'.MaxMsgs - up'.left
      BY <2>4, <3>1, <3>2
    <3> QED BY <1>3, <2>2, <2>4, <2>5, <2>11, <3>3, Zenon DEF Follows, View
  <2>13. InTime'
    <3>1. ~end.is_infinite => out'.last <= end.ns /\ out'.reach <= end.ns
      BY <1>3, <2>4, <2>9, <2>3, Zenon DEF Inv, InTime
    <3> QED BY <2>11, <3>1, Zenon DEF InTime, boundVars
  <2> QED BY <1>1, <2>6, <2>7, <2>8, <2>10, <2>12, <2>13, Zenon DEF Inv
<1> QED BY <1>4, <1>5, Zenon DEF Pass

\* The first message beyond the end of the range.
LEMMA CutStep ==
    ASSUME Inv, Passing, NEW m \in Messages, Offers(m), Cut(m), AssertionOn(m) = "no",
           UNCHANGED <<env, state, boundVars, aborted>>
    PROVE  Inv'
<1>1. m \in MessageType /\ (m.type = "IN" <=> m.stream = NoStream)
  BY MessageFact, Zenon DEF Inv
<1>2. /\ UNCHANGED <<up, queued, status, out>> /\ within' = "ending" /\ cut' = m /\ BeyondEnd(m)
      /\ state = "TRIM" /\ InRange /\ InRange' /\ within # "ending"
  BY Zenon DEF Cut, Passing, InRange
<1>3. m.type \in {"DE", "DP"} => m.stream \in DOMAIN stream_states
  <2>1. m.type \in {"DE", "DP"} => m.stream # NoStream
    BY <1>1, Zenon
  <2> QED BY <2>1, Zenon DEF AssertionOn
<1>4. /\ DOMAIN stream_states' = DOMAIN stream_states
      /\ \A s \in DOMAIN stream_states :
            /\ stream_states'[s] \in StateRecord /\ stream_states'[s].cur_packet = stream_states[s].cur_packet
            /\ stream_states'[s].cur_packet # NoPacket => stream_states'[s].seen_clock_snapshot
            /\ (m.type \in {"DE", "DP"} /\ s = m.stream) \/ stream_states'[s] = stream_states[s]
  <2>1. \A s \in DOMAIN stream_states :
          /\ stream_states[s] \in StateRecord
          /\ stream_states[s].cur_packet # NoPacket => stream_states[s].seen_clock_snapshot
    BY Zenon DEF Inv, TypeOK, Known, StateRecord
  <2>2. CASE m.type \in {"DE", "DP"}
    <3>1. stream_states' = [stream_states EXCEPT ![m.stream].seen_clock_snapshot = TRUE]
      BY <2>2, Zenon DEF Cut
    <3> QED BY <1>3, <2>1, <2>2, <3>1, Zenon DEF StateRecord
  <2>3. CASE m.type \notin {"DE", "DP"}
    <3>1. stream_states' = stream_states
      BY <2>3, Zenon DEF Cut
    <3> QED BY <2>1, <3>1, Zenon
  <2> QED BY <2>2, <2>3, Zenon
<1>5. TypeOK'
  BY <1>2, <1>4, SameEnv, Zenon DEF Inv, TypeOK, StateRecord, boundVars
<1>6. OutType' /\ Upstream'
  BY <1>2, SameEnv, Zenon DEF Inv, OutType, Upstream
<1>7. Control' /\ Untouched' /\ Follows' /\ AllEnded'
  BY <1>2, Zenon DEF Inv, Control, Untouched, Follows, Passing, Running, AllEnded
<1>8. Known'
  BY <1>2, <1>4, SameEnv, Zenon DEF Inv, Known, boundVars
<1>9. Ending'
  <2>1. CutIsBeyond'
    <3>1. m # NoMessage
      BY <1>1 DEF MessageType, StreamTypes, NoMessage, Message
    <3>2. (m.type = "IN" /\ end.is_infinite) \/ (~end.is_infinite /\ get_msg_ns_from_origin(m) > end.ns)
      BY <1>1, <1>2, Zenon DEF BeyondEnd
    <3>3. get_msg_ns_from_origin(m)' = get_msg_ns_from_origin(m)
      BY SameEnv, Zenon DEF get_msg_ns_from_origin, Ns
    <3>4. end' = end /\ cut' = m /\ get_msg_ns_from_origin(cut)' = get_msg_ns_from_origin(m)
      BY <1>2, <3>3, SameEnv, Zenon DEF boundVars, get_msg_ns_from_origin, Ns
    <3> QED BY <3>1, <3>2, <3>4, Zenon DEF CutIsBeyond, InactivityCut, NoMessage, Message
  <2>2. \A s \in Streams : up.phase[s] \in Phases
    BY Zenon DEF Inv, TypeOK
  <2>3. \A s \in Streams \ DOMAIN stream_states : up.phase[s] \in {"none", "ended"}
    BY <2>2, Zenon DEF Inv, Follows, Phases
  <2> QED BY <1>2, <1>4, <2>1, <2>3 DEF Inv, Follows, Ending
<1>10. InTime'
  BY <1>2, SameEnv, Zenon DEF Inv, InTime, boundVars
<1> QED BY <1>5, <1>6, <1>7, <1>8, <1>9, <1>10, Zenon DEF Inv

LEMMA HandleMessageStep ==
    ASSUME Inv, HandleMessage
    PROVE  Inv'
<1>1. PICK m \in Messages :
        /\ Offers(m)
        /\ IF HasNoClock(m)
           THEN status' = "ERROR" /\ UNCHANGED <<up, stream_states, queued, within, aborted, out, cut>>
           ELSE IF AssertionOn(m) # "no"
           THEN /\ aborted' = AssertionOn(m)
                /\ UNCHANGED <<up, stream_states, queued, within, status, out, cut>>
           ELSE (Pass(m) \/ Cut(m)) /\ UNCHANGED aborted
  BY Zenon DEF HandleMessage
<1>2. Passing /\ UNCHANGED <<env, state, boundVars>>
  BY Zenon DEF HandleMessage, Passing
<1>3. m \in MessageType /\ (m.type = "IN" <=> m.stream = NoStream)
  BY MessageFact, Zenon DEF Inv
<1>4. AssertionOn(m) = "no" \/ (AssertionOn(m) = "ends before its beginning" /\ EndIsRounded)
  BY <1>1, <1>2, <1>3, NoAssertion, Zenon
<1>5. CASE ~HasNoClock(m) /\ AssertionOn(m) = "no"
  BY <1>1, <1>2, <1>3, <1>5, PassStep, CutStep, Zenon
<1>6. CASE HasNoClock(m) \/ AssertionOn(m) # "no"
  <2>1. /\ UNCHANGED <<data, state, queued, within>> /\ state = "TRIM" /\ within # "ending"
        /\ \/ status' = "ERROR" /\ UNCHANGED aborted
           \/ aborted' = "ends before its beginning" /\ EndIsRounded /\ UNCHANGED status
    BY <1>1, <1>2, <1>4, <1>6, Zenon DEF data, boundVars, Passing
  <2>2. TypeOK'
    BY <2>1, SameEnv, Zenon DEF Inv, TypeOK, data, boundVars
  <2>3. EndIsRounded' = EndIsRounded
    BY <2>1, SameRounding, Zenon DEF data
  <2>4. Control'
    BY <1>2, <2>1, <2>3, Zenon DEF Inv, Control, Passing, Running, data, boundVars
  <2>5. InRange' = InRange /\ ~Passing' /\ state' \notin {"ENDING", "ENDED"}
    BY <2>1, Zenon DEF InRange, Passing, Running
  <2> QED BY <2>1, <2>2, <2>4, <2>5, ControlFrame, Zenon DEF Inv
<1> QED BY <1>5, <1>6, Zenon

-----------------------------------------------------------------------------
(* Ending the streams.                                                     *)

\* What a message at the rounded end of the range does to the times of the output.
AtEnd(o) ==
    /\ o \in OutRecord /\ o.last <= end.ns /\ o.reach <= end.ns /\ o.verdict # "out of sequence"
    /\ o.verdict = "back in time" => \E s \in Used : RoundedNs(ClockOf(s), end.ns) # end.ns

LEMMA PushAtEnd ==
    ASSUME TypeOK, NEW o, AtEnd(o), NEW m \in MessageType, IsLegal(o, m), NEW s \in Used,
           NEW t, t \in Nat \cup {NoCs}, t # NoCs => t = RoundedNs(ClockOf(s), end.ns) /\ t <= end.ns
    PROVE  AtEnd(push_message(o, m, t, t))
<1>1. /\ push_message(o, m, t, t) \in OutRecord
      /\ push_message(o, m, t, t).last = IF t = NoCs THEN o.last ELSE t
      /\ push_message(o, m, t, t).verdict = VerdictOn(o, m, t)
      /\ push_message(o, m, t, t).reach = IF t > o.reach THEN t ELSE o.reach
  <2>1. o \in OutRecord
    BY Zenon DEF AtEnd
  <2> QED BY <2>1, PushFact
<1>2. push_message(o, m, t, t).last <= end.ns /\ push_message(o, m, t, t).reach <= end.ns
  <2>1. end.ns \in Nat
    BY Zenon DEF TypeOK
  <2>2. t <= end.ns
    BY <2>1 DEF NoCs
  <2> QED BY <1>1, <2>2, Zenon DEF AtEnd
<1>3. t # NoCs /\ t < o.last => t # end.ns
  <2>1. o.last \in Nat /\ end.ns \in Nat /\ o.last <= end.ns
    BY Zenon DEF AtEnd, OutRecord, TypeOK
  <2>2. t # NoCs => t \in Nat
    BY Zenon
  <2> QED BY <2>1, <2>2
<1>4. /\ VerdictOn(o, m, t) # "out of sequence"
      /\ VerdictOn(o, m, t) = "back in time" => o.verdict = "back in time" \/ (t # NoCs /\ t < o.last)
  BY Zenon DEF VerdictOn, AtEnd
<1> QED BY <1>1, <1>2, <1>3, <1>4, Zenon DEF AtEnd

\* A stream is ended where upstream left it, its open packet first.
LEMMA EndStreamStep ==
    ASSUME Inv, NEW s \in Streams, end_stream(s)
    PROVE  Inv'
<1> DEFINE st == stream_states[s]
           t == IF st.seen_clock_snapshot THEN RoundedNs(ClockOf(s), end.ns) ELSE NoCs
           pe == Message("PE", s, st.cur_packet, t, t)
           se == Message("SE", s, NoPacket, t, t)
           inPacket == st.cur_packet # NoPacket
           first == IF inPacket THEN push_message(out, pe, t, t) ELSE out
<1>1. /\ Running /\ within = "ending" /\ ~end.is_infinite /\ s \in DOMAIN stream_states
      /\ UNCHANGED <<env, up, state, boundVars, within, cut>>
  BY Zenon DEF end_stream
<1>2. state = "TRIM" /\ InRange /\ InRange' /\ s \in Used /\ TypeOK
  BY <1>1, Zenon DEF Inv, Control, InRange, TypeOK
<1>3. st \in StateRecord /\ (inPacket => st.seen_clock_snapshot)
  BY <1>1, Zenon DEF Inv, TypeOK, Known, StateRecord
<1>4. CASE st.seen_clock_snapshot /\ ~ClockValueExists(ClockOf(s), end.ns)
  <2>1. status' = "ERROR" /\ UNCHANGED <<stream_states, queued, aborted, out>>
    BY <1>4, Zenon DEF end_stream
  <2>2. UNCHANGED data
    BY <1>1, <2>1, Zenon DEF data
  <2>3. TypeOK'
    BY <1>1, <2>1, SameEnv, Zenon DEF Inv, TypeOK, boundVars
  <2>4. Control'
    BY <1>1, <1>2, <2>1, Zenon DEF Inv, Control, Running
  <2>5. InRange' = InRange /\ ~Passing' /\ state' \notin {"ENDING", "ENDED"}
    BY <1>1, <1>2, Zenon DEF Passing, InRange
  <2> QED BY <1>1, <2>2, <2>3, <2>4, <2>5, ControlFrame, Zenon DEF Inv
<1>5. CASE ~(st.seen_clock_snapshot /\ ~ClockValueExists(ClockOf(s), end.ns))
  <2>1. /\ out' = push_message(first, se, t, t)
        /\ queued' = queued + (IF inPacket THEN 2 ELSE 1)
        /\ stream_states' = [x \in DOMAIN stream_states \ {s} |-> stream_states[x]]
        /\ UNCHANGED <<status, aborted>>
    BY <1>3, <1>5, Zenon DEF end_stream
  <2>2. t \in Nat \cup {NoCs} /\ (t # NoCs => t = RoundedNs(ClockOf(s), end.ns) /\ t <= end.ns)
    <3>1. IsClockClass(ClockOf(s)) /\ end.ns \in Nat
      BY <1>2, EnvFact, Zenon DEF TypeOK
    <3> QED BY <1>5, <3>1, RoundedNsFact, Zenon DEF NoCs
  <2>3. /\ up.phase[s] \in {"stream", "packet"} /\ out.phase[s] = up.phase[s]
        /\ out.packet[s] = up.packet[s] /\ st.cur_packet = up.packet[s]
    BY <1>1, <1>2, Zenon DEF Inv, Ending
  <2>4. /\ up.phase[s] = "packet" => up.packet[s] \in Packets /\ env.ClassOf[s].packets
        /\ up.phase[s] = "packet" <=> inPacket
    BY <2>3, SequenceAssumption, Zenon DEF Inv, Upstream
  <2>5. /\ pe \in MessageType /\ pe.stream = s /\ pe.type = "PE" /\ pe.packet = st.cur_packet
        /\ se \in MessageType /\ se.stream = s /\ se.type = "SE" /\ se.packet = NoPacket
    BY <1>2, <1>3, <2>2, Zenon DEF Message, MessageType, StreamTypes, StateRecord
  <2>6. s # NoStream
    BY SequenceAssumption, Zenon
  <2>7. AtEnd(out) /\ out \in OutRecord
    BY <1>1, <1>2, Zenon DEF Inv, InTime, OutType, AtEnd
  <2> HIDE DEF t, pe, se
  <2>8. /\ AtEnd(first) /\ first.phase[s] = "stream"
        /\ \A x \in Streams : x # s => first.phase[x] = out.phase[x] /\ first.packet[x] = out.packet[x]
    <3>1. CASE inPacket
      <4>1. IsLegal(out, pe)
        BY <1>2, <2>3, <2>4, <2>5, <3>1, Zenon DEF IsLegal, CreatableTypes, CreatablePackets, MipAllows
      <4>2. AtEnd(first)
        BY <1>2, <2>2, <2>5, <2>7, <3>1, <4>1, PushAtEnd, Zenon
      <4>3. first.phase = PhaseNext(out.phase, pe) /\ first.packet = PacketNext(out.packet, pe)
        <5>1. first = push_message(out, pe, t, t)
          BY <3>1, Zenon
        <5>2. TypeOK /\ out \in OutRecord /\ pe \in MessageType /\ t \in Nat \cup {NoCs}
          BY <1>2, <2>2, <2>5, <2>7, Zenon
        <5>3. /\ push_message(out, pe, t, t).phase = PhaseNext(out.phase, pe)
              /\ push_message(out, pe, t, t).packet = PacketNext(out.packet, pe)
          BY <5>2, PushFact
        <5> HIDE DEF first
        <5> QED BY <5>1, <5>3, Zenon
      <4>4. out.phase \in PhaseType /\ out.packet \in PacketType
        BY <2>7, Zenon DEF OutRecord
      <4> QED BY <2>5, <2>6, <4>2, <4>3, <4>4, Zenon DEF PhaseNext, PacketNext, PhaseType, PacketType, MipNext
    <3>2. CASE ~inPacket
      BY <2>3, <2>4, <2>7, <3>2, Zenon
    <3> QED BY <3>1, <3>2, Zenon
  <2> HIDE DEF first
  <2>9. /\ AtEnd(out') /\ out'.phase[s] = "ended"
        /\ \A x \in Streams : x # s => out'.phase[x] = out.phase[x] /\ out'.packet[x] = out.packet[x]
    <3>1. IsLegal(first, se)
      BY <1>2, <2>5, <2>8, Zenon DEF IsLegal, CreatableTypes, CreatablePackets, MipAllows
    <3>2. AtEnd(push_message(first, se, t, t))
      BY <1>2, <2>2, <2>5, <2>8, <3>1, PushAtEnd, Zenon
    <3>3. first \in OutRecord /\ first.phase \in PhaseType /\ first.packet \in PacketType
      BY <2>8, Zenon DEF AtEnd, OutRecord
    <3>4. out'.phase = PhaseNext(first.phase, se) /\ out'.packet = PacketNext(first.packet, se)
      BY <1>2, <2>1, <2>2, <2>5, <3>3, PushFact
    <3> QED BY <2>1, <2>5, <2>6, <2>8, <3>2, <3>3, <3>4, Zenon DEF PhaseNext, PacketNext, PhaseType, PacketType, MipNext
  <2>10. out' \in OutRecord /\ queued' \in Nat
    <3>1. queued \in Nat
      BY <1>2, Zenon DEF TypeOK
    <3>2. (IF inPacket THEN 2 ELSE 1) \in Nat
      BY Zenon
    <3>3. queued' \in Nat
      BY <2>1, <3>1, <3>2
    <3> QED BY <2>9, <3>3, Zenon DEF AtEnd
  <2>11. /\ DOMAIN stream_states' = DOMAIN stream_states \ {s}
         /\ \A x \in DOMAIN stream_states' : stream_states'[x] = stream_states[x]
    BY <2>1, Zenon
  <2>12. TypeOK'
    BY <1>1, <1>2, <2>1, <2>10, <2>11, SameEnv, Zenon
       DEF TypeOK, OutRecord, Verdicts, PhaseType, PacketType, boundVars
  <2>13. OutType' /\ Upstream'
    BY <1>1, <2>10, SameEnv, Zenon DEF Inv, OutType, Upstream
  <2>14. Control' /\ Untouched' /\ Follows' /\ AllEnded'
    BY <1>1, <1>2, <2>1, Zenon DEF Inv, Control, Untouched, Follows, Passing, Running, AllEnded, boundVars
  <2>15. Known'
    BY <1>1, <2>11, SameEnv, Zenon DEF Inv, Known, boundVars
  <2>16. Ending'
    <3>1. CutIsBeyond'
      BY <1>1, <1>2, SameCut, Zenon DEF Inv, Ending
    <3> QED BY <1>1, <1>2, <2>3, <2>9, <2>11, <3>1, Zenon DEF Inv, Ending
  <2>17. InTime'
    BY <1>1, <2>9, SameEnv, Zenon DEF AtEnd, InTime, boundVars
  <2> QED BY <2>12, <2>13, <2>14, <2>15, <2>16, <2>17, Zenon DEF Inv
<1> QED BY <1>4, <1>5, Zenon

LEMMA StreamsEndedStep ==
    ASSUME Inv, StreamsEnded
    PROVE  Inv'
<1>1. /\ UNCHANGED <<env, up, boundVars, queued, status, aborted, out, cut>> /\ within = "ending"
      /\ state' = "ENDING" /\ within' = "no" /\ (end.is_infinite \/ stream_states = <<>>) /\ stream_states' = <<>>
      /\ Running
  BY Zenon DEF StreamsEnded
<1>2. state = "TRIM" /\ InRange /\ InRange'
  BY <1>1, Zenon DEF Inv, Control, InRange
<1>3. DOMAIN stream_states' = {} /\ (stream_states = <<>> => DOMAIN stream_states = {})
  BY <1>1
<1>4. TypeOK'
  BY <1>1, <1>3, SameEnv, Zenon DEF Inv, TypeOK, boundVars
<1>5. OutType' /\ Upstream' /\ Untouched' /\ Known'
  BY <1>1, <1>2, <1>3, SameEnv, Zenon DEF Inv, OutType, Upstream, Untouched, Known
<1>6. Control'
  BY <1>1, <1>2, Zenon DEF Inv, Control, Running
<1>7. Follows' /\ Ending'
  BY <1>1, Zenon DEF Follows, Passing, Ending
<1>8. AllEnded'
  <2>1. CutIsBeyond
    BY <1>1, <1>2, Zenon DEF Inv, Ending
  <2>2. ~InactivityCut => DOMAIN stream_states = {}
    <3>1. ~InactivityCut /\ end.is_infinite => UpstreamIsOver
      BY <2>1, Zenon DEF CutIsBeyond
    <3>2. UpstreamIsOver => \A s \in Streams : s \notin DOMAIN stream_states
      BY <1>1, <1>2, Zenon DEF Inv, Ending, UpstreamIsOver
    <3>3. DOMAIN stream_states \subseteq Streams
      BY EnvFact, Zenon DEF Inv, TypeOK
    <3> QED BY <1>1, <1>3, <3>1, <3>2, <3>3, Zenon
  <2> QED BY <1>1, <1>2, <2>1, <2>2, SameCut, Zenon DEF Inv, Ending, AllEnded
<1>9. InTime'
  BY <1>1, <1>2, SameEnv, Zenon DEF Inv, InTime, boundVars
<1> QED BY <1>4, <1>5, <1>6, <1>7, <1>8, <1>9, Zenon DEF Inv

-----------------------------------------------------------------------------
(* The theorems.                                                           *)

LEMMA Stutter ==
    ASSUME Inv, UNCHANGED vars
    PROVE  Inv'
<1>1. UNCHANGED <<data, state, queued, within, status, aborted>>
  BY Zenon DEF vars, data
<1>2. TypeOK' /\ Control'
  BY <1>1, SameEnv, SameRounding, Zenon DEF Inv, TypeOK, Control, data, boundVars
<1>3. InRange' = InRange /\ Passing' = Passing
  BY <1>1, Zenon DEF InRange, Passing, Running
<1> QED BY <1>1, <1>2, <1>3, ControlFrame, Zenon DEF Inv

LEMMA NextInv == Inv /\ [Next]_vars => Inv'
<1> SUFFICES ASSUME Inv, [Next]_vars PROVE Inv'
  BY Zenon
<1>1. CASE BoundsAlreadySet
  BY <1>1, BoundsAlreadySetStep, Zenon
<1>2. CASE FindDate \/ NoDate
  BY <1>2, FindDateStep, NoDateStep, Zenon
<1>3. CASE \E answer \in {"OK", "AGAIN", "ERROR"} : state_seek_initially(answer)
  BY <1>3, SeekStep, Zenon
<1>4. CASE HandleMessage \/ EndOfBatch \/ UpstreamEnds
  BY <1>4, HandleMessageStep, EndOfBatchStep, UpstreamEndsStep, Zenon
<1>5. CASE \E s \in Streams : end_stream(s)
  BY <1>5, EndStreamStep, Zenon
<1>6. CASE StreamsEnded \/ FillArray \/ Ended
  BY <1>6, StreamsEndedStep, FillArrayStep, EndedStep, Zenon
<1>7. CASE \E answer \in {"AGAIN", "ERROR"} : UpstreamAnswers(answer)
  BY <1>7, UpstreamAnswersStep, Zenon
<1>8. CASE UNCHANGED vars
  BY <1>8, Stutter, Zenon
<1> QED BY <1>1, <1>2, <1>3, <1>4, <1>5, <1>6, <1>7, <1>8, Zenon DEF Next, Step

\* The invariant of the trimmer's message iterator holds.
THEOREM Invariance == Spec => []Inv
<1> QED BY InitInv, NextInv, PTL DEF Spec

\* No assertion of trimmer.c fails but the one on the bounds, after a seek which asked
\* to try again, and the one on clipped discarded items, when the end of the range is
\* rounded; and end_stream() can convert the end of the range.
THEOREM AssertionsHold == Spec => []NoAssertionFails
<1>1. Inv => NoAssertionFails
  <2> SUFFICES ASSUME Inv PROVE NoAssertionFails
    BY Zenon
  <2>1. EndIsInClockRange
    BY Zenon DEF Inv, Known, EndIsInClockRange
  <2> QED BY <2>1, Zenon DEF Inv, Control, EndIsRounded, NoAssertionFails
<1> QED BY <1>1, Invariance, PTL

\* What the trimmer returns is a legal message sequence, whatever its range cuts.
THEOREM OutputStaysLegal == Spec => []OutputIsLegal
<1>1. Inv => OutputIsLegal
  <2> SUFFICES ASSUME Inv PROVE OutputIsLegal
    BY Zenon
  <2>1. ASSUME status = "END", ~InactivityCut, NEW s \in Streams PROVE out.phase[s] \in {"none", "ended"}
    <3>1. CASE state = "ENDED"
      BY <2>1, <3>1, Zenon DEF Inv, AllEnded
    <3>2. CASE state # "ENDED"
      <4>1. ~InRange
        BY <2>1, <3>2, Zenon DEF Inv, Control, InRange
      <4> QED BY <4>1, Zenon DEF Inv, Untouched, NoPhase
    <3> QED BY <3>1, <3>2, Zenon
  <2> QED BY <2>1, Zenon DEF Inv, InTime, OutputIsLegal
<1> QED BY <1>1, Invariance, PTL

\* What the trimmer returns is the range, all of it and nothing else.
THEOREM OutputStaysTheRange == Spec => []OutputIsTheRange
<1>1. Inv => OutputIsTheRange
  <2> SUFFICES ASSUME Inv PROVE OutputIsTheRange
    BY Zenon
  <2>1. Passing => /\ out.count = env.MaxMsgs - up.left
                   /\ out.phase = up.phase /\ out.packet = up.packet
                   /\ DOMAIN stream_states = {s \in Streams : up.phase[s] \in {"stream", "packet"}}
                   /\ \A s \in DOMAIN stream_states : stream_states[s].cur_packet = up.packet[s]
    BY Zenon DEF Inv, Follows
  <2>2. state \in {"ENDING", "ENDED"} /\ ~InactivityCut =>
          /\ IF cut = NoMessage THEN UpstreamIsOver
             ELSE ~end.is_infinite /\ get_msg_ns_from_origin(cut) > end.ns
          /\ \A s \in Streams : out.phase[s] = IF up.phase[s] = "none" THEN "none" ELSE "ended"
    BY Zenon DEF Inv, AllEnded, CutIsBeyond
  <2>3. ~end.is_infinite /\ InRange => out.last <= end.ns /\ out.reach <= end.ns
    BY Zenon DEF Inv, InTime
  <2> QED BY <2>1, <2>2, <2>3, Zenon DEF OutputIsTheRange, Passing, InRange
<1> QED BY <1>1, Invariance, PTL
=============================================================================
