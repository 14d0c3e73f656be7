-------------------------- MODULE SeqValidatorProofs --------------------------
(***************************************************************************)
(* The validator of src/lib/graph/iterator.c decides the message sequence  *)
(* rules, for any streams, packets and classes.                            *)
(*                                                                         *)
(* The inductive invariant relates the validator's state of each stream to *)
(* the stream's place in the regular expression: among the types which can *)
(* be created for the stream, the expected ones are the allowed ones.      *)
(***************************************************************************)
EXTENDS SeqValidator, TLAPS

\* The validator's state agrees with a place in the regular expression.
Agrees(c, st, ph, packet) ==
    /\ st.cur_packet = packet
    /\ ph = "packet" <=> packet # NoPacket
    /\ ph = "packet" => c.packets
    /\ st.seen <=> ph # "none"
    /\ ph = "ended" => st.expected = {}
    /\ \A type \in CreatableTypes(c) : type \in st.expected <=> MipAllows(c, ph, type)

IInv ==
    /\ TypeOK
    /\ verdict # "BT_ASSERT"
    /\ \A s \in Streams : Agrees(class[s], per_stream_state[s], phase[s], open[s])

\* Once accepted, a message leads to states which agree again.
LEMMA StepAgrees ==
    ASSUME NEW c \in Classes, NEW st \in StreamStates, NEW ph \in Phases,
           NEW open0 \in Packets \cup {NoPacket},
           NEW type \in CreatableTypes(c), NEW packet \in CreatablePackets(c, type),
           Agrees(c, st, ph, open0),
           type \in st.expected
    PROVE  /\ ValidatorStep(c, st, type, packet) \in StreamStates
           /\ MipNext(ph, type) \in Phases
           /\ Agrees(c, ValidatorStep(c, st, type, packet), MipNext(ph, type),
                     IF type = "PB" THEN packet ELSE IF type = "PE" THEN NoPacket ELSE open0)
<1>0. type \in StreamTypes
  BY DEF CreatableTypes, StreamTypes
<1>1. MipAllows(c, ph, type)
  BY DEF Agrees
<1>2. packet \in Packets \cup {NoPacket} /\ NoPacket \notin Packets
  BY SequenceAssumption DEF CreatablePackets
<1>. DEFINE st2 == ValidatorStep(c, st, type, packet)
            ph2 == MipNext(ph, type)
            open2 == IF type = "PB" THEN packet ELSE IF type = "PE" THEN NoPacket ELSE open0
            exp2 == update_expected_msg_type(c, st.cur_packet, type)
<1>3. exp2 \subseteq StreamTypes
  <2>1. CASE type \in {"SB", "SE", "EV", "PB"}
    BY <2>1 DEF update_expected_msg_type, If, StreamTypes
  <2>2. CASE type \in {"PE", "DE", "DP"}
    BY <2>2 DEF update_expected_msg_type, If, StreamTypes
  <2>. QED BY <1>0, <2>1, <2>2 DEF StreamTypes
<1>4. /\ st2.seen = TRUE /\ st2.expected = exp2
      /\ st2.cur_packet \in Packets \cup {NoPacket}
      /\ st2 \in StreamStates
  BY <1>2, <1>3 DEF ValidatorStep, StreamStates
<1>5. ph2 \in Phases
  BY DEF MipNext, Phases
<1>6. st2.cur_packet = open2
  BY <1>0 DEF ValidatorStep, Agrees, StreamTypes
<1>7. /\ ph2 = "packet" <=> open2 # NoPacket
      /\ ph2 = "packet" => c.packets
      /\ ph2 # "none"
  <2>1. CASE type = "PB"
    BY <2>1, <1>2 DEF MipNext, CreatableTypes, CreatablePackets
  <2>2. CASE type \in {"PE", "SE", "SB"}
    BY <2>2, <1>1 DEF MipNext, MipAllows, Agrees, Phases
  <2>3. CASE type \in {"EV", "DE", "DP"}
    BY <2>3, <1>1 DEF MipNext, MipAllows, Agrees, Phases
  <2>. QED BY <1>0, <2>1, <2>2, <2>3 DEF StreamTypes
<1>8. ph2 = "ended" => exp2 = {}
  BY <1>0, <1>1 DEF MipNext, MipAllows, update_expected_msg_type, Phases, StreamTypes
<1>9. ASSUME NEW t \in CreatableTypes(c)
      PROVE  t \in exp2 <=> MipAllows(c, ph2, t)
  <2>0. t \in StreamTypes
    BY DEF CreatableTypes, StreamTypes
  <2>1. CASE type = "SB"
    BY <2>1, <2>0 DEF MipNext, MipAllows, update_expected_msg_type, If, StreamTypes, CreatableTypes, Classes
  <2>2. CASE type = "SE"
    BY <2>2, <2>0 DEF MipNext, MipAllows, update_expected_msg_type
  <2>3. CASE type = "PB"
    BY <2>3, <2>0 DEF MipNext, MipAllows, update_expected_msg_type, If, StreamTypes, CreatableTypes, Classes
  <2>4. CASE type = "PE"
    BY <2>4, <2>0, <1>1 DEF MipNext, MipAllows, update_expected_msg_type, If, StreamTypes, CreatableTypes, Classes, Agrees, Phases
  <2>5. CASE type = "EV"
    BY <2>5, <2>0, <1>1 DEF MipNext, MipAllows, update_expected_msg_type, If, StreamTypes, CreatableTypes, Classes, Agrees, Phases
  <2>6. CASE type = "DE"
    BY <2>6, <2>0, <1>1 DEF MipNext, MipAllows, update_expected_msg_type, If, StreamTypes, CreatableTypes, Classes, Agrees, Phases
  <2>7. CASE type = "DP"
    BY <2>7, <2>0, <1>1 DEF MipNext, MipAllows, update_expected_msg_type, If, StreamTypes, CreatableTypes, Classes, Agrees, Phases
  <2>. QED BY <1>0, <2>1, <2>2, <2>3, <2>4, <2>5, <2>6, <2>7 DEF StreamTypes
<1>. QED
  BY <1>4, <1>5, <1>6, <1>7, <1>8, <1>9 DEF Agrees

LEMMA InitIInv == Init => IInv
<1>. SUFFICES ASSUME Init PROVE IInv
  OBVIOUS
<1>1. FreshState \in StreamStates
  BY DEF FreshState, StreamStates, StreamTypes
<1>2. TypeOK
  BY <1>1 DEF Init, TypeOK, Verdicts, Phases
<1>3. ASSUME NEW s \in Streams
      PROVE  Agrees(class[s], per_stream_state[s], phase[s], open[s])
  <2>1. /\ per_stream_state[s] = FreshState /\ phase[s] = "none" /\ open[s] = NoPacket
    BY DEF Init
  <2>. QED BY <2>1 DEF Agrees, FreshState, MipAllows
<1>. QED BY <1>2, <1>3 DEF IInv, Init

LEMMA CheckIInv ==
    ASSUME IInv, NEW s \in Streams, NEW type \in StreamTypes,
           NEW packet \in Packets \cup {NoPacket}, Check(s, type, packet)
    PROVE  IInv'
<1>. USE DEF IInv
<1>1. /\ class[s] \in Classes /\ per_stream_state[s] \in StreamStates
      /\ phase[s] \in Phases /\ open[s] \in Packets \cup {NoPacket}
  BY DEF TypeOK
<1>2. /\ type \in CreatableTypes(class[s]) /\ packet \in CreatablePackets(class[s], type)
      /\ class' = class
  BY DEF Check
<1>3. Agrees(class[s], per_stream_state[s], phase[s], open[s])
  OBVIOUS
<1>4. type \in per_stream_state[s].expected => CurPacketAsserts(per_stream_state[s], type)
  BY <1>1, <1>2, <1>3 DEF Agrees, MipAllows, CurPacketAsserts, Phases
<1>5. verdict' = Verdict(per_stream_state[s], type, packet)
  BY DEF Check
<1>6. verdict' \in Verdicts /\ verdict' # "BT_ASSERT"
  BY <1>4, <1>5 DEF Verdict, Verdicts, assert_post_dev_expected_sequence
<1>7. CASE verdict' = "accepted"
  <2>. DEFINE st2 == ValidatorStep(class[s], per_stream_state[s], type, packet)
              ph2 == MipNext(phase[s], type)
              open2 == IF type = "PB" THEN packet ELSE IF type = "PE" THEN NoPacket ELSE open[s]
  <2>1. type \in per_stream_state[s].expected
    BY <1>5, <1>7 DEF Verdict, assert_post_dev_expected_sequence
  <2>2. /\ st2 \in StreamStates /\ ph2 \in Phases
        /\ Agrees(class[s], st2, ph2, open2)
    BY <1>1, <1>2, <1>3, <2>1, StepAgrees
  <2>3. open2 \in Packets \cup {NoPacket}
    BY <1>1
  <2>4. /\ per_stream_state' = [per_stream_state EXCEPT ![s] = st2]
        /\ phase' = [phase EXCEPT ![s] = ph2]
        /\ open' = [open EXCEPT ![s] = open2]
    BY <1>7 DEF Check
  <2>. HIDE DEF st2, ph2, open2
  <2>5. TypeOK'
    BY <1>2, <1>6, <2>2, <2>3, <2>4 DEF TypeOK
  <2>6. ASSUME NEW r \in Streams
        PROVE  Agrees(class[r], per_stream_state'[r], phase'[r], open'[r])
    <3>1. CASE r = s
      BY <2>2, <2>4, <3>1 DEF TypeOK
    <3>2. CASE r # s
      <4>1. /\ per_stream_state'[r] = per_stream_state[r]
            /\ phase'[r] = phase[r] /\ open'[r] = open[r]
        BY <2>4, <3>2 DEF TypeOK
      <4>. QED BY <4>1
    <3>. QED BY <3>1, <3>2
  <2>. QED BY <1>2, <1>6, <2>5, <2>6
<1>8. CASE verdict' # "accepted"
  <2>1. UNCHANGED <<per_stream_state, phase, open>>
    BY <1>8 DEF Check
  <2>2. TypeOK'
    BY <1>2, <1>6, <2>1 DEF TypeOK
  <2>. QED BY <1>2, <1>6, <2>1, <2>2
<1>. QED BY <1>7, <1>8

LEMMA NextIInv == IInv /\ [Next]_vars => IInv'
<1>. SUFFICES ASSUME IInv, [Next]_vars PROVE IInv'
  OBVIOUS
<1>1. CASE \E s \in Streams, type \in StreamTypes, packet \in Packets \cup {NoPacket} :
             Check(s, type, packet)
  BY <1>1, CheckIInv
<1>2. CASE CheckEnd
  <2>1. TypeOK'
    BY <1>2 DEF CheckEnd, IInv, TypeOK, Verdicts
  <2>. QED BY <1>2, <2>1 DEF CheckEnd, IInv
<1>3. CASE UNCHANGED vars
  <2>1. TypeOK'
    BY <1>3 DEF vars, IInv, TypeOK
  <2>. QED BY <1>3, <2>1 DEF vars, IInv
<1>. QED BY <1>1, <1>2, <1>3 DEF Next

LEMMA Inductive == Spec => []IInv
<1>. QED BY InitIInv, NextIInv, PTL DEF Spec

(* The variables of the validator keep their types.                        *)
THEOREM TypeCorrect == Spec => []TypeOK
<1>1. IInv => TypeOK
  BY DEF IInv
<1>. QED BY <1>1, Inductive, PTL

(* assert_post_dev_expected_packet()'s plain assertions are never the ones *)
(* which fail, whatever messages a component returns.                      *)
THEOREM PlainAsserts == Spec => []PlainAssertsNeverFire
<1>1. IInv => PlainAssertsNeverFire
  BY DEF IInv, PlainAssertsNeverFire
<1>. QED BY <1>1, Inductive, PTL

(* update_expected_msg_type() and the packet check accept a message exactly*)
(* when the protocol allows it at this point of its stream.                *)
THEOREM AcceptsDecidesMip == Spec => []AcceptsIsMip
<1>1. IInv => AcceptsIsMip
  <2>. SUFFICES ASSUME IInv, NEW s \in Streams, NEW type \in StreamTypes,
                       NEW packet \in Packets \cup {NoPacket},
                       type \in CreatableTypes(class[s])
                PROVE  Verdict(per_stream_state[s], type, packet) = "accepted"
                         <=> /\ MipAllows(class[s], phase[s], type)
                             /\ type \in {"PE", "EV"} => packet = open[s]
    BY DEF AcceptsIsMip
  <2>1. Agrees(class[s], per_stream_state[s], phase[s], open[s]) /\ phase[s] \in Phases
    BY DEF IInv, TypeOK
  <2>2. MipAllows(class[s], phase[s], type) => CurPacketAsserts(per_stream_state[s], type)
    BY <2>1 DEF Agrees, MipAllows, CurPacketAsserts, Phases
  <2>. QED
    BY <2>1, <2>2 DEF Verdict, Agrees, assert_post_dev_expected_sequence,
                      assert_post_dev_expected_packet
<1>. QED BY <1>1, Inductive, PTL

(* assert_post_dev_next()'s END check complains exactly about the streams  *)
(* which began and did not end.                                            *)
THEOREM EndCheckDecidesMip == Spec => []EndCheckIsMip
<1>1. IInv => EndCheckIsMip
  <2>. SUFFICES ASSUME IInv, NEW s \in Streams
                PROVE  StreamIsEnded(per_stream_state[s]) <=> phase[s] \in {"none", "ended"}
    BY DEF EndCheckIsMip
  <2>1. Agrees(class[s], per_stream_state[s], phase[s], open[s]) /\ phase[s] \in Phases
    BY DEF IInv, TypeOK
  <2>2. phase[s] = "stream" => "SE" \in per_stream_state[s].expected
    BY <2>1 DEF Agrees, MipAllows, CreatableTypes
  <2>3. phase[s] = "packet" => "PE" \in per_stream_state[s].expected
    BY <2>1 DEF Agrees, MipAllows, CreatableTypes
  <2>. QED BY <2>1, <2>2, <2>3 DEF StreamIsEnded, Agrees, Phases
<1>. QED BY <1>1, Inductive, PTL

(* The validator decides the message sequence rules, at every message and  *)
(* at END.                                                                 *)
THEOREM ValidatorDecidesMip == Spec => []ValidatorIsMip
<1>1. AcceptsIsMip /\ EndCheckIsMip => ValidatorIsMip
  BY DEF ValidatorIsMip
<1>. QED BY <1>1, AcceptsDecidesMip, EndCheckDecidesMip, PTL
=============================================================================
