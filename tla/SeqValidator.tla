---------------------------- MODULE SeqValidator ----------------------------
(***************************************************************************)
(* The developer-mode validator of call_iterator_next_method() watching    *)
(* the messages of several streams, next to the protocol's own view of the *)
(* same messages.  The environment offers any message which the library    *)
(* lets a component create, legal or not, and may end at any time.         *)
(***************************************************************************)
EXTENDS MessageSequence

VARIABLES
    class,             \* the class of each stream
    per_stream_state,  \* iterator->per_stream_state
    verdict,           \* "accepted", or the name of the assertion which aborted
    phase,             \* reference: where each stream is in its regular expression
    open               \* reference: the packet each stream is in

vars == <<class, per_stream_state, verdict, phase, open>>

Verdicts == {"accepted", "message-type-is-expected", "message-packet-is-expected",
             "BT_ASSERT", "stream-is-ended"}

Init ==
    /\ class \in [Streams -> Classes]
    /\ per_stream_state = [s \in Streams |-> FreshState]
    /\ verdict = "accepted"
    /\ phase = [s \in Streams |-> "none"]
    /\ open = [s \in Streams |-> NoPacket]

\* What the checks say of a message.
Verdict(st, type, packet) ==
    IF ~assert_post_dev_expected_sequence(st, type) THEN "message-type-is-expected"
    ELSE IF ~CurPacketAsserts(st, type) THEN "BT_ASSERT"
    ELSE IF ~assert_post_dev_expected_packet(st, type, packet) THEN "message-packet-is-expected"
    ELSE "accepted"

\* assert_post_dev_next() for one message of the returned batch.
Check(s, type, packet) ==
    /\ verdict = "accepted"
    /\ type \in CreatableTypes(class[s])
    /\ packet \in CreatablePackets(class[s], type)
    /\ verdict' = Verdict(per_stream_state[s], type, packet)
    /\ IF verdict' = "accepted"
       THEN /\ per_stream_state' = [per_stream_state EXCEPT
                  ![s] = ValidatorStep(class[s], per_stream_state[s], type, packet)]
            /\ phase' = [phase EXCEPT ![s] = MipNext(phase[s], type)]
            /\ open' = [open EXCEPT ![s] = IF type = "PB" THEN packet
                                           ELSE IF type = "PE" THEN NoPacket ELSE open[s]]
       ELSE UNCHANGED <<per_stream_state, phase, open>>
    /\ UNCHANGED class

\* "next" returns END.  A stream's state survives, so that nothing may follow.
CheckEnd ==
    /\ verdict = "accepted"
    /\ \E s \in Streams : ~StreamIsEnded(per_stream_state[s])
    /\ verdict' = "stream-is-ended"
    /\ UNCHANGED <<class, per_stream_state, phase, open>>

Next ==
    \/ \E s \in Streams, type \in StreamTypes, packet \in Packets \cup {NoPacket} :
          Check(s, type, packet)
    \/ CheckEnd

Spec == Init /\ [][Next]_vars

-----------------------------------------------------------------------------

TypeOK ==
    /\ class \in [Streams -> Classes]
    /\ per_stream_state \in [Streams -> StreamStates]
    /\ verdict \in Verdicts
    /\ phase \in [Streams -> Phases]
    /\ open \in [Streams -> Packets \cup {NoPacket}]

(* For every stream and every message which can be created for it, the     *)
(* validator lets the message through exactly when the protocol allows it  *)
(* there: the bit masks of update_expected_msg_type() are the regular      *)
(* expressions, neither stricter nor laxer.                                *)
AcceptsIsMip ==
    \A s \in Streams, type \in StreamTypes, packet \in Packets \cup {NoPacket} :
        type \in CreatableTypes(class[s]) /\ packet \in CreatablePackets(class[s], type) =>
            (Verdict(per_stream_state[s], type, packet) = "accepted"
               <=> /\ MipAllows(class[s], phase[s], type)
                   /\ type \in {"PE", "EV"} => packet = open[s])

(* The plain BT_ASSERT()s on the current packet (iterator.c:1194 and 1205) *)
(* sit behind the type check: whatever a component returns, the developer  *)
(* sees the descriptive post-condition failure, never a bare assertion.    *)
PlainAssertsNeverFire == verdict # "BT_ASSERT"

(* At END, the validator complains about a stream exactly when its message *)
(* sequence began and did not reach its stream end message.                *)
EndCheckIsMip ==
    \A s \in Streams : StreamIsEnded(per_stream_state[s]) <=> phase[s] \in {"none", "ended"}

(* The developer-mode validator decides the message sequence rules, message*)
(* by message (assert_post_dev_expected_sequence(), ..._packet()) and at   *)
(* END (assert_post_dev_next()).                                           *)
ValidatorIsMip == AcceptsIsMip /\ EndCheckIsMip
=============================================================================
