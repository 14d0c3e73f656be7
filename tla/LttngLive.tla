------------------------------ MODULE LttngLive ------------------------------
(***************************************************************************)
(* The message iterator of a `source.ctf.lttng-live` component             *)
(* (src/src/plugins/ctf/lttng-live): it asks a relay daemon for the streams*)
(* of its sessions, for their metadata, for packets or for the time until  *)
(* which a stream stays inactive, and merges the messages of all the       *)
(* streams by time.                                                        *)
(*                                                                         *)
(* One step is one exchange with the relay or one turn of a loop. The relay*)
(* answers anything its protocol allows: what it keeps to itself is in     *)
(* `relay`. Ties between messages of equal times are broken by the message *)
(* comparator (module MessageComparator): here any of them goes first.     *)
(***************************************************************************)
EXTENDS Integers, Sequences, FiniteSetsExt

CONSTANTS
  Sessions,   \* sessions the relay may list
  Traces,     \* traces of the sessions
  Streams,    \* data streams of the traces
  Scenarios,  \* possible [act |-> session-not-found-action parameter,
              \* session |-> session of a trace, trace |-> trace of a stream,
              \* first |-> first time of a stream]
  MaxTs,      \* last time of the model; 0 is INT64_MIN
  Capacity,   \* messages a call may return
  None

VARIABLES
  env,        \* the scenario, never changes
  sessions,   \* lttng_live_msg_iter::sessions
  ss,         \* attributes of each session
  tr,         \* attributes of each trace
  it,         \* attributes of each stream iterator
  active,     \* active_stream_iter
  lastTs,     \* last_msg_ts_ns
  interrupted,\* was_interrupted
  pc,         \* where the "next" method is; "idle" between two calls
  pos,        \* its loop counters
  count,      \* messages of the current call
  relay,      \* what the relay knows
  result,     \* what the last call returned, or how the process aborted
  phase,      \* history: what was sent downstream of each stream
  behind,     \* history: streams created where the current scan had already passed
  late        \* history: the stream of the late message which made a call fail

objects == <<sessions, ss, tr, it, active>>
history == <<phase, behind, late>>
vars == <<env, objects, lastTs, interrupted, pc, pos, count, relay, result, history>>

Times == 1..MaxTs
TraceOf(s) == env.trace[s]
SessionOf(s) == env.session[TraceOf(s)]

Existing == Range(env.session)

Message(type, ts) == [type |-> type, ts |-> ts]
StreamBeginning == Message("stream beginning", None)
StreamEnd == Message("stream end", None)

\* What the constants may be.
ASSUME LttngLiveAssumption ==
  /\ IsFiniteSet(Sessions) /\ IsFiniteSet(Traces) /\ IsFiniteSet(Streams)
  /\ \A e \in Scenarios : /\ e.session \in [Traces -> Sessions] /\ e.trace \in [Streams -> Traces]
                          /\ e.first \in [Streams -> Times]
  /\ MaxTs \in Nat /\ Capacity \in Nat \ {0}

\* The messages which the iterator makes.
MessageType ==
  [type : {"stream beginning", "stream end", "discarded", "packet", "inactivity"},
   ts : Times \union {None}]

\* None is no time, no stream and no message.
ASSUME NoneAssumption == None \notin 0..(MaxTs + 1) \union Streams \union MessageType

HeldTraces == UNION {Range(ss[g].traces) : g \in Range(sessions)}
Iterators == UNION {Range(tr[t].iters) : t \in HeldTraces}

-----------------------------------------------------------------------------
(***************************************************************************)
(* Objects.                                                                *)
(***************************************************************************)

\* A new session (lttng_live_add_session).
NewSession == [attached |-> FALSE, newStreams |-> TRUE, closed |-> FALSE, traces |-> <<>>]

\* A new trace (lttng_live_create_trace) with its metadata stream; `made`
\* tells whether the trace object exists.
NewTrace == [meta |-> "NEEDED", made |-> FALSE, iters |-> <<>>]

\* A new stream iterator (lttng_live_stream_iterator_create); `todo` is what
\* the CTF message iterator, if there is one (`decoder`), has left of the current
\* packet, of which it has read nothing yet, or something, or it is done (`read`).
NewIterator == [state |-> "ACTIVE_NO_DATA", lastInact |-> None, curInact |-> 0,
                msg |-> None, ts |-> 0, hung |-> FALSE, decoder |-> FALSE, todo |-> <<>>,
                read |-> "nothing"]

\* The elements of a set in the order in which the relay happens to give them.
ListOf(S) == CHOOSE seq \in [1..Cardinality(S) -> S] : IsInjective(seq)

\* Mutant: the last element is dropped and the removed one stays.
vectorFastRemove_DropsLast(seq, i) == SubSeq(seq, 1, Len(seq) - 1)

\* bt2c::vectorFastRemove: the last element replaces the removed one.
vectorFastRemove(seq, i) ==
  [j \in 1..(Len(seq) - 1) |-> IF j = i THEN seq[Len(seq)] ELSE seq[j]]

Start == [si |-> 1, ti |-> 1, xi |-> 1, k |-> 1, caller |-> "session"]

-----------------------------------------------------------------------------
(***************************************************************************)
(* The relay.                                                              *)
(***************************************************************************)

\* Streams of g which the relay has yet to announce. It announces the metadata
\* stream of a trace with the trace's first data streams, and nothing more of
\* a trace all the announced streams of which have hung up.
Hidden(g) == {s \in relay.hidden : SessionOf(s) = g /\ TraceOf(s) \notin relay.retired
                                   /\ g \notin relay.over}

AllHidden == UNION {Hidden(g) : g \in relay.listed}

\* The latest time the relay has given.
Given == Max({0} \union {relay.low[s] : s \in Streams \ relay.hidden})

\* What the relay may announce of g: at least the streams which could have
\* something older than what it has already given of the others.
Announcements(g) == {S \in SUBSET Hidden(g) :
                       \A s \in Hidden(g) : relay.low[s] <= Given => s \in S}

\* Whether a reply giving the time ts is flagged LTTNG_VIEWER_FLAG_NEW_STREAM:
\* always when an unannounced stream could have something older.
NewStreamFlags(ts) == {f \in BOOLEAN : /\ f => AllHidden # {}
                                       /\ (\E s \in AllHidden : relay.low[s] <= ts) => f}

\* lttng_live_need_new_streams.
Flagged(sess, f) == [g \in Sessions |->
  IF f /\ g \in Range(sessions) THEN [sess[g] EXCEPT !.newStreams = TRUE] ELSE sess[g]]

-----------------------------------------------------------------------------
(***************************************************************************)
(* Starting and returning.                                                 *)
(***************************************************************************)

Init ==
  /\ env \in Scenarios
  /\ sessions = <<>>
  /\ ss = [g \in Sessions |-> NewSession]
  /\ tr = [t \in Traces |-> NewTrace]
  /\ it = [s \in Streams |-> NewIterator]
  /\ active = 0
  /\ lastTs = 0
  /\ interrupted = FALSE
  /\ pc = "init"
  /\ pos = Start
  /\ count = 0
  /\ relay = [hidden |-> Streams, low |-> env.first, end |-> [s \in Streams |-> None],
              over |-> {}, listed |-> {}, retired |-> {}]
  /\ result = None
  /\ phase = [s \in Streams |-> "none"]
  /\ behind = {}
  /\ late = None

\* Returning from the method: END and errors are final.
Return(r) ==
  /\ result' = r
  /\ pc' = IF r \in {"OK", "AGAIN"} THEN "idle" ELSE "done"
  /\ pos' = Start
  /\ count' = 0

\* A failed assertion, bt_common_abort() or an exception nobody catches.
Abort(where) == Return(where)

\* The status AGAIN at the label return_status: the messages got so far go
\* downstream first.
ReturnAgain == Return(IF count > 0 THEN "OK" ELSE "AGAIN")

\* An exchange with the relay is interrupted by a signal, the graph being
\* interrupted.
Interrupted == interrupted' = TRUE /\ ReturnAgain

\* lttng_live_create_viewer_session: the sessions of that name which the
\* relay lists now. What they have is not older than what it has given of others.
AddSessions(S) ==
  /\ sessions' = ListOf(S)
  /\ ss' = [g \in Sessions |-> IF g \in S THEN NewSession ELSE ss[g]]
  /\ relay' = [relay EXCEPT !.listed = @ \union S,
       !.low = [s \in Streams |-> IF SessionOf(s) \in S THEN Max({@[s], Given}) ELSE @[s]]]
  /\ UNCHANGED <<tr, it, active>>

lttng_live_msg_iter_init ==
  /\ pc = "init"
  /\ \/ \E S \in SUBSET Existing :
          /\ AddSessions(S)
          /\ Return(IF S = {} /\ env.act = "fail" THEN "ERROR" ELSE "OK")
     \/ Return("ERROR") /\ UNCHANGED <<objects, relay>>
  /\ UNCHANGED <<env, lastTs, interrupted, history>>

Scan == pc' = "session" /\ pos' = Start /\ result' = None /\ UNCHANGED count

\* lttng_live_msg_iter_next up to its loop, when there are sessions:
\* lttng_live_force_new_streams_and_metadata when there are no streams.
BeginNext ==
  /\ pc = "idle" /\ ~interrupted /\ sessions # <<>>
  /\ Scan
  /\ LET force == active = 0
     IN /\ ss' = Flagged(ss, force)
        /\ tr' = [t \in Traces |-> IF force /\ t \in HeldTraces
                                   THEN [tr[t] EXCEPT !.meta = "NEEDED"] ELSE tr[t]]
  /\ UNCHANGED <<env, sessions, it, active, lastTs, interrupted, relay, history>>

\* The same without sessions: end, or look for new ones.
BeginNextWithoutSession ==
  /\ pc = "idle" /\ ~interrupted /\ sessions = <<>>
  /\ \/ /\ env.act # "continue"
        /\ Return("END")
        /\ UNCHANGED <<objects, relay, interrupted>>
     \/ /\ env.act = "continue"
        /\ \/ /\ \E S \in SUBSET (Existing \ relay.listed) : AddSessions(S)
              /\ Scan /\ UNCHANGED interrupted
           \/ Interrupted /\ UNCHANGED <<objects, relay>>
           \/ Return("ERROR") /\ UNCHANGED <<objects, relay, interrupted>>
  /\ UNCHANGED <<env, lastTs, history>>

\* The iterator does not support continuing after an interruption.
BeginNextInterrupted ==
  /\ pc = "idle" /\ interrupted
  /\ Return("ERROR")
  /\ UNCHANGED <<env, objects, lastTs, interrupted, relay, history>>

-----------------------------------------------------------------------------
(***************************************************************************)
(* lttng_live_get_session, called for each session by the scan and, before *)
(* each attempt to get a message of a stream, for all the sessions.        *)
(***************************************************************************)

\* The session it is called for.
Updated == sessions[IF pos.caller = "session" THEN pos.si ELSE pos.k]

\* The traces of the session which need their metadata, in order. (A trace always
\* has its metadata stream, see Hidden: the branch for one without is not modelled.)
Needing(g) == SelectSeq(ss[g].traces, LAMBDA t : tr[t].meta = "NEEDED")

\* The session is attached and there is nothing to ask for: a call for it does
\* nothing.
Idle(g) == ss[g].attached /\ ~ss[g].newStreams /\ Needing(g) = <<>>

\* Its first step for g: attach, get the new streams, update the metadata.
FirstStep(g) == IF ~ss[g].attached THEN "attach"
                ELSE IF ss[g].newStreams THEN "streams" ELSE "metadata"

\* It returns OK.
GetSessionReturns ==
  IF pos.caller = "session"
  THEN pc' = "stream" /\ UNCHANGED pos
  ELSE pc' = "retry" /\ pos' = [pos EXCEPT !.k = @ + 1]

\* receive_streams: iterators are created at the end of their trace, and
\* traces at the end of their session. Without `all` it is interrupted or
\* fails after having received S.
receive_streams(g, S, all) ==
  LET new == {TraceOf(s) : s \in S} \ Range(ss[g].traces)
      passed(t) == \/ \E i \in 1..(pos.si - 1) : sessions[i] = g
                   \/ /\ g = sessions[pos.si]
                      /\ \E i \in 1..(pos.ti - 1) : ss[g].traces[i] = t
  IN /\ ss' = [ss EXCEPT ![g].traces = @ \o ListOf(new), ![g].newStreams = @ /\ ~all,
                         ![g].attached = @ \/ all]
     /\ tr' = [t \in Traces |->
                 LET base == IF t \in new THEN NewTrace ELSE tr[t]
                 IN [base EXCEPT !.iters = @ \o ListOf({s \in S : TraceOf(s) = t})]]
     /\ it' = [s \in Streams |-> IF s \in S THEN NewIterator ELSE it[s]]
     /\ active' = active + Cardinality(S)
     /\ relay' = [relay EXCEPT !.hidden = @ \ S]
     /\ behind' = behind \union {s \in S : pos.caller = "retry" /\ passed(TraceOf(s))}
     /\ UNCHANGED <<sessions, phase, late>>

lttng_live_session_attach ==
  /\ pc = "attach"
  /\ \/ /\ \E S \in Announcements(Updated) : receive_streams(Updated, S, TRUE)
        /\ pc' = "metadata" /\ UNCHANGED <<pos, count, result, interrupted>>
     \/ /\ \E S \in Announcements(Updated) : receive_streams(Updated, S, FALSE)
        /\ Interrupted \/ (Return("ERROR") /\ UNCHANGED interrupted)
  /\ UNCHANGED <<env, lastTs>>

\* The relay says that there is nothing new, or hangs up: there will be nothing
\* more from this session, the metadata of which is then left as it is.
lttng_live_session_get_new_streams ==
  /\ pc = "streams"
  /\ \/ /\ Updated \notin relay.over
        /\ \E S \in Announcements(Updated) : receive_streams(Updated, S, TRUE)
        /\ pc' = "metadata" /\ UNCHANGED <<pos, count, result, interrupted>>
     \/ /\ \E S \in Announcements(Updated) : receive_streams(Updated, S, FALSE)
        /\ Interrupted \/ (Return("ERROR") /\ UNCHANGED interrupted)
     \/ /\ Updated \in relay.over
        /\ ss' = [ss EXCEPT ![Updated].newStreams = FALSE, ![Updated].closed = TRUE]
        /\ GetSessionReturns
        /\ UNCHANGED <<sessions, tr, it, active, relay, history, count, result, interrupted>>
  /\ UNCHANGED <<env, lastTs>>

\* The trace t after all that the relay had: some metadata or nothing (`got`),
\* and that the metadata stream no longer exists (`gone`). The first metadata has a
\* trace class with a stream class and a clock class.
Metadata(t, got, gone) ==
  IF got \/ tr[t].made THEN [tr[t] EXCEPT !.meta = "NOT_NEEDED", !.made = TRUE]
  ELSE [tr[t] EXCEPT !.meta = IF gone THEN "CLOSED" ELSE @]

\* What the relay may answer: it loses only a metadata stream of which it has
\* sent nothing, and sends what it has before it hangs up.
MetadataAnswers(t) ==
  {a \in [got : BOOLEAN, gone : BOOLEAN] :
     env.session[t] \in relay.over /\ ~tr[t].made => a.got \/ a.gone}

\* The status of an interrupted exchange is none of those which the function
\* expects.
lttng_live_metadata_update ==
  /\ pc = "metadata"
  /\ Needing(Updated) # <<>>
  /\ LET t == Head(Needing(Updated))
     IN \/ /\ \E a \in MetadataAnswers(t) :
                /\ tr' = [tr EXCEPT ![t] = Metadata(t, a.got, a.gone)]
                /\ IF a.got \/ tr[t].made THEN UNCHANGED <<pc, pos, count, result>>
                   ELSE ReturnAgain
           /\ UNCHANGED interrupted
        \/ /\ interrupted' = TRUE /\ Abort("metadata interrupted")
           /\ UNCHANGED tr
        \/ /\ Return("ERROR") /\ UNCHANGED <<tr, interrupted>>
  /\ UNCHANGED <<env, sessions, ss, it, active, lastTs, relay, history>>

MetadataUpdated ==
  /\ pc = "metadata"
  /\ Needing(Updated) = <<>>
  /\ GetSessionReturns
  /\ UNCHANGED <<env, objects, lastTs, interrupted, count, relay, result, history>>

-----------------------------------------------------------------------------
(***************************************************************************)
(* The scan: every stream of every trace of every session must have a      *)
(* current message; then the oldest one goes downstream.                   *)
(***************************************************************************)

Here == sessions[pos.si]
Trace == ss[Here].traces[pos.ti]
Stream == tr[Trace].iters[pos.xi]

\* Update the session, then go through its traces.
NextSession ==
  /\ pc = "session" /\ pos.si <= Len(sessions)
  /\ pc' = IF Idle(Here) THEN "stream" ELSE FirstStep(Here)
  /\ UNCHANGED <<env, objects, lastTs, interrupted, pos, count, relay, result, history>>

HasTrace == pos.ti <= Len(ss[Here].traces)

\* next_stream_iterator_for_trace returns, and next_stream_iterator_for_session
\* goes to the next trace: a trace without streams is removed.
EndOfStreams ==
  /\ pc = "stream" /\ HasTrace /\ pos.xi > Len(tr[Trace].iters)
  /\ IF tr[Trace].iters # <<>>
     THEN pos' = [pos EXCEPT !.ti = @ + 1, !.xi = 1] /\ UNCHANGED <<ss, relay>>
     ELSE /\ ss' = [ss EXCEPT ![Here].traces = vectorFastRemove(@, pos.ti)]
          /\ relay' = [relay EXCEPT !.retired = @ \union {Trace}]
          /\ pos' = [pos EXCEPT !.xi = 1]
  /\ UNCHANGED <<env, sessions, tr, it, active, lastTs, interrupted, pc, count, result, history>>

\* Mutant: the test of the session's closing is inverted.
RemovesSession_Open(g) == ~ss[g].closed /\ ss[g].traces = <<>>

\* lttng_live_msg_iter_next removes a session which is over.
RemovesSession(g) == ss[g].closed /\ ss[g].traces = <<>>

\* next_stream_iterator_for_session returns.
EndOfTraces ==
  /\ pc = "stream" /\ ~HasTrace
  /\ pc' = "session"
  /\ IF RemovesSession(Here)
     THEN sessions' = vectorFastRemove(sessions, pos.si) /\ pos' = [Start EXCEPT !.si = pos.si]
     ELSE pos' = [Start EXCEPT !.si = pos.si + 1] /\ UNCHANGED sessions
  /\ UNCHANGED <<env, ss, tr, it, active, lastTs, interrupted, count, relay, result, history>>

\* The current messages, those of the streams which the scan has seen.
Current == {s \in Iterators : it[s].msg # None}

\* live_get_msg_ts_ns.
TsOf(m) == IF m.ts = None THEN lastTs ELSE m.ts

\* Mutant: the newest message goes first.
Youngest_Newest == {s \in Current : \A u \in Current : it[s].ts >= it[u].ts}

\* A stream the current message of which goes downstream.
Youngest == {s \in Current : \A u \in Current : it[s].ts <= it[u].ts}

NextPhase(s) == CASE it[s].msg.type = "stream beginning" -> "begun"
                  [] it[s].msg.type = "stream end" -> "ended"
                  [] OTHER -> phase[s]

\* The end of a scan.
Deliver ==
  /\ pc = "session" /\ pos.si > Len(sessions) /\ Current # {}
  /\ \E s \in Youngest :
       /\ lastTs' = it[s].ts
       /\ it' = [it EXCEPT ![s].msg = None, ![s].ts = MaxTs + 1]
       /\ phase' = [phase EXCEPT ![s] = NextPhase(s)]
  /\ IF count + 1 < Capacity
     THEN count' = count + 1 /\ pos' = Start /\ UNCHANGED <<pc, result>>
     ELSE Return("OK")
  /\ UNCHANGED <<env, sessions, ss, tr, active, interrupted, relay, behind, late>>

NothingToDeliver ==
  /\ pc = "session" /\ pos.si > Len(sessions) /\ Current = {}
  /\ ReturnAgain
  /\ UNCHANGED <<env, objects, lastTs, interrupted, relay, history>>

-----------------------------------------------------------------------------
(***************************************************************************)
(* lttng_live_iterator_next_msg_on_stream for the stream of the scan.      *)
(***************************************************************************)

Continue == pc' = "retry" /\ pos' = [pos EXCEPT !.k = 1] /\ UNCHANGED <<count, result>>

\* The status END: the stream iterator is destroyed.
RemoveStream ==
  /\ tr' = [tr EXCEPT ![Trace].iters = vectorFastRemove(@, pos.xi)]
  /\ it' = [it EXCEPT ![Stream] = NewIterator]
  /\ active' = active - 1
  /\ pc' = "stream"
  /\ UNCHANGED <<sessions, count, result>>

\* A stream which has hung up has already been closed.
NextStream ==
  /\ pc = "stream" /\ HasTrace /\ pos.xi <= Len(tr[Trace].iters)
  /\ \/ /\ it[Stream].msg # None
        /\ pos' = [pos EXCEPT !.xi = @ + 1]
        /\ UNCHANGED <<objects, pc, count, result>>
     \/ /\ it[Stream].msg = None /\ it[Stream].hung
        /\ RemoveStream /\ UNCHANGED <<ss, pos>>
     \/ /\ it[Stream].msg = None /\ ~it[Stream].hung
        /\ Continue /\ UNCHANGED objects
  /\ UNCHANGED <<env, lastTs, interrupted, relay, history>>

\* lttng_live_iterator_handle_new_streams_and_metadata updates each session.
UpdateSession ==
  /\ pc = "retry"
  /\ \E k \in pos.k..Len(sessions) :
       /\ ~Idle(sessions[k]) /\ \A j \in pos.k..(k - 1) : Idle(sessions[j])
       /\ pc' = FirstStep(sessions[k])
       /\ pos' = [pos EXCEPT !.caller = "retry", !.k = k]
  /\ UNCHANGED <<env, objects, lastTs, interrupted, count, relay, result, history>>

\* When no session is open and the action is not to continue, it returns END,
\* which ends the stream.
SessionsUpdated ==
  /\ pc = "retry" /\ \A k \in pos.k..Len(sessions) : Idle(sessions[k])
  /\ pos' = [pos EXCEPT !.caller = "session", !.k = 1]
  /\ IF env.act # "continue" /\ \A g \in Range(sessions) : ss[g].closed
     THEN RemoveStream /\ UNCHANGED ss
     ELSE pc' = "message" /\ UNCHANGED <<objects, count, result>>
  /\ UNCHANGED <<env, lastTs, interrupted, relay, history>>

\* Mutant: the comparison with the last time of inactivity is backwards.
Adjustable_Backwards(s, m) == /\ it[s].lastInact # None
                              /\ m.type = "discarded"
                              /\ it[s].lastInact < m.ts

\* handle_late_message: whether the late message m can be adjusted.
Adjustable(s, m) == /\ it[s].lastInact # None
                    /\ m.type = "discarded"
                    /\ it[s].lastInact > m.ts

\* next_stream_iterator_for_trace gets m from the stream, of which `after` is
\* the iterator: it becomes the current message unless it is late and cannot
\* be adjusted.
GotMessage(after, m) ==
  LET s == Stream
  IN IF TsOf(m) >= lastTs \/ Adjustable(s, m)
     THEN /\ it' = [it EXCEPT ![s] = [after EXCEPT
                      !.msg = m, !.ts = IF TsOf(m) >= lastTs THEN TsOf(m) ELSE it[s].lastInact]]
          /\ behind' = IF m.ts = None THEN behind ELSE behind \ {s}
          /\ pc' = "stream"
          /\ UNCHANGED <<pos, count, result, late>>
     ELSE /\ Return("ERROR") /\ late' = s
          /\ UNCHANGED <<it, behind>>

\* handle_one_no_data_stream needs the metadata of the stream's trace and the
\* streams of its session.
MustUpdate(s) == tr[TraceOf(s)].meta = "NEEDED" \/ ss[SessionOf(s)].newStreams

\* The stages of one attempt at a message act on different states of the stream
\* iterator: one without data asks the relay.
NeedsUpdate ==
  /\ pc = "message" /\ MustUpdate(Stream)
  /\ Continue
  /\ UNCHANGED <<env, objects, lastTs, interrupted, relay, history>>

AsksIndex == /\ pc = "message" /\ ~MustUpdate(Stream)
             /\ it[Stream].state \in {"ACTIVE_NO_DATA", "QUIESCENT_NO_DATA"}

\* The relay has something to say of the stream's future.
Alive == Here \notin relay.over /\ tr[Trace].meta # "CLOSED"

-----------------------------------------------------------------------------
(***************************************************************************)
(* lttng_live_get_next_index: the replies of the relay.                    *)
(***************************************************************************)

\* Mutant: an unchanged time of inactivity is asked for again at once.
NothingNew_Never(s, ts) == FALSE

\* The relay repeats the time of the last inactivity message.
NothingNew(s, ts) == it[s].state = "QUIESCENT_NO_DATA" /\ it[s].lastInact = ts

\* LTTNG_VIEWER_INDEX_INACTIVE: nothing before ts.
IndexInactive ==
  /\ AsksIndex /\ Alive
  /\ \E ts \in relay.low[Stream]..MaxTs : \E f \in NewStreamFlags(ts) :
       /\ it' = [it EXCEPT ![Stream].state = "QUIESCENT", ![Stream].curInact = ts]
       /\ relay' = [relay EXCEPT !.low[Stream] = ts]
       /\ ss' = Flagged(ss, f)
       /\ IF NothingNew(Stream, ts) THEN ReturnAgain ELSE Continue
  /\ UNCHANGED <<env, sessions, tr, active, lastTs, interrupted, history>>

\* What the CTF message iterator makes of a packet of s from b to e: discarded
\* items begin where the previous packet ended.
Decoded(s, b, e, disc) ==
  (IF it[s].decoder THEN <<>> ELSE <<StreamBeginning>>)
  \o (IF disc THEN <<Message("discarded", relay.end[s])>> ELSE <<>>)
  \o <<Message("packet", b), Message("packet", e)>>

\* LTTNG_VIEWER_INDEX_OK: a packet, possibly needing new metadata first.
IndexOk ==
  /\ AsksIndex /\ Alive
  /\ \E b \in relay.low[Stream]..MaxTs : \E e \in b..MaxTs :
     \E disc \in IF relay.end[Stream] = None THEN {FALSE} ELSE BOOLEAN :
     \E f \in NewStreamFlags(e), fm \in BOOLEAN :
       /\ it' = [it EXCEPT ![Stream].state = "ACTIVE_DATA", ![Stream].read = "nothing",
                           ![Stream].todo = Decoded(Stream, b, e, disc)]
       /\ relay' = [relay EXCEPT !.low[Stream] = e, !.end[Stream] = e]
       /\ ss' = Flagged(ss, f)
       /\ tr' = IF fm THEN [tr EXCEPT ![Trace].meta = "NEEDED"] ELSE tr
  /\ UNCHANGED <<env, sessions, active, lastTs, interrupted, pc, pos, count, result, history>>

\* LTTNG_VIEWER_INDEX_RETRY, or the exchange is interrupted or fails.
IndexRetry ==
  /\ AsksIndex
  /\ \/ /\ Alive
        /\ it' = [it EXCEPT ![Stream].state = "ACTIVE_NO_DATA"]
        /\ \E f \in NewStreamFlags(0) : ss' = Flagged(ss, f)
        /\ ReturnAgain /\ UNCHANGED interrupted
     \/ Interrupted /\ UNCHANGED <<it, ss>>
     \/ Return("ERROR") /\ UNCHANGED <<it, ss, interrupted>>
  /\ UNCHANGED <<env, sessions, tr, active, lastTs, relay, history>>

\* LTTNG_VIEWER_INDEX_HUP: lttng_live_iterator_close_stream gets the last
\* message of the stream, if it ever began.
IndexHup ==
  /\ AsksIndex
  /\ \E f \in NewStreamFlags(0) : ss' = Flagged(ss, f)
  /\ LET after == [it[Stream] EXCEPT !.state = "EOF", !.hung = TRUE]
     IN IF after.decoder
        THEN GotMessage(after, StreamEnd) /\ UNCHANGED <<sessions, tr, active>>
        ELSE RemoveStream /\ UNCHANGED <<pos, behind, late>>
  /\ UNCHANGED <<env, lastTs, interrupted, relay, phase>>

-----------------------------------------------------------------------------
(***************************************************************************)
(* The message of a stream of which the relay has told the state.          *)
(***************************************************************************)

\* An inactivity message is made of the iterator i.
Informed(i) == [i EXCEPT !.lastInact = i.curInact]

\* lttng_live_iterator_next_handle_one_quiescent_stream.
HandleQuiescent ==
  /\ pc = "message" /\ ~MustUpdate(Stream) /\ it[Stream].state = "QUIESCENT"
  /\ IF it[Stream].lastInact = it[Stream].curInact
     THEN /\ it' = [it EXCEPT ![Stream].state = "QUIESCENT_NO_DATA"]
          /\ Continue /\ UNCHANGED <<behind, late>>
     ELSE IF tr[Trace].made
     THEN GotMessage(Informed(it[Stream]), Message("inactivity", it[Stream].curInact))
     ELSE Abort("no clock class") /\ UNCHANGED <<it, behind, late>>
  /\ UNCHANGED <<env, sessions, ss, tr, active, lastTs, interrupted, relay, phase>>

\* handle_one_active_data_stream needs everything about every session.
AnyMustUpdate == \E g \in Range(sessions) : \/ ss[g].newStreams
                                            \/ \E t \in Range(ss[g].traces) : tr[t].meta = "NEEDED"

HasData == /\ pc = "message" /\ ~MustUpdate(Stream)
           /\ it[Stream].state \notin {"ACTIVE_NO_DATA", "QUIESCENT_NO_DATA", "QUIESCENT"}

Decodes == HasData /\ ~AnyMustUpdate

\* lttng_live_stream_iterator_create_msg_iter, the first time: the properties of
\* the first packet are read before the CTF message iterator exists.
CreateDecoder ==
  /\ Decodes /\ ~it[Stream].decoder
  /\ it' = [it EXCEPT ![Stream].decoder = TRUE]
  /\ UNCHANGED <<env, sessions, ss, tr, active, lastTs, interrupted, pc, pos, count, relay, result,
                 history>>

\* The CTF message iterator gives the next message of the packet, asks for the
\* next packet, or has no more messages, which ends the stream.
HandleActiveData ==
  /\ HasData
  /\ LET i == it[Stream]
     IN \/ AnyMustUpdate /\ Continue /\ UNCHANGED <<sessions, tr, it, active, behind, late>>
        \/ /\ Decodes /\ i.decoder /\ i.todo # <<>>
           /\ GotMessage([i EXCEPT !.read = "something", !.todo = Tail(@)], Head(i.todo))
           /\ UNCHANGED <<sessions, tr, active>>
        \/ /\ Decodes /\ i.decoder /\ i.todo = <<>> /\ i.read # "done"
           /\ it' = [it EXCEPT ![Stream].state = "ACTIVE_NO_DATA"]
           /\ ReturnAgain /\ UNCHANGED <<sessions, tr, active, behind, late>>
        \/ /\ Decodes /\ i.read = "done"
           /\ RemoveStream /\ UNCHANGED <<pos, behind, late>>
  /\ UNCHANGED <<env, ss, lastTs, interrupted, relay, phase>>

\* lttng_live_get_stream_bytes: LTTNG_VIEWER_GET_PACKET_RETRY, or the relay has no
\* data yet for want of metadata or streams, or the exchange is interrupted or
\* fails. The exception which asks to try again is caught around the CTF message
\* iterator, but not around the reading of the first packet's properties.
NoStreamBytes ==
  /\ Decodes /\ it[Stream].todo # <<>>
  /\ LET again == IF it[Stream].decoder THEN ReturnAgain ELSE Abort("try again escapes")
     IN \/ /\ Here \notin relay.over
           /\ \E f \in NewStreamFlags(0), fm \in BOOLEAN :
                /\ ss' = Flagged(ss, f)
                /\ tr' = IF fm THEN [tr EXCEPT ![Trace].meta = "NEEDED"] ELSE tr
           /\ again /\ UNCHANGED interrupted
        \/ interrupted' = TRUE /\ again /\ UNCHANGED <<ss, tr>>
        \/ Return("ERROR") /\ UNCHANGED <<ss, tr, interrupted>>
  /\ UNCHANGED <<env, sessions, it, active, lastTs, relay, history>>

\* LTTNG_VIEWER_GET_PACKET_EOF where a packet begins is the end of the sequence of
\* items: of the stream for the CTF message iterator, while the reader of the first
\* packet's properties asserts that there is an item. (Within a packet it is one of
\* the errors of NoStreamBytes.)
StreamBytesEof ==
  /\ Decodes /\ it[Stream].todo # <<>> /\ it[Stream].read = "nothing"
  /\ IF it[Stream].decoder
     THEN GotMessage([it[Stream] EXCEPT !.read = "done", !.todo = <<>>], StreamEnd)
     ELSE Abort("no item") /\ UNCHANGED <<it, behind, late>>
  /\ UNCHANGED <<env, sessions, ss, tr, active, lastTs, interrupted, relay, phase>>

\* The relay has nothing more of the session g. The client notices it only in
\* an exchange.
RelayStops(g) ==
  /\ pc \in {"attach", "streams", "metadata", "message"}
  /\ g \in relay.listed \ relay.over
  /\ relay' = [relay EXCEPT !.over = @ \union {g}]
  /\ UNCHANGED <<env, objects, lastTs, interrupted, pc, pos, count, result, history>>

Client ==
  \/ lttng_live_msg_iter_init
  \/ BeginNext \/ BeginNextWithoutSession \/ BeginNextInterrupted
  \/ lttng_live_session_attach \/ lttng_live_session_get_new_streams
  \/ lttng_live_metadata_update \/ MetadataUpdated
  \/ NextSession \/ EndOfStreams \/ EndOfTraces \/ Deliver \/ NothingToDeliver
  \/ NextStream \/ UpdateSession \/ SessionsUpdated \/ NeedsUpdate
  \/ IndexInactive \/ IndexOk \/ IndexRetry \/ IndexHup
  \/ HandleQuiescent \/ CreateDecoder \/ HandleActiveData \/ NoStreamBytes \/ StreamBytesEof

Next == Client \/ \E g \in Sessions : RelayStops(g)

\* The graph keeps on asking for messages until the iterator ends, and the
\* relay answers each request.
FairSpec == Init /\ [][Next]_vars /\ WF_vars(Client)

-----------------------------------------------------------------------------
(***************************************************************************)
(* Properties.                                                             *)
(***************************************************************************)

\* Types: the states of enum lttng_live_stream_state and of enum
\* lttng_live_metadata_stream_state, and the vectors without duplicates.
TypeOK ==
  /\ IsInjective(sessions) /\ Range(sessions) \subseteq Sessions
  /\ \A g \in Sessions : IsInjective(ss[g].traces) /\ Range(ss[g].traces) \subseteq Traces
  /\ \A t \in Traces : /\ tr[t].meta \in {"NEEDED", "NOT_NEEDED", "CLOSED"}
                       /\ IsInjective(tr[t].iters) /\ Range(tr[t].iters) \subseteq Streams
  /\ \A s \in Streams : /\ it[s].state \in {"ACTIVE_NO_DATA", "ACTIVE_DATA", "QUIESCENT",
                                            "QUIESCENT_NO_DATA", "EOF"}
                        /\ it[s].ts \in 0..(MaxTs + 1)
  /\ active \in 0..Cardinality(Streams) /\ lastTs \in 0..MaxTs /\ count \in 0..Capacity

\* A late message which cannot be adjusted comes only from a stream which the
\* iterator learnt of when its scan had already passed the stream's trace: the
\* relay always tells of a stream before giving anything newer of the others.
LateOnlyBehindScan == late = None \/ late \in behind

\* The state is well typed and what the iterator checks of the objects it holds is true:
\* active_stream_iter counts the stream iterators of all the traces, a stream is
\* decoded only in the state ACTIVE_DATA, a message is made only once the first
\* metadata gave a trace and a clock class, and no trace with closed metadata is
\* left when there are no streams (lttng-live.cpp:165, 389, 474, 601,
\* data-stream.cpp:106).  Three exceptions: the status of an interrupted metadata
\* exchange is not expected (metadata.cpp:135); and around the reading of the first
\* packet's properties (data-stream.cpp:107) the exception which asks to try again
\* is not caught, and the end of the data fails an assertion (pkt-props.cpp:55): but
\* never once the stream has given a message.
HeldAssertions ==
  /\ TypeOK
  /\ active = Cardinality(Iterators)
  /\ Decodes => it[Stream].state = "ACTIVE_DATA" /\ tr[Trace].made
  /\ \/ result \in {None, "OK", "AGAIN", "END", "ERROR"}
     \/ result = "metadata interrupted" /\ interrupted
     \/ /\ result \in {"try again escapes", "no item"}
        /\ \E s \in Iterators : it[s].todo # <<>> /\ ~it[s].decoder /\ phase[s] = "none"
  /\ pc = "idle" /\ active = 0 => \A t \in HeldTraces : tr[t].meta # "CLOSED"

\* The assertions and checks of the iterator hold: those about what it holds, and no
\* message is late but behind the scan.
NoAssertionFails == HeldAssertions /\ LateOnlyBehindScan

\* The messages go downstream in order of time, whatever new streams, periods
\* of inactivity and discarded items come up (assertion at lttng-live.cpp:1403).
NeverBackInTime == [][lastTs' >= lastTs]_lastTs

\* A stream of which the beginning went downstream is dropped without its end
\* only when the session is closed and the action is not to continue.
EndedUnlessClosed ==
  \A s \in Streams \ Iterators :
    phase[s] = "begun" => env.act # "continue" /\ ss[SessionOf(s)].closed

\* Every call returns: the retry loop of lttng_live_iterator_next_msg_on_stream
\* always ends.
NextReturns == pc \notin {"idle", "done"} ~> pc \in {"idle", "done"}

\* Unless the action is to continue, the iterator ends when the relay has
\* nothing more of any of its sessions.
EndsWhenOver ==
  env.act # "continue" /\ relay.listed \subseteq relay.over /\ pc # "init" ~> pc = "done"
=============================================================================
