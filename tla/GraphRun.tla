------------------------------ MODULE GraphRun ------------------------------
(***************************************************************************)
(* Running a trace processing graph: src/lib/graph/graph.c.                *)
(*                                                                         *)
(* One thread (the graph user) adds sink components, then calls            *)
(* bt_graph_run() or bt_graph_run_once() as many times as it likes.  Both  *)
(* configure the graph on the first call (one "graph is configured" method *)
(* per sink), then make sinks consume in turn.  Other threads and signal   *)
(* handlers set and reset interrupters at any moment.  The methods of the  *)
(* sinks are user code: what they return is chosen freely.                 *)
(*                                                                         *)
(* Source and filter components play no part in these functions:           *)
(* configure_graph() skips them and the queue never holds them.            *)
(***************************************************************************)
EXTENDS Integers, Sequences, FiniteSets

CONSTANTS
    Sinks,          \* sink components the user may add
    Interrupters,   \* interrupter objects, the default one included
    Default,        \* graph->default_interrupter
    GuintMod        \* 2^w for the w-bit guint that holds a GQueue's length

ASSUME RunAssumption ==
    /\ Default \in Interrupters
    /\ GuintMod \in Nat \ {0}

VARIABLES
    configState,    \* graph->config_state
    components,     \* graph->components, the sinks only, in order
    sinksToConsume, \* graph->sinks_to_consume: the links, and the length field
    methodCalled,   \* sinks with graph_is_configured_method_called
    canConsume,     \* graph->can_consume
    interrupters,   \* graph->interrupters
    isSet,          \* interrupters with is_set
    api,            \* the API function in progress, "none" between calls
    pc,             \* where it is: "idle", "configure", "loop", "consume"
    cfgIndex,       \* i of configure_graph()'s loop (1-based)
    ret,            \* function and status of the last API call that returned
    \* What the sinks saw (history, read by the properties only):
    ended,          \* sinks whose consuming method returned END
    configCount,    \* successful "graph is configured" calls of each sink
    last,           \* sink and status of the last consuming method call
    waits           \* for each sink, the turns of each other sink since its own last one

graphVars == <<configState, components, sinksToConsume, methodCalled, canConsume>>
intrVars == <<interrupters, isSet>>
callVars == <<api, pc, cfgIndex, ret>>
histVars == <<ended, configCount, last, waits>>
vars == <<graphVars, intrVars, callVars, histVars>>

ConfigStates == {"CONFIGURING", "PARTIALLY_CONFIGURED", "CONFIGURED", "FAULTY"}
Statuses == {"OK", "END", "AGAIN", "ERROR"}
NoSink == "no sink"
NoTurns == [t \in Sinks |-> 0]

-----------------------------------------------------------------------------
(* GLib's GQueue, as graph.c uses it.  The length is a field of its own    *)
(* that each function adjusts; g_queue_is_empty() looks at the head.       *)

g_queue_new == [links |-> <<>>, length |-> 0]

g_queue_is_empty(q) == q.links = <<>>

g_queue_push_tail(q, node) ==
    [links |-> Append(q.links, node), length |-> (q.length + 1) % GuintMod]

\* The caller gets Head(q.links) back.
g_queue_pop_head_link(q) ==
    [links |-> Tail(q.links), length |-> (q.length - 1) % GuintMod]

\* Called on a node that g_queue_pop_head_link() has already unlinked: there
\* is no link left to remove, and the length is decremented all the same.
g_queue_delete_link(q) == [q EXCEPT !.length = (@ - 1) % GuintMod]

-----------------------------------------------------------------------------
Range(s) == {s[i] : i \in 1..Len(s)}

\* has_sink is set with the first sink added; `components' holds sinks only.
hasSink == components # <<>>

bt_graph_is_interrupted == \E i \in interrupters : i \in isSet

\* bt_graph_create()
Init ==
    /\ configState = "CONFIGURING"
    /\ components = <<>>
    /\ sinksToConsume = g_queue_new
    /\ methodCalled = {}
    /\ canConsume = TRUE
    /\ interrupters = {Default}
    /\ isSet = {}
    /\ api = "none"
    /\ pc = "idle"
    /\ cfgIndex = 1
    /\ ret = <<"bt_graph_create", "OK">>
    /\ ended = {}
    /\ configCount = [s \in Sinks |-> 0]
    /\ last = <<NoSink, "OK">>
    /\ waits = [s \in Sinks |-> NoTurns]

-----------------------------------------------------------------------------
(* The configuration phase and the interrupters.                           *)

\* add_component_with_init_method_data() for a sink.  The user's
\* initialization method succeeds or fails; a failure makes the graph faulty.
AddSink(s) ==
    /\ pc = "idle"
    /\ configState = "CONFIGURING"
    /\ s \notin Range(components)
    /\ \/ /\ components' = Append(components, s)
          /\ sinksToConsume' = g_queue_push_tail(sinksToConsume, s)
          /\ ret' = <<"add_component", "OK">>
          /\ UNCHANGED configState
       \/ /\ configState' = "FAULTY"
          /\ ret' = <<"add_component", "ERROR">>
          /\ UNCHANGED <<components, sinksToConsume>>
    /\ UNCHANGED <<methodCalled, canConsume, intrVars, api, pc, cfgIndex, histVars>>

bt_graph_add_interrupter(i) ==
    /\ pc = "idle"
    /\ interrupters' = interrupters \cup {i}
    /\ UNCHANGED <<graphVars, isSet, callVars, histVars>>

\* Another thread or a signal handler, at any moment.
bt_interrupter_set(i) ==
    /\ isSet' = isSet \cup {i}
    /\ UNCHANGED <<graphVars, interrupters, callVars, histVars>>

bt_interrupter_reset(i) ==
    /\ isSet' = isSet \ {i}
    /\ UNCHANGED <<graphVars, interrupters, callVars, histVars>>

-----------------------------------------------------------------------------
(* bt_graph_run() and bt_graph_run_once().                                 *)

needsConfiguration_FirstCallOnly == configState = "CONFIGURING"

needsConfiguration == configState # "CONFIGURED"

\* Where a call goes once the graph is configured: bt_graph_run() checks the
\* interrupters at the top of each iteration, bt_graph_run_once() never does.
afterConfigure(fn) == IF fn = "bt_graph_run" THEN "loop" ELSE "consume"

\* Entry of either function, up to the loop of configure_graph().
Start(fn) ==
    /\ pc = "idle"
    /\ canConsume
    /\ configState # "FAULTY"
    /\ needsConfiguration => hasSink
    /\ canConsume' = FALSE
    /\ api' = fn
    /\ IF needsConfiguration
         THEN /\ configState' = "PARTIALLY_CONFIGURED"
              /\ pc' = "configure"
              /\ cfgIndex' = 1
         ELSE /\ pc' = afterConfigure(fn)
              /\ UNCHANGED <<configState, cfgIndex>>
    /\ UNCHANGED <<components, sinksToConsume, methodCalled, intrVars, ret, histVars>>

bt_graph_run == Start("bt_graph_run")
bt_graph_run_once == Start("bt_graph_run_once")

\* How each function leaves when configure_graph() fails: bt_graph_run()
\* passes through the line that sets can_consume back, bt_graph_run_once()
\* jumps over it.
ReturnConfigureError ==
    /\ ret' = <<api, "ERROR">>
    /\ canConsume' = (api = "bt_graph_run")
    /\ api' = "none"
    /\ pc' = "idle"

\* A sink already told is passed over; the others' method succeeds (a sink
\* class without the method counts as success) or fails.
ConfigureSink ==
    /\ pc = "configure"
    /\ cfgIndex <= Len(components)
    /\ LET s == components[cfgIndex] IN
         \/ /\ s \in methodCalled
            /\ cfgIndex' = cfgIndex + 1
            /\ UNCHANGED <<methodCalled, canConsume, api, pc, ret, configCount>>
         \/ /\ s \notin methodCalled
            /\ methodCalled' = methodCalled \cup {s}
            /\ configCount' = [configCount EXCEPT ![s] = @ + 1]
            /\ cfgIndex' = cfgIndex + 1
            /\ UNCHANGED <<canConsume, api, pc, ret>>
         \/ /\ s \notin methodCalled
            /\ ReturnConfigureError
            /\ UNCHANGED <<methodCalled, cfgIndex, configCount>>
    /\ UNCHANGED <<configState, components, sinksToConsume, intrVars, ended, last, waits>>

ConfigureDone ==
    /\ pc = "configure"
    /\ cfgIndex > Len(components)
    /\ configState' = "CONFIGURED"
    /\ pc' = afterConfigure(api)
    /\ UNCHANGED <<components, sinksToConsume, methodCalled, canConsume, intrVars,
                   api, cfgIndex, ret, histVars>>

Return(status) ==
    /\ ret' = <<api, status>>
    /\ canConsume' = TRUE
    /\ api' = "none"
    /\ pc' = "idle"

CheckInterrupt_StaysBusy ==
    /\ pc = "loop"
    /\ IF bt_graph_is_interrupted
         THEN ret' = <<api, "AGAIN">> /\ api' = "none" /\ pc' = "idle"
         ELSE pc' = "consume" /\ UNCHANGED <<ret, api>>
    /\ UNCHANGED <<graphVars, intrVars, cfgIndex, histVars>>

CheckInterrupt_Ignored ==
    /\ pc = "loop"
    /\ pc' = "consume"
    /\ UNCHANGED <<graphVars, intrVars, api, cfgIndex, ret, histVars>>

\* Top of an iteration of bt_graph_run()'s loop.
CheckInterrupt ==
    /\ pc = "loop"
    /\ IF bt_graph_is_interrupted
         THEN Return("AGAIN")
         ELSE /\ pc' = "consume"
              /\ UNCHANGED <<ret, canConsume, api>>
    /\ UNCHANGED <<configState, components, sinksToConsume, methodCalled, intrVars,
                   cfgIndex, histVars>>

queueAfter_LostOnError(q, s, status) ==
    IF status \in {"END", "ERROR"} THEN g_queue_delete_link(q) ELSE g_queue_push_tail(q, s)
queueAfter_PushedToHead(q, s, status) ==
    IF status = "END" THEN g_queue_delete_link(q)
    ELSE [links |-> <<s>> \o q.links, length |-> (q.length + 1) % GuintMod]
statusAfter_EndForwarded(q, status) == status

\* The queue when consume_sink_node() is done with a popped node, and the
\* status it forwards, given what the consuming method returned.
queueAfter(q, s, status) ==
    IF status = "END" THEN g_queue_delete_link(q) ELSE g_queue_push_tail(q, s)

statusAfter(q, status) ==
    IF status = "END" /\ ~g_queue_is_empty(q) THEN "OK" ELSE status

\* bt_graph_run()'s treatment of consume_no_check()'s status: go round again,
\* or leave.  There is no END status for bt_graph_run().
keepsRunning(q, status) ==
    \/ status = "OK"
    \/ status = "AGAIN" /\ q.length > 1

FinishConsume(q, status) ==
    IF api = "bt_graph_run" /\ keepsRunning(q, status)
      THEN /\ pc' = "loop"
           /\ UNCHANGED <<ret, canConsume, api>>
      ELSE Return(IF api = "bt_graph_run" /\ status = "END" THEN "OK" ELSE status)

\* consume_no_check(): pop the head, call its consuming method, put it back
\* unless it ended.
ConsumeNext ==
    /\ pc = "consume"
    /\ ~g_queue_is_empty(sinksToConsume)
    /\ \E status \in Statuses :
         LET s == Head(sinksToConsume.links)
             q == queueAfter(g_queue_pop_head_link(sinksToConsume), s, status)
         IN  /\ sinksToConsume' = q
             /\ last' = <<s, status>>
             /\ ended' = IF status = "END" THEN ended \cup {s} ELSE ended
             /\ waits' = [t \in Sinks |->
                            IF t \in Range(q.links) \ {s}
                            THEN [waits[t] EXCEPT ![s] = @ + 1] ELSE NoTurns]
             /\ FinishConsume(q, statusAfter(q, status))
    /\ UNCHANGED <<configState, components, methodCalled, intrVars, cfgIndex, configCount>>

ConsumeNothing ==
    /\ pc = "consume"
    /\ g_queue_is_empty(sinksToConsume)
    /\ FinishConsume(sinksToConsume, "END")
    /\ UNCHANGED <<configState, components, sinksToConsume, methodCalled, intrVars,
                   cfgIndex, histVars>>

-----------------------------------------------------------------------------
\* A step of the thread that is inside bt_graph_run() or bt_graph_run_once().
GraphStep ==
    \/ ConfigureSink
    \/ ConfigureDone
    \/ CheckInterrupt
    \/ ConsumeNext
    \/ ConsumeNothing

UserCall ==
    \/ \E s \in Sinks : AddSink(s)
    \/ \E i \in Interrupters : bt_graph_add_interrupter(i)
    \/ bt_graph_run
    \/ bt_graph_run_once

Interrupt == \E i \in Interrupters : bt_interrupter_set(i) \/ bt_interrupter_reset(i)

Next == UserCall \/ Interrupt \/ GraphStep

Spec == Init /\ [][Next]_vars

\* The thread that called the function runs it, and user methods return.
FairSpec == Spec /\ WF_vars(GraphStep)
-----------------------------------------------------------------------------
(* Properties.                                                             *)

TypeOK ==
    /\ configState \in ConfigStates
    /\ components \in Seq(Sinks)
    /\ sinksToConsume \in [links : Seq(Sinks), length : 0..(GuintMod - 1)]
    /\ methodCalled \subseteq Sinks
    /\ canConsume \in BOOLEAN
    /\ interrupters \subseteq Interrupters
    /\ isSet \subseteq Interrupters
    /\ api \in {"none", "bt_graph_run", "bt_graph_run_once"}
    /\ pc \in {"idle", "configure", "loop", "consume"}
    /\ cfgIndex \in Nat \ {0}
    /\ ret \in ({"bt_graph_create", "add_component", "bt_graph_run"} \X {"OK", "AGAIN", "ERROR"})
                 \cup ({"bt_graph_run_once"} \X Statuses)
    /\ ended \subseteq Sinks
    /\ configCount \in [Sinks -> Nat]
    /\ last \in (Sinks \cup {NoSink}) \X Statuses
    /\ waits \in [Sinks -> [Sinks -> Nat]]

\* The state is well typed, no call can start within another one, and whatever
\* sinks, interrupters and failures do, a call which returns leaves a graph which
\* can be run again.  The one exception: bt_graph_run_once() jumps over the line
\* which sets can_consume back when the configuration fails (graph.c:668), and a
\* partially configured graph can then never be run again.
UsableBetweenCalls ==
    /\ TypeOK
    /\ pc # "idle" => ~canConsume
    /\ pc = "idle" /\ ~canConsume =>
          configState = "PARTIALLY_CONFIGURED" /\ ret = <<"bt_graph_run_once", "ERROR">>

\* However runs, errors and retries follow one another, the queue holds each
\* added sink that has not ended exactly once, and nothing else: no sink is
\* lost when its consuming method fails, none comes back after its end.
QueueHoldsLiveSinks ==
    /\ Range(sinksToConsume.links) = Range(components) \ ended
    /\ \A i, j \in 1..Len(sinksToConsume.links) :
          sinksToConsume.links[i] = sinksToConsume.links[j] => i = j

\* bt_graph_run() says OK, and bt_graph_run_once() says END, only when every
\* sink of the graph has ended.
SuccessMeansAllEnded ==
    ret \in {<<"bt_graph_run", "OK">>, <<"bt_graph_run_once", "END">>}
        => Range(components) \subseteq ended

\* A failed configuration is resumed, not restarted: over any number of
\* attempts, a sink's "graph is configured" method succeeds at most once, and
\* no sink consumes before the method of every sink has succeeded.
ConfiguredOnceBeforeConsuming ==
    /\ \A s \in Sinks : configCount[s] <= 1
    /\ last[1] # NoSink => \A s \in Range(components) : configCount[s] = 1

\* Round robin: whatever the sinks return and however the calls of
\* bt_graph_run() and bt_graph_run_once() alternate, a sink that has not ended
\* sees at most one turn of each other sink between two of its own.
BoundedBypass ==
    \A s \in Range(sinksToConsume.links), t \in Sinks : waits[s][t] <= 1

\* A sink that returned END is never made to consume again.
EndedNeverConsumes ==
    [][ConsumeNext => last'[1] \notin ended]_vars

\* If an interrupter of the graph stays set, then the call in progress, if
\* any, returns: bt_graph_run() looks at the interrupters at each iteration.
InterruptedRunReturns ==
    (<>[](\E i \in Interrupters : i \in interrupters /\ i \in isSet)) => []<>(pc = "idle")

-----------------------------------------------------------------------------
(* What a comment says, which the code does not do.                        *)

consumedInRun(status) == ConsumeNext /\ api = "bt_graph_run" /\ last'[2] = status

\* graph.c:716-724, bt_graph_run(): "If AGAIN is received and there are
\* multiple sinks, go ahead and consume from the next sink.  However, in the
\* case where a single sink is left, the caller can decide to busy-wait and call
\* bt_graph_run() continuously": the loop goes on exactly when two sinks remain.
AgainPolicy ==
    [][consumedInRun("AGAIN") => (pc' = "loop" <=> Len(sinksToConsume'.links) > 1)]_vars
=============================================================================
