--------------------------- MODULE GraphRunProofs ---------------------------
(***************************************************************************)
(* Proofs about GraphRun, for any number of sinks and interrupters and any *)
(* width of the queue's length field.                                      *)
(***************************************************************************)
EXTENDS GraphRun, TLAPS

\* The time given to the provers for each leaf.
USE SMTT(20), ZenonT(20)

Injective(seq) == \A i, j \in 1..Len(seq) : seq[i] = seq[j] => i = j

\* Progress of the configuration: the flags of the sinks, the loop index and
\* the state of the graph tell the same story.
ConfigProgress ==
    /\ \A s \in Sinks : configCount[s] = IF s \in methodCalled THEN 1 ELSE 0
    /\ configState = "CONFIGURED" => Range(components) \subseteq methodCalled
    /\ pc = "configure" =>
         /\ configState = "PARTIALLY_CONFIGURED"
         /\ \A k \in 1..Len(components) : k < cfgIndex => components[k] \in methodCalled
    /\ pc \in {"loop", "consume"} => configState = "CONFIGURED"
    /\ last[1] # NoSink => configState = "CONFIGURED"
    /\ pc # "idle" => api # "none"

\* A sink has seen at most one turn of each other one since its own, and none of
\* those which are before it in the queue.
TurnsLeft ==
    /\ \A k \in 1..Len(sinksToConsume.links), t \in Sinks : waits[sinksToConsume.links[k]][t] <= 1
    /\ \A j, k \in 1..Len(sinksToConsume.links) :
         j <= k => waits[sinksToConsume.links[k]][sinksToConsume.links[j]] = 0
    /\ \A s \in Sinks \ Range(components) : waits[s] = NoTurns

\* Once success is reported the set of sinks is closed.
SuccessIsFinal ==
    ret \in {<<"bt_graph_run", "OK">>, <<"bt_graph_run_once", "END">>}
        => configState # "CONFIGURING" /\ Range(components) \subseteq ended

IInv ==
    /\ TypeOK
    /\ QueueHoldsLiveSinks
    /\ Injective(components)
    /\ ended \subseteq Range(components)
    /\ ConfigProgress
    /\ TurnsLeft
    /\ SuccessIsFinal
-----------------------------------------------------------------------------
(* Sequences as queues.                                                    *)

\* What appending does to the elements of a sequence.
LEMMA AppendFacts ==
    ASSUME NEW S, NEW q \in Seq(S), NEW e \in S
    PROVE  /\ Append(q, e) \in Seq(S)
           /\ Range(Append(q, e)) = Range(q) \cup {e}
           /\ Injective(q) /\ e \notin Range(q) => Injective(Append(q, e))
<1>1. /\ Append(q, e) \in Seq(S)
      /\ Len(Append(q, e)) = Len(q) + 1
      /\ \A i \in 1..Len(q) : Append(q, e)[i] = q[i]
      /\ Append(q, e)[Len(q) + 1] = e
  OBVIOUS
<1>2. 1..(Len(q) + 1) = 1..Len(q) \cup {Len(q) + 1}
  OBVIOUS
<1>3. Range(Append(q, e)) = Range(q) \cup {e}
  BY <1>1, <1>2, Zenon DEF Range
<1>4. ASSUME Injective(q), e \notin Range(q)
      PROVE  Injective(Append(q, e))
  BY <1>1, <1>2, <1>4, Zenon DEF Injective, Range
<1>. QED  BY <1>1, <1>3, <1>4, Zenon

\* An element of a sequence, by its index.
LEMMA ElementOf ==
    ASSUME NEW S, NEW q \in Seq(S), NEW k \in 1..Len(q)
    PROVE  q[k] \in S
OBVIOUS

\* What popping the head does.
LEMMA TailFacts ==
    ASSUME NEW S, NEW q \in Seq(S), q # <<>>, Injective(q)
    PROVE  /\ Head(q) \in S
           /\ Tail(q) \in Seq(S)
           /\ Len(Tail(q)) = Len(q) - 1
           /\ \A k \in 1..Len(Tail(q)) : Tail(q)[k] = q[k + 1]
           /\ Range(Tail(q)) = Range(q) \ {Head(q)}
           /\ Head(q) \in Range(q)
           /\ Injective(Tail(q))
<1>1. /\ Len(q) \in Nat \ {0}
      /\ Head(q) = q[1]
      /\ Head(q) \in S
      /\ Tail(q) \in Seq(S)
      /\ Len(Tail(q)) = Len(q) - 1
      /\ \A k \in 1..Len(Tail(q)) : Tail(q)[k] = q[k + 1]
  OBVIOUS
<1>2. Range(Tail(q)) = Range(q) \ {Head(q)}
  <2>1. ASSUME NEW x \in Range(Tail(q))
        PROVE  x \in Range(q) \ {Head(q)}
    BY <1>1, <2>1 DEF Range, Injective
  <2>2. ASSUME NEW x \in Range(q), x # Head(q)
        PROVE  x \in Range(Tail(q))
    <3>1. PICK i \in 1..Len(q) : x = q[i]
      BY Zenon DEF Range
    <3>2. i - 1 \in 1..Len(Tail(q)) /\ Tail(q)[i - 1] = x
      BY <1>1, <2>2, <3>1
    <3>. QED  BY <3>2, Zenon DEF Range
  <2>. QED  BY <2>1, <2>2, Zenon
<1>3. Injective(Tail(q))
  BY <1>1 DEF Injective
<1>4. Head(q) \in Range(q)
  BY <1>1 DEF Range
<1>. QED  BY <1>1, <1>2, <1>3, <1>4, Zenon
-----------------------------------------------------------------------------
(* The inductive invariant.                                                *)

\* bt_graph_create() establishes the inductive invariant.
LEMMA InitIInv == Init => IInv
<1>. SUFFICES ASSUME Init PROVE IInv
  BY Zenon
<1>. USE RunAssumption DEF Init, g_queue_new
<1>1. TypeOK
  <2>1. waits \in [Sinks -> [Sinks -> Nat]]
    BY DEF NoTurns
  <2>. QED  BY <2>1 DEF TypeOK, ConfigStates, Statuses
<1>2. QueueHoldsLiveSinks /\ Injective(components) /\ TurnsLeft
  BY DEF QueueHoldsLiveSinks, Injective, TurnsLeft, Range, NoTurns
<1>3. ConfigProgress /\ SuccessIsFinal /\ ended \subseteq Range(components)
  BY Zenon DEF ConfigProgress, SuccessIsFinal
<1>. QED  BY <1>1, <1>2, <1>3, Zenon DEF IInv

\* Adding a sink puts it once at the end of the queue.
LEMMA AddSinkIInv ==
    ASSUME IInv, NEW s \in Sinks, AddSink(s)
    PROVE  IInv'
<1>. USE RunAssumption DEF IInv
<1>1. CASE configState' = "FAULTY" /\ UNCHANGED <<components, sinksToConsume>>
  <2>1. TypeOK'
    BY <1>1 DEF AddSink, TypeOK, ConfigStates, Statuses, intrVars, histVars
  <2>2. (QueueHoldsLiveSinks /\ Injective(components) /\ TurnsLeft)'
    BY <1>1, Zenon DEF AddSink, QueueHoldsLiveSinks, TurnsLeft, histVars
  <2>3. (ConfigProgress /\ SuccessIsFinal /\ ended \subseteq Range(components))'
    BY <1>1 DEF AddSink, ConfigProgress, SuccessIsFinal, histVars
  <2>. QED  BY <2>1, <2>2, <2>3, Zenon
<1>2. CASE configState' # "FAULTY"
  <2>1. /\ components' = Append(components, s)
        /\ sinksToConsume' = g_queue_push_tail(sinksToConsume, s)
        /\ ret' = <<"add_component", "OK">>
        /\ configState = "CONFIGURING" /\ configState' = configState
        /\ s \notin Range(components)
        /\ pc = "idle"
        /\ UNCHANGED <<methodCalled, canConsume, intrVars, api, pc, cfgIndex, histVars>>
    BY <1>2, Zenon DEF AddSink
  <2>2. /\ components \in Seq(Sinks)
        /\ sinksToConsume.links \in Seq(Sinks)
        /\ sinksToConsume.length \in Nat
        /\ sinksToConsume'.links = Append(sinksToConsume.links, s)
        /\ sinksToConsume'.length = (sinksToConsume.length + 1) % GuintMod
        /\ sinksToConsume' \in [links : Seq(Sinks), length : 0..(GuintMod - 1)]
    BY <2>1 DEF TypeOK, g_queue_push_tail
  <2>3. s \notin Range(sinksToConsume.links) /\ s \notin ended
    BY <2>1, Zenon DEF QueueHoldsLiveSinks
  <2>4. /\ components' \in Seq(Sinks)
        /\ Range(components') = Range(components) \cup {s}
        /\ Injective(components')
    BY <2>1, <2>2, AppendFacts, Zenon
  <2>5. /\ Range(sinksToConsume'.links) = Range(sinksToConsume.links) \cup {s}
        /\ Injective(sinksToConsume'.links)
    <3>1. Injective(sinksToConsume.links)
      BY Zenon DEF QueueHoldsLiveSinks, Injective
    <3>. QED  BY <2>2, <2>3, <3>1, AppendFacts
  <2>6. TypeOK'
    BY <2>1, <2>2, <2>4, Zenon DEF TypeOK, Statuses, intrVars, histVars
  <2>7. QueueHoldsLiveSinks'
    BY <2>1, <2>3, <2>4, <2>5 DEF QueueHoldsLiveSinks, Injective, histVars
  <2>8. ConfigProgress' /\ SuccessIsFinal' /\ (ended \subseteq Range(components))'
    BY <2>1, <2>4, Zenon DEF ConfigProgress, SuccessIsFinal, histVars
  <2>9. TurnsLeft'
    <3>1. waits' = waits /\ waits[s] = NoTurns
      BY <2>1, Zenon DEF histVars, TurnsLeft
    <3>2. ASSUME NEW k \in 1..Len(sinksToConsume'.links)
          PROVE  \/ sinksToConsume'.links[k] = s
                 \/ k \in 1..Len(sinksToConsume.links) /\ sinksToConsume'.links[k] = sinksToConsume.links[k]
      BY <2>2, <3>2
    <3>3. ASSUME NEW k \in 1..Len(sinksToConsume'.links), NEW t \in Sinks
          PROVE  waits[sinksToConsume'.links[k]][t] <= 1
      BY <3>1, <3>2, <3>3 DEF TurnsLeft, NoTurns
    <3>4. ASSUME NEW k \in 1..Len(sinksToConsume'.links), NEW j \in 1..Len(sinksToConsume'.links), j <= k
          PROVE  waits[sinksToConsume'.links[k]][sinksToConsume'.links[j]] = 0
      <4>1. sinksToConsume'.links[j] \in Sinks
        BY <2>2, <3>2, <3>4
      <4>2. CASE sinksToConsume'.links[k] = s
        BY <3>1, <4>1, <4>2, Zenon DEF NoTurns
      <4>3. CASE sinksToConsume'.links[k] # s
        <5>1. /\ k \in 1..Len(sinksToConsume.links)
              /\ sinksToConsume'.links[k] = sinksToConsume.links[k]
          BY <3>2, <4>3, Zenon
        <5>2. /\ j \in 1..Len(sinksToConsume.links)
              /\ sinksToConsume'.links[j] = sinksToConsume.links[j]
          BY <2>2, <3>4, <5>1
        <5>. QED  BY <3>4, <5>1, <5>2, Zenon DEF TurnsLeft
      <4>. QED  BY <4>2, <4>3, Zenon
    <3>. QED  BY <2>4, <3>1, <3>3, <3>4, Zenon DEF TurnsLeft
  <2>. QED  BY <2>4, <2>6, <2>7, <2>8, <2>9, Zenon
<1>. QED  BY <1>1, <1>2, Zenon DEF AddSink, ConfigStates
\* A step that leaves the components, the queue and what the sinks saw of it
\* alone keeps the part of the invariant that is about them.
LEMMA QueueUntouched ==
    ASSUME IInv, UNCHANGED <<components, sinksToConsume, ended, waits>>
    PROVE  (QueueHoldsLiveSinks /\ Injective(components) /\ TurnsLeft
             /\ ended \subseteq Range(components))'
BY Zenon DEF IInv, QueueHoldsLiveSinks, TurnsLeft

\* The interrupters are not part of the argument.
LEMMA InterruptersIInv ==
    ASSUME IInv, NEW i \in Interrupters,
           bt_graph_add_interrupter(i) \/ bt_interrupter_set(i) \/ bt_interrupter_reset(i)
    PROVE  IInv'
<1>1. UNCHANGED <<graphVars, callVars, histVars>>
  BY Zenon DEF bt_graph_add_interrupter, bt_interrupter_set, bt_interrupter_reset
<1>2. TypeOK'
  BY <1>1, Zenon DEF IInv, TypeOK, graphVars, callVars, histVars, bt_graph_add_interrupter,
              bt_interrupter_set, bt_interrupter_reset
<1>3. (ConfigProgress /\ SuccessIsFinal)'
  BY <1>1, Zenon DEF IInv, ConfigProgress, SuccessIsFinal, graphVars, callVars, histVars
<1>. QED  BY <1>1, <1>2, <1>3, QueueUntouched, Zenon DEF IInv, graphVars, histVars

\* Entering bt_graph_run() or bt_graph_run_once().
LEMMA StartIInv ==
    ASSUME IInv, NEW fn \in {"bt_graph_run", "bt_graph_run_once"}, Start(fn)
    PROVE  IInv'
<1>1. TypeOK'
  <2>1. /\ configState' \in ConfigStates
        /\ cfgIndex' \in Nat \ {0}
        /\ pc' \in {"idle", "configure", "loop", "consume"}
    BY DEF IInv, TypeOK, Start, needsConfiguration, afterConfigure, ConfigStates
  <2>. QED  BY <2>1, Zenon DEF IInv, TypeOK, Start, intrVars, histVars
<1>2. ConfigProgress'
  BY DEF IInv, TypeOK, ConfigProgress, Start, needsConfiguration, afterConfigure, intrVars, histVars
<1>3. SuccessIsFinal'
  BY Zenon DEF IInv, SuccessIsFinal, Start, intrVars, histVars
<1>. QED  BY <1>1, <1>2, <1>3, QueueUntouched, Zenon DEF IInv, Start, intrVars, histVars

\* One iteration of configure_graph()'s loop.
LEMMA ConfigureSinkIInv ==
    ASSUME IInv, ConfigureSink
    PROVE  IInv'
<1>. DEFINE s == components[cfgIndex]
<1>0. s \in Sinks /\ cfgIndex \in Nat \ {0} /\ configCount \in [Sinks -> Nat]
  <2>1. components \in Seq(Sinks) /\ cfgIndex \in Nat \ {0} /\ configCount \in [Sinks -> Nat]
    BY Zenon DEF IInv, TypeOK
  <2>2. cfgIndex \in 1..Len(components)
    BY <2>1 DEF ConfigureSink
  <2>. QED  BY <2>1, <2>2, ElementOf, Zenon
<1>1. TypeOK'
  <2>1. methodCalled' \subseteq Sinks /\ cfgIndex' \in Nat \ {0}
    BY <1>0 DEF IInv, TypeOK, ConfigureSink
  <2>2. configCount' \in [Sinks -> Nat]
    BY <1>0 DEF ConfigureSink
  <2>3. /\ canConsume' \in BOOLEAN
        /\ api' \in {"none", "bt_graph_run", "bt_graph_run_once"}
        /\ pc' \in {"idle", "configure", "loop", "consume"}
    BY Zenon DEF IInv, TypeOK, ConfigureSink, ReturnConfigureError
  <2>4. \/ ret' = ret
        \/ ret' = <<api, "ERROR">> /\ api \in {"bt_graph_run", "bt_graph_run_once"}
    BY Zenon DEF IInv, TypeOK, ConfigProgress, ConfigureSink, ReturnConfigureError
  <2>5. ret' \in ({"bt_graph_create", "add_component", "bt_graph_run"} \X {"OK", "AGAIN", "ERROR"})
                   \cup ({"bt_graph_run_once"} \X Statuses)
    BY <2>4 DEF IInv, TypeOK, Statuses
  <2>. QED  BY <2>1, <2>2, <2>3, <2>5, Zenon DEF IInv, TypeOK, ConfigureSink, intrVars
<1>2. ConfigProgress'
  <2>1. \A t \in Sinks : configCount'[t] = IF t \in methodCalled' THEN 1 ELSE 0
    BY <1>0 DEF IInv, ConfigProgress, ConfigureSink
  <2>2. /\ configState' = "PARTIALLY_CONFIGURED"
        /\ last'[1] = NoSink
        /\ pc' \in {"idle", "configure"}
    BY Zenon DEF IInv, ConfigProgress, ConfigureSink, ReturnConfigureError
  <2>3. \A k \in 1..Len(components') :
           pc' = "configure" /\ k < cfgIndex' => components'[k] \in methodCalled'
    <3>. SUFFICES ASSUME NEW k \in 1..Len(components), pc' = "configure", k < cfgIndex'
                  PROVE  components[k] \in methodCalled'
      BY Zenon DEF ConfigureSink
    <3>1. cfgIndex' = cfgIndex + 1 /\ s \in methodCalled' /\ methodCalled \subseteq methodCalled'
      BY Zenon DEF ConfigureSink, ReturnConfigureError
    <3>2. CASE k = cfgIndex
      BY <3>1, <3>2, Zenon
    <3>3. CASE k < cfgIndex
      BY <3>1, <3>3, Zenon DEF IInv, ConfigProgress, ConfigureSink
    <3>. QED  BY <1>0, <3>1, <3>2, <3>3
  <2>4. pc' # "idle" => api' # "none"
    BY Zenon DEF IInv, ConfigProgress, ConfigureSink, ReturnConfigureError
  <2>. QED  BY <2>1, <2>2, <2>3, <2>4, Zenon DEF ConfigProgress
<1>3. SuccessIsFinal'
  BY DEF IInv, SuccessIsFinal, ConfigureSink, ReturnConfigureError
<1>. QED  BY <1>1, <1>2, <1>3, QueueUntouched, Zenon DEF IInv, ConfigureSink

\* The end of configure_graph(): every sink has been told.
LEMMA ConfigureDoneIInv ==
    ASSUME IInv, ConfigureDone
    PROVE  IInv'
<1>1. TypeOK'
  BY Zenon DEF IInv, TypeOK, ConfigureDone, afterConfigure, ConfigStates, intrVars, histVars
<1>2. Range(components) \subseteq methodCalled
  BY DEF IInv, TypeOK, ConfigProgress, ConfigureDone, Range
<1>3. ConfigProgress'
  BY <1>2, Zenon DEF IInv, ConfigProgress, ConfigureDone, afterConfigure, intrVars, histVars
<1>4. SuccessIsFinal'
  BY Zenon DEF IInv, SuccessIsFinal, ConfigureDone, histVars
<1>. QED  BY <1>1, <1>3, <1>4, QueueUntouched, Zenon DEF IInv, ConfigureDone, histVars

\* The interruption check.
LEMMA CheckInterruptIInv ==
    ASSUME IInv, CheckInterrupt
    PROVE  IInv'
<1>0. api \in {"bt_graph_run", "bt_graph_run_once"}
  BY Zenon DEF IInv, TypeOK, ConfigProgress, CheckInterrupt
<1>1. TypeOK'
  <2>1. /\ canConsume' \in BOOLEAN
        /\ api' \in {"none", "bt_graph_run", "bt_graph_run_once"}
        /\ pc' \in {"idle", "configure", "loop", "consume"}
        /\ ret' = ret \/ ret' = <<api, "AGAIN">>
    BY Zenon DEF IInv, TypeOK, CheckInterrupt, Return
  <2>2. ret' \in ({"bt_graph_create", "add_component", "bt_graph_run"} \X {"OK", "AGAIN", "ERROR"})
                   \cup ({"bt_graph_run_once"} \X Statuses)
    BY <1>0, <2>1 DEF IInv, TypeOK, Statuses
  <2>. QED  BY <2>1, <2>2, Zenon DEF IInv, TypeOK, CheckInterrupt, intrVars, histVars
<1>2. ConfigProgress'
  BY Zenon DEF IInv, ConfigProgress, CheckInterrupt, Return, intrVars, histVars
<1>3. SuccessIsFinal'
  BY DEF IInv, SuccessIsFinal, CheckInterrupt, Return, intrVars, histVars
<1>. QED  BY <1>1, <1>2, <1>3, QueueUntouched, Zenon DEF IInv, CheckInterrupt, intrVars, histVars
\* How a call leaves its loop or goes round.
LEMMA FinishConsumeFacts ==
    ASSUME IInv, pc = "consume", NEW q, NEW status \in Statuses, FinishConsume(q, status)
    PROVE  /\ canConsume' \in BOOLEAN
           /\ api' \in {"none", "bt_graph_run", "bt_graph_run_once"}
           /\ pc' \in {"idle", "loop"}
           /\ pc' # "idle" => api' # "none"
           /\ \/ ret' = ret
              \/ ret' \in {<<"bt_graph_run", "AGAIN">>, <<"bt_graph_run", "ERROR">>}
              \/ ret' = <<"bt_graph_run", "OK">> /\ status = "END"
              \/ ret' = <<"bt_graph_run_once", status>>
<1>1. api \in {"bt_graph_run", "bt_graph_run_once"} /\ canConsume \in BOOLEAN
  BY Zenon DEF IInv, TypeOK, ConfigProgress
<1>2. CASE api = "bt_graph_run" /\ keepsRunning(q, status)
  BY <1>1, <1>2, Zenon DEF FinishConsume
<1>3. CASE api = "bt_graph_run" /\ ~keepsRunning(q, status)
  <2>1. status # "OK"
    BY <1>3, Zenon DEF keepsRunning
  <2>2. Return(IF status = "END" THEN "OK" ELSE status)
    BY <1>3, Zenon DEF FinishConsume
  <2>. QED  BY <1>3, <2>1, <2>2, Zenon DEF Return, Statuses
<1>4. CASE api = "bt_graph_run_once"
  <2>1. Return(status)
    BY <1>4, Zenon DEF FinishConsume
  <2>. QED  BY <1>4, <2>1, Zenon DEF Return
<1>. QED  BY <1>1, <1>2, <1>3, <1>4, Zenon

\* The queue is already empty.
LEMMA ConsumeNothingIInv ==
    ASSUME IInv, ConsumeNothing
    PROVE  IInv'
<1>0. pc = "consume" /\ FinishConsume(sinksToConsume, "END") /\ "END" \in Statuses
  BY Zenon DEF ConsumeNothing, Statuses
<1>1. /\ canConsume' \in BOOLEAN
      /\ api' \in {"none", "bt_graph_run", "bt_graph_run_once"}
      /\ pc' \in {"idle", "loop"}
      /\ pc' # "idle" => api' # "none"
      /\ \/ ret' = ret
         \/ ret' \in {<<"bt_graph_run", "AGAIN">>, <<"bt_graph_run", "ERROR">>}
         \/ ret' = <<"bt_graph_run", "OK">>
         \/ ret' = <<"bt_graph_run_once", "END">>
  BY <1>0, FinishConsumeFacts, Zenon
<1>2. TypeOK'
  <2>1. ret' \in ({"bt_graph_create", "add_component", "bt_graph_run"} \X {"OK", "AGAIN", "ERROR"})
                   \cup ({"bt_graph_run_once"} \X Statuses)
    BY <1>1 DEF IInv, TypeOK, Statuses
  <2>. QED  BY <1>1, <2>1, Zenon DEF IInv, TypeOK, ConsumeNothing, intrVars, histVars
<1>3. ConfigProgress'
  BY <1>0, <1>1, Zenon DEF IInv, ConfigProgress, ConsumeNothing, intrVars, histVars
<1>4. Range(components) \subseteq ended
  <2>1. Range(sinksToConsume.links) = {}
    BY DEF ConsumeNothing, g_queue_is_empty, Range
  <2>. QED  BY <2>1, Zenon DEF IInv, QueueHoldsLiveSinks
<1>5. SuccessIsFinal'
  BY <1>0, <1>4, Zenon DEF IInv, ConfigProgress, SuccessIsFinal, ConsumeNothing, histVars
<1>. QED  BY <1>2, <1>3, <1>5, QueueUntouched, Zenon DEF IInv, ConsumeNothing, histVars
\* The length field stays within its width.
LEMMA LengthInRange ==
    ASSUME NEW n \in Int
    PROVE  n % GuintMod \in 0..(GuintMod - 1)
BY RunAssumption

\* The next sink consumes: it leaves the queue if it ended, and goes behind
\* all the others if it did not.
LEMMA ConsumeNextIInv ==
    ASSUME IInv, ConsumeNext
    PROVE  IInv'
<1>. DEFINE links == sinksToConsume.links
            s == Head(links)
<1>. USE RunAssumption
<1>1. PICK status \in Statuses :
        LET q == queueAfter(g_queue_pop_head_link(sinksToConsume), s, status)
        IN  /\ sinksToConsume' = q
            /\ last' = <<s, status>>
            /\ ended' = IF status = "END" THEN ended \cup {s} ELSE ended
            /\ waits' = [t \in Sinks |->
                           IF t \in Range(q.links) \ {s}
                           THEN [waits[t] EXCEPT ![s] = @ + 1] ELSE NoTurns]
            /\ FinishConsume(q, statusAfter(q, status))
  BY Zenon DEF ConsumeNext
<1>. DEFINE fwd == statusAfter(sinksToConsume', status)
<1>2. /\ pc = "consume"
      /\ links # <<>>
      /\ UNCHANGED <<configState, components, methodCalled, intrVars, cfgIndex, configCount>>
  BY Zenon DEF ConsumeNext, g_queue_is_empty
<1>3. /\ sinksToConsume \in [links : Seq(Sinks), length : 0..(GuintMod - 1)]
      /\ links \in Seq(Sinks)
      /\ Injective(links)
      /\ Range(links) = Range(components) \ ended
      /\ components \in Seq(Sinks)
      /\ waits \in [Sinks -> [Sinks -> Nat]]
      /\ ended \subseteq Range(components)
  BY Zenon DEF IInv, TypeOK, QueueHoldsLiveSinks, Injective
<1>4. /\ s \in Sinks
      /\ Tail(links) \in Seq(Sinks)
      /\ Len(Tail(links)) = Len(links) - 1
      /\ \A k \in 1..Len(Tail(links)) : Tail(links)[k] = links[k + 1]
      /\ Range(Tail(links)) = Range(links) \ {s}
      /\ s \in Range(links)
      /\ Injective(Tail(links))
  BY <1>2, <1>3, TailFacts, Zenon
<1>5. /\ sinksToConsume'.links = IF status = "END" THEN Tail(links) ELSE Append(Tail(links), s)
      /\ sinksToConsume' \in [links : Seq(Sinks), length : 0..(GuintMod - 1)]
  <2>1. sinksToConsume' = queueAfter(g_queue_pop_head_link(sinksToConsume), s, status)
    BY <1>1, Zenon
  <2>. DEFINE n == (sinksToConsume.length - 1) % GuintMod
  <2>2. n \in Int /\ (n - 1) % GuintMod \in 0..(GuintMod - 1)
                  /\ (n + 1) % GuintMod \in 0..(GuintMod - 1)
    <3>1. sinksToConsume.length - 1 \in Int
      BY <1>3
    <3>2. n \in Int
      BY <3>1, LengthInRange
    <3>. HIDE DEF n
    <3>. QED  BY <3>2, LengthInRange
  <2>3. CASE status = "END"
    <3>1. sinksToConsume' = [links |-> Tail(links), length |-> (n - 1) % GuintMod]
      BY <2>1, <2>3, Zenon DEF queueAfter, g_queue_pop_head_link, g_queue_delete_link
    <3>. HIDE DEF n
    <3>. QED  BY <1>4, <2>2, <2>3, <3>1, Zenon
  <2>4. CASE status # "END"
    <3>1. sinksToConsume' = [links |-> Append(Tail(links), s), length |-> (n + 1) % GuintMod]
      BY <2>1, <2>4, Zenon DEF queueAfter, g_queue_pop_head_link, g_queue_push_tail
    <3>2. Append(Tail(links), s) \in Seq(Sinks)
      BY <1>4
    <3>. HIDE DEF n
    <3>. QED  BY <2>2, <2>4, <3>1, <3>2, Zenon
  <2>. QED  BY <2>3, <2>4, Zenon
<1>6. /\ Range(sinksToConsume'.links) = Range(components) \ ended'
      /\ Range(sinksToConsume'.links) \ {s} = Range(Tail(links))
      /\ Injective(sinksToConsume'.links)
  <2>1. CASE status = "END"
    BY <1>1, <1>3, <1>4, <1>5, <2>1, Zenon
  <2>2. CASE status # "END"
    <3>1. /\ Range(Append(Tail(links), s)) = Range(Tail(links)) \cup {s}
          /\ Injective(Append(Tail(links), s))
      <4>1. s \notin Range(Tail(links))
        BY <1>4, Zenon
      <4>2. \A q \in Seq(Sinks), e \in Sinks :
              /\ Range(Append(q, e)) = Range(q) \cup {e}
              /\ Injective(q) /\ e \notin Range(q) => Injective(Append(q, e))
        BY AppendFacts
      <4>. QED  BY <1>4, <4>1, <4>2, Zenon
    <3>. QED  BY <1>1, <1>3, <1>4, <1>5, <2>2, <3>1, Zenon
  <2>. QED  BY <2>1, <2>2, Zenon
<1>7. QueueHoldsLiveSinks' /\ Injective(components)' /\ (ended \subseteq Range(components))'
  <2>1. ended' \subseteq Range(components)
    BY <1>1, <1>3, <1>4, Zenon
  <2>. QED  BY <1>2, <1>6, <2>1, Zenon DEF IInv, QueueHoldsLiveSinks, Injective
<1>8. TurnsLeft'
  <2>1. \A t \in Sinks : waits'[t] = IF t \in Range(Tail(links)) THEN [waits[t] EXCEPT ![s] = @ + 1]
                                                                 ELSE NoTurns
    BY <1>1, <1>6, Zenon
  <2>2. waits'[s] = NoTurns
    BY <1>4, <2>1, Zenon
  <2>3. ASSUME NEW k \in 1..Len(Tail(links))
        PROVE  /\ k + 1 \in 1..Len(links) /\ Tail(links)[k] = links[k + 1] /\ links[k + 1] \in Sinks
               /\ links[k + 1] # s
               /\ waits'[links[k + 1]] = [waits[links[k + 1]] EXCEPT ![s] = 1]
    <3>1. k + 1 \in 1..Len(links) /\ 1 \in 1..Len(links) /\ Tail(links)[k] = links[k + 1] /\ 1 <= k + 1
      BY <1>2, <1>3, <1>4
    <3>2. links[k + 1] \in Sinks
      BY <1>3, <3>1, ElementOf, Zenon
    <3>3. links[k + 1] \in Range(Tail(links))
      BY <3>1, Zenon DEF Range
    <3>4. waits[links[k + 1]][s] = 0
      <4>1. s = links[1]
        BY <1>2, <1>3
      <4>. QED  BY <3>1, <4>1, Zenon DEF IInv, TurnsLeft
    <3>5. waits'[links[k + 1]] = [waits[links[k + 1]] EXCEPT ![s] = @ + 1]
      BY <2>1, <3>2, <3>3, Zenon
    <3>6. waits[links[k + 1]][s] + 1 = 1
      BY <3>4
    <3>7. links[k + 1] # s
      BY <1>4, <3>3, Zenon
    <3>. QED  BY <3>1, <3>2, <3>5, <3>6, <3>7, Zenon
  <2>4. ASSUME NEW k \in 1..Len(sinksToConsume'.links)
        PROVE  \/ sinksToConsume'.links[k] = s
               \/ k \in 1..Len(Tail(links)) /\ sinksToConsume'.links[k] = links[k + 1]
    BY <1>3, <1>4, <1>5
  <2>5. ASSUME NEW k \in 1..Len(sinksToConsume'.links), NEW t \in Sinks
        PROVE  waits'[sinksToConsume'.links[k]][t] <= 1
    <3>1. CASE sinksToConsume'.links[k] = s
      BY <2>2, <3>1 DEF NoTurns
    <3>2. CASE k \in 1..Len(Tail(links)) /\ sinksToConsume'.links[k] = links[k + 1]
      <4>1. waits[links[k + 1]][t] <= 1
        BY <2>3, <3>2, Zenon DEF IInv, TurnsLeft
      <4>2. waits[links[k + 1]] \in [Sinks -> Nat]
        BY <1>3, <2>3, <3>2, Zenon
      <4>3. waits'[links[k + 1]][t] = IF t = s THEN 1 ELSE waits[links[k + 1]][t]
        BY <2>3, <3>2, <4>2, Zenon
      <4>. QED  BY <3>2, <4>1, <4>3
    <3>. QED  BY <2>4, <3>1, <3>2, Zenon
  <2>6. ASSUME NEW k \in 1..Len(sinksToConsume'.links), NEW j \in 1..Len(sinksToConsume'.links), j <= k
        PROVE  waits'[sinksToConsume'.links[k]][sinksToConsume'.links[j]] = 0
    <3>1. sinksToConsume'.links[j] \in Sinks
      BY <1>5, ElementOf
    <3>2. CASE sinksToConsume'.links[k] = s
      BY <2>2, <3>1, <3>2, Zenon DEF NoTurns
    <3>3. CASE k \in 1..Len(Tail(links)) /\ sinksToConsume'.links[k] = links[k + 1]
      <4>1. j \in 1..Len(Tail(links)) /\ j + 1 <= k + 1
        <5>1. Len(Tail(links)) \in Nat
          BY <1>4
        <5>2. j \in Nat \ {0} /\ k \in Nat /\ j <= k /\ k <= Len(Tail(links))
          BY <2>6, <3>3, <5>1
        <5>. QED  BY <5>1, <5>2
      <4>2. sinksToConsume'.links[j] = links[j + 1]
        <5>1. sinksToConsume'.links[j] = Tail(links)[j]
          BY <1>4, <1>5, <4>1
        <5>. QED  BY <1>4, <4>1, <5>1, Zenon
      <4>3. j + 1 \in 1..Len(links) /\ k + 1 \in 1..Len(links) /\ links[j + 1] # s
        BY <2>3, <3>3, <4>1, Zenon
      <4>4. waits[links[k + 1]][links[j + 1]] = 0
        BY <4>1, <4>3, Zenon DEF IInv, TurnsLeft
      <4>5. waits'[links[k + 1]][links[j + 1]] = waits[links[k + 1]][links[j + 1]]
        <5>1. waits[links[k + 1]] \in [Sinks -> Nat] /\ links[j + 1] \in Sinks
          BY <1>3, <2>3, <3>1, <3>3, <4>2, Zenon
        <5>. QED  BY <2>3, <3>3, <4>3, <5>1, Zenon
      <4>. QED  BY <3>3, <4>2, <4>4, <4>5, Zenon
    <3>. QED  BY <2>4, <3>2, <3>3, Zenon
  <2>7. \A t \in Sinks \ Range(components) : waits'[t] = NoTurns
    BY <1>3, <1>4, <2>1, Zenon
  <2>. QED  BY <1>2, <2>5, <2>6, <2>7, Zenon DEF TurnsLeft
<1>9. fwd \in Statuses /\ (fwd = "END" => sinksToConsume'.links = <<>>)
  BY Zenon DEF statusAfter, Statuses, g_queue_is_empty
<1>10. /\ canConsume' \in BOOLEAN
       /\ api' \in {"none", "bt_graph_run", "bt_graph_run_once"}
       /\ pc' \in {"idle", "loop"}
       /\ pc' # "idle" => api' # "none"
       /\ \/ ret' = ret
          \/ ret' \in {<<"bt_graph_run", "AGAIN">>, <<"bt_graph_run", "ERROR">>}
          \/ ret' = <<"bt_graph_run", "OK">> /\ fwd = "END"
          \/ ret' = <<"bt_graph_run_once", fwd>>
  <2>1. FinishConsume(sinksToConsume', fwd)
    BY <1>1, Zenon
  <2>. QED  BY <1>2, <1>9, <2>1, FinishConsumeFacts, Zenon
<1>11. TypeOK'
  <2>1. waits' \in [Sinks -> [Sinks -> Nat]]
    <3>1. ASSUME NEW t \in Sinks PROVE [waits[t] EXCEPT ![s] = @ + 1] \in [Sinks -> Nat]
      BY <1>3, <1>4
    <3>2. NoTurns \in [Sinks -> Nat]
      BY DEF NoTurns
    <3>. QED  BY <1>1, <3>1, <3>2, Zenon
  <2>2. ended' \subseteq Sinks /\ last' \in (Sinks \cup {NoSink}) \X Statuses
    BY <1>1, <1>4, Zenon DEF IInv, TypeOK
  <2>3. ret' \in ({"bt_graph_create", "add_component", "bt_graph_run"} \X {"OK", "AGAIN", "ERROR"})
                   \cup ({"bt_graph_run_once"} \X Statuses)
    BY <1>9, <1>10 DEF IInv, TypeOK
  <2>. QED  BY <1>2, <1>5, <1>10, <2>1, <2>2, <2>3, Zenon DEF IInv, TypeOK, intrVars
<1>12. ConfigProgress'
  BY <1>2, <1>10, Zenon DEF IInv, ConfigProgress
<1>13. SuccessIsFinal'
  <2>1. configState' # "CONFIGURING" /\ ended \subseteq ended'
    BY <1>1, <1>2, Zenon DEF IInv, ConfigProgress
  <2>2. CASE ret' = ret
    BY <1>2, <2>1, <2>2, Zenon DEF IInv, SuccessIsFinal
  <2>3. CASE fwd = "END"
    <3>1. Range(sinksToConsume'.links) = {}
      BY <1>9, <2>3 DEF Range
    <3>. QED  BY <1>2, <1>6, <2>1, <3>1, Zenon DEF SuccessIsFinal
  <2>4. CASE \/ ret' \in {<<"bt_graph_run", "AGAIN">>, <<"bt_graph_run", "ERROR">>}
             \/ (ret' = <<"bt_graph_run_once", fwd>> /\ fwd # "END")
    BY <2>4 DEF SuccessIsFinal
  <2>. QED  BY <1>10, <2>2, <2>3, <2>4, Zenon
<1>. QED  BY <1>7, <1>8, <1>11, <1>12, <1>13, Zenon DEF IInv

-----------------------------------------------------------------------------
(* The theorems.                                                           *)

\* The inductive invariant holds of every reachable state of a graph.
LEMMA IInvAlways == Spec => []IInv
<1>1. IInv /\ [Next]_vars => IInv'
  <2>. SUFFICES ASSUME IInv, [Next]_vars PROVE IInv'
    BY Zenon
  <2>1. CASE UserCall
    BY <2>1, AddSinkIInv, InterruptersIInv, StartIInv, Zenon DEF UserCall, bt_graph_run, bt_graph_run_once
  <2>2. CASE Interrupt
    BY <2>2, InterruptersIInv, Zenon DEF Interrupt
  <2>3. CASE GraphStep
    BY <2>3, ConfigureSinkIInv, ConfigureDoneIInv, CheckInterruptIInv, ConsumeNextIInv,
       ConsumeNothingIInv, Zenon DEF GraphStep
  <2>4. CASE UNCHANGED vars
    <3>1. UNCHANGED <<graphVars, intrVars, callVars, histVars>>
      BY <2>4, Zenon DEF vars
    <3>2. (TypeOK /\ ConfigProgress /\ SuccessIsFinal)'
      BY <3>1, Zenon DEF IInv, TypeOK, ConfigProgress, SuccessIsFinal, graphVars, intrVars, callVars,
                  histVars
    <3>. QED  BY <3>1, <3>2, QueueUntouched, Zenon DEF IInv, graphVars, histVars
  <2>. QED  BY <2>1, <2>2, <2>3, <2>4, Zenon DEF Next
<1>. QED  BY <1>1, InitIInv, PTL DEF Spec

\* Every value a run of a graph can reach has the declared shape; in
\* particular bt_graph_run() never returns END.
THEOREM TypeCorrect == Spec => []TypeOK
<1>1. IInv => TypeOK
  BY Zenon DEF IInv
<1>. QED  BY <1>1, IInvAlways, PTL

\* Whatever happened, a graph which is not being run can be run again, unless
\* the configuration failed in bt_graph_run_once().
THEOREM GraphStaysUsable == Spec => []UsableBetweenCalls
<1>. DEFINE Usable ==
       /\ pc # "idle" => ~canConsume
       /\ pc = "idle" /\ ~canConsume =>
             configState = "PARTIALLY_CONFIGURED" /\ ret = <<"bt_graph_run_once", "ERROR">>
<1>1. Init => Usable
  BY Zenon DEF Init
<1>2. IInv /\ Usable /\ [Next]_vars => Usable'
  <2>. SUFFICES ASSUME IInv, Usable, [Next]_vars PROVE Usable'
    BY Zenon
  <2>0. canConsume \in BOOLEAN /\ (pc # "idle" => api \in {"bt_graph_run", "bt_graph_run_once"})
    BY Zenon DEF IInv, TypeOK, ConfigProgress
  <2>1. ASSUME NEW s \in Sinks, AddSink(s) PROVE Usable'
    BY <2>1, Zenon DEF AddSink
  <2>2. CASE \E i \in Interrupters : \/ bt_graph_add_interrupter(i)
                                     \/ bt_interrupter_set(i)
                                     \/ bt_interrupter_reset(i)
    BY <2>2 DEF bt_graph_add_interrupter, bt_interrupter_set, bt_interrupter_reset, graphVars, callVars
  <2>3. ASSUME NEW fn, Start(fn) PROVE Usable'
    BY <2>3, Zenon DEF Start, afterConfigure
  <2>4. CASE ConfigureSink
    <3>1. configState = "PARTIALLY_CONFIGURED" /\ pc = "configure" /\ configState' = configState
      BY <2>4, Zenon DEF IInv, ConfigProgress, ConfigureSink
    <3>2. CASE UNCHANGED <<canConsume, pc, ret>>
      BY <3>1, <3>2, Zenon
    <3>3. CASE ReturnConfigureError
      BY <2>0, <3>1, <3>3, Zenon DEF ReturnConfigureError
    <3>. QED  BY <2>4, <3>2, <3>3, Zenon DEF ConfigureSink
  <2>5. CASE ConfigureDone
    BY <2>5, Zenon DEF ConfigureDone, afterConfigure
  <2>6. CASE CheckInterrupt
    BY <2>6, Zenon DEF CheckInterrupt, Return
  <2>7. ASSUME NEW q, NEW status, pc = "consume", FinishConsume(q, status) PROVE Usable'
    BY <2>7, Zenon DEF FinishConsume, Return
  <2>8. CASE ConsumeNext \/ ConsumeNothing
    BY <2>7, <2>8, Zenon DEF ConsumeNext, ConsumeNothing
  <2>9. CASE UNCHANGED vars
    BY <2>9, Zenon DEF vars, graphVars, callVars
  <2>. QED  BY <2>1, <2>2, <2>3, <2>4, <2>5, <2>6, <2>8, <2>9, Zenon
            DEF Next, UserCall, Interrupt, GraphStep, bt_graph_run, bt_graph_run_once
<1>3. IInv /\ Usable => UsableBetweenCalls
  BY Zenon DEF IInv, UsableBetweenCalls
<1>. QED  BY <1>1, <1>2, <1>3, IInvAlways, PTL DEF Spec

\* No number of runs, errors, interruptions and retries loses a sink from the
\* queue, duplicates one in it, or puts an ended one back.
THEOREM QueueCorrect == Spec => []QueueHoldsLiveSinks
<1>1. IInv => QueueHoldsLiveSinks
  BY Zenon DEF IInv
<1>. QED  BY <1>1, IInvAlways, PTL

\* Success is reported only when all the sinks have ended.
THEOREM SuccessCorrect == Spec => []SuccessMeansAllEnded
<1>1. IInv => SuccessMeansAllEnded
  BY Zenon DEF IInv, SuccessIsFinal, SuccessMeansAllEnded
<1>. QED  BY <1>1, IInvAlways, PTL

\* A sink is told once that the graph is configured, and before any sink
\* consumes, whatever attempts failed before.
THEOREM ConfigurationCorrect == Spec => []ConfiguredOnceBeforeConsuming
<1>1. IInv => ConfiguredOnceBeforeConsuming
  <2>. SUFFICES ASSUME IInv PROVE ConfiguredOnceBeforeConsuming
    BY Zenon
  <2>1. \A s \in Sinks : configCount[s] <= 1
    BY DEF IInv, ConfigProgress
  <2>2. Range(components) \subseteq Sinks
    BY ElementOf DEF IInv, TypeOK, Range
  <2>3. last[1] # NoSink => \A s \in Range(components) : configCount[s] = 1
    BY <2>2, Zenon DEF IInv, ConfigProgress
  <2>. QED  BY <2>1, <2>3, Zenon DEF ConfiguredOnceBeforeConsuming
<1>. QED  BY <1>1, IInvAlways, PTL

\* The round robin of consume_no_check() and consume_sink_node() is fair: between two
\* turns of a sink which has not ended, each other sink has at most one.
THEOREM BypassBounded == Spec => []BoundedBypass
<1>1. IInv => BoundedBypass
  BY Zenon DEF IInv, TurnsLeft, BoundedBypass, Range
<1>. QED  BY <1>1, IInvAlways, PTL

\* An ended sink never consumes again.
THEOREM EndIsFinal == Spec => EndedNeverConsumes
<1>1. IInv /\ [Next]_vars => [ConsumeNext => last'[1] \notin ended]_vars
  <2>. SUFFICES ASSUME IInv, ConsumeNext PROVE last'[1] \notin ended
    BY Zenon
  <2>1. last'[1] = Head(sinksToConsume.links) /\ sinksToConsume.links # <<>>
    BY DEF ConsumeNext, g_queue_is_empty
  <2>2. sinksToConsume.links \in Seq(Sinks) /\ Injective(sinksToConsume.links)
    BY Zenon DEF IInv, TypeOK, QueueHoldsLiveSinks, Injective
  <2>3. Head(sinksToConsume.links) \in Range(sinksToConsume.links)
    BY <2>1, <2>2, TailFacts, Zenon
  <2>. QED  BY <2>1, <2>3, Zenon DEF IInv, QueueHoldsLiveSinks
<1>. QED  BY <1>1, IInvAlways, PTL DEF Spec, EndedNeverConsumes
=============================================================================
