----------------------------- MODULE Lifetimes -----------------------------
(***************************************************************************)
(* Reference counts, parents, weak pointers and destruction of a graph,    *)
(* its components, their ports, the connections and the message iterators  *)
(* (src/lib/object.h, src/lib/graph/).                                     *)
(*                                                                         *)
(* Destruction is a cascade of nested calls which hand the control to user *)
(* finalization methods.  `stack` holds the calls left to make, the next   *)
(* one first: a step executes the first one and puts what it calls in its  *)
(* place.  The user acts when no call is in progress.                      *)
(***************************************************************************)
EXTENDS Integers, Sequences, FiniteSets, SequencesExt

CONSTANTS graph, Components, Ports, Connections, Iterators, NULL,
          ComponentOf,   \* the component which adds a port
          UpstreamPort, DownstreamPort,   \* what a connection connects
          On,            \* the connection an iterator is created on
          By,            \* the sink, or the downstream iterator, creating it
          MaxRefs,       \* bound: references the user holds at once
          FailConnected  \* may an initialization fail once its component
                         \* has a connected port?

Objects == {graph} \cup Components \cup Ports \cup Connections \cup Iterators
EndsOf(c) == {UpstreamPort[c], DownstreamPort[c]}
PortsOf(comp) == {p \in Ports : ComponentOf[p] = comp}
UpstreamComponent(i) == ComponentOf[UpstreamPort[On[i]]]

ASSUME TopologyAssumption ==
    /\ ComponentOf \in [Ports -> Components]
    /\ UpstreamPort \in [Connections -> Ports]
    /\ DownstreamPort \in [Connections -> Ports]
    /\ On \in [Iterators -> Connections]
    /\ By \in [Iterators -> Components \cup Iterators]
    /\ \A i \in Iterators :
          ComponentOf[DownstreamPort[On[i]]] =
             IF By[i] \in Iterators THEN UpstreamComponent(By[i]) ELSE By[i]
    /\ NULL \notin Objects
    /\ MaxRefs \in Nat \ {0}
    /\ FailConnected \in BOOLEAN

VARIABLES
    ref,           \* ref_count of each object
    parent,        \* strong while the object's own ref_count is not zero
    life,          \* "none", "alive", "destroying", "freed"
    user,          \* references the user holds on each object
    held,          \* iterators owned by a component's or iterator's user data
    ends,          \* conn->upstream_port, conn->downstream_port
    connection,    \* port->connection
    iterators,     \* conn->iterators
    it,            \* the fields of each message iterator
    initialized,   \* component->initialized
    connections,   \* graph->connections
    components,    \* graph->components
    config_state,  \* graph->config_state, a partially configured graph
                   \* being configured already
    initing,       \* components in their initialization method, innermost first
    stack          \* calls in progress
vars == <<ref, parent, life, user, held, ends, connection, iterators, it,
          initialized, connections, components, config_state, initing, stack>>
links == <<ends, connection, iterators>>
graphVars == <<connections, components, config_state>>

Call(op, o) == <<op, o>>
Calls(op, s) == [k \in DOMAIN s |-> Call(op, s[k])]
\* The calls in progress, once the first one is replaced with the calls `cs`.
Becomes(cs) == stack' = cs \o Tail(stack)
Top(op) == stack # <<>> /\ Head(stack)[1] = op
Obj == Head(stack)[2]

TypeOK ==
    /\ ref \in [Objects -> Nat]
    /\ parent \in [Objects -> Objects \cup {NULL}]
    /\ life \in [Objects -> {"none", "alive", "destroying", "freed"}]
    /\ user \in [Objects -> Nat]
    /\ held \in [Components \cup Iterators -> SUBSET Iterators]
    /\ ends \in [Connections -> SUBSET Ports]
    /\ connection \in [Ports -> Connections \cup {NULL}]
    /\ iterators \in [Connections -> Seq(Iterators)]
    /\ it \in [Iterators ->
          [state : {"NON_INITIALIZED", "ACTIVE", "FINALIZING", "FINALIZED"},
           connection : Connections \cup {NULL},
           upstream_msg_iters : SUBSET Iterators,
           downstream_msg_iter : Iterators \cup {NULL}]]
    /\ initialized \in [Components -> BOOLEAN]
    /\ connections \in Seq(Connections)
    /\ components \in Seq(Components)
    /\ config_state \in {"CONFIGURING", "CONFIGURED", "FAULTY", "DESTROYING"}
    /\ initing \in Seq(Components)
-----------------------------------------------------------------------------
(***************************************************************************)
(* bt_object                                                               *)
(***************************************************************************)

\* bt_object_get_ref() without a look at the parent.
Gains_NoParent(r, o) == {o}

\* The counts which bt_object_get_ref() increments: the object's and, for an
\* object which nobody references, its parent's.
Gains(r, o) ==
    LET up(x) == IF r[x] = 0 /\ parent[x] # NULL THEN {parent[x]} ELSE {}
    IN  {o} \cup up(o) \cup UNION {up(x) : x \in up(o)}
GetRef(r, o) == [x \in Objects |-> r[x] + (IF x \in Gains(r, o) THEN 1 ELSE 0)]

\* release_func of each kind of object, called when its count drops to zero.
Release(o) ==
    IF o = graph \/ o \in Iterators THEN <<Call("destroy", o)>>
    ELSE IF parent[o] = NULL THEN <<Call("spec_release", o)>>
    ELSE (IF o \in Connections THEN <<Call("try_remove", o)>> ELSE <<>>)
         \o <<Call("put_ref", parent[o])>>

bt_object_put_ref ==
    /\ Top("put_ref")
    /\ ref' = [ref EXCEPT ![Obj] = @ - 1]
    /\ Becomes(IF ref[Obj] = 1 THEN Release(Obj) ELSE <<>>)
    /\ UNCHANGED <<parent, life, user, held, links, it, initialized,
                   graphVars, initing>>

bt_object_try_spec_release ==
    /\ Top("spec_release")
    /\ Becomes(IF ref[Obj] = 0 THEN <<Call("destroy", Obj)>> ELSE <<>>)
    /\ UNCHANGED <<ref, parent, life, user, held, links, it, initialized,
                   graphVars, initing>>

Free ==
    /\ Top("free")
    /\ life' = [life EXCEPT ![Obj] = "freed"]
    /\ Becomes(<<>>)
    /\ UNCHANGED <<ref, parent, user, held, links, it, initialized,
                   graphVars, initing>>

\* A user finalization method of `x`: it may get and put a reference on
\* `o`, and it puts the message iterators which its user data owns.
Finalize(x, o) ==
    (IF o = NULL THEN <<>> ELSE <<Call("get_ref", o), Call("put_ref", o)>>)
    \o Calls("put_ref", SetToSeq(held[x]))

GetRefStep ==
    /\ Top("get_ref")
    /\ ref' = GetRef(ref, Obj)
    /\ Becomes(<<>>)
    /\ UNCHANGED <<parent, life, user, held, links, it, initialized,
                   graphVars, initing>>
-----------------------------------------------------------------------------
(***************************************************************************)
(* Destruction                                                             *)
(***************************************************************************)

\* What the graph frees: the connections, then the components.
OwnedByGraph == connections \o components

\* Without the incrementation.
Guarded_Not(r, o) == r
\* The count an object has while it is being destroyed: not zero, so that
\* getting and putting a reference does not destroy it again.
Guarded(r, o) == [r EXCEPT ![o] = @ + 1]

destroy_graph ==
    /\ Top("destroy") /\ Obj = graph
    /\ ref' = Guarded(ref, graph)
    /\ life' = [life EXCEPT ![graph] = "destroying"]
    /\ config_state' = "DESTROYING"
    /\ connections' = <<>> /\ components' = <<>>
    /\ Becomes(Calls("spec_release", OwnedByGraph) \o <<Call("free", graph)>>)
    /\ UNCHANGED <<parent, user, held, links, it, initialized, initing>>

destroy_component ==
    /\ Top("destroy") /\ Obj \in Components
    /\ ref' = Guarded(ref, Obj)
    /\ life' = [life EXCEPT ![Obj] = "destroying"]
    /\ \E o \in {NULL, Obj} \cup {p \in PortsOf(Obj) : life[p] = "alive"} :
          Becomes((IF initialized[Obj] THEN Finalize(Obj, o) ELSE <<>>)
                  \o Calls("spec_release",
                           SetToSeq({p \in PortsOf(Obj) : life[p] = "alive"}))
                  \o <<Call("free", Obj)>>)
    /\ held' = [held EXCEPT ![Obj] = {}]
    /\ UNCHANGED <<parent, user, links, it, initialized, graphVars, initing>>

destroy_port ==
    /\ Top("destroy") /\ Obj \in Ports
    /\ life' = [life EXCEPT ![Obj] = "destroying"]
    /\ Becomes(<<Call("free", Obj)>>)
    /\ UNCHANGED <<ref, parent, user, held, links, it, initialized,
                   graphVars, initing>>

destroy_connection ==
    /\ Top("destroy") /\ Obj \in Connections
    /\ life' = [life EXCEPT ![Obj] = "destroying"]
    /\ Becomes(<<Call("end", Obj), Call("free", Obj)>>)
    /\ UNCHANGED <<ref, parent, user, held, links, it, initialized,
                   graphVars, initing>>

bt_message_iterator_destroy ==
    /\ Top("destroy") /\ Obj \in Iterators
    /\ ref' = Guarded(ref, Obj)
    /\ life' = [life EXCEPT ![Obj] = "destroying"]
    /\ Becomes(<<Call("try_finalize", Obj), Call("remove_iterator", Obj),
                 Call("free", Obj)>>)
    /\ UNCHANGED <<parent, user, held, links, it, initialized, graphVars,
                   initing>>

\* Disconnects both ports, holding local references on them, then finalizes
\* the message iterators.
bt_connection_end ==
    /\ Top("end")
    /\ LET c == Obj
           p == SetToSeq(ends[c])
       IN  /\ ref' = FoldLeft(GetRef, ref, p)
           /\ connection' = [q \in Ports |->
                                IF q \in ends[c] THEN NULL ELSE connection[q]]
           /\ ends' = [ends EXCEPT ![c] = {}]
           /\ Becomes(Calls("put_ref", p) \o <<<<"end_iterators", c, 1>>>>)
    /\ UNCHANGED <<parent, life, user, held, iterators, it, initialized,
                   graphVars, initing>>

\* The loop without its incrementation.
EndIteratorsCalls_Restarts(c, k) ==
    LET i == iterators[c][k]
    IN  <<Call("try_finalize", i), Call("forget_connection", i),
          <<"end_iterators", c, k>>>>

\* An iteration of the loop on the iterators.
EndIteratorsCalls(c, k) ==
    LET i == iterators[c][k]
    IN  <<Call("try_finalize", i), Call("forget_connection", i),
          <<"end_iterators", c, k + 1>>>>

EndIterators ==
    /\ Top("end_iterators")
    /\ LET c == Obj
           k == Head(stack)[3]
       IN  IF k <= Len(iterators[c])
           THEN /\ Becomes(EndIteratorsCalls(c, k))
                /\ UNCHANGED iterators
           ELSE /\ Becomes(<<>>)
                /\ iterators' = [iterators EXCEPT ![c] = <<>>]
    /\ UNCHANGED <<ref, parent, life, user, held, ends, connection, it,
                   initialized, graphVars, initing>>

bt_message_iterator_set_connection ==
    /\ Top("forget_connection")
    /\ it' = [it EXCEPT ![Obj].connection = NULL]
    /\ Becomes(<<>>)
    /\ UNCHANGED <<ref, parent, life, user, held, links, initialized,
                   graphVars, initing>>

try_remove_connection_from_graph ==
    /\ Top("try_remove")
    /\ LET keep == \/ ref[Obj] > 0
                   \/ ends[Obj] # {}
                   \/ iterators[Obj] # <<>>
                   \/ ~Contains(connections, Obj)
       IN  /\ Becomes(IF keep THEN <<>> ELSE <<Call("spec_release", Obj)>>)
           /\ connections' =
                 IF keep THEN connections
                 ELSE SelectSeq(connections, LAMBDA c : c # Obj)
    /\ UNCHANGED <<ref, parent, life, user, held, links, it, initialized,
                   components, config_state, initing>>

bt_connection_remove_iterator ==
    /\ Top("remove_iterator")
    /\ LET c == it[Obj].connection
       IN  IF c = NULL
           THEN Becomes(<<>>) /\ UNCHANGED <<iterators, it>>
           ELSE /\ iterators' = [iterators EXCEPT ![c] =
                                    SelectSeq(@, LAMBDA i : i # Obj)]
                /\ it' = [it EXCEPT ![Obj].connection = NULL]
                /\ Becomes(<<Call("try_remove", c)>>)
    /\ UNCHANGED <<ref, parent, life, user, held, ends, connection,
                   initialized, graphVars, initing>>

bt_message_iterator_try_finalize ==
    /\ Top("try_finalize")
    /\ \E o \in {NULL, Obj, UpstreamComponent(Obj)} :
          CASE it[Obj].state = "FINALIZED" ->
                  Becomes(<<>>) /\ UNCHANGED <<it, held>>
            [] it[Obj].state = "NON_INITIALIZED" ->
                  /\ Becomes(<<Call("detach", Obj)>>)
                  /\ it' = [it EXCEPT ![Obj].state = "FINALIZING"]
                  /\ UNCHANGED held
            [] OTHER ->
                  /\ Becomes(Finalize(Obj, o) \o <<Call("detach", Obj)>>)
                  /\ it' = [it EXCEPT ![Obj].state = "FINALIZING"]
                  /\ held' = [held EXCEPT ![Obj] = {}]
    /\ UNCHANGED <<ref, parent, life, user, links, initialized, graphVars,
                   initing>>

\* The end of bt_message_iterator_try_finalize(): detaches the upstream
\* message iterators, then the downstream one.
Detached(i) ==
    [j \in Iterators |->
       CASE j = i -> [it[j] EXCEPT !.upstream_msg_iters = {},
                                   !.state = "FINALIZED"]
         [] j \in it[i].upstream_msg_iters ->
              [it[j] EXCEPT !.downstream_msg_iter = NULL]
         [] j = it[i].downstream_msg_iter ->
              [it[j] EXCEPT !.upstream_msg_iters = @ \ {i}]
         [] OTHER -> it[j]]

Detach ==
    /\ Top("detach")
    /\ it' = Detached(Obj)
    /\ Becomes(<<>>)
    /\ UNCHANGED <<ref, parent, life, user, held, links, initialized,
                   graphVars, initing>>
-----------------------------------------------------------------------------
(***************************************************************************)
(* Creation of message iterators                                           *)
(***************************************************************************)

CanCreate(i) ==
    /\ life[i] = "none"
    /\ connection[DownstreamPort[On[i]]] = On[i]
    /\ config_state = "CONFIGURED"

\* create_self_component_input_port_message_iterator(), up to the call of
\* the user's initialization method.
CreateIterator ==
    /\ Top("create")
    /\ ref' = [ref EXCEPT ![Obj] = 1]
    /\ life' = [life EXCEPT ![Obj] = "alive"]
    /\ it' = [it EXCEPT ![Obj].connection = On[Obj]]
    /\ Becomes(<<Call("initialize", Obj)>>)
    /\ UNCHANGED <<parent, user, held, links, initialized, graphVars, initing>>

\* The initialization method creates an upstream message iterator.
InitializeCreates ==
    /\ Top("initialize")
    /\ \E j \in Iterators :
          /\ By[j] = Obj /\ CanCreate(j)
          /\ stack' = <<Call("create", j)>> \o stack
    /\ UNCHANGED <<ref, parent, life, user, held, links, it, initialized,
                   graphVars, initing>>

\* The iterator is not added to the downstream iterator's array.
InitializeSucceeds_NotAdded ==
    /\ Top("initialize")
    /\ LET i == Obj
           d == By[i]
       IN  /\ it' = [it EXCEPT ![i].state = "ACTIVE",
                 ![i].downstream_msg_iter = IF d \in Iterators THEN d ELSE NULL]
           /\ iterators' = [iterators EXCEPT ![On[i]] = Append(@, i)]
           /\ held' = [held EXCEPT ![d] = @ \cup {i}]
    /\ Becomes(<<>>)
    /\ UNCHANGED <<ref, parent, life, user, ends, connection, initialized,
                   graphVars, initing>>

\* It succeeds: the iterator is linked to its downstream iterator and to its
\* connection, and the creator owns it.
InitializeSucceeds ==
    /\ Top("initialize")
    /\ LET i == Obj
           d == By[i]
       IN  /\ it' = [j \in Iterators |->
                CASE j = i -> [it[j] EXCEPT !.state = "ACTIVE",
                      !.downstream_msg_iter = IF d \in Iterators THEN d ELSE NULL]
                  [] j = d -> [it[j] EXCEPT !.upstream_msg_iters = @ \cup {i}]
                  [] OTHER -> it[j]]
           /\ iterators' = [iterators EXCEPT ![On[i]] = Append(@, i)]
           /\ held' = [held EXCEPT ![d] = @ \cup {i}]
    /\ Becomes(<<>>)
    /\ UNCHANGED <<ref, parent, life, user, ends, connection, initialized,
                   graphVars, initing>>

\* It fails, having put the upstream iterators it had created.
InitializeFails ==
    /\ Top("initialize")
    /\ Becomes(Calls("put_ref", SetToSeq(held[Obj])) \o <<Call("put_ref", Obj)>>)
    /\ held' = [held EXCEPT ![Obj] = {}]
    /\ UNCHANGED <<ref, parent, life, user, links, it, initialized, graphVars,
                   initing>>
-----------------------------------------------------------------------------
(***************************************************************************)
(* The user                                                                *)
(***************************************************************************)
Idle == stack = <<>>
Owns(o) == user[o] > 0
UserRefs == FoldFunction(+, 0, user)
RootOf(o) ==
    LET up(x) == IF parent[x] = NULL THEN x ELSE parent[x] IN up(up(o))
\* What the user can get to from what it owns.
Reaches(o) ==
    /\ life[o] = "alive"
    /\ \E x \in Objects : Owns(x) /\ RootOf(x) = RootOf(o)

Init ==
    /\ ref = [o \in Objects |-> IF o = graph THEN 1 ELSE 0]
    /\ user = ref
    /\ parent = [o \in Objects |-> NULL]
    /\ life = [o \in Objects |-> IF o = graph THEN "alive" ELSE "none"]
    /\ held = [x \in Components \cup Iterators |-> {}]
    /\ ends = [c \in Connections |-> {}]
    /\ connection = [p \in Ports |-> NULL]
    /\ iterators = [c \in Connections |-> <<>>]
    /\ it = [i \in Iterators |->
               [state |-> "NON_INITIALIZED", connection |-> NULL,
                upstream_msg_iters |-> {}, downstream_msg_iter |-> NULL]]
    /\ initialized = [c \in Components |-> FALSE]
    /\ connections = <<>> /\ components = <<>>
    /\ config_state = "CONFIGURING"
    /\ initing = <<>>
    /\ stack = <<>>

UserGets(o) ==
    /\ Idle /\ o \notin Iterators /\ Reaches(o) /\ UserRefs < MaxRefs
    /\ ref' = GetRef(ref, o)
    /\ user' = [user EXCEPT ![o] = @ + 1]
    /\ UNCHANGED <<parent, life, held, links, it, initialized, graphVars,
                   initing, stack>>

\* A caller keeps its reference on the graph during a call.
UserPuts(o) ==
    /\ Idle /\ Owns(o)
    /\ o = graph /\ initing # <<>> => user[o] > 1
    /\ user' = [user EXCEPT ![o] = @ - 1]
    /\ stack' = <<Call("put_ref", o)>>
    /\ UNCHANGED <<ref, parent, life, held, links, it, initialized, graphVars,
                   initing>>

\* The part of add_component_with_init_method_data() before the user's
\* initialization method; a "port added" listener may add components too.
AddComponent(c) ==
    /\ Idle /\ Owns(graph) /\ config_state = "CONFIGURING"
    /\ life[c] = "none"
    /\ initing # <<>> =>
          \E p \in PortsOf(Head(initing)) : life[p] = "alive"
    /\ life' = [life EXCEPT ![c] = "alive"]
    /\ parent' = [parent EXCEPT ![c] = graph]
    /\ ref' = [GetRef(ref, graph) EXCEPT ![c] = 1]
    /\ components' = Append(components, c)
    /\ initing' = <<c>> \o initing
    /\ UNCHANGED <<user, held, links, it, initialized, connections,
                   config_state, stack>>

\* add_port() by an initialization method; `ok` is the listeners' answer.
\* Its own reference is put when the listeners return.
AddPort(p, ok) ==
    /\ Idle /\ initing # <<>> /\ ComponentOf[p] = Head(initing)
    /\ config_state = "CONFIGURING"
    /\ life[p] = "none"
    /\ life' = [life EXCEPT ![p] = "alive"]
    /\ parent' = [parent EXCEPT ![p] = ComponentOf[p]]
    /\ config_state' = IF ok THEN config_state ELSE "FAULTY"
    /\ UNCHANGED <<ref, user, held, links, it, initialized, connections,
                   components, initing, stack>>

\* The last element takes the place of the removed one.
g_ptr_array_remove_fast(s, x) ==
    LET k == CHOOSE n \in DOMAIN s : s[n] = x
    IN  SubSeq([s EXCEPT ![k] = s[Len(s)]], 1, Len(s) - 1)

\* The initialization method returns.
InitSucceeds ==
    /\ Idle /\ initing # <<>>
    /\ initialized' = [initialized EXCEPT ![Head(initing)] = TRUE]
    /\ stack' = <<Call("put_ref", Head(initing))>>
    /\ initing' = Tail(initing)
    /\ UNCHANGED <<ref, parent, life, user, held, links, it, graphVars>>

InitFails ==
    /\ Idle /\ initing # <<>>
    /\ LET c == Head(initing)
       IN  /\ FailConnected \/ \A p \in PortsOf(c) : connection[p] = NULL
           /\ stack' = <<Call("put_ref", graph), Call("spec_release", c),
                        Call("put_ref", c)>>
           /\ parent' = [parent EXCEPT ![c] = NULL]
           /\ components' = g_ptr_array_remove_fast(components, c)
    /\ config_state' = "FAULTY"
    /\ initing' = Tail(initing)
    /\ UNCHANGED <<ref, life, user, held, links, it, initialized, connections>>

\* The calls which end bt_graph_connect_ports().
EndConnect(c, ok) ==
    (IF ok THEN <<>> ELSE <<Call("end", c), Call("try_remove", c)>>)
    \o <<Call("put_ref", c)>>

\* bt_graph_connect_ports(); `ok`: both "port connected" methods succeed;
\* `keep`: one of them keeps a reference on the connection.
bt_graph_connect_ports(c, ok, keep) ==
    /\ Idle /\ Owns(graph) /\ config_state = "CONFIGURING"
    /\ life[c] = "none"
    /\ \A p \in EndsOf(c) : life[p] = "alive" /\ connection[p] = NULL
    /\ keep => UserRefs < MaxRefs
    /\ life' = [life EXCEPT ![c] = "alive"]
    /\ parent' = [parent EXCEPT ![c] = graph]
    /\ ref' = [GetRef(ref, graph) EXCEPT ![c] = IF keep THEN 2 ELSE 1]
    /\ user' = [user EXCEPT ![c] = IF keep THEN 1 ELSE 0]
    /\ ends' = [ends EXCEPT ![c] = EndsOf(c)]
    /\ connection' = [p \in Ports |-> IF p \in EndsOf(c) THEN c ELSE connection[p]]
    /\ connections' = Append(connections, c)
    /\ config_state' = IF ok THEN config_state ELSE "FAULTY"
    /\ stack' = EndConnect(c, ok)
    /\ UNCHANGED <<held, iterators, it, initialized, components, initing>>

Sinks == Components \ {ComponentOf[UpstreamPort[c]] : c \in Connections}

configure_graph ==
    /\ Idle /\ Owns(graph) /\ initing = <<>> /\ config_state = "CONFIGURING"
    /\ \E c \in Sinks : initialized[c]
    /\ config_state' = "CONFIGURED"
    /\ UNCHANGED <<ref, parent, life, user, held, links, it, initialized,
                   connections, components, initing, stack>>

\* While it runs, a sink creates a message iterator.
SinkCreates(i) ==
    /\ Idle /\ Owns(graph) /\ By[i] \in Components
    /\ initialized[By[i]] /\ CanCreate(i)
    /\ stack' = <<Call("create", i)>>
    /\ UNCHANGED <<ref, parent, life, user, held, links, it, initialized,
                   graphVars, initing>>

\* While it runs, a sink or an iterator puts a message iterator it owns.
Drops(x, i) ==
    /\ Idle /\ Owns(graph) /\ config_state = "CONFIGURED"
    /\ i \in held[x]
    /\ held' = [held EXCEPT ![x] = @ \ {i}]
    /\ stack' = <<Call("put_ref", i)>>
    /\ UNCHANGED <<ref, parent, life, user, links, it, initialized, graphVars,
                   initing>>
-----------------------------------------------------------------------------
LibraryStep ==
    \/ bt_object_put_ref
    \/ bt_object_try_spec_release
    \/ GetRefStep
    \/ Free
    \/ destroy_graph
    \/ destroy_component
    \/ destroy_port
    \/ destroy_connection
    \/ bt_message_iterator_destroy
    \/ bt_connection_end
    \/ EndIterators
    \/ bt_message_iterator_set_connection
    \/ try_remove_connection_from_graph
    \/ bt_connection_remove_iterator
    \/ bt_message_iterator_try_finalize
    \/ Detach
    \/ CreateIterator
    \/ InitializeCreates
    \/ InitializeSucceeds
    \/ InitializeFails

UserStep ==
    \/ \E o \in Objects : UserGets(o) \/ UserPuts(o)
    \/ \E c \in Components : AddComponent(c)
    \/ \E p \in Ports, ok \in BOOLEAN : AddPort(p, ok)
    \/ InitSucceeds
    \/ InitFails
    \/ \E c \in Connections, ok, keep \in BOOLEAN :
          bt_graph_connect_ports(c, ok, keep)
    \/ configure_graph
    \/ \E i \in Iterators : SinkCreates(i)
    \/ \E x \in Components \cup Iterators, i \in Iterators : Drops(x, i)

Next == LibraryStep \/ UserStep

Spec == Init /\ [][Next]_vars
\* A call which the user made goes on.
FairSpec == Spec /\ WF_vars(LibraryStep)
-----------------------------------------------------------------------------
(***************************************************************************)
(* Properties                                                              *)
(***************************************************************************)

\* The objects whose memory the next call reads or writes.
Touched ==
    LET op == Head(stack)[1]
        o == Obj
    IN  {o} \cup
        CASE op = "end" -> ends[o]
          [] op = "end_iterators" -> ToSet(iterators[o])
          [] op = "remove_iterator" -> {it[o].connection} \ {NULL}
          [] op = "try_finalize" ->
                IF it[o].state = "FINALIZED" THEN {} ELSE {UpstreamComponent(o)}
          [] op = "detach" ->
                it[o].upstream_msg_iters \cup
                ({it[o].downstream_msg_iter} \ {NULL})
          [] op \in {"put_ref", "get_ref", "try_remove"} -> {parent[o]} \ {NULL}
          [] OTHER -> {}

\* The library's weak pointers from object o: a connection's ports and iterators,
\* a port's connection, an iterator's connection and neighbours, the graph's arrays.
PointsTo(o) ==
    (CASE o \in Connections -> ends[o] \cup ToSet(iterators[o])
       [] o \in Ports -> {connection[o]}
       [] o \in Iterators ->
             {it[o].connection, it[o].downstream_msg_iter} \cup it[o].upstream_msg_iters
       [] o = graph -> ToSet(connections) \cup ToSet(components)
       [] OTHER -> {}) \ {NULL}

\* No call of the library, whatever the user's finalization methods do, works
\* on an object which is freed, and none destroys an object twice (the
\* comments of destroy_graph(), destroy_component() and
\* bt_message_iterator_destroy() on the double destruction).  Between two calls
\* of the user, no weak pointer of a living object leads to a dead one.  The
\* message iterators of a component are finalized before the component's own
\* finalization method runs (destroy_connection()), so that their finalization
\* methods may use it.
NoUseAfterFree ==
    /\ stack # <<>> =>
          /\ Head(stack)[1] # "create" =>
                \A o \in Touched : life[o] \in {"alive", "destroying"}
          /\ Head(stack)[1] = "destroy" => life[Obj] = "alive"
    /\ Idle =>
          \A o \in Objects : life[o] = "alive" =>
             \A x \in PointsTo(o) : life[x] = "alive"
    /\ \A i \in Iterators :
          life[UpstreamComponent(i)] \in {"destroying", "freed"} =>
             life[i] = "none" \/ it[i].state = "FINALIZED"

\* The state is well typed, and the assertions of bt_object_put_ref_no_null_check(),
\* bt_message_iterator_try_finalize() and bt_message_iterator_destroy() hold:
\* a put reference is counted, an iterator is not finalized within its own
\* finalization, it is among the upstream iterators of its downstream one,
\* and has no upstream iterator left when it is freed.
NoAssertionFails ==
    /\ TypeOK
    /\ stack # <<>> =>
          CASE Head(stack)[1] = "put_ref" -> ref[Obj] > 0
            [] Head(stack)[1] = "try_finalize" -> it[Obj].state # "FINALIZING"
            [] Head(stack)[1] = "detach" ->
                  it[Obj].downstream_msg_iter # NULL =>
                     Obj \in it[it[Obj].downstream_msg_iter].upstream_msg_iters
            [] Head(stack)[1] = "free" /\ Obj \in Iterators ->
                  it[Obj].upstream_msg_iters = {}
            [] OTHER -> TRUE

\* While a connection exists, the ports it points to exist
\* (struct bt_connection).
ConnectionPortsExist ==
    \A c \in Connections : life[c] = "alive" =>
       \A p \in ends[c] : life[p] # "freed"

\* When the user has put its last reference, nothing is left: no reference
\* cycle and no object which its owner did not release.
NothingLeaks ==
    Idle /\ UserRefs = 0 => \A o \in Objects : life[o] \in {"none", "freed"}

\* Between two calls of the user, a count is the number of references the
\* user and the owners of iterators have, plus one for each child which is
\* itself referenced (bt_object_get_ref_no_null_check(),
\* bt_object_with_parent_release_func()) and one for the component being
\* initialized; and nothing leaks.
CountsAreExact ==
    /\ NothingLeaks
    /\ Idle =>
       \A o \in Objects : life[o] = "alive" =>
          ref[o] = user[o]
                   + Cardinality({x \in Components \cup Iterators : o \in held[x]})
                   + Cardinality({x \in Objects :
                                     parent[x] = o /\ life[x] = "alive" /\ ref[x] > 0})
                   + (IF Contains(initing, o) THEN 1 ELSE 0)

\* Putting a reference returns, however deep the destruction it starts.
CallsReturn == ~Idle ~> Idle
=============================================================================
