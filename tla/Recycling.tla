------------------------------ MODULE Recycling ------------------------------
(***************************************************************************)
(* The reference counts of the trace IR and of messages, and the pools to   *)
(* which packets, events, clock snapshots and messages go back             *)
(* (lib/object.h, lib/object-pool.h, lib/trace-ir, lib/graph/message), in   *)
(* the developer mode build.                                                *)
(*                                                                          *)
(* A pool is a member of another object: events go back to their event      *)
(* class, packets to their stream, clock snapshots to their clock class and *)
(* messages to the graph.  Giving up the last reference is a cascade of     *)
(* nested calls, which `calls' lists; the user acts between cascades, and   *)
(* within a destruction listener or a finalization method.                  *)
(***************************************************************************)
EXTENDS Naturals, FiniteSets, SequencesExt

\* The streams of the trace, the addresses of each type of object which is
\* allocated on demand, the objects on which the user takes references, and what is
\* no object.
CONSTANTS Streams, Packets, Events, Snapshots,
          EventMessages, BeginningMessages, EndMessages, OtherMessages,
          Referable, None

\* A trace class with one stream class, which has one event class; the clock class
\* of the stream class; a trace; a graph with a message iterator.
Fixed == {"trace class", "stream class", "event class", "clock class", "trace", "graph"}
            \union Streams
Pooled == Events \union Packets \union Snapshots
PacketMessages == BeginningMessages \union EndMessages
Messages == EventMessages \union PacketMessages \union OtherMessages
Objects == Fixed \union Pooled \union Messages

\* Objects with a reference count; the others have exactly one owner.
Shared == Objects \ (Events \union Snapshots)

\* The parent of an object, set when it is created.
ParentOf(o) ==
    CASE o = "stream class" -> "trace class"
      [] o = "event class" -> "stream class"
      [] o \in Streams -> "trace"
      [] OTHER -> None

\* The pools, and the objects of which they are members.
GraphPools == {"event messages", "beginning messages", "end messages"}
Pools == {"event class", "clock class"} \union Streams \union GraphPools
PoolOwner(pl) == IF pl \in GraphPools THEN "graph" ELSE pl

PoolOf(o, owner) ==
    CASE o \in EventMessages -> "event messages"
      [] o \in BeginningMessages -> "beginning messages"
      [] o \in EndMessages -> "end messages"
      [] OTHER -> owner

VARIABLES
    obj,       \* the content of each object, see Blank
    live,      \* the objects which are allocated
    pool,      \* the content of each pool
    messages,  \* graph->messages: the messages to tell when the graph is destroyed
    held,      \* the objects on which the user has a reference
    calls,     \* the calls left to make
    fault,     \* the first call on something freed, if any
    orphans    \* streams of which a reference was taken without one on the trace

vars == <<obj, live, pool, messages, held, calls, fault, orphans>>

\* An object as g_new0() returns it.  owner: packet->stream, event->class,
\* clock_snapshot->clock_class, message->graph; isSet: a clock snapshot, or the
\* context field of a packet, has a value.
Blank == [ref |-> 0, owner |-> None, stream |-> None, packet |-> None, event |-> None,
          cs |-> <<>>, type |-> None, isSet |-> FALSE, frozen |-> FALSE]

Call(fn, o) == [fn |-> fn, on |-> o]
CallOn(fn, o) == IF o = None THEN <<>> ELSE <<Call(fn, o)>>
CallEach(fn, seq) == [k \in DOMAIN seq |-> Call(fn, seq[k])]

\* Everything was created by the user, who keeps the references of Referable.
Init ==
    /\ live = Fixed
    /\ held = Fixed \intersect Referable
    /\ obj = [o \in Objects |-> [Blank EXCEPT !.ref =
                  Cardinality({o} \intersect Fixed \intersect Referable) +
                  CASE o = "trace class" -> 2
                    [] o = "stream class" -> Cardinality({"event class"} \intersect Referable)
                                               + Cardinality(Streams)
                    [] o = "clock class" -> 1
                    [] o = "trace" -> Cardinality(Streams \intersect Referable)
                    [] OTHER -> 0]]
    /\ pool = [pl \in Pools |-> <<>>]
    /\ messages = {}
    /\ calls = <<>>
    /\ fault = "no"
    /\ orphans = {}

-----------------------------------------------------------------------------
(* Getting references.  `m' is a state of the objects.                      *)

\* bt_object_get_ref_no_null_check(): a child which had no reference takes one on
\* its parent.
get_ref(m, o) ==
    LET p == ParentOf(o)
        q == IF p = None THEN None ELSE ParentOf(p)
        fromZero == p # None /\ m[o].ref = 0
        taken == {o} \union (IF fromZero THEN {p} ELSE {})
                     \union (IF fromZero /\ q # None /\ m[p].ref = 0 THEN {q} ELSE {})
    IN  [x \in Objects |-> IF x \in taken THEN [m[x] EXCEPT !.ref = @ + 1] ELSE m[x]]

\* bt_object_get_ref_no_null_check_no_parent_check(): the parent is left alone.
get_ref_no_parent_check(m, o) ==
    IF o = None THEN m ELSE [m EXCEPT ![o].ref = @ + 1]

\* What the next call is about, and the calls left after it.
O == Head(calls).on
Rest == Tail(calls)

\* The objects which the user can borrow from those they hold.
EventsInReach == {obj[m].event : m \in held \intersect EventMessages}
PacketsInReach ==
    ((held \intersect Packets) \union {obj[x].packet : x \in EventsInReach \union (held \intersect PacketMessages)})
        \ {None}
TraceInReach ==
    \/ "trace" \in held \/ held \intersect Streams # {}
    \/ EventsInReach # {} \/ PacketsInReach # {}
    \/ \E m \in held \intersect OtherMessages : obj[m].stream # None
    \/ calls # <<>> /\ O = "trace"
ClassesInReach ==
    \/ TraceInReach \/ held \intersect {"trace class", "stream class", "event class"} # {}
    \/ calls # <<>> /\ O = "trace class"
InReach ==
    held \union EventsInReach \union PacketsInReach
        \union (IF TraceInReach THEN {"trace"} \union Streams ELSE {})
        \union (IF ClassesInReach THEN {"trace class", "stream class", "event class", "clock class"} ELSE {})
        \union UNION {ToSet(obj[m].cs) \union {"clock class"} :
                        m \in {m \in held \intersect Messages : obj[m].cs # <<>>}}

\* Between two calls of the user, or within a method of theirs.
Idle == calls = <<>> /\ fault = "no"
UserTurn == fault = "no" /\ (calls # <<>> => Head(calls).fn = "user")
UserRuns == UserTurn /\ InReach \subseteq live

\* Once a stream was taken without its trace, the user only gives references up.
UserCreates == UserRuns /\ calls = <<>> /\ orphans = {}

\* A destruction listener works on trace IR objects.
InListener(o) == calls # <<>> /\ O # "graph" => o \in Fixed \ {"graph"}

bt_object_get_ref(o) ==
    /\ UserRuns /\ InListener(o)
    /\ o \in (InReach \intersect Referable) \ held /\ orphans = {}
    /\ obj' = get_ref(obj, o)
    /\ held' = held \union {o}
    /\ UNCHANGED <<live, pool, messages, calls, fault, orphans>>

-----------------------------------------------------------------------------
(* Creating packets and messages.                                          *)

\* What bt_object_pool_create_object() returns, in order: the last recycled object
\* first, then newly allocated ones.
Supply(pl, type) == Reverse(pool[pl]) \o SetToSeq(type \ live)

Take(taken) ==
    /\ live' = live \union taken
    /\ pool' = [pl \in Pools |-> SelectSeq(pool[pl], LAMBDA o : o \notin taken)]

\* bt_clock_snapshot_create(), then bt_clock_snapshot_set_raw_value() unless the
\* snapshot is that of a stream message, which has no value at first.
Snapshot(m, c, set) ==
    [get_ref(m, "clock class") EXCEPT ![c].owner = "clock class", ![c].isSet = set]

bt_packet_create(s) ==
    LET supply == Supply(s, Packets)
        p == supply[1]
        recycled == p \in live
    IN  /\ UserCreates
        /\ s \in InReach
        /\ supply # <<>>
        /\ Take({p})
        /\ obj' = [(IF recycled THEN get_ref_no_parent_check(obj, s) ELSE get_ref(obj, s))
                      EXCEPT ![p].owner = s, ![p].ref = 1]
        /\ orphans' = IF recycled /\ obj[s].ref = 0 THEN orphans \union {s} ELSE orphans
        /\ held' = held \union {p}
        /\ UNCHANGED <<messages, calls, fault>>

\* create_event(): the references on the stream and on the packet are taken without a
\* look at their parents.
create_event(m, e, s, p) ==
    [get_ref_no_parent_check(get_ref_no_parent_check(get_ref(m, "event class"), s), p)
        EXCEPT ![e].owner = "event class", ![e].stream = s, ![e].packet = p]

\* An event message, with a clock snapshot, for a stream or for one of its packets.
create_event_message(s, p) ==
    LET e == Supply("event class", Events)[1]
        m == Supply("event messages", EventMessages)[1]
        c == Supply("clock class", Snapshots)[1]
        created == [Snapshot(create_event(obj, e, s, p), c, TRUE) EXCEPT
                      ![m].owner = "graph", ![m].event = e, ![m].cs = <<c>>, ![m].ref = 1]
    IN  /\ UserCreates
        /\ {"graph", s, "event class"} \subseteq InReach
        /\ p # None => p \in PacketsInReach /\ obj[p].owner = s
        /\ Supply("event class", Events) # <<>> /\ Supply("event messages", EventMessages) # <<>>
        /\ Supply("clock class", Snapshots) # <<>>
        /\ Take({e, m, c})
        /\ obj' = IF p = None THEN created ELSE [created EXCEPT ![p].frozen = TRUE]
        /\ messages' = messages \union {m}
        /\ orphans' = IF obj[s].ref = 0 THEN orphans \union {s} ELSE orphans
        /\ held' = held \union {m}
        /\ UNCHANGED <<calls, fault>>

create_packet_message(pl, type, p) ==
    LET m == Supply(pl, type)[1]
        c == Supply("clock class", Snapshots)[1]
    IN  /\ UserCreates
        /\ "graph" \in InReach /\ p \in PacketsInReach
        /\ Supply(pl, type) # <<>> /\ Supply("clock class", Snapshots) # <<>>
        /\ Take({m, c})
        /\ obj' = [Snapshot(get_ref_no_parent_check(obj, p), c, TRUE) EXCEPT
                      ![m].owner = "graph", ![m].packet = p, ![m].cs = <<c>>, ![m].ref = 1,
                      ![p].frozen = TRUE]
        /\ messages' = messages \union {m}
        /\ held' = held \union {m}
        /\ UNCHANGED <<calls, fault, orphans>>

bt_message_packet_beginning_create(p) == create_packet_message("beginning messages", BeginningMessages, p)
bt_message_packet_end_create(p) == create_packet_message("end messages", EndMessages, p)

\* The messages which are not pooled: a stream beginning or end message has a clock
\* snapshot without a value, discarded items have two, and a message iterator
\* inactivity message has no stream.
CreateOther(type, s, n) ==
    LET m == SetToSeq(OtherMessages \ live)[1]
        cs == SubSeq(Supply("clock class", Snapshots), 1, n)
        withStream == IF s = None THEN obj ELSE get_ref(obj, s)
        one == Snapshot(withStream, cs[1], type # "stream")
        all == IF n = 2 THEN Snapshot(one, cs[2], TRUE) ELSE one
    IN  /\ UserCreates
        /\ "graph" \in InReach
        /\ OtherMessages \ live # {} /\ Len(Supply("clock class", Snapshots)) >= n
        /\ Take({m} \union ToSet(cs))
        /\ obj' = [all EXCEPT ![m].type = type, ![m].stream = s, ![m].cs = cs, ![m].ref = 1]
        /\ held' = held \union {m}
        /\ UNCHANGED <<messages, calls, fault, orphans>>

create_stream_message(s) == s \in InReach /\ CreateOther("stream", s, 1)
create_discarded_items_message(s) == s \in InReach /\ CreateOther("discarded items", s, 2)
bt_message_message_iterator_inactivity_create ==
    "clock class" \in InReach /\ CreateOther("inactivity", None, 1)

\* The user sets the context field of a packet they created.
SetContextField(p) ==
    /\ UserCreates
    /\ p \in held /\ ~obj[p].frozen
    /\ obj' = [obj EXCEPT ![p].isSet = TRUE]
    /\ UNCHANGED <<live, pool, messages, held, calls, fault, orphans>>

-----------------------------------------------------------------------------
(* Giving references back.                                                 *)

\* The next call, of fn, can be made.
IsValid(c) ==
    /\ c.fn # "finalize pool" => c.on \in live
    /\ c.fn = "put" => obj[c.on].ref > 0
    /\ c.fn = "to pool" => PoolOwner(PoolOf(c.on, obj[c.on].owner)) \in live
Runs(fn) == fault = "no" /\ calls # <<>> /\ Head(calls).fn = fn /\ IsValid(Head(calls))

\* A call works on an object which is freed, or gives back a reference too many; or
\* what the user can borrow is freed.
InvalidCall ==
    /\ fault = "no"
    /\ IF UserTurn THEN ~(InReach \subseteq live) ELSE ~IsValid(Head(calls))
    /\ fault' = IF calls = <<>> THEN "borrow" ELSE Head(calls).fn
    /\ UNCHANGED <<obj, live, pool, messages, held, calls, orphans>>

\* The release function of an object.
Release(o) ==
    CASE ParentOf(o) # None -> <<Call("put", ParentOf(o))>>
      [] o \in Packets -> <<Call("to pool", o)>>
      [] o \in Messages /\ obj[o].owner # None -> <<Call("recycle message", o)>>
      [] OTHER -> <<Call("destroy", o)>>

PutRef(o, rest) ==
    /\ obj' = [obj EXCEPT ![o].ref = @ - 1]
    /\ calls' = (IF obj[o].ref = 1 THEN Release(o) ELSE <<>>) \o rest
    /\ UNCHANGED <<live, pool, messages, fault, orphans>>

bt_object_put_ref(o) ==
    /\ UserRuns /\ InListener(o)
    /\ o \in held
    /\ held' = held \ {o}
    /\ PutRef(o, calls)

bt_object_put_ref_no_null_check ==
    /\ Runs("put")
    /\ PutRef(O, Rest)
    /\ UNCHANGED held

\* A parent which is destroyed releases those of its children nobody refers to.
bt_object_try_spec_release ==
    /\ Runs("try release")
    /\ calls' = (IF obj[O].ref = 0 THEN <<Call("destroy", O)>> ELSE <<>>) \o Rest
    /\ UNCHANGED <<obj, live, pool, messages, held, fault, orphans>>

\* What a message gives up, when it is recycled and when it is destroyed.
EventMessageContent(m) == CallOn("recycle event", obj[m].event) \o CallEach("to pool", obj[m].cs)
PacketMessageContent(m) == CallOn("put", obj[m].packet) \o CallEach("to pool", obj[m].cs)
destroy_stream_message(m) == CallEach("destroy", obj[m].cs) \o CallOn("put", obj[m].stream)
destroy_discarded_items_message(m) == CallOn("put", obj[m].stream) \o CallEach("to pool", obj[m].cs)
inactivity_destroy(m) == CallEach("to pool", obj[m].cs)
Contents(m) ==
    CASE m \in EventMessages -> EventMessageContent(m)
      [] m \in PacketMessages -> PacketMessageContent(m)
      [] obj[m].type = "stream" -> destroy_stream_message(m)
      [] obj[m].type = "discarded items" -> destroy_discarded_items_message(m)
      [] OTHER -> inactivity_destroy(m)

\* The calls of the functions which destroy an object, in their order.
destroy_trace_class == <<Call("user", "trace class"), Call("try release", "stream class")>>
destroy_stream_class == <<Call("put", "clock class"), Call("try release", "event class")>>
destroy_event_class == <<Call("finalize pool", "event class")>>
destroy_clock_class == <<Call("finalize pool", "clock class")>>
destroy_trace ==
    <<Call("user", "trace")>> \o CallEach("try release", SetToSeq(Streams)) \o <<Call("put", "trace class")>>
destroy_stream(s) == <<Call("put", "stream class"), Call("finalize pool", s)>>
destroy_graph ==
    <<Call("user", "graph"), Call("finalize pool", "event messages"),
      Call("finalize pool", "beginning messages"), Call("finalize pool", "end messages")>>
bt_event_destroy(e) == CallOn("put", obj[e].owner) \o CallOn("put", obj[e].packet) \o CallOn("put", obj[e].stream)
bt_packet_destroy(p) == CallOn("put", obj[p].owner)
bt_clock_snapshot_destroy(c) == CallOn("put", obj[c].owner)
Destructor(o) ==
    CASE o = "trace class" -> destroy_trace_class
      [] o = "stream class" -> destroy_stream_class
      [] o = "event class" -> destroy_event_class
      [] o = "clock class" -> destroy_clock_class
      [] o = "trace" -> destroy_trace
      [] o \in Streams -> destroy_stream(o)
      [] o = "graph" -> destroy_graph
      [] o \in Events -> bt_event_destroy(o)
      [] o \in Packets -> bt_packet_destroy(o)
      [] o \in Snapshots -> bt_clock_snapshot_destroy(o)
      [] o \in Messages -> Contents(o)

\* The trace, its class and the graph take a reference on themselves, so that the
\* user may get and put references meanwhile; the graph lets its messages know.
Told_NotTold(x) == IF x = O /\ x \notin Fixed THEN Blank ELSE obj[x]

Told(x) ==
    CASE x = O /\ x \notin Fixed -> Blank
      [] O = "graph" /\ x \in messages -> [obj[x] EXCEPT !.owner = None]
      [] OTHER -> obj[x]

destroy ==
    /\ Runs("destroy")
    /\ obj' = [x \in Objects |-> IF x = O /\ x \in {"trace", "trace class", "graph"}
                                 THEN [Told(x) EXCEPT !.ref = @ + 1] ELSE Told(x)]
    /\ messages' = IF O = "graph" THEN {} ELSE messages
    /\ calls' = Destructor(O) \o <<Call("free", O)>> \o Rest
    /\ UNCHANGED <<live, pool, held, fault, orphans>>

\* A destruction listener returns, and has not kept a reference on what is being
\* destroyed; or the finalization methods of the graph's components do.
UserReturns ==
    /\ Runs("user")
    /\ obj[O].ref = 1
    /\ calls' = Rest
    /\ UNCHANGED <<obj, live, pool, messages, held, fault, orphans>>

bt_object_pool_finalize ==
    /\ Runs("finalize pool")
    /\ calls' = CallEach("destroy", pool[O]) \o Rest
    /\ pool' = [pool EXCEPT ![O] = <<>>]
    /\ UNCHANGED <<obj, live, messages, held, fault, orphans>>

g_free ==
    /\ Runs("free")
    /\ live' = live \ {O}
    /\ obj' = [obj EXCEPT ![O] = Blank]
    /\ calls' = Rest
    /\ UNCHANGED <<pool, messages, held, fault, orphans>>

-----------------------------------------------------------------------------
(* Recycling.                                                              *)

\* bt_message_event_recycle(), recycle_packet_message(): the content, then the message.
RecycleMessage ==
    /\ Runs("recycle message")
    /\ obj' = [obj EXCEPT ![O].event = None, ![O].packet = None, ![O].cs = <<>>]
    /\ calls' = Contents(O) \o <<Call("to pool", O)>> \o Rest
    /\ UNCHANGED <<live, pool, messages, held, fault, orphans>>

\* bt_event_recycle(): the event is unfrozen, and its packet with it; it gives up its
\* stream and its packet, and keeps its fields.
bt_event_recycle_KeepsPacket ==
    /\ Runs("recycle event")
    /\ obj' = [obj EXCEPT ![O].stream = None, ![O].packet = None]
    /\ calls' = <<Call("put", obj[O].stream), Call("to pool", O)>> \o Rest
    /\ UNCHANGED <<live, pool, messages, held, fault, orphans>>

bt_event_recycle ==
    LET p == obj[O].packet
        reset == [obj EXCEPT ![O].stream = None, ![O].packet = None]
    IN  /\ Runs("recycle event")
        /\ obj' = IF p = None THEN reset ELSE [reset EXCEPT ![p].frozen = FALSE]
        /\ calls' = <<Call("put", obj[O].stream)>> \o CallOn("put", p) \o <<Call("to pool", O)>> \o Rest
        /\ UNCHANGED <<live, pool, messages, held, fault, orphans>>

\* bt_object_pool_recycle_object(), and what precedes and follows it: a packet
\* or a clock snapshot is reset; the object loses its owner, which is given back
\* when the object is in its pool (a message has no reference on its graph).
ToPool ==
    LET owner == obj[O].owner
        unlinked == [obj EXCEPT ![O].owner = None, ![O].ref = IF O \in Shared THEN 1 ELSE 0]
    IN  /\ Runs("to pool")
        /\ obj' = IF O \in Packets \union Snapshots THEN [unlinked EXCEPT ![O].frozen = FALSE, ![O].isSet = FALSE]
                 ELSE unlinked
        /\ pool' = [pool EXCEPT ![PoolOf(O, owner)] = Append(@, O)]
        /\ calls' = (IF O \in Pooled THEN <<Call("put", owner)>> ELSE <<>>) \o Rest
        /\ UNCHANGED <<live, messages, held, fault, orphans>>

-----------------------------------------------------------------------------
Next ==
    \/ \E o \in Shared : bt_object_get_ref(o) \/ bt_object_put_ref(o)
    \/ \E s \in Streams : \/ bt_packet_create(s)
                          \/ \E p \in Packets \union {None} : create_event_message(s, p)
                          \/ create_stream_message(s) \/ create_discarded_items_message(s)
    \/ \E p \in Packets : bt_message_packet_beginning_create(p) \/ bt_message_packet_end_create(p)
                          \/ SetContextField(p)
    \/ bt_message_message_iterator_inactivity_create
    \/ bt_object_put_ref_no_null_check \/ bt_object_try_spec_release
    \/ destroy \/ UserReturns \/ bt_object_pool_finalize \/ g_free
    \/ RecycleMessage \/ bt_event_recycle \/ ToPool
    \/ InvalidCall

Spec == Init /\ [][Next]_vars

-----------------------------------------------------------------------------
(* Properties.                                                             *)

InPools == UNION {ToSet(pool[pl]) : pl \in Pools}

\* How many references there are on an object: of the user, of children which have
\* references themselves, and of the objects which point to it.
References(o) ==
    (IF o \in held THEN 1 ELSE 0)
    + Cardinality({c \in live \intersect Fixed : ParentOf(c) = o /\ obj[c].ref > 0})
    + (CASE o = "trace class" -> Cardinality({"trace"} \intersect live)
         [] o = "stream class" -> Cardinality(Streams \intersect live)
         [] o = "clock class" -> Cardinality({"stream class"} \intersect live)
         [] OTHER -> 0)
    + Cardinality({x \in Pooled : obj[x].owner = o})
    + Cardinality({x \in Objects : obj[x].stream = o})
    + Cardinality({x \in Objects : obj[x].packet = o})

\* As long as no stream was taken without its trace (create_event() and
\* bt_packet_create() do not look at the parent when the stream has no reference),
\* no call works on a freed object or gives back a reference nobody took, whatever
\* the order in which the user gives up messages, packets, classes, traces and the
\* graph; and what the user can borrow exists.
BorrowedIsAlive ==
    fault # "no" => orphans # {}

\* What is in a pool is ready to be reused at any time (object-pool.h): it is there
\* once, alive with the owner of the pool, it keeps nothing alive, nothing refers to
\* it, and packets and clock snapshots have no value.  (The fields of events keep
\* theirs, and clock snapshots the mark of an overflow.)
PoolsHoldIdleObjects ==
    \A pl \in Pools : pool[pl] # <<>> =>
        /\ PoolOwner(pl) \in live /\ ToSet(pool[pl]) \subseteq live /\ IsInjective(pool[pl])
        /\ \A other \in Pools \ {pl} : ToSet(pool[pl]) \intersect ToSet(pool[other]) = {}
        /\ \A o \in ToSet(pool[pl]) :
              /\ obj[o].owner = None /\ obj[o].stream = None /\ obj[o].packet = None
              /\ obj[o].event = None /\ obj[o].cs = <<>> /\ ~obj[o].frozen /\ ~obj[o].isSet
              /\ o \in Shared => obj[o].ref = 1 /\ References(o) = 0

\* Objects in pools are idle.  Under the condition of BorrowedIsAlive, between two
\* calls of the user the count of an object is the number of references on it, and
\* what nobody needs is freed: an object without a parent lives as long as it has
\* references, a child as long as its parent, a pooled object as long as its pool,
\* and the event or the clock snapshots of a message belong to it alone.
ReferencesAreExact ==
    /\ PoolsHoldIdleObjects
    /\ Idle /\ orphans = {} =>
        /\ \A o \in (live \intersect Shared) \ InPools : obj[o].ref = References(o)
        /\ \A o \in live \intersect Shared :
              ParentOf(o) = None /\ o \notin InPools => obj[o].ref > 0
        /\ \A o \in Fixed : ParentOf(o) # None => (o \in live <=> ParentOf(o) \in live)
        /\ \A o \in (live \ Shared) \ InPools :
              Cardinality({m \in live \intersect Messages : obj[m].event = o \/ o \in ToSet(obj[m].cs)}) = 1
=============================================================================
