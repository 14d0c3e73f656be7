# TLA+ specifications of Babeltrace 2

Babeltrace 2 reads, transforms and writes traces. Its library runs a *graph* of
*components*: sources create messages, filters transform them, sinks consume
them. A component gets messages from its upstream peer through a *message
iterator* created on one of its input ports. Sinks drive everything: the graph
makes them consume in turn, a consuming sink calls its iterators, which call
theirs. It is a single-threaded program, with two kinds of concurrency: signal
handlers and threads which set interrupters, and a relay daemon at the other end
of a socket. What makes it hard is re-entrance (library, user method, library
again), calls which stop half-way ("try again", errors) and are resumed later,
and reference counts which cross all of it.

## The parts and how they interact

| Part | Source | Modules |
|---|---|---|
| Running a graph: configuration, sink queue, interrupters | `lib/graph/graph.c`, `interrupter.c` | `GraphRun` |
| Graph, components, ports, connections, iterators: creation and destruction, reference counts | `lib/object.h`, `lib/graph/*.c` | `Lifetimes` |
| Message iterators: next, seeking, auto-seek | `lib/graph/iterator.c` | `MsgIter` |
| Developer-mode validation of message sequences | `lib/graph/iterator.c` | `MessageSequence`, `SeqValidator` |
| The muxer `flt.utils.muxer`, and the C++ base class of message iterators | `plugins/utils/muxer`, `cpp-common/bt2/component-class-dev.hpp` | `Muxer`, which implements `Merger` |
| Order of messages with equal times | `plugins/common/muxing/muxing.cpp` | `MessageComparator` |
| Priority heap | `cpp-common/bt2c/prio-heap.hpp` | `PrioHeap` |
| Clock correlation validator | `clock-correlation-validator` | `ClockCorrelation` |
| The trimmer `flt.utils.trimmer` | `plugins/utils/trimmer` | `Trimmer`, `ClockConversion` |
| The live source `src.ctf.lttng-live` | `plugins/ctf/lttng-live` | `LttngLive` |
| The file system sink `sink.ctf.fs` | `plugins/ctf/fs-sink` | `FsSink` |
| The file system source `src.ctf.fs` | `plugins/ctf/fs-src` | `FsIndex` (indexes), `FsSource` (component and iterator) |
| The CTF message iterator | `plugins/ctf/common/src/msg-iter.cpp` | `FsSource` |
| The CTF item sequence iterator, which decodes packets | `plugins/ctf/common/src/item-seq` | `ItemSeqIter`, checked against `ItemGrammar` |
| Trace IR objects, messages and their pools: reference counts and recycling | `lib/object.h`, `object-pool.*`, `lib/trace-ir`, `lib/graph/message` | `Recycling` |

The compositions are those of the code. `MsgIter` and `Trimmer` extend
`MessageSequence`: the validator watches what the auto-seek synthesizes, and what
the trimmer makes must be legal. `Muxer` extends `MessageComparator`, `PrioHeap` and
`ClockCorrelation`, and instantiates `Merger` as the abstract specification it
implements. `CtfRoundTrip` runs a sink, then a source on what the sink left on the
file system; `CtfTrace` is what the two have in common, and the order of items which
`FsSource` takes as given is the one `ItemSeqIter` makes of the bits. The user's code (methods of
the components, upstream iterators, the relay daemon) is the environment: it
returns whatever its contract allows, in any order, failures included.

Every part of the repository is listed in `PROJECT.json`; those which are not
modelled, or only partly, are explained there and under "Not modelled" below.

## Modules, state and actions

**GraphRun.** One action for each API function and each turn of the loops of
`configure_graph()` and `bt_graph_run()`. `sinksToConsume` has the links *and* the
length field of the `GQueue`, because the code reads the field and a node is
popped before it is "deleted": the GLib functions are modelled by what they do to
both (the length is modulo `GuintMod`). `bt_interrupter_set` and `_reset` may
happen between any two steps. `ended`, `configCount`, `last`, `waits` are history.

**Lifetimes.** `ref`, `parent`, `user` and `held` are the reference counts and who
holds the references; `ends`, `connection`, `iterators`, `it` are the weak
pointers. Destruction is a cascade of nested calls which hand the control to user
methods: `stack` holds the calls left to make. Each release function, owner
listener, `bt_connection_end()`, finalization of an iterator, and each failure
path of adding a component, connecting ports and creating an iterator is there.

**MessageSequence** has the validator's state transition for one message
(`ValidatorStep`) next to the regular expressions of the message interchange
protocol; **SeqValidator** is the validator facing any message which the library
lets a component create. **MsgIter** has `bt_message_iterator_next()`, both seeking
functions, and the auto-seek: fast-forward with a table of open streams and
packets, one step per message, then one step per stream to prepend the
synthesized beginnings, then a temporary "next" method which drains the queue.

**Merger** says what a muxer promises; **Muxer** is the iterator: a batch per
upstream iterator, a heap of those which have a message, a list of those which
must be reloaded, an error which is delayed when there are messages to return
first. A step is one call to an upstream iterator.

**LttngLive.** A step is one exchange with the relay or one turn of a loop of
`lttng_live_msg_iter_next()`. Sessions, traces and stream iterators are the
vectors of the code; `pos` has the loop counters, so that a vector changes under
the loop which goes through it as it does in the code. Sessions for which
`lttng_live_get_session()` has nothing to ask are passed in the same step, and the
stages of one attempt at a message, which act on different states of the stream
iterator, are alternatives of one location. `relay` is what the daemon keeps to
itself: it announces the metadata stream of a trace with its first streams, and
tells of a stream (`NEW_STREAM` flag) before it gives anything newer of another
one; a session which it lists later has nothing older than what it gave; it may
at each exchange answer "not yet", lose the connection, or the exchange may be
interrupted. `behind` and `late` are history.

**Trimmer.** A step is one call to the upstream iterator or one message handled:
the date completed from the first message, the bounds, the initial seek and its
failures, the state of each stream, the handler of each type of message and the
ends made at the end of the range. Bounds and messages are compared in
nanoseconds, and the synthesized ends need a raw clock value: **ClockConversion**
has both conversions, with their rounding. Upstream is any conforming sequence,
made message by message; what it sent and what the trimmer returned are history.

**FsSink** has the handler of each type of message, with the packet counters and
the time ranges which later packets must match, the names of the files and
directories, and what happens when a stream or a trace is destroyed. `disk` is what
is left on the file system. **FsIndex** has the operations of the source on
indexes as operators: an index from a file or from an LTTng index file, sorted
insertion, merging of groups, the choice among traces, and the three corrections
of packet times. **FsSource** reads the files in any order, merges, corrects,
creates the streams, and then decodes item by item within "next" calls, with the
queue, the medium and the quirks of `msg-iter.cpp`; an error which is met after
some messages is saved for the next call. Downstream may seek the beginning between
two calls. **CtfRoundTrip** starts from any message sequence (legal or not for the
sink) or from given files of other tracers.

**ItemSeqIter.** One action per state handler (families of handlers which differ only
in length, byte order, role and saving of the value are one action with the field
class as data) and one per answer of the medium: a buffer of any size that
satisfies the request, "no data", or "try again", which ends `next()` in the middle of
the handler. `it` has the members of the iterator, the stack and the saved key
values included; after a "try again" the handler starts over from these members, as
the C++ exception leaves them. `inl` says that the handler which began to skip
padding is still on the call stack. **ItemGrammar** has a reference decoder: a recursive
function of the whole data which knows neither buffers, nor states, nor a stack, and
gives the documented sequence of items.

**Recycling.** `obj` has the reference count, the pointers and the frozen flag of
each object; `pool` the idle objects. Giving up a last reference is a cascade:
`calls` lists the calls left to make, through recycling functions, parents, pools
and destruction listeners, where the user may take or give up references. `fault`
is the first use of something freed; `orphans` are streams which are referenced
although nothing holds their trace (see the last section but one). The graph's list of messages, which
it tells when it is destroyed first, is `messages`.

## Runs

Runs which pass:

| Run | Question | Instance |
|---|---|---|
| `graph_run` | Are the queue, the configuration and the reported success right over every sequence of calls, is the round robin fair, does an interrupter stop a run? | 3 sinks added at any time, 2 interrupters, length modulo 8 |
| `message_sequence_rules` | Does the validator decide exactly the protocol? | 2 streams of all pairs of classes, 2 packets, symmetry on both |
| `seek` | Does a seek, at any time and after any history, return exactly the messages at or after that time, preceded by legal beginnings? | every legal content of 4 or 5 messages, batches of 2, times 0 to 2 |
| `muxer` | Is the muxer a `Merger`, is its output independent of batches and failures, does it refuse exactly the clocks which cannot be compared, does each assertion hold but the one named below? | 3 upstream iterators, batches of 2, contents with ties, absent times, inactivity and six combinations of clocks; in one scenario downstream asks whether the muxer can seek |
| `lifetimes` | Is anything used after it was freed, freed twice, left behind, finalized in the wrong order? | a source, a filter and a sink, 2 connections, 3 iterators, 2 user references |
| `live` | Do messages go out in order, does each call return, does the iterator end? | 2 streams of one trace, of two traces, of two sessions; times 1 and 2; 2 messages per call; each session-not-found action |
| `trimmer` | Is the output exactly the messages of the range, is it legal for those who read it, does trimming end? | 2 streams, up to 7 messages; 6 ns in a second, 1 s in a day, batches of 2; clocks of five frequencies and offsets; bounds absent, whole, times of the day, or too early; unsupported stream classes; upstream failures |
| `ctf_fs` | Does the sink accept what its manual page says, and nothing else but three kinds of messages named below, is what it wrote read back, is each packet read once, are the source's messages legal, do seeks start over, is the range which the query tells right? | 12 sink scenarios of up to 8 messages; overlapping snapshots with and without index files, spread files, packets without times, undecodable packets, tracers with known bugs; 2 messages per call |
| `item_sequence` | Does the iterator return exactly the documented items, wherever buffers end and calls are interrupted, do its assertions and its promises to the medium hold, does decoding end? | 385 traces of up to 19 bytes, buffers of any size; words of 15 bits, UUIDs of 2 bytes |
| `recycling` | Is anything used after it was freed, are counts exact, do pools hold only idle and reset objects? | 1 stream, 1 packet, 1 event, 2 clock snapshots, a message of each type, user references on any object |

Why the bounds are enough to be interesting: three sinks are the fewest with
which one can end while two others take turns; two interleaved streams reach every
pair of positions in two regular expressions; contents of four messages hold a
packet and discarded items on both sides of the sought time; three upstream
iterators are the fewest for which the heap has two levels and a replaced top can
go to either child; two iterators on one connection and one upstream of them reach
every order of finalization; and in `live` a stream can end, stay inactive, or
appear in a session already passed, while the other has data, and the relay may
answer a request for data with anything it can. In `trimmer`, periods
of one and a half, two and half a nanosecond make both conversions round, and a
day of one second lets the first message be on the next one. In `ctf_fs`, eight
messages are two packets with discarded items between them, and two streams with
the same name or of two traces compete for files and directories. In `recycling`
one object of each type suffices for each to be recycled, taken again from its
pool, and destroyed in any order with respect to its owners; instances with two
events and event messages, and with two streams, were checked as well. The
traces of `item_sequence` are families: packets with padding, identifiers, two classes
of event records and timestamps which wrap, with one byte changed in turn, and with
data which stops at any interesting byte; all combinations of four bytes as lengths
and selectors of nested dynamic fields; strings and BLOBs; variable-length integers
up to the limit of the word (15 bits, like 64, are a whole number of LEB128 bytes and
one bit more: `WordAssumption`); a record with each kind of field cut at each bit; byte
orders which change within a byte; keys which another scalar field follows. Elsewhere
times need only be equal, before or after. That each history of interest is
reached was tested by asking TLC for states which show it, and each property is
refuted when a definition is replaced by the mutant which `PROJECT.json` names for
it.

Runs which end in a counterexample, each stating what a comment, an assertion or a
doc of the repository says:

| Run | Statement | What happens |
|---|---|---|
| `graph_run_again` | "If AGAIN is received and there are multiple sinks, go ahead and consume from the next sink" (`graph.c:716`) | the length is decremented twice when a sink ends (`graph.c:500`) |
| `lifetimes_failed_init` | a connection's ports exist as long as it is not ended (`connection.h:27`) | a failed initialization frees ports which a listener connected |

The situation of the first is reached by `graph_run` as well, whose properties do not
depend on the length; `lifetimes` leaves that of the second aside (`FailConnected`),
because it would hide everything else. The other situations which are known to go
wrong are reached by the passing runs, whose properties name each one as an exception,
stated as narrowly as it could be: within the instances and the abstractions of the
models, nothing else was found to go wrong.

## Fairness

Weak fairness of the steps of a call in progress, and of nothing else: the
program is single-threaded, so a thread which is in `bt_graph_run()`, in a seek, in
a cascade of releases or in the live iterator goes on, provided that the user
methods return (`GraphStep`, `SeekStep`, `LibraryStep`, the first conjunct of `Fairness`
in `ItemSeqIter`). The user is not obliged to
call anything, an interrupter need not be set, and a failure need not happen
(`SeekStep` leaves the failures out; elsewhere a behaviour may always take another
alternative). Four properties need more, each what a sink does: for `EndsWhenOver`
the graph keeps on asking for messages until the iterator ends, and the relay
answers each request, be it with "not yet"; for `TrimmingEnds` and `ReadingEnds`
downstream calls "next" until the end or an error, and for the former upstream,
whose contents are finite, answers; for `DecodingEnds` the
medium, asked again and again, does not say "try again" forever (strong fairness of its
other answers, because each "try again" ends the request; files never say it, and a
live stream ends or gets data). The relay is never obliged to finish a session,
and nobody is obliged to seek. No other property rests on strong fairness. `Recycling`
has no liveness property and no fairness.

Deadlock checking is off where the system really stops: after the end, a final
error, or when everything is destroyed. `GraphRun` never stops, and `CtfRoundTrip`
says where it may (`Done`): both are checked.

## Proofs

All are for any values of the constants which satisfy the named assumptions, which
TLC evaluates for each instance: any number of sinks, streams, packets and
upstream iterators, and any contents, times and batch sizes. What the
assumptions ask is what the code is given: clock classes have a positive frequency
(`NsPerSecondAssumption`, `TrimmerAssumption`), an upstream iterator gives its messages in the
order of time (`MergerAssumption`), clock classes are different objects
(`MessageAssumption`), the set of streams is finite
(`TrimmerAssumption`). Every inductive invariant was given to TLC, as an invariant of the
run's instance, before it was proved.

* **GraphRunProofs.** Type correctness, and that a graph can be run again after
  every call but a failed configuration by `bt_graph_run_once()`, that the queue holds
  exactly the sinks that have not ended, that success means that all ended, that each
  sink is configured once and before anyone consumes, that between two turns of a sink
  each other sink has at most one, and that a sink which ended never consumes again.
  The inductive invariant adds to them: components are added once (otherwise a sink
  could be twice in the queue); the flags of the sinks, the loop index and the
  state of the graph agree (`ConfigProgress`: a retry resumes where it failed); since its
  own last turn a sink saw at most one of each other sink, and none of those which are
  before it in the queue (`TurnsLeft`); and no sink is added after success (`SuccessIsFinal`). The
  length field plays no part, which is why these hold although the field is wrong.
* **SeqValidatorProofs.** The validator accepts a message exactly when the protocol allows
  it, complains at the end exactly about streams which are open (`ValidatorIsMip`, both
  halves), and its bare assertions never fail. The invariant relates the expected
  types of each stream to its place in the regular expression.
* **MergerProofs.** Any `Merger` is sorted and complete at the end. The invariant
  adds that nothing which remains precedes what was merged.
* **MuxerInvariant.** The parts of the muxer, for all their inputs. *Heap*: `insert()`,
  `replaceTop()` and `removeTop()` keep the elements and leave a heap, for every comparator which
  is a strict weak order, and no element comes before the top of a heap. The loops
  of the code are recursive functions; what they do at every depth is proved by taking
  a least counterexample, and while an element sifts, the array is a heap except
  around the hole. *Comparator*: the muxer's is such an order. *Clock correlation*: the
  validator accepts exactly the clock classes correlated with its first one, which is
  comparing with all those accepted, because correlation is symmetric and transitive
  among them. The module also states the invariant of the iterator: every wrapper
  is in one of the heap, the list of those to reload, or over; the heap is in order;
  and what a wrapper holds is what remains of its upstream iterator, next message
  first.
* **MuxerProofs.** That invariant is inductive; the assertions of the muxer hold but
  the one named below; its validator decides as if it remembered every clock class;
  and the muxer, with its batches, delayed errors and seeks, implements `Merger`, so that
  what it returns is in order and complete at the end. If no two messages of different
  upstream iterators compare equal (`NoTies`), its output is a function of the contents
  alone, whatever the batches and the failures.
* **TrimmerProofs.** The assertions of `trimmer.c` hold but the two named below, and the
  output is legal and is the range, with the exceptions of `OutputIsLegal`. The invariant
  says that upstream conforms, that the state kept for each stream is the one
  of the output's place in the regular expression, that what was ended in the output
  has all its ends, and that nothing after the end of the range went out.

Only model-checked: liveness (`InterruptedRunReturns`, `SeekReturns`, `CallsReturn`,
`NextReturns`, `EndsWhenOver`, `TrimmingEnds`, `ReadingEnds`, `DecodingEnds`), which is out of the
prover's reach; `LttngLive`; `MsgIter`, `Lifetimes` and `Recycling`, whose invariants
would have to describe queues of synthesized messages and stacks of pending calls; the modules about CTF traces (folds over
indexes and messages: induction over data); `ItemSeqIter` (it uses bitwise operators, and
its reference decoder is recursive).

## Abstractions and limits

Names, user data, log levels, error causes and memory allocation failures are left
out, and so are the values of fields, except in `ItemSeqIter`. Times are small integers; only `Trimmer` has
clocks with a frequency and an offset. Batches have at most two messages.

* `LttngLive`: the bytes of the protocol, the connection, the handshake, detaching
  and the query are left out; ties are broken in any way, `MessageComparator` being
  the subject of `muxer`; the decoder makes of a packet two messages, preceded by the
  stream's beginning and by discarded items.
* `Trimmer`: dates are days since the origin, parameters are given already parsed.
* `FsSink`, `FsSource`: an event record is its time; items are those of `ItemSeqIter` which
  have a handler of interest; file errors other than
  a failing `mkdir` and packets which cannot be decoded are left out.
* `ItemSeqIter`: the field classes are those which `trace-class` translation can make, with
  at least one data stream class; the build has or has not the assertions of the debug
  mode, as the trace says; bit maps and floating-point
  numbers are bit arrays (their values are views of the bits); the offsets told to the
  user, `seekPkt()` and the log are left out. A static- and a dynamic-length field, and
  a string and a BLOB, are one kind each.
* `Recycling`: one trace with one stream class, one event class and one clock class;
  after an orphan appears the user only gives references up; listeners work on trace
  IR objects only (one which gives up the graph's last reference while a message is
  recycled would make `lib/graph/message/event.c:298` use a freed graph).

## Disagreements between the code and what it says

Those which passing runs reach, and pin as exceptions of a property:

* `graph.c:668`: `bt_graph_run_once()` leaves `can_consume` false when the
  configuration fails, and the graph cannot run any more (`UsableBetweenCalls`).
* `iterator.c:2333`: an auto-seek while messages of an earlier one are left drops them and
  keeps the temporary method installed with an empty queue, against the assertion of
  line 2136; any other seek in that situation leaves them queued, so that they are
  returned before those of the new position, and the developer-mode checks may refuse
  them (`NoAssertionFails` and `SeekDelivers` of `MsgIter`); `iterator.c:1860`: discarded items which straddle the sought time are kept ("It
  is safe to push it because its beginning time is exactly the requested seeking
  time") although the stream's end or a packet's beginning is skipped after them
  (`NoAssertionFails` of `MsgIter`).
* `component-class-dev.hpp:552`: `canSeekBeginning()` forgets the delayed error of an
  iterator whose last call returned messages and met an error; the following call then
  reads the heap's top, which has no message, against the assertion of
  `upstream-msg-iter.hpp:73` (`NoAssertionFails` of `Muxer`: only after such a question).
* `trimmer.c:1746`: an inactivity message later than the end of the range ends the
  iterator even when that end is infinite (its time is then arbitrary), and streams
  are removed without an end, against "guarantees that we received (and pushed) all
  the appropriate end messages" (1238); and when that end is between two values of a
  stream's clock, the synthesized end messages have the value before it (1175), which
  may be earlier than a message of the range (`OutputIsLegal`). The message of discarded
  items which straddle that end is made with the same clock value (1569-1591): when
  the items begin after it, the message would end before its beginning, which the
  library refuses (`discarded-items.c:247`). When the date
  of a bound was completed and the initial seek then asks to try again, the next call
  asserts that a bound is still unknown (974; `NoAssertionFails` of `Trimmer`).
* `metadata.cpp:108`: the switch on the status of a metadata exchange has no case for
  an interruption (`viewer-connection.hpp:47`): the process aborts. `data-stream.cpp:108`:
  "try again" thrown while the first packet's properties are read is caught by
  nobody (`lttng-live.cpp:611`), and the end of the data there (the relay answers "EOF"
  to the request for a packet which its index announced) fails an assertion
  (`pkt-props.cpp:55`). `lttng-live.cpp:974`: a stream announced when the scan
  has passed its trace may have older messages than the one chosen; its first
  message is late and cannot be adjusted, and the call fails (`NoAssertionFails` of
  `LttngLive`: these are the only cases).
* `lttng-live.cpp:462`: when all sessions are closed and the action is not to
  continue, streams are removed without their end message (`EndedUnlessClosed`).
* `fs-sink-stream.cpp:43`: a file name is unique among the live streams only; a later
  stream truncates the file of an ended one. Discarded items before the first packet
  or after the last one, and streams without packets, are not in the trace read back
  (`WrittenIsReadBack`).
* `fs-sink-trace.cpp:496`: when the directory cannot be made, destroying the trace
  asserts a path which is not set (`NoAssertionFails` of `CtfRoundTrip`).
* `fs-sink.cpp`: discarded items without times, discarded events before the first packet,
  and discarded items after the last packet are accepted, against "must have times" and
  "between a packet end and a packet beginning message"
  (`babeltrace2-sink.ctf.fs.7.txt:170`; `SinkAcceptsExactly`).
* `fs-sink.cpp:202, 258`: with `assume-single-trace`, a second trace is accepted, and
  overwrites the first one, once the first one is destroyed (`SinkAcceptsExactly`).
* `fs.cpp:300`: an entry is compared only with the first one which does not begin
  before it, against "inserted only if there isn't an identical entry already"; and
  entries which begin together are reversed, which underflows an offset in
  `Medium::buf()` (`PacketsReadOnce`, `NoAssertionFails`).
* `fs.cpp:908`: an old barectf trace with an eventless packet fails an assertion; two
  files of a stream without packet times make two streams with the same ID; discarded
  items of a stream with a clock but no packet times dereference an empty optional;
  and when packets overlap, discarded items between them would end before their
  beginning, which the library refuses (`msg-iter.cpp:421`; `NoAssertionFails`).
* `fs.cpp:130`: seeking the beginning keeps a saved error, which is then returned
  (`SeekRestarts`).
* `fs.cpp:355`, `query.cpp`: the range of a stream ends too early or begins too late when
  the tracer has an event-before or event-after bug (`QueryRangeIsTight`).
* `msg-iter.cpp`: with such a tracer, the time range of discarded items has the
  uncorrected times, against "The messages which a source.ctf.fs component creates
  satisfy all the requirements above" (`babeltrace2-sink.ctf.fs.7.txt:190`; `ReadIsLegal`). Without a clock class, discarded
  items have no times, which those requirements ask for.
* `item-seq-iter.cpp:279`: when the medium asks to try again while the padding after a
  packet's content is skipped, the packet content end item, already set, is never
  returned: the next call resumes in the state which only skips (`ItemsAsDocumented`).
* `item-seq-iter.hpp:1239`: nothing checks that the content length which a packet announces
  is not less than what was already read of it. The next subtraction then fails the
  assertion of `safeSub()` in debug mode, and otherwise wraps: the data which follows is
  decoded as if the content were unlimited (`NoAssertionFails` and `ItemsAsDocumented` of
  `ItemGrammar`).
* `item-seq-iter.hpp:4009`: the length of a variable-length integer is reset before its
  role uses it: a timestamp is then combined with the clock value as if it had no bits
  (`ItemsAsDocumented`).
* `item-seq-iter.hpp:3777, 3806`: the value of a fixed-length signed integer or boolean
  key is saved after the next field was prepared, with the saving indexes of that
  field's class when it is a scalar one, against "saves the value [...] at the indexes I"
  (521; `ItemsAsDocumented`).
* `lib/graph/message/event.c:79`, `lib/trace-ir/packet.c:219`: a reference on the stream is
  taken without looking at its parent. When the stream is only borrowed from a trace
  (`trace.h:308`: "remains valid as long as trace exists"), recycling puts the trace once
  too often, and destroys it while the user holds it (`BorrowedIsAlive`).

Others, met while reading:

* `graph.c:772, 801, 830, 859`: `if (listener_id)` tests the ID instead of the
  pointer: the ID 0 is never written, and later ones are written through a null
  pointer, which `graph.h:1687` allows.
* `component.c:210`: the name of a new input port is looked up among the output
  ports (`self-component.h:225`: "No other input port [...] has the name").
* `muxing.cpp:451`: the count of discarded packets is compared with itself, against "in
  a deterministic way" (`muxer/msg-iter.cpp:500`). `MessageComparator` takes this step.
* `metadata.cpp:127`: the state "closed" of a metadata stream is overwritten by "not
  needed" (145, 179), against the comment at `lttng-live.hpp:231`.
* `metadata.cpp:66`: a pointer is used before line 70 tests it.
* `fs.cpp:355`: a stream which begins at -1 ns is taken for one without times.
* `item-seq-iter.hpp:1650`: the frame of a scope is pushed for each scope and never popped
  until the next packet: the stack grows with the number of event records.
* `item-seq-iter.cpp:685`: the offset told for the beginning of a structure field is the one
  before alignment, against "it's aligned according to the alignment of the container
  field class" (`item-seq-iter.hpp:430`).
* `lib/trace-ir/event.h:68`: `bt_event_reset_dev_mode()` is never called, so that the fields
  of a recycled event are still marked as set, against "initially not set"
  (`message.h:317`).
* `lib/trace-ir/event.c:56`: resetting an event unfreezes its packet while other messages
  hold it, against "A frozen object is immutable" (`api-fund.dox:228`). `Recycling` takes
  this step.
* `clock-snapshot.h:43`: the overflow mark of a snapshot is never reset, against "an
  object ready to be reused at any time" (`object-pool.h:28`).
* `message.h:37` (`lib/graph/message`): "keeps the graph alive while the msg. is alive": no
  reference is taken (`graph.c:1292`); the graph tells its messages instead.

## Not modelled

Most of the repository's lines are data structures and conversions without
protocol: a state machine of them would be the code itself, and nothing could be
said of it which the code does not say. `PROJECT.json` has the reason for each part.

* *Decoding and encoding*: the serializer, the readers of fixed-length bit arrays (which
  are modelled by their meaning), the items and their visitors (data), the TSDL and CTF 2 JSON
  parsers and translators, part of which is generated, and the CTF writer library.
  The models take the classes of the streams and of their fields as given.
* *Text*: `sink.text.pretty`, `sink.text.details`, `src.text.dmesg`, logging, string, path
  and time parsing utilities.
* *Typed data and accessors*: values, integer range sets, fields, field classes, and
  the properties of trace IR objects.
* *I/O and the system*: loading plugins, walking directories, memory mapping, the
  sockets under `viewer-connection.cpp`, ELF and DWARF reading in
  `flt.lttng-utils.debug-info`, the file descriptor cache.
* *Thin layers*: the Python and C++ bindings, the query executor, the errors of the
  current thread, counter and dummy sinks, the validation of parameters.
* *One pass over what user methods answer*: MIP negotiation, automatic source
  discovery, the arguments of the command line interface.

Within the parts which are modelled: graph listeners, destroy listeners of
components, the component of the muxer, the connection and the query of the live
source, and allocation failures.
