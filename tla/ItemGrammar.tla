---------------------------- MODULE ItemGrammar ----------------------------
(***************************************************************************)
(* The item sequence which the comment of ItemSeqIter promises for a       *)
(* trace: a decoder without buffers, stack or resumption, which reads the  *)
(* first `n' bytes of the data of a trace by recursion over its field      *)
(* classes.  It is the reference with which the iterator is compared.      *)
(*                                                                         *)
(* The position `at', the packet's beginning `start' and the end of what   *)
(* may be read `lim' are offsets in bits within the whole sequence.        *)
(***************************************************************************)
EXTENDS ItemSeqIter

Add(r, kind, n, vals) == [r EXCEPT !.items = Append(@, <<kind, n, vals>>)]
Failed(r) == [r EXCEPT !.ok = FALSE]
Advance(r, len) == IF r.at + len > r.lim THEN Failed(r) ELSE [r EXCEPT !.at = @ + len]
Align(r, align) == Advance(r, (r.start - r.at) % align)
ByteAt(t, r) == t.data[r.at \div 8 + 1]

FixedVal(t, r, fc) ==
    LET bit(i) == LET pos == IF fc.bo = "le" THEN (r.at + i) % 8 ELSE 7 - ((r.at + i) % 8)
                  IN  (t.data[(r.at + i) \div 8 + 1] \div 2 ^ pos) % 2
        val == MapThenSumSet(LAMBDA i : bit(i) * 2 ^ (IF (fc.bo = "le") # fc.rev THEN i
                                                      ELSE fc.len - 1 - i),
                             0 .. fc.len - 1)
    IN  IF fc.t = "sint" THEN Signed(val, fc.len) ELSE val

Save(r, fc, val) ==
    [r EXCEPT !.keys = [i \in DOMAIN @ |-> IF i \in fc.saves THEN val ELSE @[i]]]
KeyVal(r, fc) == IF fc.sel = "bool" THEN Min({1, r.keys[fc.key]}) ELSE r.keys[fc.key]
LenOf(r, fc) == IF fc.key = None THEN fc.len ELSE KeyVal(r, fc)

(* The content of the packet ends here, unless this is behind: nothing     *)
(* refuses such a length, and there is no limit then but the data.         *)
Limited(r, content) ==
    IF r.start + content < r.at THEN [r EXCEPT !.short = r.start]
    ELSE [r EXCEPT !.lim = Min({@, r.start + content})]

Role(r, role, val, len) ==
    CASE role = "magic" -> Add(r, "PktMagicNumber", "", <<val>>)
      [] role = "clk"   -> LET clk == UpdatedClk(r.clk, val, len)
                           IN  Add([r EXCEPT !.clk = clk], "DefClkVal", "", <<clk>>)
      [] role = "content" -> Limited([r EXCEPT !.info.content = val], val)
      [] OTHER          -> [r EXCEPT !.info[role] = val]
Roles(r, fc, val, len) == FoldLeft(LAMBDA q, role : Role(q, role, val, len), r, fc.roles)

(* The bytes of a LEB128 integer, and whether they fit a word.             *)
RECURSIVE VarLen(_, _, _)
VarLen(t, r, bytes) ==
    LET next == Advance(r, 8)
    IN  IF ~next.ok THEN [r |-> next, bytes |-> bytes]
        ELSE IF ByteAt(t, r) >= 128 THEN VarLen(t, next, Append(bytes, ByteAt(t, r) - 128))
        ELSE [r |-> next, bytes |-> Append(bytes, ByteAt(t, r))]
VarLenVal(bytes) == MapThenSumSet(LAMBDA i : bytes[i] * 2 ^ (7 * (i - 1)), DOMAIN bytes)
VarLenFits(signed, bytes) ==
    \/ 7 * Len(bytes) < WordBits
    \/ /\ 7 * (Len(bytes) - 1) = WordBits - 1
       /\ Last(bytes) \in (IF signed THEN {0, 127} ELSE {1})

RECURSIVE Bytes(_, _, _)
Bytes(t, r, len) ==
    IF len = 0 \/ ~r.ok THEN r
    ELSE IF r.at + 8 > r.lim THEN Failed(r)
    ELSE Bytes(t, Advance(Add(r, "Raw", "", <<ByteAt(t, r)>>), 8), len - 1)

RECURSIVE Units(_, _, _)
Units(t, r, unit) ==
    LET q == Bytes(t, r, unit)
    IN  IF ~q.ok \/ \A i \in 1 .. unit : t.data[r.at \div 8 + i] = 0 THEN q ELSE Units(t, q, unit)

(* A fixed-length field at an aligned position.                            *)
FixedLenField(t, r, n, fc, val) ==
    LET after == Advance(r, fc.len)
    IN  IF ~after.ok \/ ((r.at - r.start) % 8 # 0 /\ r.bo # "" /\ r.bo # fc.bo) THEN Failed(r)
        ELSE Roles(Save(Add([after EXCEPT !.bo = fc.bo], "Field", n, <<val>>), fc, val),
                   fc, val, fc.len)

(* A timestamp of variable length is added to the clock value as if it had *)
(* no bits: the length has been reset (_handleCommonVarLenIntFieldState()).*)
VarLenField(r, n, fc, bytes) ==
    LET word == Word(VarLenVal(bytes))
        val == IF fc.t = "vsint" THEN Signed(word, Min({7 * Len(bytes), WordBits})) ELSE word
    IN  IF ~r.ok \/ ~VarLenFits(fc.t = "vsint", bytes) THEN Failed(r)
        ELSE Roles(Save(Add(r, "Field", n, <<val>>), fc, val), fc, val, 0)

MetadataStreamUuid(t, r) ==
    IF r.ok THEN Add(r, "MetadataStreamUuid", "",
                     SubSeq(t.data, (r.at \div 8) - UuidSize + 1, r.at \div 8))
    ELSE r
Begin(r, n, vals) == Add(r, "Begin", n, vals)
End(r, n) == IF r.ok THEN Add(r, "End", n, <<>>) ELSE r

RECURSIVE Field(_, _, _)
RECURSIVE Elems(_, _, _, _)

Elems(t, r, elem, len) == IF len = 0 \/ ~r.ok THEN r ELSE Elems(t, Field(t, r, elem), elem, len - 1)

(* A fixed-length signed integer or boolean key which another scalar field *)
(* follows is saved with the indexes of the latter, to which the iterator  *)
(* has moved on (_handleCommonReadFixedLenSIntFieldState()).               *)
SavedAsNext(before, r, fc, next) ==
    IF r.ok /\ fc.t \in {"sint", "bool"} /\ fc.saves # {} /\ next.t \in Scalars
    THEN Save([r EXCEPT !.keys = before.keys], next, Last(r.items)[3][1])
    ELSE r

Member(t, r, members, i) ==
    LET q == Field(t, r, members[i])
    IN  IF i = Len(members) THEN q
        ELSE SavedAsNext(r, q, t.fcs[members[i]], t.fcs[members[i + 1]])

(* The contents of a compound field, from where its elements are aligned.  *)
Contents(t, r, n, fc) ==
    IF ~r.ok THEN r
    ELSE CASE fc.t = "struct" ->
                  FoldLeftDomain(LAMBDA q, i : Member(t, q, fc.members, i), Begin(r, n, <<>>),
                                 fc.members)
           [] fc.t = "array" ->
                  Elems(t, Begin(r, n, <<LenOf(r, fc)>>), fc.elem, LenOf(r, fc))
           [] fc.t = "uuid" ->
                  MetadataStreamUuid(t, Elems(t, Begin(r, n, <<UuidSize>>), fc.elem, UuidSize))
           [] fc.t = "raw" ->
                  LET q == Bytes(t, Begin(r, n, <<LenOf(r, fc)>>), LenOf(r, fc))
                  IN  IF fc.uuid THEN MetadataStreamUuid(t, q) ELSE q
           [] fc.t = "nstr" -> Units(t, Begin(r, n, <<>>), fc.unit)

(* An optional or variant field has no alignment of its own.               *)
Selected(t, r, n, fc) ==
    LET val == KeyVal(r, fc)
        opts == {i \in DOMAIN fc.opts : val \in fc.opts[i].vals}
    IN  IF fc.t = "opt"
        THEN LET q == Begin(r, n, <<val>>) IN IF val \in fc.vals THEN Field(t, q, fc.fc) ELSE q
        ELSE IF opts = {} THEN Failed(r)
        ELSE Field(t, Begin(r, n, <<val, Min(opts)>>), fc.opts[Min(opts)].fc)

Field(t, r, n) ==
    LET fc == t.fcs[n]
    IN  IF ~r.ok THEN r
        ELSE IF fc.t \in {"uint", "sint", "bool", "bits"}
        THEN LET a == Align(r, fc.align)
             IN  IF a.ok THEN FixedLenField(t, a, n, fc, FixedVal(t, a, fc)) ELSE a
        ELSE IF fc.t \in {"vuint", "vsint"}
        THEN LET v == VarLen(t, Align(r, 8), <<>>) IN VarLenField(v.r, n, fc, v.bytes)
        ELSE IF fc.t \in {"opt", "var"} THEN End(Selected(t, r, n, fc), n)
        ELSE End(Contents(t, Align(r, IF fc.t \in {"raw", "nstr"} THEN 8 ELSE fc.align), n, fc), n)

Scope(t, r, scope, fc) ==
    IF fc = "" \/ ~r.ok THEN r
    ELSE LET q == Field(t, Add(r, "ScopeBegin", scope, <<>>), fc)
         IN  IF q.ok THEN Add(q, "ScopeEnd", scope, <<>>) ELSE q

NoInfo == [clsId |-> None, dsId |-> None, total |-> None, content |-> None,
           endClk |-> None, seq |-> None]

(* The class of the ID which was read, or the only one.                    *)
IdOf(r, classes) ==
    IF r.info.clsId = None /\ Cardinality(classes) = 1 THEN CHOOSE id \in classes : TRUE
    ELSE r.info.clsId

EventRecordEnd(r, from) ==
    IF ~r.ok \/ r.at = from THEN Failed(r) ELSE Add(r, "EventRecordEnd", "", <<>>)

EventRecordBody(t, r, cls, from) ==
    LET id == IdOf(r, DOMAIN cls.records)
        rec == IF id = None THEN [ctx |-> "", payload |-> ""] ELSE cls.records[id]
        info == Add(r, "EventRecordInfo", "", <<id, IF cls.clock THEN r.clk ELSE None>>)
    IN  IF ~r.ok \/ id \notin DOMAIN cls.records \cup {None} THEN Failed(r)
        ELSE EventRecordEnd(Scope(t, Scope(t, Scope(t, info, "CommonEventRecordCtx", cls.common),
                                           "SpecEventRecordCtx", rec.ctx),
                                  "EventRecordPayload", rec.payload), from)

EventRecord(t, r, cls) ==
    EventRecordBody(t, Scope(t, Add(r, "EventRecordBegin", "", <<>>), "EventRecordHeader",
                             cls.header), cls, r.at)

RECURSIVE EventRecords(_, _, _, _)
EventRecords(t, r, cls, stop) ==
    IF ~r.ok \/ r.at = stop THEN r ELSE EventRecords(t, EventRecord(t, r, cls), cls, stop)

(* A packet which is longer than the data cannot be decoded to its end.    *)
PacketEnd(r, end, n) ==
    LET content == Add(r, "PktContentEnd", "", <<r.start>>)
    IN  IF ~r.ok THEN r
        ELSE IF end > 8 * n THEN Failed(content)
        ELSE Add([content EXCEPT !.at = end], "PktEnd", "", <<end>>)

(* A packet of which the lengths are missing has all the data.             *)
PacketBody(t, r, cls, n) ==
    LET total == IF r.info.total # None THEN r.info.total ELSE r.info.content
        content == IF r.info.content # None THEN r.info.content ELSE total
        stop == IF total = None THEN 8 * n ELSE r.start + content
        known == IF total = None THEN r ELSE Limited([r EXCEPT !.lim = 8 * n], content)
        info == Add(known, "PktInfo", "", <<r.info.total, r.info.content,
                                           IF cls.clock THEN r.clk ELSE None,
                                           r.info.endClk, r.info.seq>>)
    IN  IF ~r.ok \/ (total # None /\ total % 8 # 0) \/ content > total THEN Failed(r)
        ELSE PacketEnd(EventRecords(t, info, cls, stop),
                       IF total = None THEN stop ELSE r.start + total, n)

PacketContext(t, r, n) ==
    LET id == IdOf(r, DOMAIN t.classes)
        info == Add([r EXCEPT !.info.clsId = None], "DataStreamInfo", "", <<id, r.info.dsId>>)
    IN  IF ~r.ok \/ id \notin DOMAIN t.classes THEN Failed(r)
        ELSE PacketBody(t, Scope(t, info, "PktCtx", t.classes[id].ctx), t.classes[id], n)

Packet(t, r, n) ==
    LET begin == Add([r EXCEPT !.start = r.at, !.lim = 8 * n, !.clk = 0, !.bo = "",
                               !.info = NoInfo], "PktBegin", "", <<r.at>>)
    IN  PacketContext(t, Scope(t, Add(begin, "PktContentBegin", "", <<>>), "PktHeader", t.header),
                      n)

RECURSIVE Packets(_, _, _)
Packets(t, r, n) == IF ~r.ok \/ r.at = 8 * n THEN r ELSE Packets(t, Packet(t, r, n), n)

(* All the items of the first `n' bytes of a trace, whether it can be      *)
(* decoded to its end, and the packet with a content length which is       *)
(* smaller than what was read of it, if any.                               *)
Decoded(t, n) ==
    LET r == Packets(t, [at |-> 0, start |-> 0, lim |-> 0, items |-> <<>>, ok |-> TRUE, clk |-> 0,
                         bo |-> "", info |-> NoInfo, keys |-> t.keys, short |-> None], n)
    IN  [items |-> r.items, ok |-> r.ok, short |-> r.short]

Reference == [i \in DOMAIN Traces |-> [n \in Traces[i].avails |-> Decoded(Traces[i], n)]]

-----------------------------------------------------------------------------

(* The documented items, except that a packet of which a "try again"       *)
(* interrupted the padding after the content has no PktContentEndItem:     *)
(* _handleEndReadPktContentState() sets the item before it skips, and the  *)
(* next call resumes in the state which only skips.                        *)
Expected(ref) == SelectSeq(ref.items, LAMBDA i : ~(i[1] = "PktContentEnd" /\ i[3][1] \in lost))

AsExpected(ref) ==
    LET expected == Expected(ref)
    IN  /\ IsPrefix(items, expected)
        /\ it.state = "Done" => ref.ok /\ items = expected
        /\ it.state = "Error" =>
               /\ ~ref.ok
               /\ \A i \in Len(items) + 1 .. Len(expected) :
                      expected[i][1] \in {"Raw", "PktContentEnd"}

(* Whatever the sizes of the buffers, and wherever a "try again" interrupts*)
(* next(), the items are those of the documented item sequence, in order   *)
(* and with the right values; the iterator ends when they are all there    *)
(* and fails only on data which the reference cannot decode either, after  *)
(* all the items which come before (raw data of the field at fault aside). *)
(* Four exceptions are exact: Expected, VarLenField, SavedAsNext, and the  *)
(* packet which goes on to the end of the data because its content length  *)
(* is smaller than what was read of it (Limited).                          *)
ItemsAsDocumented == AsExpected(Reference[tr][avail])

(* The largest size which is asked of the medium (9 bytes in the code).    *)
MaxMinSize == (WordBits + 14) \div 8

(* The assertions of the iterator hold and it keeps what it promises to    *)
(* its medium: the head stays within the buffer and the packet content,    *)
(* strings, BLOBs and variable-length integers begin on a byte, a packet   *)
(* too, the stack has the frame a handler needs, with an index within its  *)
(* length, the requested offsets never decrease, a request is for nine     *)
(* bytes at most and overlaps the previous buffer by less than ten bytes.  *)
(* The exception: nothing refuses a content length which is smaller than   *)
(* what was read of the packet, and _remainingPktContentLen() then aborts  *)
(* in debug mode, and otherwise wraps.                                     *)
NoAssertionFails ==
    /\ it.state = "Aborted" => it.pktOff = Reference[tr][avail].short
    /\ RemainingBufLen(it) >= 0 /\ it.buf.size >= 0
    /\ it.pktOff % 8 = 0
    /\ it.state \notin {"TryBeginReadPkt", "Done", "Error"} =>
           \/ it.head <= IF it.state \in {"SkipPadding", "EndReadPkt"} THEN it.total ELSE it.content
           \/ it.pktOff = Reference[tr][avail].short
    /\ it.state \in {"ReadRawData", "ReadMetadataStreamUuidBlobFieldSection",
                     "ReadSubstrUntilNullCodepoint"} => it.head % 8 = 0
    /\ it.vl.len > 0 => it.state \in {"ReadVarLenUIntField", "ReadVarLenSIntField", "Error"}
                        /\ it.head % 8 = 0
    /\ it.state = "EndReadEventRecord" => it.head >= it.erHead
    /\ it.state = "EndReadCompoundField" => Top(it).fc # ""
    /\ \A i \in DOMAIN it.stack :
           LET uuid == it.stack[i].fc # "" /\ Fc(it.stack[i].fc).t = "uuid"
           IN  it.stack[i].index <= IF uuid THEN UuidSize ELSE it.stack[i].len
    /\ asked > 0 => /\ last.prev <= last.off
                    /\ asked <= MaxMinSize
                    /\ last.end - last.off <= MaxMinSize

(* If the medium does not say "try again" forever, the iterator reaches    *)
(* the end of the item sequence or an error: every handler makes progress, *)
(* event records without data included.                                    *)
DecodingEnds == <>Ended
=============================================================================
