---------------------------- MODULE ItemSeqIter ----------------------------
(***************************************************************************)
(* The CTF item sequence iterator (plugins/ctf/common/src/item-seq): a     *)
(* state machine which asks a medium for buffers and turns the bits of the *)
(* packets of a data stream into items, following the field classes of the *)
(* trace class.  next() runs handlers until one has an item; any request   *)
(* for data may end the call with "try again", and the following call      *)
(* resumes from whatever the handlers have stored in the members.          *)
(*                                                                         *)
(* Lengths and offsets are in bits, except those of the medium (bytes).    *)
(* The iterator object is the record `it'.  Field classes are named by     *)
(* strings; what a name stands for is part of the decoded trace.           *)
(***************************************************************************)
EXTENDS Integers, Sequences, FiniteSets, FiniteSetsExt, SequencesExt, Bitwise

CONSTANTS
    Traces,   \* the traces to decode: a trace class, data, where the data may end, and
              \* whether the build has the assertions of the debug mode
    WordBits, \* width of an unsigned long long (64 in the code)
    UuidSize  \* bytes of a metadata stream UUID (16 in the code)

(* Nine whole LEB128 bytes leave one bit of a 64-bit word.                 *)
ASSUME WordAssumption == WordBits \in Nat /\ WordBits > 7 /\ WordBits % 7 = 1

VARIABLES
    tr,    \* the index of the trace which is decoded
    avail, \* number of bytes which the medium will ever have
    it,    \* the iterator
    asked, \* the size which the current call of the medium requires, or 0
    inl,   \* the handler which began to skip padding is still on the call stack
    items, \* the items which next() returned, raw data byte by byte
    lost,  \* packets of which a "try again" interrupted the final padding
    last   \* the last request to the medium and the end of its last buffer

vars == <<tr, avail, it, asked, inl, items, lost, last>>

Trace == Traces[tr]
None == -1
Inf == 2 ^ WordBits - 8      \* _infDataLen()
Word(x) == x % 2 ^ WordBits
Signed(x, len) == IF x >= 2 ^ (len - 1) THEN x - 2 ^ len ELSE x

Fc(n) == Trace.fcs[n]
Scalars == {"uint", "sint", "bool", "bits", "vuint", "vsint"}

(* The state which reads an instance of a field class of a given type.  A  *)
(* string or BLOB of known length is "raw"; bit arrays, bit maps and       *)
(* floating-point numbers are "bits".                                      *)
ReadState ==
    [uint   |-> "ReadFixedLenUIntField",
     sint   |-> "ReadFixedLenSIntField",
     bool   |-> "ReadFixedLenBoolField",
     bits   |-> "ReadFixedLenBitArrayField",
     vuint  |-> "ReadVarLenUIntField",
     vsint  |-> "ReadVarLenSIntField",
     struct |-> "BeginReadStructField",
     array  |-> "BeginReadArrayField",
     uuid   |-> "BeginReadArrayFieldMetadataStreamUuid",
     nstr   |-> "BeginReadNullTerminatedStrField",
     raw    |-> "BeginReadStrBlobField",
     var    |-> "BeginReadVariantField",
     opt    |-> "BeginReadOptionalField"]

-----------------------------------------------------------------------------
(* The members.  Signed key values are stored as words.                    *)

NewPacket(s) ==
    [s EXCEPT !.clsId = None, !.bo = "", !.stack = <<>>, !.clk = 0, !.head = 0,
              !.ds = [cls |-> None, id |-> None],
              !.pkt = [total |-> None, content |-> None, end |-> None, seq |-> None],
              !.er = None, !.total = Inf, !.content = Inf,
              !.vl = [val |-> 0, len |-> 0]]

NewIter ==
    [state |-> "TryBeginReadPkt", post |-> "", skip |-> 0,
     buf |-> [addr |-> 0, size |-> 0], bufOff |-> 0, pktOff |-> 0, head |-> 0,
     stack |-> <<>>, scope |-> "", scopeFc |-> "", scalar |-> "", keys |-> Trace.keys,
     clsId |-> None, bo |-> "", clk |-> 0, total |-> 0, content |-> 0, erHead |-> 0,
     ds |-> [cls |-> None, id |-> None],
     pkt |-> [total |-> None, content |-> None, end |-> None, seq |-> None],
     er |-> None, vl |-> [val |-> 0, len |-> 0], cp |-> [len |-> 0, zero |-> TRUE],
     uuid |-> [i \in 1 .. UuidSize |-> 0], magic |-> 0]

(* An unsigned subtraction: safeSub() wraps, or asserts in debug mode.     *)
RemainingPktContentLen(s) == Word(s.content - s.head)
RemainingBufLen(s) == s.bufOff + 8 * s.buf.size - s.head

(* The k-th byte of the buffer from the byte of the head (_bufAtHead()).   *)
BufAtHead(s, k) == Trace.data[s.buf.addr + (s.head - s.bufOff) \div 8 + k + 1]

Top(s) == s.stack[Len(s.stack)]
Push(s, restoring, fc) ==
    [s EXCEPT !.stack = Append(@, [restoring |-> restoring, fc |-> fc, index |-> 0, len |-> 0])]
WithLen(s, len) == [s EXCEPT !.stack[Len(s.stack)].len = len]
RestoreState(s) == [s EXCEPT !.state = Top(s).restoring]

SaveKeyVal(s, fc, val) ==
    [s EXCEPT !.keys = [i \in DOMAIN @ |-> IF i \in fc.saves THEN Word(val) ELSE @[i]]]

(* The saved key value of a dependent field, cast to its selector type.    *)
SavedKeyVal(s, fc) ==
    LET val == s.keys[fc.key]
    IN  CASE fc.sel = "uint" -> val
          [] fc.sel = "sint" -> Signed(val, WordBits)
          [] fc.sel = "bool" -> IF val # 0 THEN 1 ELSE 0

PrepareToReadField(s, n) ==
    IF Fc(n).t \in Scalars
    THEN [s EXCEPT !.scalar = n, !.state = ReadState[Fc(n).t]]
    ELSE [Push(s, "EndReadCompoundField", n) EXCEPT !.state = ReadState[Fc(n).t]]

PrepareToReadNextField(s) ==
    LET t == [s EXCEPT !.stack[Len(s.stack)].index = @ + 1]
    IN  IF Top(t).index = Top(t).len
        THEN RestoreState(t)
        ELSE LET fc == Fc(Top(t).fc)
             IN  PrepareToReadField(t, IF fc.t = "struct" THEN fc.members[Top(t).index + 1]
                                                          ELSE fc.elem)

(* The frame of a scope has the length 1, so that the end of the scope's   *)
(* structure restores the state which ends the scope.                      *)
PrepareToTryReadScope(s, scope, fc) ==
    LET t == [s EXCEPT !.state = "TryBeginReadScope", !.scope = scope, !.scopeFc = fc]
    IN  IF fc = "" THEN t ELSE WithLen(Push(t, "EndReadScope", ""), 1)

-----------------------------------------------------------------------------
(* What a handler does: return an item, continue, throw, or ask the medium *)
(* for data, in which case it goes on when the medium has answered.        *)

SkipLen(align) == (-it.head) % align

(* The handler of the current state computes what remains of the content.  *)
ComputesRemaining ==
    \/ it.state \in {ReadState[type] : type \in Scalars}
                     \cup {"TryBeginReadEventRecord", "ReadRawData",
                           "ReadFixedLenMetadataStreamUuidByteUIntField",
                           "ReadMetadataStreamUuidBlobFieldSection", "ReadSubstrUntilNullCodepoint"}
    \/ /\ it.state \in {ReadState[type] : type \in {"struct", "array", "uuid"}}
       /\ SkipLen(Fc(it.stack[Len(it.stack)].fc).align) # 0
    \/ it.state \in {ReadState[type] : type \in {"nstr", "raw"}} /\ SkipLen(8) # 0

(* The assertion of safeSub() fails: the head is beyond the content.       *)
SafeSubFails == Trace.debug /\ it.head > it.content /\ ComputesRemaining

At(state) == asked = 0 /\ it.state = state /\ ~SafeSubFails

Goto(s) == it' = s /\ UNCHANGED <<tr, avail, asked, inl, items, lost, last>>
Throw == Goto([it EXCEPT !.state = "Error"])
Abort == asked = 0 /\ SafeSubFails /\ Goto([it EXCEPT !.state = "Aborted"])

ReturnAll(new, s) ==
    /\ items' = items \o new
    /\ it' = s
    /\ UNCHANGED <<tr, avail, asked, inl, lost, last>>
Return(kind, n, vals, s) == ReturnAll(<< <<kind, n, vals>> >>, s)

RequestOffset == (it.pktOff + it.head) \div 8
(* Mutant: the bits of the first byte before the head are not counted.     *)
RequestSize_NoExtraBits(len) == (len + 7) \div 8
RequestSize(len) == (len + 7 + (it.head % 8)) \div 8
NewBuf(len) ==
    /\ asked' = RequestSize(len)
    /\ last' = [last EXCEPT !.prev = last.off, !.off = RequestOffset]
    /\ UNCHANGED <<tr, avail, it, inl, items, lost>>

LacksData(len) == len > RemainingBufLen(it)
LacksContent(len) == len > RemainingPktContentLen(it)
HasContentData(len) == ~LacksContent(len) /\ ~LacksData(len)
RequireContentData(len) ==
    \/ LacksContent(len) /\ Throw
    \/ ~LacksContent(len) /\ LacksData(len) /\ NewBuf(len)

StartSkip(len, state, post) ==
    /\ it' = [it EXCEPT !.skip = len, !.state = state, !.post = post]
    /\ inl' = TRUE
    /\ UNCHANGED <<tr, avail, asked, items, lost, last>>

(* The padding is skipped at once as long as the medium has data; the      *)
(* handler then goes on as if it were entered with an aligned head.        *)
AlignHead(align) ==
    /\ SkipLen(align) # 0
    /\ \/ LacksContent(SkipLen(align)) /\ Throw
       \/ /\ ~LacksContent(SkipLen(align))
          /\ StartSkip(SkipLen(align), "SkipContentPadding", it.state)

(* Mutant: the padding is skipped beyond the end of the buffer.            *)
SkippedLen_All == it.skip
SkippedLen == Min({it.skip, RemainingBufLen(it)})

SkipPadding ==
    /\ asked = 0
    /\ it.state \in {"SkipPadding", "SkipContentPadding"}
    /\ \/ /\ it.skip = 0
          /\ it' = [it EXCEPT !.state = it.post]
          /\ inl' = FALSE
          /\ items' = IF it.state = "SkipPadding" /\ inl
                      THEN Append(items, <<"PktContentEnd", "", <<it.pktOff>> >>) ELSE items
          /\ UNCHANGED <<tr, avail, asked, lost, last>>
       \/ it.skip > 0 /\ LacksData(1) /\ NewBuf(1)
       \/ /\ it.skip > 0
          /\ ~LacksData(1)
          /\ Goto([it EXCEPT !.skip = @ - SkippedLen, !.head = @ + SkippedLen])

-----------------------------------------------------------------------------
(* The medium: at least what is asked of what it has at the offset, "try   *)
(* again" at any time, or no data.                                         *)

MediumBuf ==
    /\ asked > 0
    /\ \E size \in asked .. avail - RequestOffset :
           /\ it' = [it EXCEPT !.buf = [addr |-> RequestOffset, size |-> size],
                               !.bufOff = 8 * RequestOffset - it.pktOff]
           /\ last' = [last EXCEPT !.end = RequestOffset + size]
    /\ asked' = 0
    /\ UNCHANGED <<tr, avail, inl, items, lost>>

MediumTryAgain ==
    /\ asked > 0
    /\ asked' = 0
    /\ inl' = FALSE
    /\ lost' = IF it.state = "SkipPadding" /\ inl THEN lost \cup {it.pktOff} ELSE lost
    /\ UNCHANGED <<tr, avail, it, items, last>>

AfterNoData ==
    CASE it.state = "TryBeginReadPkt" -> "Done"
      [] it.state = "TryBeginReadEventRecord" -> "EndReadPktContent"
      [] OTHER -> "Error"

MediumNoData ==
    /\ asked > 0
    /\ avail - RequestOffset < asked
    /\ asked' = 0
    /\ it' = [it EXCEPT !.state = AfterNoData]
    /\ UNCHANGED <<tr, avail, inl, items, lost, last>>

-----------------------------------------------------------------------------
(* Packets and event records.                                              *)

TryBeginReadPkt ==
    /\ At("TryBeginReadPkt")
    /\ LET s == NewPacket(it)
       IN  \/ /\ RemainingBufLen(s) = 0
              /\ asked' = 1
              /\ it' = s
              /\ last' = [last EXCEPT !.prev = last.off, !.off = s.pktOff \div 8]
              /\ UNCHANGED <<tr, avail, inl, items, lost>>
           \/ /\ RemainingBufLen(s) # 0
              /\ Return("PktBegin", "", <<s.pktOff>>, [s EXCEPT !.state = "BeginReadPktContent"])

BeginReadPktContent ==
    /\ At("BeginReadPktContent")
    /\ Return("PktContentBegin", "", <<>>, PrepareToTryReadScope(it, "PktHeader", Trace.header))

EndReadPktContent ==
    /\ At("EndReadPktContent")
    /\ \/ /\ it.total \in {Inf, it.head}
          /\ Return("PktContentEnd", "", <<it.pktOff>>, [it EXCEPT !.state = "EndReadPkt"])
       \/ /\ it.total \notin {Inf, it.head}
          /\ StartSkip(it.total - it.head, "SkipPadding", "EndReadPkt")

(* The rest of the buffer becomes the beginning of the next packet's.      *)
EndReadPkt ==
    /\ At("EndReadPkt")
    /\ LET slice == (it.total - it.bufOff) \div 8
           s == [it EXCEPT !.pktOff = @ + it.head, !.head = 0, !.bufOff = 0,
                           !.state = "TryBeginReadPkt",
                           !.buf = IF it.total = Inf
                                   THEN [addr |-> 0, size |-> 0]
                                   ELSE [addr |-> @.addr + slice, size |-> @.size - slice]]
       IN  Return("PktEnd", "", <<s.pktOff>>, s)

(* Which class: the one of the decoded ID, or else the only one.  A trace  *)
(* class has at least one class of data streams.                           *)
ClassId(classes) ==
    IF it.clsId # None THEN it.clsId
    ELSE IF classes = {} THEN None ELSE CHOOSE id \in classes : TRUE

SetDataStreamInfoItem ==
    /\ At("SetDataStreamInfoItem")
    /\ LET id == ClassId(DOMAIN Trace.classes)
       IN  \/ id \notin DOMAIN Trace.classes /\ Throw
           \/ /\ id \in DOMAIN Trace.classes
              /\ Return("DataStreamInfo", "", <<id, it.ds.id>>,
                        PrepareToTryReadScope([it EXCEPT !.ds.cls = id, !.clsId = None],
                                              "PktCtx", Trace.classes[id].ctx))

SetPktInfoItem ==
    /\ At("SetPktInfoItem")
    /\ LET total == IF it.total = Inf THEN it.content ELSE it.total
           content == IF it.content = Inf THEN total ELSE it.content
           begin == IF Trace.classes[it.ds.cls].clock THEN it.clk ELSE None
       IN  \/ ~(total % 8 = 0 /\ content <= total) /\ Throw
           \/ /\ total % 8 = 0
              /\ content <= total
              /\ Return("PktInfo", "",
                        <<it.pkt.total, it.pkt.content, begin, it.pkt.end, it.pkt.seq>>,
                        [it EXCEPT !.total = total, !.content = content,
                                   !.state = "TryBeginReadEventRecord"])

TryBeginReadEventRecord ==
    /\ At("TryBeginReadEventRecord")
    /\ \/ it.content = Inf /\ RemainingBufLen(it) = 0 /\ NewBuf(1)
       \/ /\ RemainingPktContentLen(it) = 0
          /\ Goto([it EXCEPT !.state = "EndReadPktContent"])
       \/ /\ IF it.content = Inf THEN RemainingBufLen(it) # 0 ELSE RemainingPktContentLen(it) # 0
          /\ Return("EventRecordBegin", "", <<>>,
                    PrepareToTryReadScope([it EXCEPT !.erHead = it.head], "EventRecordHeader",
                                          Trace.classes[it.ds.cls].header))

SetEventRecordInfoItem ==
    /\ At("SetEventRecordInfoItem")
    /\ LET cls == Trace.classes[it.ds.cls]
           id == ClassId(DOMAIN cls.records)
       IN  \/ id # None /\ id \notin DOMAIN cls.records /\ Throw
           \/ /\ id \in DOMAIN cls.records \cup {None}
              /\ Return("EventRecordInfo", "", <<id, IF cls.clock THEN it.clk ELSE None>>,
                        PrepareToTryReadScope([it EXCEPT !.er = id], "CommonEventRecordCtx",
                                              cls.common))

EndReadEventRecord ==
    /\ At("EndReadEventRecord")
    /\ \/ it.head = it.erHead /\ Throw
       \/ /\ it.head # it.erHead
          /\ Return("EventRecordEnd", "", <<>>, [it EXCEPT !.state = "TryBeginReadEventRecord"])

(* What follows a scope, whether it was read or does not exist.            *)
AfterScope(s) ==
    CASE s.scope = "PktHeader"          -> [s EXCEPT !.state = "SetDataStreamInfoItem"]
      [] s.scope = "PktCtx"             -> [s EXCEPT !.state = "SetPktInfoItem"]
      [] s.scope = "EventRecordHeader"  -> [s EXCEPT !.state = "SetEventRecordInfoItem"]
      [] s.scope = "CommonEventRecordCtx" ->
             IF s.er = None
             THEN [s EXCEPT !.state = "EndReadEventRecord"]
             ELSE PrepareToTryReadScope(s, "SpecEventRecordCtx",
                                        Trace.classes[s.ds.cls].records[s.er].ctx)
      [] s.scope = "SpecEventRecordCtx" ->
             PrepareToTryReadScope(s, "EventRecordPayload",
                                   Trace.classes[s.ds.cls].records[s.er].payload)
      [] s.scope = "EventRecordPayload" -> [s EXCEPT !.state = "EndReadEventRecord"]

TryBeginReadScope ==
    /\ At("TryBeginReadScope")
    /\ \/ it.scopeFc = "" /\ Goto(AfterScope(it))
       \/ /\ it.scopeFc # ""
          /\ Return("ScopeBegin", it.scope, <<>>, PrepareToReadField(it, it.scopeFc))

(* The frame of the scope stays on the stack until the next packet.        *)
EndReadScope ==
    /\ At("EndReadScope")
    /\ Return("ScopeEnd", it.scope, <<>>, AfterScope(it))

-----------------------------------------------------------------------------
(* Fixed-length fields.                                                    *)

(* A fixed-length bit array at the head.  Bit 0 of a field is the least    *)
(* significant one in little endian and the most significant one in big    *)
(* endian, within its bytes and in the value, unless bits are reversed.    *)
BitArrayVal(s, fc) ==
    LET bit(i) == LET at == (s.head % 8) + i
                      pos == IF fc.bo = "le" THEN at % 8 ELSE 7 - (at % 8)
                  IN  (BufAtHead(s, at \div 8) \div 2 ^ pos) % 2
        weight(i) == IF (fc.bo = "le") = fc.rev THEN fc.len - 1 - i ELSE i
    IN  MapThenSumSet(LAMBDA i : bit(i) * 2 ^ weight(i), 0 .. fc.len - 1)

(* A field which begins within a byte has the byte order of the previous.  *)
ByteOrderFits(fc) == it.head % 8 # 0 /\ it.bo # "" => fc.bo = it.bo

(* The bits of the field are there and can be read.                        *)
CanRead(fc) == SkipLen(fc.align) = 0 /\ HasContentData(fc.len) /\ ByteOrderFits(fc)
CannotRead(fc) ==
    \/ AlignHead(fc.align)
    \/ SkipLen(fc.align) = 0 /\ RequireContentData(fc.len)
    \/ SkipLen(fc.align) = 0 /\ HasContentData(fc.len) /\ ~ByteOrderFits(fc) /\ Throw
Consumed(fc) == [it EXCEPT !.head = @ + fc.len, !.bo = fc.bo]

(* _updateDefClkVal(): the low bits are replaced, with at most one wrap.   *)
UpdatedClk(clk, val, len) ==
    IF len = WordBits THEN val
    ELSE LET wrapped == IF val < (clk % 2 ^ len) THEN Word(clk + 2 ^ len) ELSE clk
         IN  (wrapped - (wrapped % 2 ^ len)) | val

(* The discarded event record counter snapshot is data like the sequence   *)
(* number, and left out.                                                   *)
HandleUIntFieldRole(s, role, len, val) ==
    CASE role = "magic"   -> [s EXCEPT !.magic = val, !.state = "SetPktMagicNumberItem"]
      [] role = "clsId"   -> [s EXCEPT !.clsId = val]
      [] role = "dsId"    -> [s EXCEPT !.ds.id = val]
      [] role = "total"   -> [s EXCEPT !.total = val, !.pkt.total = val]
      [] role = "content" -> [s EXCEPT !.content = val, !.pkt.content = val]
      [] role = "clk"     -> [s EXCEPT !.clk = UpdatedClk(@, val, len),
                                       !.state = "SetDefClkValItem"]
      [] role = "endClk"  -> [s EXCEPT !.pkt.end = val]
      [] role = "seq"     -> [s EXCEPT !.pkt.seq = val]

HandleCommonUIntField(s, fc, val, len) ==
    LET t == FoldLeft(LAMBDA u, role : HandleUIntFieldRole(u, role, len, val),
                      SaveKeyVal(s, fc, val), fc.roles)
    IN  IF t.state = s.state THEN PrepareToReadNextField(t) ELSE t

ReadFixedLenUIntField ==
    /\ At("ReadFixedLenUIntField")
    /\ LET fc == Fc(it.scalar)
       IN  \/ CannotRead(fc)
           \/ /\ CanRead(fc)
              /\ LET val == BitArrayVal(it, fc)
                 IN  Return("Field", it.scalar, <<val>>,
                            HandleCommonUIntField(Consumed(fc), fc, val, fc.len))

(* The next field is prepared first: the value is saved with the indexes   *)
(* of the scalar field class which is current then.                        *)
PreparedThenSaved(fc, val) ==
    LET s == PrepareToReadNextField(Consumed(fc))
    IN  SaveKeyVal(s, Fc(s.scalar), val)

ReadFixedLenSIntField ==
    /\ At("ReadFixedLenSIntField")
    /\ LET fc == Fc(it.scalar)
       IN  \/ CannotRead(fc)
           \/ /\ CanRead(fc)
              /\ LET val == Signed(BitArrayVal(it, fc), fc.len)
                 IN  Return("Field", it.scalar, <<val>>,
                            IF fc.saves = {} THEN PrepareToReadNextField(Consumed(fc))
                                             ELSE PreparedThenSaved(fc, val))

ReadFixedLenBoolField ==
    /\ At("ReadFixedLenBoolField")
    /\ LET fc == Fc(it.scalar)
       IN  \/ CannotRead(fc)
           \/ /\ CanRead(fc)
              /\ LET val == BitArrayVal(it, fc)
                 IN  Return("Field", it.scalar, <<val>>,
                            IF fc.saves = {} THEN PrepareToReadNextField(Consumed(fc))
                                             ELSE PreparedThenSaved(fc, val))

ReadFixedLenBitArrayField ==
    /\ At("ReadFixedLenBitArrayField")
    /\ LET fc == Fc(it.scalar)
       IN  \/ CannotRead(fc)
           \/ /\ CanRead(fc)
              /\ Return("Field", it.scalar, <<BitArrayVal(it, fc)>>,
                        PrepareToReadNextField(Consumed(fc)))

SetPktMagicNumberItem ==
    /\ At("SetPktMagicNumberItem")
    /\ Return("PktMagicNumber", "", <<it.magic>>, PrepareToReadNextField(it))

SetDefClkValItem ==
    /\ At("SetDefClkValItem")
    /\ Return("DefClkVal", "", <<it.clk>>, PrepareToReadNextField(it))

-----------------------------------------------------------------------------
(* Variable-length integers: a byte is consumed as soon as it is there.    *)

VarLenByteFits(signed, byte) ==
    it.vl.len + 7 > WordBits - 1 =>
        byte < 128 /\ byte \in (IF signed THEN {0, 127} ELSE {1})

AppendVarLenIntByte(byte) ==
    [it EXCEPT !.head = @ + 8,
               !.vl = [val |-> @.val + Word((byte % 128) * 2 ^ @.len),
                       len |-> IF @.len + 7 > WordBits - 1 THEN WordBits ELSE @.len + 7]]

VarLenNotDone(signed) ==
    \/ AlignHead(8)
    \/ SkipLen(8) = 0 /\ RequireContentData(8)
    \/ /\ SkipLen(8) = 0
       /\ HasContentData(8)
       /\ LET byte == BufAtHead(it, 0)
          IN  \/ ~VarLenByteFits(signed, byte) /\ Throw
              \/ /\ VarLenByteFits(signed, byte)
                 /\ byte >= 128
                 /\ Goto(AppendVarLenIntByte(byte))

VarLenDone(signed) ==
    /\ SkipLen(8) = 0
    /\ HasContentData(8)
    /\ BufAtHead(it, 0) < 128
    /\ VarLenByteFits(signed, BufAtHead(it, 0))

(* The length of the integer is reset before a role uses it.               *)
ReadVarLenUIntField ==
    /\ At("ReadVarLenUIntField")
    /\ \/ VarLenNotDone(FALSE)
       \/ /\ VarLenDone(FALSE)
          /\ LET s == AppendVarLenIntByte(BufAtHead(it, 0))
             IN  Return("Field", it.scalar, <<s.vl.val>>,
                        HandleCommonUIntField([s EXCEPT !.vl = [val |-> 0, len |-> 0]],
                                              Fc(it.scalar), s.vl.val, 0))

ReadVarLenSIntField ==
    /\ At("ReadVarLenSIntField")
    /\ \/ VarLenNotDone(TRUE)
       \/ /\ VarLenDone(TRUE)
          /\ LET s == AppendVarLenIntByte(BufAtHead(it, 0))
                 val == Signed(s.vl.val, s.vl.len)
             IN  Return("Field", it.scalar, <<val>>,
                        PrepareToReadNextField(
                            SaveKeyVal([s EXCEPT !.vl = [val |-> 0, len |-> 0]],
                                       Fc(it.scalar), val)))

-----------------------------------------------------------------------------
(* Compound fields.                                                        *)

TopFc == Fc(Top(it).fc)

(* Length of an array, string or BLOB: a constant, or the value of a key.  *)
FieldLen(fc) == IF fc.key = None THEN fc.len ELSE SavedKeyVal(it, fc)

EndReadCompoundField ==
    /\ At("EndReadCompoundField")
    /\ Return("End", Top(it).fc, <<>>,
              PrepareToReadNextField([it EXCEPT !.stack = Front(@)]))

BeginReadStructField ==
    /\ At("BeginReadStructField")
    /\ \/ AlignHead(TopFc.align)
       \/ /\ SkipLen(TopFc.align) = 0
          /\ Return("Begin", Top(it).fc, <<>>,
                    IF TopFc.members = <<>>
                    THEN RestoreState(it)
                    ELSE PrepareToReadField(WithLen(it, Len(TopFc.members)), TopFc.members[1]))

BeginReadArrayField ==
    /\ At("BeginReadArrayField")
    /\ \/ AlignHead(TopFc.align)
       \/ /\ SkipLen(TopFc.align) = 0
          /\ LET len == FieldLen(TopFc)
             IN  Return("Begin", Top(it).fc, <<len>>,
                        IF len = 0 THEN RestoreState(it)
                                   ELSE PrepareToReadField(WithLen(it, len), TopFc.elem))

BeginReadArrayFieldMetadataStreamUuid ==
    /\ At("BeginReadArrayFieldMetadataStreamUuid")
    /\ \/ AlignHead(TopFc.align)
       \/ /\ SkipLen(TopFc.align) = 0
          /\ Return("Begin", Top(it).fc, <<UuidSize>>,
                    [it EXCEPT !.scalar = TopFc.elem,
                               !.state = "ReadFixedLenMetadataStreamUuidByteUIntField"])

(* The array or BLOB of the UUID has been read up to some index.           *)
UuidRead(s, state) ==
    IF Top(s).index = UuidSize THEN [s EXCEPT !.state = "SetMetadataStreamUuidItem"]
                               ELSE [s EXCEPT !.state = state]

ReadFixedLenMetadataStreamUuidByteUIntField ==
    /\ At("ReadFixedLenMetadataStreamUuidByteUIntField")
    /\ LET fc == Fc(it.scalar)
       IN  \/ CannotRead(fc)
           \/ /\ CanRead(fc)
              /\ LET val == BitArrayVal(it, fc)
                     s == [Consumed(fc) EXCEPT !.uuid[Top(it).index + 1] = val,
                                               !.stack[Len(it.stack)].index = @ + 1]
                 IN  Return("Field", it.scalar, <<val>>, UuidRead(s, it.state))

SetMetadataStreamUuidItem ==
    /\ At("SetMetadataStreamUuidItem")
    /\ Return("MetadataStreamUuid", "", it.uuid, RestoreState(it))

BeginReadStrBlobField ==
    /\ At("BeginReadStrBlobField")
    /\ \/ AlignHead(8)
       \/ /\ SkipLen(8) = 0
          /\ LET len == FieldLen(TopFc)
             IN  Return("Begin", Top(it).fc, <<len>>,
                        IF len = 0 THEN RestoreState(it)
                        ELSE [WithLen(it, len) EXCEPT
                                  !.state = IF TopFc.uuid
                                            THEN "ReadMetadataStreamUuidBlobFieldSection"
                                            ELSE "ReadRawData"])

BytesAtHead(n) == [k \in 1 .. n |-> BufAtHead(it, k - 1)]
RawData(n) == [k \in 1 .. n |-> <<"Raw", "", <<BufAtHead(it, k - 1)>> >>]

(* As much of the field as the buffer has.                                 *)
SectionLen == Min({RemainingBufLen(it) \div 8, Top(it).len - Top(it).index})
AfterSection(n) ==
    [it EXCEPT !.head = @ + 8 * n, !.stack[Len(it.stack)].index = @ + n]

ReadRawData ==
    /\ At("ReadRawData")
    /\ \/ RequireContentData(8)
       \/ HasContentData(8) /\ LacksContent(8 * SectionLen) /\ Throw
       \/ /\ HasContentData(8)
          /\ ~LacksContent(8 * SectionLen)
          /\ LET s == AfterSection(SectionLen)
             IN  ReturnAll(RawData(SectionLen),
                           IF Top(s).index = Top(s).len THEN RestoreState(s) ELSE s)

ReadMetadataStreamUuidBlobFieldSection ==
    /\ At("ReadMetadataStreamUuidBlobFieldSection")
    /\ \/ RequireContentData(8)
       \/ HasContentData(8) /\ LacksContent(8 * SectionLen) /\ Throw
       \/ /\ HasContentData(8)
          /\ ~LacksContent(8 * SectionLen)
          /\ LET from == Top(it).index
                 s == [AfterSection(SectionLen) EXCEPT
                           !.uuid = [i \in DOMAIN @ |->
                                         IF i \in from + 1 .. from + SectionLen
                                         THEN BufAtHead(it, i - from - 1) ELSE @[i]]]
             IN  ReturnAll(RawData(SectionLen), UuidRead(s, it.state))

BeginReadNullTerminatedStrField ==
    /\ At("BeginReadNullTerminatedStrField")
    /\ \/ AlignHead(8)
       \/ /\ SkipLen(8) = 0
          /\ Return("Begin", Top(it).fc, <<>>,
                    [it EXCEPT !.cp = [len |-> 0, zero |-> TRUE],
                               !.state = "ReadSubstrUntilNullCodepoint"])

(* Mutant: every buffer is taken to begin with a whole code unit.          *)
FindNullCp_NewUnit(bytes, unit) ==
    FoldLeft(LAMBDA acc, byte :
                 IF acc.found THEN acc
                 ELSE LET len == acc.len + 1
                          zero == acc.zero /\ byte = 0
                      IN  [n |-> acc.n + 1, found |-> len = unit /\ zero,
                           len |-> IF len = unit /\ ~zero THEN 0 ELSE len,
                           zero |-> IF len = unit /\ ~zero THEN TRUE ELSE zero],
             [n |-> 0, found |-> FALSE, len |-> 0, zero |-> TRUE], bytes)

(* findNullCp(): the number of bytes up to and including the first null    *)
(* code unit, if any, where the finder remembers an incomplete code unit.  *)
FindNullCp(bytes, unit) ==
    FoldLeft(LAMBDA acc, byte :
                 IF acc.found THEN acc
                 ELSE LET len == acc.len + 1
                          zero == acc.zero /\ byte = 0
                      IN  [n |-> acc.n + 1, found |-> len = unit /\ zero,
                           len |-> IF len = unit /\ ~zero THEN 0 ELSE len,
                           zero |-> IF len = unit /\ ~zero THEN TRUE ELSE zero],
             [n |-> 0, found |-> FALSE, len |-> it.cp.len, zero |-> it.cp.zero], bytes)

ReadSubstrUntilNullCodepoint ==
    /\ At("ReadSubstrUntilNullCodepoint")
    /\ \/ RequireContentData(8)
       \/ /\ HasContentData(8)
          /\ LET r == FindNullCp(BytesAtHead(RemainingBufLen(it) \div 8), TopFc.unit)
                 s == [it EXCEPT !.head = @ + 8 * r.n, !.cp = [len |-> r.len, zero |-> r.zero]]
             IN  \/ LacksContent(8 * r.n) /\ Throw
                 \/ /\ ~LacksContent(8 * r.n)
                    /\ ReturnAll(RawData(r.n), IF r.found THEN RestoreState(s) ELSE s)

BeginReadVariantField ==
    /\ At("BeginReadVariantField")
    /\ LET val == SavedKeyVal(it, TopFc)
           opts == {i \in DOMAIN TopFc.opts : val \in TopFc.opts[i].vals}
       IN  \/ opts = {} /\ Throw
           \/ /\ opts # {}
              /\ Return("Begin", Top(it).fc, <<val, Min(opts)>>,
                        PrepareToReadField(WithLen(it, 1), TopFc.opts[Min(opts)].fc))

BeginReadOptionalField ==
    /\ At("BeginReadOptionalField")
    /\ LET val == SavedKeyVal(it, TopFc)
       IN  Return("Begin", Top(it).fc, <<val>>,
                  IF val \in TopFc.vals THEN PrepareToReadField(WithLen(it, 1), TopFc.fc)
                                        ELSE RestoreState(it))

-----------------------------------------------------------------------------

Ended == it.state \in {"Done", "Error", "Aborted"}

Init ==
    /\ tr \in DOMAIN Traces
    /\ avail \in Trace.avails
    /\ it = NewIter
    /\ asked = 0
    /\ inl = FALSE
    /\ items = <<>>
    /\ lost = {}
    /\ last = [prev |-> 0, off |-> 0, end |-> 0]

ReadScalarField ==
    \/ ReadFixedLenUIntField \/ ReadFixedLenSIntField \/ ReadFixedLenBoolField
    \/ ReadFixedLenBitArrayField \/ ReadVarLenUIntField \/ ReadVarLenSIntField
    \/ ReadFixedLenMetadataStreamUuidByteUIntField

ReadCompoundField ==
    \/ BeginReadStructField \/ BeginReadArrayField \/ BeginReadArrayFieldMetadataStreamUuid
    \/ BeginReadStrBlobField \/ ReadRawData \/ ReadMetadataStreamUuidBlobFieldSection
    \/ BeginReadNullTerminatedStrField \/ ReadSubstrUntilNullCodepoint
    \/ BeginReadVariantField \/ BeginReadOptionalField \/ EndReadCompoundField

HandleState ==
    \/ TryBeginReadPkt \/ BeginReadPktContent \/ EndReadPktContent \/ EndReadPkt
    \/ SkipPadding \/ TryBeginReadScope \/ EndReadScope
    \/ SetDataStreamInfoItem \/ SetPktInfoItem \/ SetEventRecordInfoItem
    \/ SetPktMagicNumberItem \/ SetDefClkValItem \/ SetMetadataStreamUuidItem
    \/ TryBeginReadEventRecord \/ EndReadEventRecord
    \/ ReadScalarField \/ ReadCompoundField \/ Abort

MediumAnswers == MediumBuf \/ MediumNoData

Next == HandleState \/ MediumAnswers \/ MediumTryAgain \/ (Ended /\ UNCHANGED vars)

(* A call of next() goes on until it needs data, the consumer calls it     *)
(* again after "try again", and the medium does not say "try again"        *)
(* forever.  HandleState is enabled exactly when nothing is asked of the   *)
(* medium and the iterator has not ended: the first conjunct is its weak   *)
(* fairness.                                                               *)
Fairness ==
    /\ []<>(asked > 0 \/ Ended) \/ []<><<asked = 0>>_vars
    /\ SF_vars(MediumAnswers)

Spec == Init /\ [][Next]_vars /\ Fairness

=============================================================================
