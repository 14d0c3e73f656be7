--------------------------- MODULE MCItemSeqIter ---------------------------
EXTENDS ItemGrammar

(* Field classes.                                                          *)
Fixed(t, len, align, bo, saves) ==
    [t |-> t, len |-> len, align |-> align, bo |-> bo, rev |-> FALSE, saves |-> saves,
     roles |-> <<>>]
UInt(len, align, saves) == Fixed("uint", len, align, "le", saves)
WithRoles(fc, roles) == [fc EXCEPT !.roles = roles]
VarLenInt(t, saves, roles) == [t |-> t, saves |-> saves, roles |-> roles]
Struct(align, members) == [t |-> "struct", align |-> align, members |-> members]
Array(len, elem) == [t |-> "array", align |-> 1, key |-> None, len |-> len, elem |-> elem]
DynArray(key, elem) == [t |-> "array", align |-> 1, key |-> key, sel |-> "uint", elem |-> elem]
Uuid(elem) == [t |-> "uuid", align |-> 8, elem |-> elem]
Raw(len, uuid) == [t |-> "raw", key |-> None, len |-> len, uuid |-> uuid]
DynRaw(key) == [t |-> "raw", key |-> key, sel |-> "uint", uuid |-> FALSE]
NullStr(unit) == [t |-> "nstr", unit |-> unit]
Var(key, sel, opts) == [t |-> "var", key |-> key, sel |-> sel, opts |-> opts]
Opt(key, sel, vals, fc) == [t |-> "opt", key |-> key, sel |-> sel, vals |-> vals, fc |-> fc]
Option(vals, fc) == [vals |-> vals, fc |-> fc]

NoKeys == [i \in {} |-> 0]
Keys(n) == [i \in 0 .. n - 1 |-> 0]
Class(clock, ctx, header, common, records) ==
    [clock |-> clock, ctx |-> ctx, header |-> header, common |-> common, records |-> records]
Record(ctx, payload) == [ctx |-> ctx, payload |-> payload]
TraceOf(fcs, keys, header, classes, data, avails) ==
    [fcs |-> fcs, keys |-> keys, header |-> header, classes |-> classes, data |-> data,
     avails |-> avails, debug |-> TRUE]

(* Two packets with padding, a UUID in the header, two classes of event    *)
(* records, timestamps of 3 bits which wrap, fields within bytes.          *)
PacketFcs ==
    [hdr   |-> Struct(8, <<"magic", "uuid", "cls", "ds">>),
     magic |-> WithRoles(UInt(8, 8, {}), <<"magic">>),
     uuid  |-> Uuid("byte"), byte |-> UInt(8, 8, {}),
     cls   |-> WithRoles(UInt(3, 1, {}), <<"clsId">>),
     ds    |-> WithRoles(UInt(5, 1, {}), <<"dsId">>),
     ctx   |-> Struct(8, <<"total", "content", "begin", "end">>),
     total |-> WithRoles(UInt(8, 8, {}), <<"total">>),
     content |-> WithRoles(UInt(8, 8, {}), <<"content">>),
     begin |-> WithRoles(UInt(4, 1, {}), <<"clk">>),
     end   |-> WithRoles(UInt(4, 1, {}), <<"endClk">>),
     erh   |-> Struct(1, <<"id", "ts">>),
     id    |-> WithRoles(UInt(2, 1, {}), <<"clsId">>),
     ts    |-> WithRoles(UInt(3, 1, {}), <<"clk">>),
     pay   |-> Struct(8, <<"five", "word">>),
     five  |-> Fixed("bits", 5, 1, "le", {}),
     word  |-> Fixed("uint", 11, 8, "be", {})]
PacketClasses ==
    [i \in {2} |-> Class(TRUE, "ctx", "erh", "",
                         [j \in {0, 1} |-> IF j = 0 THEN Record("", "pay") ELSE Record("", "")])]
PacketData ==
    <<193, 7, 9, 2 + 8 * 3, 96, 91, 13 + 16 * 1, 1 + 4 * 7, 1, 21, 3, 64,
      193, 7, 9, 2, 56, 56, 3>>
PacketTrace(data, avails) ==
    TraceOf(PacketFcs, NoKeys, "hdr", PacketClasses, data, avails)
PacketTraces ==
    LET changes == << <<4, 3>>, <<5, 97>>, <<6, 97>>, <<6, 63>>, <<6, 61>>, <<8, 2>>, <<8, 31>> >>
    IN  <<PacketTrace(PacketData, {0, 3, 7, 8, 10, 11, 12, 15, 19})>> \o
        [i \in DOMAIN changes |->
             PacketTrace([PacketData EXCEPT ![changes[i][1]] = changes[i][2]], {19})]

(* Keys: lengths and selectors, nested; no packet lengths, so that the     *)
(* whole data is one packet.                                               *)
KeyFcs ==
    [pay  |-> Struct(1, <<"n", "flag", "opt", "sel", "var", "arr">>),
     n    |-> UInt(2, 1, {0}),
     flag |-> Fixed("bool", 1, 1, "le", {1}),
     opt  |-> Opt(1, "bool", {1}, "five"),
     five |-> UInt(5, 1, {}),
     sel  |-> Fixed("sint", 3, 1, "le", {2}),
     var  |-> Var(2, "sint", <<Option({-1, -2}, "five"), Option({0, 1, 2}, "none")>>),
     none |-> Struct(1, <<>>),
     arr  |-> DynArray(0, "pair"),
     pair |-> Struct(8, <<"m", "tris">>),
     m    |-> Fixed("uint", 2, 1, "be", {3}),
     tris |-> DynArray(3, "tri"),
     tri  |-> Fixed("uint", 3, 1, "be", {})]
PayloadClass(pay) == [i \in {0} |-> Class(FALSE, "", "", "", [j \in {0} |-> Record("", pay)])]
KeyTraces ==
    LET bytes == <<1, 6, 48, 198>>
    IN  [i \in 1 .. 4 ^ 4 |->
             TraceOf(KeyFcs, Keys(4), "", PayloadClass("pay"),
                     [j \in 1 .. 4 |-> bytes[((i \div 4 ^ (j - 1)) % 4) + 1]], {4})]

(* Strings and BLOBs in packets of which only the content length is known. *)
StringFcs ==
    [hdr  |-> Struct(8, <<"blob">>),
     blob |-> Raw(UuidSize, TRUE),
     ctx  |-> Struct(8, <<"len", "seq">>),
     len  |-> WithRoles(UInt(8, 8, {}), <<"content">>),
     seq  |-> WithRoles(UInt(3, 1, {}), <<"seq">>),
     common |-> Struct(1, <<"s8">>),
     s8   |-> NullStr(1),
     spec |-> Struct(1, <<"two">>),
     two  |-> Raw(2, FALSE),
     pay  |-> Struct(1, <<"s16", "empty">>),
     s16  |-> NullStr(2),
     empty |-> Raw(0, FALSE)]
StringClasses ==
    [i \in {0} |-> Class(FALSE, "ctx", "", "common", [j \in {0} |-> Record("spec", "pay")])]
StringTraces ==
    LET lens == <<64, 72, 96>>
        data == << <<1, 0, 0, 4, 0, 0, 0, 0>>, <<0, 1, 1, 3, 0, 0, 0, 0>>,
                   <<0, 1, 1, 0, 3, 0, 0, 0>>, <<6, 6, 0, 1, 1, 1, 0, 0>> >>
    IN  [i \in 1 .. 12 |->
             TraceOf(StringFcs, NoKeys, "hdr", StringClasses,
                     <<7, 9, lens[(i % 3) + 1], 5>> \o data[((i - 1) \div 3) + 1], {12})]

(* Variable-length integers as timestamp, length and selector; a class     *)
(* without event record classes.                                           *)
VarLenFcs ==
    [erh |-> Struct(1, <<"ts">>),
     ts  |-> VarLenInt("vuint", {}, <<"clk">>),
     common |-> Struct(1, <<"n", "bytes", "v", "opt">>),
     n   |-> VarLenInt("vuint", {0}, <<>>),
     bytes |-> DynRaw(0),
     v   |-> VarLenInt("vsint", {1}, <<>>),
     opt |-> Opt(1, "sint", {-1, 63, -16384}, "three"),
     three |-> Array(3, "bit"),
     bit |-> Fixed("bits", 1, 1, "le", {})]
VarLenClasses == [i \in {0} |-> Class(TRUE, "", "erh", "common", [j \in {} |-> 0])]
VarLenTraces ==
    LET data == << <<5, 0, 127, 7, 130, 1, 1, 9, 63, 5>>, <<129, 1, 129, 0, 8, 0, 2, 0, 0>>,
                   <<128, 128, 1, 0, 128, 128, 127, 3>>, <<128, 128, 2, 0, 0>>,
                   <<3, 0, 128, 128, 1>>, <<3, 0, 128, 128, 128, 0>>, <<3, 2, 4>> >>
    IN  [i \in DOMAIN data |->
             TraceOf(VarLenFcs, Keys(2), "", VarLenClasses, data[i], {Len(data[i])})]

(* One event record with a field of every kind, cut by the content length. *)
CutFcs ==
    [ctx   |-> Struct(8, <<"total", "content">>),
     total |-> WithRoles(UInt(8, 8, {}), <<"total">>),
     content |-> WithRoles(UInt(8, 8, {}), <<"content">>),
     pay   |-> Struct(1, <<"three", "s", "z", "w", "sub", "arr", "v", "blob", "str">>),
     three |-> UInt(3, 1, {}),
     s     |-> Fixed("sint", 5, 4, "le", {}),
     z     |-> Fixed("bool", 2, 2, "le", {}),
     w     |-> [Fixed("bits", 6, 8, "be", {}) EXCEPT !.rev = TRUE],
     sub   |-> Struct(4, <<"b">>),
     b     |-> Fixed("bits", 1, 1, "le", {}),
     arr   |-> [Array(1, "b") EXCEPT !.align = 2],
     v     |-> VarLenInt("vsint", {}, <<>>),
     blob  |-> Raw(1, FALSE),
     str   |-> NullStr(1)]
CutClasses == [i \in {0} |-> Class(FALSE, "ctx", "", "", [j \in {0} |-> Record("", "pay")])]
CutTraces ==
    [i \in 1 .. 65 |-> TraceOf(CutFcs, NoKeys, "", CutClasses,
                               <<80, 15 + i, 213, 2, 44, 5, 69, 3, 7, 0>>, {10})]

(* A second field in the middle of a byte, with the other byte order.      *)
OrderTraces ==
    LET types == <<"uint", "sint", "bool", "bits">>
        fcs(type) == [pay |-> Struct(1, <<"one", "other">>), one |-> UInt(1, 1, {}),
                      other |-> Fixed(type, 3, 1, "be", {})]
    IN  [i \in DOMAIN types |-> TraceOf(fcs(types[i]), NoKeys, "", PayloadClass("pay"), <<5>>, {1})]

(* Signed and boolean keys which another scalar field follows.             *)
SignedKeyFcs ==
    [pay  |-> Struct(1, <<"sel", "plain", "var", "flag", "off", "opt">>),
     sel  |-> Fixed("sint", 2, 1, "le", {0}),
     plain |-> Fixed("sint", 2, 1, "le", {}),
     var  |-> Var(0, "sint", <<Option({0}, "one"), Option({1, -1, -2}, "none")>>),
     one  |-> UInt(1, 1, {}),
     none |-> Struct(1, <<>>),
     flag |-> Fixed("bool", 1, 1, "le", {1}),
     off  |-> Fixed("bool", 1, 1, "le", {2}),
     opt  |-> Opt(1, "bool", {1}, "one")]
SignedKeyTraces ==
    [i \in 1 .. 16 |->
         TraceOf(SignedKeyFcs, Keys(3), "", PayloadClass("pay"), <<i - 1, 91>>, {2})]

(* An event record without any data.                                       *)
EmptyTrace == TraceOf([pay |-> Struct(1, <<>>)], NoKeys, "", PayloadClass("pay"), <<0>>, {1})

(* Lengths which end the packet, or its content, before or within the      *)
(* fields of its context, in both builds.                                  *)
TotalFcs ==
    [ctx   |-> Struct(8, <<"total">>),
     total |-> WithRoles(UInt(8, 8, {}), <<"total">>),
     pay   |-> Struct(1, <<"three", "s", "v", "blob">>),
     three |-> UInt(3, 1, {}),
     s     |-> NullStr(1),
     v     |-> VarLenInt("vuint", {}, <<>>),
     blob  |-> Raw(1, FALSE)]
ShortTraces ==
    LET contents == <<0, 47, 48, 50, 52>>
        totals == <<0, 8, 16>>
        traces == [i \in DOMAIN contents |->
                       PacketTrace([PacketData EXCEPT ![6] = contents[i]], {19})]
                    \o [i \in DOMAIN totals |->
                           TraceOf(TotalFcs, NoKeys, "", CutClasses,
                                   <<totals[i], 5, 1, 0, 2, 7, 0, 6>>, {8})]
    IN  traces \o [i \in DOMAIN traces |-> [traces[i] EXCEPT !.debug = FALSE]]

MCTraces ==
    PacketTraces \o KeyTraces \o StringTraces \o VarLenTraces \o CutTraces \o OrderTraces
        \o SignedKeyTraces \o <<EmptyTrace>> \o ShortTraces
=============================================================================
