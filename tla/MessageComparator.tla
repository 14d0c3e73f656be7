-------------------------- MODULE MessageComparator --------------------------
(***************************************************************************)
(* How the muxer orders two messages with the same timestamp               *)
(* (src/plugins/common/muxing/muxing.cpp): a three-way comparison of their *)
(* streams, types and properties.                                          *)
(*                                                                         *)
(* A message here has exactly the properties which are compared.  stream   *)
(* stands for the trace, the stream class ID and the stream ID, as a       *)
(* number in their order; attr for the properties of event classes, stream *)
(* classes and clock classes; count is the count of discarded items        *)
(* messages.                                                               *)
(***************************************************************************)
EXTENDS Integers, Sequences, FiniteSetsExt

None == -1

compareLt(left, right) ==
    IF left < right THEN -1 ELSE IF right < left THEN 1 ELSE 0

\* Something comes before nothing.
compareOptionals(left, right) ==
    CASE left # None /\ right = None -> -1
      [] left = None /\ right # None -> 1
      [] OTHER -> compareLt(left, right)

\* The first comparison which tells the messages apart, if any.
FirstDifference(results) ==
    LET differ == {i \in DOMAIN results : results[i] # 0}
    IN IF differ = {} THEN 0 ELSE results[Min(differ)]

\* The types by increasing weight.
TypesInOrder == <<"SB", "PB", "EV", "DE", "PE", "IN", "DP", "SE">>

messageTypeWeight(type) == CHOOSE w \in DOMAIN TypesInOrder : TypesInOrder[w] = type

\* For discarded packets, the code compares the left count with itself.
compareMessagesSameType(left, right) ==
    CASE left.type = "DE" ->
           FirstDifference(<<compareLt(left.attr, right.attr),
                             compareOptionals(left.count, right.count)>>)
      [] left.type = "DP" ->
           FirstDifference(<<compareLt(left.attr, right.attr),
                             compareOptionals(left.count, left.count)>>)
      [] OTHER -> compareLt(left.attr, right.attr)

\* Only messages of the same type have their other properties compared.
compare(left, right) ==
    FirstDifference(
        <<compareOptionals(left.stream, right.stream),
          compareLt(messageTypeWeight(left.type), messageTypeWeight(right.type)),
          IF left.type = right.type THEN compareMessagesSameType(left, right) ELSE 0>>)
=============================================================================
