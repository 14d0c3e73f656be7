--------------------------- MODULE ClockConversion ---------------------------
(***************************************************************************)
(* Between the raw value of a clock (cycles) and nanoseconds from origin:  *)
(* the two conversions of the library, each rounding down.  Values are far *)
(* from the limits of 64-bit integers, where the code reports an overflow. *)
(***************************************************************************)
EXTENDS Integers

CONSTANT NsPerSecond    \* NS_PER_S

ASSUME NsPerSecondAssumption == NsPerSecond \in Nat \ {0}

\* A clock class: its offset from the origin, in whole seconds and in cycles (less
\* than a second), and its frequency.
ClockClasses == [offset_seconds : Nat, offset_cycles : Nat, frequency : Nat]
IsClockClass(cc) == cc \in ClockClasses /\ cc.offset_cycles < cc.frequency

\* (The code computes with a double when the frequency is not 1 GHz.)
bt_util_ns_from_value(frequency, cycles) == (NsPerSecond * cycles) \div frequency

bt_util_get_base_offset_ns(cc) ==
    cc.offset_seconds * NsPerSecond + bt_util_ns_from_value(cc.frequency, cc.offset_cycles)

bt_util_ns_from_origin_clock_class(cc, value) ==
    bt_util_get_base_offset_ns(cc) + bt_util_ns_from_value(cc.frequency, value)

\* The opposite conversion fails for a time before the origin of the clock ...
ClockValueExists(cc, ns) == ns >= bt_util_get_base_offset_ns(cc)

\* ... and converts whole seconds and the remaining nanoseconds apart.
bt_common_clock_value_from_ns_from_origin(cc, ns) ==
    LET value == ns - bt_util_get_base_offset_ns(cc)
        periods == value \div NsPerSecond
        rem == value - periods * NsPerSecond
    IN (cc.frequency * rem) \div NsPerSecond + periods * cc.frequency

\* The time of a message created with the clock value of time ns.
RoundedNs(cc, ns) ==
    bt_util_ns_from_origin_clock_class(cc, bt_common_clock_value_from_ns_from_origin(cc, ns))
=============================================================================
