--------------------------- MODULE ClockCorrelation ---------------------------
(***************************************************************************)
(* The clock correlation validator, which the muxer and, in developer      *)
(* mode, the library use to refuse messages whose clocks cannot be         *)
(* compared (src/clock-correlation-validator).                             *)
(*                                                                         *)
(* A clock class is its address, its origin and its identity: the origin   *)
(* is UnknownOrigin unless it is known and comparable for the graph's MIP  *)
(* version (the Unix epoch only for version 0), and the identity is NoId   *)
(* unless it is (the UUID for version 0, the name and the UID for version  *)
(* 1).                                                                     *)
(***************************************************************************)
CONSTANTS NoClock, UnknownOrigin, NoId

\* The state of a new validator.
Unset == [expect |-> "Unset", ref |-> NoClock]

\* What the first clock class makes the validator expect.
Expectation(clk) ==
    [expect |-> CASE clk = NoClock -> "None"
                  [] clk # NoClock /\ clk.origin # UnknownOrigin -> "OriginKnown"
                  [] clk # NoClock /\ clk.origin = UnknownOrigin /\ clk.id # NoId -> "OriginUnknownWithId"
                  [] OTHER -> "OriginUnknownWithoutId",
     ref |-> clk]

\* Accepts() without a look at the origin's value.
Accepts_AnyOrigin(v, clk) ==
    CASE v.expect = "Unset" -> TRUE
      [] v.expect = "None" -> clk = NoClock
      [] v.expect = "OriginKnown" -> clk # NoClock /\ clk.origin # UnknownOrigin
      [] v.expect = "OriginUnknownWithId" ->
           clk # NoClock /\ clk.origin = UnknownOrigin /\ clk.id # NoId /\ clk.id = v.ref.id
      [] v.expect = "OriginUnknownWithoutId" -> clk # NoClock /\ clk.ptr = v.ref.ptr

\* Whether a validator in state v accepts the clock class of the next message.
Accepts(v, clk) ==
    CASE v.expect = "Unset" -> TRUE
      [] v.expect = "None" -> clk = NoClock
      [] v.expect = "OriginKnown" ->
           clk # NoClock /\ clk.origin # UnknownOrigin /\ clk.origin = v.ref.origin
      [] v.expect = "OriginUnknownWithId" ->
           clk # NoClock /\ clk.origin = UnknownOrigin /\ clk.id # NoId /\ clk.id = v.ref.id
      [] v.expect = "OriginUnknownWithoutId" -> clk # NoClock /\ clk.ptr = v.ref.ptr

validate(v, clk) == IF v = Unset THEN Expectation(clk) ELSE v

\* Two messages are correlated when both have no clock class, or when their
\* clock classes have the same known origin, or else the same identity, or
\* else are the same object.
Correlated(c, d) ==
    \/ c = NoClock /\ d = NoClock
    \/ /\ c # NoClock /\ d # NoClock
       /\ c.origin = d.origin
       /\ c.origin = UnknownOrigin => c.id = d.id
       /\ c.origin = UnknownOrigin /\ c.id = NoId => c.ptr = d.ptr
=============================================================================
