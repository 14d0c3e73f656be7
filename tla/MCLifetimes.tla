---------------------------- MODULE MCLifetimes ----------------------------
(***************************************************************************)
(* A source, a filter and a sink: src.out -> flt.in, flt.out -> snk.in.    *)
(* The sink creates the iterators d1 and d2 on the second connection; the  *)
(* initialization method of d1 creates u1 on the first one.                *)
(***************************************************************************)
EXTENDS Lifetimes, TLC

CONSTANTS src, flt, snk, srcOut, fltIn, fltOut, snkIn, first, second,
          u1, d1, d2

McComponents == {src, flt, snk}
McPorts == {srcOut, fltIn, fltOut, snkIn}
McConnections == {first, second}
McIterators == {u1, d1, d2}
McComponentOf == srcOut :> src @@ fltIn :> flt @@ fltOut :> flt @@ snkIn :> snk
McUpstreamPort == first :> srcOut @@ second :> fltOut
McDownstreamPort == first :> fltIn @@ second :> snkIn
McOn == u1 :> first @@ d1 :> second @@ d2 :> second
McBy == u1 :> d1 @@ d1 :> snk @@ d2 :> snk
=============================================================================
