----------------------------- MODULE MCLttngLive -----------------------------
(***************************************************************************)
(* Two streams: of one trace, of two traces of a session, of two sessions. *)
(***************************************************************************)
EXTENDS LttngLive, TLC

CONSTANTS g1, g2, t1, t2, a, b

Scenario(action, t, g, ta, tb) ==
  [act |-> action, session |-> (t1 :> g1 @@ t2 :> g), trace |-> (a :> t1 @@ b :> t),
   first |-> (a :> ta @@ b :> tb)]

MCScenarios ==
  {Scenario("fail", t1, g1, 1, 1), Scenario("end", t2, g1, 1, 2),
   Scenario("continue", t2, g2, 1, 2)}
=============================================================================
