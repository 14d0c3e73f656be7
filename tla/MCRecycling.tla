----------------------------- MODULE MCRecycling -----------------------------
(* A small instance of Recycling: the user gave up their references on the   *)
(* stream class and on the clock class, which others keep.                  *)
EXTENDS Recycling

MCReferable == Shared \ {"stream class", "clock class"}
=============================================================================
