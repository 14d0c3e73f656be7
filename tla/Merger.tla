-------------------------------- MODULE Merger --------------------------------
(***************************************************************************)
(* What a muxer promises: it merges sequences of messages, one per         *)
(* upstream iterator, by taking at each step the first remaining message   *)
(* of an upstream iterator which no other first remaining message          *)
(* precedes, until nothing remains; it may start over.  It says nothing of *)
(* batches, of upstream iterators which are not ready, or of how the       *)
(* oldest message is found: see Muxer, which implements this.              *)
(***************************************************************************)
EXTENDS MergeOrder

VARIABLES
    content,    \* what each upstream iterator has from its beginning; never changes
    taken,      \* how many messages of each were merged
    out,        \* the merged messages
    ended       \* was the end reported?

vars == <<content, taken, out, ended>>

Waiting(u) == taken[u] < Len(content[u])
First(u) == content[u][taken[u] + 1]

Init ==
    /\ content \in Contents
    /\ taken = [u \in Upstreams |-> 0]
    /\ out = <<>>
    /\ ended = FALSE

Take(u) ==
    /\ ~ended
    /\ Waiting(u)
    /\ \A v \in Upstreams : Waiting(v) => NotAfter(First(u), First(v))
    /\ taken' = [taken EXCEPT ![u] = @ + 1]
    /\ out' = Append(out, First(u))
    /\ UNCHANGED <<content, ended>>

End ==
    /\ \A u \in Upstreams : ~Waiting(u)
    /\ ended' = TRUE
    /\ UNCHANGED <<content, taken, out>>

Rewind ==
    /\ taken' = [u \in Upstreams |-> 0]
    /\ out' = <<>>
    /\ ended' = FALSE
    /\ UNCHANGED content

Next == (\E u \in Upstreams : Take(u)) \/ End \/ Rewind

Spec == Init /\ [][Next]_vars

-----------------------------------------------------------------------------

TypeOK ==
    /\ content \in Contents
    /\ taken \in [Upstreams -> Nat]
    /\ out \in Seq(Messages)
    /\ ended \in BOOLEAN

\* The merged messages are in the order of their timestamps.
Sorted == Ordered(out)

\* The end is only reported once every message was merged.
EndIsComplete == ended => \A u \in Upstreams : taken[u] = Len(content[u])
=============================================================================
