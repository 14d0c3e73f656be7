------------------------------ MODULE MergeOrder ------------------------------
(* The timestamps of messages, for Merger and Muxer.                       *)
EXTENDS Integers, Sequences

CONSTANTS
    Upstreams,  \* the upstream message iterators
    NoTs,       \* "this message has no timestamp"
    Messages,   \* records with at least a field ts
    Contents    \* the possible contents of the upstream iterators

\* The timestamps of one upstream iterator never go back (bt_message_iterator_next()
\* checks it in developer mode); messages without one may be anywhere.
Ordered(q) ==
    \A i, j \in DOMAIN q :
        i <= j /\ q[i].ts # NoTs /\ q[j].ts # NoTs => q[i].ts <= q[j].ts

ASSUME MergerAssumption ==
    /\ NoTs \notin Int
    /\ \A m \in Messages : m.ts \in Int \cup {NoTs}
    /\ \A c \in Contents : c \in [Upstreams -> Seq(Messages)] /\ \A u \in Upstreams : Ordered(c[u])

\* A message without a timestamp comes before any message with one.
NotAfter(m, n) == m.ts = NoTs \/ (n.ts # NoTs /\ m.ts <= n.ts)
=============================================================================
