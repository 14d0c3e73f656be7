--------------------------- MODULE MCSeqValidator ---------------------------
(* Two interleaved streams of every pair of classes, two packets.          *)
EXTENDS SeqValidator, TLC

Symmetry == Permutations(Streams) \cup Permutations(Packets)
=============================================================================
