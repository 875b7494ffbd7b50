------------------------------ MODULE HeapsMC -------------------------------
(* Two clients and a heap of a few blocks.                                 *)
EXTENDS Heaps

CONSTANTS c1, c2

MCClient == {c1, c2}
=============================================================================
