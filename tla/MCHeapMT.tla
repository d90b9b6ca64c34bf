------------------------------ MODULE MCHeapMT ------------------------------
(* Instance of HeapMT for TLC: the main thread and two others.              *)
EXTENDS HeapMT

CONSTANTS m, w1, w2, b1, b2, s1

MCThreads == {m, w1, w2}
MCBlocks == {b1, b2}
MCSlots == {s1}
=============================================================================
