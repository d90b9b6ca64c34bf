------------------------------- MODULE MCHeap -------------------------------
(* Instance of Heap for TLC with the smallest page the code allows, 1024    *)
(* bytes (_heap_page_size), and the layout of a 64 bit build.  The sizes    *)
(* are one that needs padding, one of which two fill a page, the largest    *)
(* that is paged for sizeofptr, and a size with a block of its own.         *)
EXTENDS Heap, TLC

CONSTANTS b1, b2, b3, p1, p2, p3, p4

MCBlocks == {b1, b2, b3}
MCPages == {p1, p2, p3, p4}
MCSymmetry == Permutations(MCBlocks) \cup Permutations(MCPages)

MCSizes == {201, 480, 975, 2000}
(* With alignment 16 a block of 975 bytes is an own one to                  *)
(* heap_aligned_malloc and a paged one to heap_free; no program that keeps  *)
(* the kinds apart (MixedClass = FALSE) has it.                             *)
MCAligns == {8, 16}
=============================================================================
