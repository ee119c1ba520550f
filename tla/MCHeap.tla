-------------------------------- MODULE MCHeap --------------------------------
(***************************************************************************)
(* Model-checking instance of Heap: an 8-byte alignment scaled to 2, a     *)
(* page to 4, a heap of 18 bytes at address 4, so that the last calls reach its top.                              *)
(***************************************************************************)
EXTENDS Heap

\* Request sizes that are multiples of the alignment, as the e820 buffer
\* (PAGE_ALIGN_4K) and 8-byte-multiple structures are.
MCAlignedSizes == {2, 4, 6}
\* Request sizes of any value, as allocate_memory accepts.
MCAnySizes == {1, 2, 3}

=============================================================================
