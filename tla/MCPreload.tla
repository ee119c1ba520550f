------------------------------ MODULE MCPreload ------------------------------
(***************************************************************************)
(* Model-checking instance of Preload: a page of 4 bytes and package sizes *)
(* whose FileSize+1 ends inside a page, or exactly at its end.  The boot  *)
(* header asks for load-time memory at 8 and run-time memory at 24, each  *)
(* of 1 byte or 6 (one page or two).  The firmware has pages at 8 and 24,  *)
(* below 4 GB and 4 GB above (hi 1): a 1-byte size field makes the 8-byte *)
(* address read at &..._mem_base one of them.                              *)
(***************************************************************************)
EXTENDS Preload

\* buflen = 3, 5, 6, 7: the NUL at buf[buflen] stays inside the pages.
MCFileSizes == {2, 4, 5, 6}
\* buflen = 4 fills its page exactly.
MCPageEndSizes == {2, 3}

\* The boot headers: ldr_mem_base 8, rt_mem_base 24 and their sizes.
MCHeaders == {[ldr |-> [base |-> 8, size |-> l], rt |-> [base |-> 24, size |-> r]] :
                l \in {1, 6}, r \in {1, 6}}

\* Headers whose sizes, as those of real memory layouts, are far larger
\* than the firmware's highest address above 4 GB: the fixed allocation
\* cannot succeed.
MCLayoutHeaders == {h \in MCHeaders : h.ldr.size = 6 /\ h.rt.size = 6}

\* The firmware's free pages, as [hi, lo] halves of their addresses.
MCFwAddrs == {[hi |-> h, lo |-> l] : h \in {0, 1}, l \in {8, 24}}

=============================================================================
