----------------------------- MODULE MCXmonLoader -----------------------------
(***************************************************************************)
(* Model-checking instance of XmonLoader.  Bytes are scaled: the 8-byte    *)
(* heap alignment is 4, a 4 KB page 8, the heap 24 bytes at address 8, so  *)
(* that each of the three allocations can be the one that runs out: the   *)
(* BSP state (32 bytes), the guest (24 bytes after 4) or the e820 map (24  *)
(* bytes after 8).                                                         *)
(***************************************************************************)
EXTENDS XmonLoader

Good(n) == [status |-> "IMAGE_INFO_OK", machine |-> "EM64T", load_size |-> n, loads |-> TRUE]

\* An image that loads, and one for each way the caller stops.
MCLoaderImages == {Good(2), [Good(2) EXCEPT !.loads = FALSE],
                   [Good(2) EXCEPT !.machine = "X86"], Good(5)}
MCXmonImages == {Good(3), [Good(3) EXCEPT !.status = "IMAGE_INFO_INVALID_FORMAT"],
                 [Good(3) EXCEPT !.loads = FALSE], Good(0)}
MCStartapImages == {Good(2), [Good(2) EXCEPT !.loads = FALSE], Good(5)}

MCMagics == {"IKGT_BOOTLOADER_MAGIC", "OTHER_MAGIC"}

\* For each allocation, a size that fits and one too big for what is left
\* of the heap; the e820 map's sizes are not multiples of the alignment.
MCCpuSizes == {4, 32}
MCGuestSizes == {4, 24}
MCMemmapSizes == {5, 17}

\* A GDT like the firmware's (null; 32-bit data and code and 64-bit code,
\* page-granular), with 2 GB limits because 4 GB - 1 is beyond TLC's
\* integers; a byte-granular data segment whose base bytes and limit
\* pieces all differ, with AVL set; and a 32-bit data segment based at
\* 0x9abc1234, above 2 GB.  As dwords (lo, hi):
\*   0x0000ffff 0x00c79200, 0x0000ffff 0x00c79a00, 0x0000ffff 0x00a79a00,
\*   0x5678abcd 0x12539234, 0x12340fff 0x9a4092bc
\* each written as its four 16-bit words, lowest first.
MCGdt == [i \in 0..5 |->
            <<<<0, 0, 0, 0>>, <<65535, 0, 37376, 199>>, <<65535, 0, 39424, 199>>,
              <<65535, 0, 39424, 167>>, <<43981, 22136, 37428, 4691>>,
              <<4095, 4660, 37564, 39488>>>>[i + 1]]

\* The BSP with flat selectors (FS, GS null), and with the byte-granular
\* segment in DS (RPL 3) and FS and the segment above 2 GB in GS.  LDTR is
\* null, as firmware leaves it.
MCCpuStates ==
  {[gdt |-> MCGdt, gdtr |-> [base |-> 4096, limit |-> 47], idtr |-> "idtr", cr |-> "cr",
    msr |-> "msr", ldtr |-> 0, sel |-> s] :
     s \in {[CS |-> 24, DS |-> 8, ES |-> 8, FS |-> 0, GS |-> 0, SS |-> 8],
            [CS |-> 16, DS |-> 35, ES |-> 8, FS |-> 32, GS |-> 40, SS |-> 8]}}

MCInitialState == [r \in {"rip", "rsp", "rbx", "rax", "rflags", "rdx", "rbp", "rsi", "rdi"} |-> r]

=============================================================================
