-------------------------------- MODULE Heap --------------------------------
(***************************************************************************)
(* The xmon loader's bump heap (pre_os/xmon_loader/utils/memory/memory.c): *)
(* initialize_memory_manager sets heap_base / heap_current / heap_tops,    *)
(* allocate_memory hands out MEM_ALLOCATE_ALIGNMENT-aligned blocks and     *)
(* mon_page_alloc page-aligned ones; both zero the block, nothing is ever  *)
(* freed.  The heap is one record so that a caller's step can make several *)
(* allocations in sequence; blocks records every block handed out (with   *)
(* the allocator that made it), so that overlaps can be stated.            *)
(*                                                                         *)
(* Sizes are in bytes scaled down: MemAlign stands for the 8-byte          *)
(* alignment, PageSize for the 4 KB page.                                  *)
(***************************************************************************)
EXTENDS Naturals, FiniteSets

CONSTANTS MemAlign,     \* MEM_ALLOCATE_ALIGNMENT
          PageSize,     \* PAGE_SIZE of mon_page_alloc
          HeapBase,     \* loader_mem->u_ldr_heap.base (page aligned)
          HeapBytes     \* LOADER_HEAP_SIZE

ASSUME /\ MemAlign \in Nat \ {0} /\ PageSize \in Nat \ {0}
       /\ PageSize % MemAlign = 0
       /\ HeapBase % PageSize = 0 /\ HeapBase > 0 /\ HeapBytes \in Nat

\* The NULL pointer.
Null == 0

\* ALIGN_FORWARD(x, a)
AlignForward(x, a) == ((x + a - 1) \div a) * a

\* The statics before initialize_memory_manager runs: zero.
HeapUninit == [base |-> 0, current |-> 0, tops |-> 0, blocks |-> {}]

InitializeMemoryManagerNoCurrent(h, base, bytes) ==
  [h EXCEPT !.base = base, !.tops = base + bytes]

\* initialize_memory_manager(heap_base_address, heap_bytes)
InitializeMemoryManager(h, base, bytes) ==
  [h EXCEPT !.base = base, !.current = base, !.tops = base + bytes]

\* allocate_memory(size_request): the result is [h |-> heap after, addr |->
\* block or Null].  The limit test uses heap_current, the block starts at
\* heap_current aligned forward, and heap_current advances by the size.
AllocateMemoryNoAdvance(h, size) ==
  IF h.current + size > h.tops THEN [h |-> h, addr |-> Null]
  ELSE LET a == AlignForward(h.current, MemAlign)
       IN [h |-> [h EXCEPT !.blocks = @ \cup {[addr |-> a, size |-> size, by |-> "bytes",
                                         id |-> Cardinality(h.blocks)]}],
           addr |-> a]

\* (allocate_memory whose limit test leaves out the request's size.)
AllocateMemoryNoSizeTest(h, size) ==
  IF h.current > h.tops THEN [h |-> h, addr |-> Null]
  ELSE LET a == AlignForward(h.current, MemAlign)
       IN [h |-> [h EXCEPT !.current = @ + size,
                           !.blocks = @ \cup {[addr |-> a, size |-> size, by |-> "bytes",
                                         id |-> Cardinality(h.blocks)]}],
           addr |-> a]

AllocateMemory(h, size) ==
  IF h.current + size > h.tops THEN [h |-> h, addr |-> Null]
  ELSE LET a == AlignForward(h.current, MemAlign)
       IN [h |-> [h EXCEPT !.current = @ + size,
                           !.blocks = @ \cup {[addr |-> a, size |-> size, by |-> "bytes",
                                         id |-> Cardinality(h.blocks)]}],
           addr |-> a]

\* mon_page_alloc(pages): the block starts at heap_current aligned to a
\* page, the limit test uses that aligned address, and heap_current moves
\* to the end of the block.
MonPageAllocUnaligned(h, pages) ==
  LET a == AlignForward(h.current, PageSize)
      size == pages * PageSize
  IN IF h.current + size > h.tops THEN [h |-> h, addr |-> Null]
     ELSE [h |-> [h EXCEPT !.current = a + size,
                           !.blocks = @ \cup {[addr |-> a, size |-> size, by |-> "pages",
                                         id |-> Cardinality(h.blocks)]}],
           addr |-> a]

MonPageAlloc(h, pages) ==
  LET a == AlignForward(h.current, PageSize)
      size == pages * PageSize
  IN IF a + size > h.tops THEN [h |-> h, addr |-> Null]
     ELSE [h |-> [h EXCEPT !.current = a + size,
                           !.blocks = @ \cup {[addr |-> a, size |-> size, by |-> "pages",
                                         id |-> Cardinality(h.blocks)]}],
           addr |-> a]

\* Two blocks share a byte.
Overlap(b1, b2) == b1.addr < b2.addr + b2.size /\ b2.addr < b1.addr + b1.size

-----------------------------------------------------------------------------
(***************************************************************************)
(* The heap on its own: after initialize_memory_manager, any sequence of  *)
(* allocate_memory and mon_page_alloc calls with sizes from Sizes and page *)
(* counts from PageCounts, at most MaxCalls of them (a named bound).  The *)
(* loader initialises the heap (heap_init) before its first allocation.   *)
(***************************************************************************)
CONSTANTS Sizes, PageCounts, MaxCalls

VARIABLES heap, calls

hvars == <<heap, calls>>

HInit == heap = HeapUninit /\ calls = 0

HInitialize ==
  /\ heap.tops = 0 /\ heap.base = 0
  /\ heap' = InitializeMemoryManager(heap, HeapBase, HeapBytes)
  /\ UNCHANGED calls

HAllocate(size) ==
  /\ heap.tops > 0 /\ calls < MaxCalls
  /\ heap' = AllocateMemory(heap, size).h
  /\ calls' = calls + 1

HPageAlloc(pages) ==
  /\ heap.tops > 0 /\ calls < MaxCalls
  /\ heap' = MonPageAlloc(heap, pages).h
  /\ calls' = calls + 1

HNext ==
  \/ HInitialize
  \/ \E s \in Sizes : HAllocate(s)
  \/ \E p \in PageCounts : HPageAlloc(p)

HSpec == HInit /\ [][HNext]_hvars

HTypeOK ==
  /\ heap.base \in Nat /\ heap.tops \in Nat
  /\ heap.current \in heap.base..heap.tops
  /\ \A b \in heap.blocks : b.addr \in Nat /\ b.size \in Nat /\ b.by \in {"bytes", "pages"}
                              /\ b.id \in Nat
  /\ calls \in 0..MaxCalls

\* No two blocks handed out by allocate_memory / mon_page_alloc share a
\* byte: each call's zero_mem and its caller's writes never reach a block
\* handed out before.
BlocksDisjoint ==
  \A b1, b2 \in heap.blocks : b1 # b2 => ~Overlap(b1, b2)

\* Every block lies inside [heap_base, heap_tops).
BlocksInsideHeap ==
  \A b \in heap.blocks : heap.base <= b.addr /\ b.addr + b.size <= heap.tops

=============================================================================
