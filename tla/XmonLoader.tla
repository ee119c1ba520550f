------------------------------ MODULE XmonLoader ------------------------------
(***************************************************************************)
(* The boot sequence from the starter to startap: run_xmon_loader          *)
(* (pre_os/starter) loads the xmon loader with the ELF loader and calls    *)
(* it; xmon_loader (pre_os/xmon_loader) selects the boot-protocol ops,     *)
(* sets up the serial port and the heap, loads xmon and startap, builds    *)
(* the primary guest's start-up state and the mon_env start-up structure  *)
(* (with the e820 map converted from the EFI one), hides run-time memory   *)
(* and enters startap.                                                     *)
(*                                                                         *)
(* The ELF loader is the subject of ElfLoader / ImageLoadSpec: here each   *)
(* image is its get_image_info result (status, machine, load_size) and    *)
(* whether load_image succeeds.  The heap is the Heap module's, shared by *)
(* setup_primary_guest_env and get_e820_table_from_ibh, so that the blocks *)
(* they obtain can be compared.  Structure sizes come from headers outside *)
(* this repository and are inputs.                                         *)
(***************************************************************************)
EXTENDS Naturals, PrimaryGuest

CONSTANTS MemAlign, PageSize, HeapBase, HeapBytes,
          LoaderImages,      \* possible xmon_loader images
          XmonImages,        \* possible xmon images
          StartapImages,     \* possible startap images
          XmonLoaderImgSize, \* XMON_LOADER_IMG_SIZE
          StartapImgSize,    \* STARTAP_IMG_SIZE
          XmonTotalSizes,    \* xd->xmon.total_size as the starter leaves it
          BootMagics,        \* xd->initial_state.rax
          CpuStateSizes,     \* sizeof(mon_guest_cpu_startup_state_t)
          GuestSizes,        \* sizeof(mon_guest_startup_t)
          MemmapSizes,       \* platform_info->memmap_size
          PlatformInfoSet,   \* whether rbx carries a platform_info pointer
          CpuStates,         \* the BSP's registers and GDT as the loader runs
          InitialState,      \* xd->initial_state: the starter's registers
          XdAddr             \* the address of xd, passed in rcx

VARIABLES
  pc,        \* stage of run_xmon_loader / xmon_loader
  img,       \* [loader, xmon, startap |-> image]
  totalSize, \* xd->xmon.total_size
  magic,     \* boot magic in rax
  sizes,     \* [cpu, guest, memmap |-> bytes, platform |-> rbx # NULL]
  ops,       \* boot_protocol_ops: "none", "ibh" or "default"
  heap,      \* the loader heap (module Heap)
  loaded,    \* images load_image placed, with their entry points
  cpuState,  \* primary_guest_bsp_cpu
  guest,     \* primary_guest
  env,       \* mon_env as startap will read it
  ret,       \* the code returned to the starter's caller
  cpu,       \* the BSP's registers (an element of CpuStates)
  bspCpu     \* the contents of primary_guest_bsp_cpu

xvars == <<pc, img, totalSize, magic, sizes, ops, heap, loaded, cpuState, guest, env, ret,
           cpu, bspCpu>>

Hp == INSTANCE Heap WITH calls <- 0, Sizes <- {}, PageCounts <- {}, MaxCalls <- 0

Null == Hp!Null

\* The caller's checks after get_image_info: OK status, EM64T, a load size
\* that is neither 0 nor above the room reserved for the image.
ImageAcceptable(i, limit) ==
  i.status = "IMAGE_INFO_OK" /\ i.machine = "EM64T" /\ i.load_size # 0 /\ i.load_size <= limit

\* PAGE_ALIGN_4K
PageAlign(n) == Hp!AlignForward(n, PageSize)

\* The boot_protocol_ops_t tables of boot_protocol_util.c and the routines
\* each one provides.
OpsRoutines ==
  [o \in {"ibh", "default"} |-> IF o = "ibh" THEN {"get_e820_table"} ELSE {}]

\* protocol_ops_init(boot_magic): the table it selects.
ProtocolOpsInit(m) == IF m = "IKGT_BOOTLOADER_MAGIC" THEN "ibh" ELSE "default"

\* get_e820_table_from_ibh: FALSE for a NULL platform_info, else the e820
\* buffer of PAGE_ALIGN_4K(map_size) bytes from allocate_memory, filled with
\* one entry per EFI descriptor.
GetE820TableFromIbh(h) ==
  IF ~sizes.platform THEN [ok |-> FALSE, h |-> h, addr |-> Null]
  ELSE LET a == Hp!AllocateMemory(h, PageAlign(sizes.memmap))
       IN [ok |-> a.addr # Null, h |-> a.h, addr |-> a.addr]

\* loader_get_e820_table: the table's routine, or FALSE when it has none.
LoaderGetE820Table(o, h) ==
  IF "get_e820_table" \in OpsRoutines[o] THEN GetE820TableFromIbh(h)
  ELSE [ok |-> FALSE, h |-> h, addr |-> Null]

\* loader_hide_runtime_memory: TRUE when the table has no hide routine
\* (none of the tables has one).
LoaderHideRuntimeMemory(o) == "hide_runtime_memory" \notin OpsRoutines[o]

Init ==
  /\ pc = "starter"
  /\ img \in [loader : LoaderImages, xmon : XmonImages, startap : StartapImages]
  /\ totalSize \in XmonTotalSizes
  /\ magic \in BootMagics
  /\ sizes \in [cpu : CpuStateSizes, guest : GuestSizes, memmap : MemmapSizes,
                   platform : PlatformInfoSet]
  /\ ops = "none"
  /\ heap = Hp!HeapUninit
  /\ loaded = {}
  /\ cpuState = Null /\ guest = [addr |-> Null, cpus |-> Null]
  /\ env = [e820 |-> Null, guest |-> Null, ioBase |-> 0]
  /\ ret = "none"
  /\ cpu \in CpuStates /\ bspCpu = ZeroCpuState

Return(code) == pc' = "returned" /\ ret' = code

\* run_xmon_loader: get_image_info and its checks, load_image at the
\* loader's image base, then the call of the loaded entry point.
RunXmonLoader ==
  /\ pc = "starter"
  /\ IF ~ImageAcceptable(img.loader, XmonLoaderImgSize)
       THEN Return("STARTER_FAILED_TO_GET_XMON_LOADER_IMG_INFO") /\ UNCHANGED loaded
     ELSE IF ~img.loader.loads
       THEN Return("STARTER_FAILED_TO_RELOCATE_XMON_LOADER") /\ UNCHANGED loaded
     ELSE pc' = "protocol" /\ loaded' = {"loader"} /\ UNCHANGED ret
  /\ UNCHANGED <<img, totalSize, magic, sizes, ops, heap, cpuState, guest, env>>
  /\ UNCHANGED <<cpu, bspCpu>>

\* protocol_ops_init(rax): the ikgt boot-header ops or the default ones
\* (which have no get_e820_table); the default ones end the loader.  Then
\* loader_serial_init(get_io_base_from_cmdline_option()) -- the option
\* table still holds its default "0", so no port -- and heap_init.
ProtocolAndHeapInit ==
  /\ pc = "protocol"
  /\ ops' = ProtocolOpsInit(magic)
  /\ IF ops' = "ibh"
       THEN /\ pc' = "xmon_info" /\ UNCHANGED ret
            /\ heap' = Hp!InitializeMemoryManager(heap, HeapBase, HeapBytes)
       ELSE Return("XMON_LOADER_FAILED_TO_INIT_PROTOCOL_OPS") /\ UNCHANGED heap
  /\ UNCHANGED <<img, totalSize, magic, sizes, loaded, cpuState, guest, env>>
  /\ UNCHANGED <<cpu, bspCpu>>

\* get_image_info of xmon with its checks against xd->xmon.total_size, and
\* load_image at the run-time image base.
LoadXmon ==
  /\ pc = "xmon_info"
  /\ IF ~ImageAcceptable(img.xmon, totalSize)
       THEN Return("XMON_LOADER_FAILED_TO_GET_XMON_IMG_INFO") /\ UNCHANGED loaded
     ELSE IF ~img.xmon.loads
       THEN Return("XMON_LOADER_FAILED_TO_LOAD_XMON_IMG") /\ UNCHANGED loaded
     ELSE pc' = "startap_info" /\ loaded' = loaded \cup {"xmon"} /\ UNCHANGED ret
  /\ UNCHANGED <<img, totalSize, magic, sizes, ops, heap, cpuState, guest, env>>
  /\ UNCHANGED <<cpu, bspCpu>>

\* The same for startap, against STARTAP_IMG_SIZE.
LoadStartap ==
  /\ pc = "startap_info"
  /\ IF ~ImageAcceptable(img.startap, StartapImgSize)
       THEN Return("XMON_LOADER_FAILED_TO_GET_STARTAP_IMG_INFO") /\ UNCHANGED loaded
     ELSE IF ~img.startap.loads
       THEN Return("XMON_LOADER_FAILED_TO_LOAD_STARTAP_IMG") /\ UNCHANGED loaded
     ELSE pc' = "guest" /\ loaded' = loaded \cup {"startap"} /\ UNCHANGED ret
  /\ UNCHANGED <<img, totalSize, magic, sizes, ops, heap, cpuState, guest, env>>
  /\ UNCHANGED <<cpu, bspCpu>>

(***************************************************************************)
(* setup_env, first half: setup_primary_guest_env allocates the BSP's     *)
(* start-up state, fills it, allocates the primary guest's start-up       *)
(* structure and points its cpu_states_array at the first block.  Either  *)
(* allocation returning NULL makes it return NULL, and setup_env return   *)
(* XMON_FAILED_TO_SETUP_PRIMARY_GUEST_ENV.                                 *)
(***************************************************************************)
SetupPrimaryGuestEnvCpuSize ==
  LET a1 == Hp!AllocateMemory(heap, sizes.cpu)
      a2 == Hp!AllocateMemory(a1.h, sizes.cpu)
  IN /\ pc = "guest"
     /\ IF a1.addr = Null
          THEN /\ heap' = a1.h /\ UNCHANGED <<cpuState, guest>>
               /\ Return("XMON_FAILED_TO_SETUP_PRIMARY_GUEST_ENV")
        ELSE IF a2.addr = Null
          THEN /\ heap' = a2.h /\ cpuState' = a1.addr /\ UNCHANGED guest
               /\ Return("XMON_FAILED_TO_SETUP_PRIMARY_GUEST_ENV")
        ELSE /\ heap' = a2.h /\ cpuState' = a1.addr
             /\ guest' = [addr |-> a2.addr, cpus |-> a1.addr]
             /\ pc' = "startup_env" /\ UNCHANGED ret
     /\ UNCHANGED <<img, totalSize, magic, sizes, ops, loaded, env>>
     /\ bspCpu' = IF a1.addr = Null THEN bspCpu
                   ELSE SetupPrimaryGuestCpu(InitialState, XdAddr, cpu)
     /\ UNCHANGED cpu

SetupPrimaryGuestEnvNoGuestCheck ==
  LET a1 == Hp!AllocateMemory(heap, sizes.cpu)
      a2 == Hp!AllocateMemory(a1.h, sizes.guest)
  IN /\ pc = "guest"
     /\ IF a1.addr = Null
          THEN /\ heap' = a1.h /\ UNCHANGED <<cpuState, guest>>
               /\ Return("XMON_FAILED_TO_SETUP_PRIMARY_GUEST_ENV")
        ELSE /\ heap' = a2.h /\ cpuState' = a1.addr
             /\ guest' = [addr |-> a2.addr, cpus |-> a1.addr]
             /\ pc' = "startup_env" /\ UNCHANGED ret
     /\ UNCHANGED <<img, totalSize, magic, sizes, ops, loaded, env>>
     /\ bspCpu' = IF a1.addr = Null THEN bspCpu
                   ELSE SetupPrimaryGuestCpu(InitialState, XdAddr, cpu)
     /\ UNCHANGED cpu

SetupPrimaryGuestEnv ==
  LET a1 == Hp!AllocateMemory(heap, sizes.cpu)
      a2 == Hp!AllocateMemory(a1.h, sizes.guest)
  IN /\ pc = "guest"
     /\ IF a1.addr = Null
          THEN /\ heap' = a1.h /\ UNCHANGED <<cpuState, guest>>
               /\ Return("XMON_FAILED_TO_SETUP_PRIMARY_GUEST_ENV")
        ELSE IF a2.addr = Null
          THEN /\ heap' = a2.h /\ cpuState' = a1.addr /\ UNCHANGED guest
               /\ Return("XMON_FAILED_TO_SETUP_PRIMARY_GUEST_ENV")
        ELSE /\ heap' = a2.h /\ cpuState' = a1.addr
             /\ guest' = [addr |-> a2.addr, cpus |-> a1.addr]
             /\ pc' = "startup_env" /\ UNCHANGED ret
     /\ UNCHANGED <<img, totalSize, magic, sizes, ops, loaded, env>>
     /\ bspCpu' = IF a1.addr = Null THEN bspCpu
                   ELSE SetupPrimaryGuestCpu(InitialState, XdAddr, cpu)
     /\ UNCHANGED cpu

(***************************************************************************)
(* setup_startup_env: loader_get_e820_table -> get_e820_table_from_ibh,    *)
(* which reads platform_info from rbx (FALSE if it is NULL) and allocates  *)
(* PAGE_ALIGN_4K(map_size) bytes for the e820 map; any failure is          *)
(* XMON_LOADER_FAILED_TO_SETUP_STARTUP_ENV.  Then                          *)
(* mon_env is filled: the primary guest, the e820 map and the debug port  *)
(* from the command-line option table.                                     *)
(***************************************************************************)
SetupStartupEnv ==
  LET e == LoaderGetE820Table(ops, heap) IN
  /\ pc = "startup_env"
  /\ heap' = e.h
  /\ IF ~e.ok
       THEN Return("XMON_LOADER_FAILED_TO_SETUP_STARTUP_ENV") /\ UNCHANGED env
       ELSE /\ env' = [e820 |-> e.addr, guest |-> guest.addr, ioBase |-> 0]
            /\ pc' = "hide" /\ UNCHANGED ret
  /\ UNCHANGED <<img, totalSize, magic, sizes, ops, loaded, cpuState, guest>>
  /\ UNCHANGED <<cpu, bspCpu>>

\* loader_hide_runtime_memory: the boot-header ops have no hide routine, so
\* it succeeds; then init32 is filled and startap's entry point is called.
HideAndCallStartap ==
  /\ pc = "hide"
  /\ IF LoaderHideRuntimeMemory(ops)
       THEN pc' = "startap" /\ UNCHANGED ret
       ELSE Return("XMON_FAILED_TO_HIDE_RUNTIME_MEMORY")
  /\ UNCHANGED <<img, totalSize, magic, sizes, ops, heap, loaded, cpuState, guest, env>>
  /\ UNCHANGED <<cpu, bspCpu>>

\* startap and xmon run (ApStartup); the loader spins in while (1).
StartapRuns ==
  /\ pc = "startap"
  /\ UNCHANGED xvars

Next ==
  \/ RunXmonLoader \/ ProtocolAndHeapInit \/ LoadXmon \/ LoadStartap
  \/ SetupPrimaryGuestEnv \/ SetupStartupEnv \/ HideAndCallStartap
  \/ StartapRuns

Spec == Init /\ [][Next]_xvars

-----------------------------------------------------------------------------

\* The structures mon_env leads to -- the BSP's CPU start-up state, the
\* primary guest structure and the e820 map -- never share a byte: filling
\* one, or zeroing the block of a later allocation, never corrupts another.
Objects ==
  {o \in {[addr |-> cpuState, size |-> sizes.cpu, id |-> "cpu"],
          [addr |-> guest.addr, size |-> sizes.guest, id |-> "guest"],
          [addr |-> env.e820, size |-> PageAlign(sizes.memmap), id |-> "e820"]} :
     o.addr # Null}
StartupObjectsDisjoint ==
  \A o1, o2 \in Objects : o1.id # o2.id => ~Hp!Overlap(o1, o2)

\* Control reaches startap only with the xmon loader, xmon and startap all
\* loaded, and with a mon_env whose primary guest and e820 map are real
\* heap blocks, the guest's CPU-state array being the block filled for the
\* BSP.
StartapEnvComplete ==
  pc = "startap" =>
    /\ loaded = {"loader", "xmon", "startap"}
    /\ env.guest # Null /\ env.e820 # Null
    /\ env.guest = guest.addr
    /\ guest.cpus = cpuState /\ cpuState # Null


\* The loader heap, shared by setup_primary_guest_env and
\* get_e820_table_from_ibh: no two blocks allocate_memory hands out share a
\* byte, so zeroing the e820 buffer, or filling the BSP state, never
\* reaches another structure's block.
HeapBlocksDisjoint == Hp!BlocksDisjoint

\* Every block allocate_memory hands out, including one refused for the
\* e820 map after the start-up structures, lies inside [heap_base,
\* heap_tops).
HeapBlocksInsideHeap == Hp!BlocksInsideHeap

\* The fields of the primary guest's segments that survive the base's
\* conversion: for every selector register naming a GDT entry, the limit in
\* bytes, the access rights in the VMCS layout, the selector and the low 32
\* bits of the base are the descriptor's as the architecture defines them.
GuestSegmentFieldsSaved ==
  cpuState # Null =>
    \A r \in SelectorRegs :
      LET sel == cpu.sel[r]
          d == cpu.gdt[sel \div 8]
          ss == bspCpu.seg[r]
      IN IF sel \div 8 = 0 THEN ss = ZeroSegment
         ELSE /\ <<ss.base[1], ss.base[2]>> = <<SdmBase(d)[1], SdmBase(d)[2]>>
              /\ ss.limit = SdmLimit(d)
              /\ ss.attributes = SdmAccessRights(d)
              /\ ss.selector = sel

\* The BSP state xmon gives the primary guest (save_other_cpu_state with
\* save_segment_data): every selector register whose selector names a GDT
\* entry holds that descriptor's base, its limit in bytes and its access
\* rights in the VMCS layout, as the architecture defines them, with the
\* selector itself; a null selector leaves the zeroed segment.
GuestSegmentsSaved ==
  cpuState # Null =>
    \A r \in SelectorRegs :
      LET sel == cpu.sel[r]
          d == cpu.gdt[sel \div 8]
      IN bspCpu.seg[r] =
           IF sel \div 8 = 0 THEN ZeroSegment
           ELSE [base |-> SdmBase(d), limit |-> SdmLimit(d),
                 attributes |-> SdmAccessRights(d), selector |-> sel]

=============================================================================
