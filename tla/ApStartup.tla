----------------------------- MODULE ApStartup -----------------------------
(***************************************************************************)
(* Application-processor bring-up of src/startap: startap_main on the      *)
(* bootstrap processor (BSP) runs ap_procs_startup (INIT-SIPI-SIPI, a      *)
(* fixed stall, bsp_enumerate_aps) and ap_procs_run (publish the user      *)
(* function, release the APs, wait for g_ready_counter), then starts the   *)
(* application on itself.  Every AP runs the low-memory trampoline, marks  *)
(* itself in ap_presence_array, spins on mp_bootstrap_state and enters     *)
(* ap_continue_wakeup_code_C, which counts it and calls g_user_func.       *)
(*                                                                         *)
(* The trampoline's tail (ap_continue_wakeup_code, the presence mark and   *)
(* the spin) is assembly that is not part of src; it is modelled from the  *)
(* algorithm comment at the top of ap_procs_init.c.  Timing is not         *)
(* modelled except through Late: the APs that may answer the SIPI only     *)
(* after the BSP's 750 ms stall has ended.                                 *)
(***************************************************************************)
EXTENDS Naturals, FiniteSets, ApTrampoline

CONSTANTS
  MaxCpu,        \* MON_MAX_CPU_SUPPORTED: entries of ap_presence_array
  Cpus,          \* local APIC ids of the processors of the platform
  Bsp,           \* APIC id of the bootstrap processor
  Late,          \* APs whose trampoline runs after the stall has ended
  PublishOrders, \* store orders the build may give g_user_func and the xchg
  LowPage,       \* AP_WAKEUP_BOOTSTRAP_CODE_ADDR, the trampoline's page
  FrameAddr,     \* &ap_gdtr_x32_for_x64, a local of setup_low_memory_ap_code
  BspCr3,        \* __read_cr3() on the BSP
  BspCs,         \* __read_cs() on the BSP
  ContinueAddr,  \* ap_continue_wakeup_code
  FrameReuse     \* what the BSP's later calls leave in that dead stack slot

ASSUME Cpus \subseteq 0..MaxCpu - 1 /\ Bsp \in Cpus
ASSUME Late \subseteq Cpus \ {Bsp}
ASSUME FrameReuse \subseteq {"kept", "reused"} /\ FrameReuse # {}
ASSUME PublishOrders \subseteq {"program", "reordered"} /\ PublishOrders # {}

APs == Cpus \ {Bsp}

\* mp_bootstrap_state_t
STATE_INIT == "MP_BOOTSTRAP_STATE_INIT"
STATE_APS_ENUMERATED == "MP_BOOTSTRAP_STATE_APS_ENUMERATED"

VARIABLES
  bpc,             \* position of the BSP
  apc,             \* apc[a]: position of AP a
  order,           \* the store order of this build
  bootstrapState,  \* mp_bootstrap_state
  readyCounter,    \* g_ready_counter
  apsCounter,      \* g_aps_counter
  presence,        \* ap_presence_array
  userFunc,        \* g_user_func
  pending,         \* stores of ap_procs_run not yet visible to the APs
  k,               \* i of bsp_enumerate_aps
  apNum,           \* ap_num of bsp_enumerate_aps
  nprocs,          \* p_startup->number_of_processors_at_boot_time
  page,            \* the low-memory page, offsets 0.. from LowPage
  frame,           \* the stack bytes of ap_gdtr_x32_for_x64
  apGdt            \* apGdt[a]: the GDTR AP a loaded for the switch to 64 bit

vars == <<bpc, apc, order, bootstrapState, readyCounter, apsCounter, presence,
          userFunc, pending, k, apNum, nprocs, page, frame, apGdt>>

tvars == <<page, frame, apGdt>>

\* The part of the page the trampoline and its GDT occupy.
PageRange == 0..GDT_OFFSET_IN_PAGE + Gdt32Bytes - 1

\* The SIPIs have been broadcast: the trampoline may run on every AP.
SipiSent == bpc \notin {"startup", "sipi"}

(***************************************************************************)
(* startap_main is entered from xmon_loader with p_init32 != NULL and the *)
(* low-memory page AP_WAKEUP_BOOTSTRAP_CODE_ADDR; mon_env was filled by   *)
(* setup_startup_env (one processor, flags 0: pre-OS launch).  The        *)
(* globals start as their static initialisers say.                         *)
(***************************************************************************)
Init ==
  /\ bpc = "startup"
  /\ apc = [a \in APs |-> "halted"]
  /\ order \in PublishOrders
  /\ bootstrapState = STATE_INIT
  /\ readyCounter = 0
  /\ apsCounter = 0
  /\ presence = [j \in 0..MaxCpu - 1 |-> 0]
  /\ userFunc = "null"
  /\ pending = {"func", "state"}
  /\ k = 0
  /\ apNum = 0
  /\ nprocs = 1
  /\ page = [p \in PageRange |-> Junk]
  /\ frame = "none"
  /\ apGdt = [a \in APs |-> "none"]

\* ap_intialize_environment
ApInitializeEnvironment ==
  /\ bootstrapState' = STATE_INIT
  /\ readyCounter' = 0
  /\ userFunc' = "null"

\* mp_set_bootstrap_state: lock xchg of the new state.
MpSetBootstrapState(st) == bootstrapState' = st

\* ap_procs_startup, stage 1: the environment is reset, then the low-memory
\* trampoline is written (setup_low_memory_ap_code: code and GDT copied
\* and patched).  ap_gdtr_x32_for_x64, the BSP's GDTR, lives in that
\* call's stack frame; the page holds its address.
BspStartup ==
  /\ bpc = "startup"
  /\ bpc' = "sipi"
  /\ ApInitializeEnvironment
  /\ page' = SetupLowMemoryApCode(page, LowPage, FrameAddr, BspCr3, BspCs, ContinueAddr)
  /\ frame' = "bsp_gdtr"
  /\ UNCHANGED <<apc, order, apsCounter, presence, pending, k, apNum, nprocs, apGdt>>

\* send_broadcast_init_sipi: INIT, SIPI, SIPI to all excluding self.  Its
\* calls (send_init_ipi, send_ipi_to_all_excluding_self, the stalls) run
\* in the stack that setup_low_memory_ap_code's frame occupied before any
\* SIPI goes out: whether their locals land on ap_gdtr_x32_for_x64 is the
\* build's choice.
BspSendInitSipi ==
  /\ bpc = "sipi"
  /\ bpc' = "stall"
  /\ \E o \in FrameReuse : frame' = IF o = "kept" THEN frame ELSE "reused"
  /\ UNCHANGED <<apc, order, bootstrapState, readyCounter, apsCounter, presence,
                 userFunc, pending, k, apNum, nprocs, page, apGdt>>

\* Mutation: a stall too short for the APs (the wait ends at once).
BspStallEndsEarly ==
  /\ bpc = "stall"
  /\ bpc' = "enum"
  /\ k' = 1
  /\ apNum' = 0
  /\ UNCHANGED <<apc, order, bootstrapState, readyCounter, apsCounter, presence,
                 userFunc, pending, nprocs, tvars>>

\* startap_stall_using_tsc(INITIAL_WAIT_FOR_APS_TIMEOUT_IN_MILIS) ends; the
\* APs that are not Late have run their trampoline by then.
BspStallEnds ==
  /\ bpc = "stall"
  /\ \A a \in APs \ Late : apc[a] # "halted"
  /\ bpc' = "enum"
  /\ k' = 1
  /\ apNum' = 0
  /\ UNCHANGED <<apc, order, bootstrapState, readyCounter, apsCounter, presence,
                 userFunc, pending, nprocs, tvars>>

\* One turn of the loop of bsp_enumerate_aps (from index 1: the BSP is
\* taken to be APIC id 0): a present CPU gets the next AP number.
BspEnumerate ==
  /\ bpc = "enum" /\ k < MaxCpu
  /\ IF presence[k] # 0
       THEN /\ apNum' = apNum + 1
            /\ presence' = [presence EXCEPT ![k] = apNum + 1]
       ELSE UNCHANGED <<apNum, presence>>
  /\ k' = k + 1
  /\ UNCHANGED <<bpc, apc, order, bootstrapState, readyCounter, apsCounter,
                 userFunc, pending, nprocs, tvars>>

\* g_aps_counter = bsp_enumerate_aps(); back in startap_main the pre-OS
\* launch sets number_of_processors_at_boot_time, and ap_procs_run is
\* called only if some AP was found.
BspEnumDone ==
  /\ bpc = "enum" /\ k = MaxCpu
  /\ apsCounter' = apNum
  /\ nprocs' = apNum + 1
  /\ bpc' = IF apNum > 0 THEN "run" ELSE "app"
  /\ UNCHANGED <<apc, order, bootstrapState, readyCounter, presence, userFunc,
                 pending, k, apNum, tvars>>

(***************************************************************************)
(* ap_procs_run: g_user_func = start_application (a plain store to a      *)
(* global the APs read), then mp_set_bootstrap_state, an xchg in an asm   *)
(* statement without a "memory" clobber.  The build may keep that order   *)
(* or sink the plain store below the asm: the APs then see the stores in  *)
(* either order.                                                           *)
(***************************************************************************)
\* Mutation: the release may become visible before the function pointer.
BspStoreUnordered(s) ==
  /\ bpc = "run" /\ s \in pending
  /\ IF s = "func" THEN userFunc' = "start_application" /\ UNCHANGED bootstrapState
                   ELSE bootstrapState' = STATE_APS_ENUMERATED /\ UNCHANGED userFunc
  /\ pending' = pending \ {s}
  /\ bpc' = IF pending' = {} THEN "wait" ELSE "run"
  /\ UNCHANGED <<apc, order, readyCounter, apsCounter, presence, k, apNum, nprocs, tvars>>

BspStore(s) ==
  /\ bpc = "run" /\ s \in pending
  /\ order = "program" /\ s = "state" => "func" \notin pending
  /\ IF s = "func" THEN userFunc' = "start_application" /\ UNCHANGED bootstrapState
                   ELSE MpSetBootstrapState(STATE_APS_ENUMERATED) /\ UNCHANGED userFunc
  /\ pending' = pending \ {s}
  /\ bpc' = IF pending' = {} THEN "wait" ELSE "run"
  /\ UNCHANGED <<apc, order, readyCounter, apsCounter, presence, k, apNum, nprocs, tvars>>

\* Mutation: the wait also counts the BSP.
BspWaitCountsBsp ==
  /\ bpc = "wait" /\ readyCounter = apsCounter + 1
  /\ bpc' = "app"
  /\ UNCHANGED <<apc, order, bootstrapState, readyCounter, apsCounter, presence,
                 userFunc, pending, k, apNum, nprocs, tvars>>

\* while (g_ready_counter != g_aps_counter) pause; then start_application
\* on the BSP.
BspWait ==
  /\ bpc = "wait" /\ readyCounter = apsCounter
  /\ bpc' = "app"
  /\ UNCHANGED <<apc, order, bootstrapState, readyCounter, apsCounter, presence,
                 userFunc, pending, k, apNum, nprocs, tvars>>

\* The trampoline on AP a.  Its lgdt (%eax) loads the GDTR at the address
\* patched into the page: the BSP's GDTR while the frame's bytes are
\* intact.  With that GDT the far return to ap_cs_x64 reaches
\* ap_continue_wakeup_code, which sets ap_presence_array[id] = 1 and
\* spins; with any other the AP faults.
ApArrive(a) ==
  /\ apc[a] = "halted" /\ SipiSent
  /\ LET g == IF ReadField(page, "gdtr64") = FrameAddr THEN frame ELSE "wild"
     IN /\ apGdt' = [apGdt EXCEPT ![a] = g]
        /\ IF g = "bsp_gdtr"
             THEN /\ presence' = [presence EXCEPT ![a] = 1]
                  /\ apc' = [apc EXCEPT ![a] = "spin"]
             ELSE /\ apc' = [apc EXCEPT ![a] = "faulted"]
                  /\ UNCHANGED presence
  /\ UNCHANGED <<bpc, order, bootstrapState, readyCounter, apsCounter, userFunc,
                 pending, k, apNum, nprocs, page, frame>>

\* Mutation: the increment sits inside the spin, which does not end.
ApContinueInSpin(a) ==
  /\ apc[a] = "spin" /\ bootstrapState = STATE_APS_ENUMERATED
  /\ readyCounter' = readyCounter + 1
  /\ UNCHANGED <<bpc, apc, order, bootstrapState, apsCounter, presence, userFunc,
                 pending, k, apNum, nprocs, tvars>>

\* The spin ends on APS_ENUMERATED: ap_continue_wakeup_code_C does
\* lock incl g_ready_counter.
ApContinue(a) ==
  /\ apc[a] = "spin" /\ bootstrapState = STATE_APS_ENUMERATED
  /\ readyCounter' = readyCounter + 1
  /\ apc' = [apc EXCEPT ![a] = "call"]
  /\ UNCHANGED <<bpc, order, bootstrapState, apsCounter, presence, userFunc,
                 pending, k, apNum, nprocs, tvars>>

\* g_user_func(local_apic_id, ...): start_application, or a call through
\* the NULL that ap_intialize_environment left there.
ApCallUserFunc(a) ==
  /\ apc[a] = "call"
  /\ apc' = [apc EXCEPT ![a] = IF userFunc = "start_application" THEN "app"
                                 ELSE "crashed"]
  /\ UNCHANGED <<bpc, order, bootstrapState, readyCounter, apsCounter, presence,
                 userFunc, pending, k, apNum, nprocs, tvars>>

\* start_application never returns (while (1) after xmon's entry).
Running ==
  /\ bpc = "app" /\ \A a \in APs : apc[a] \in {"app", "crashed", "faulted"}
  /\ UNCHANGED vars

Next ==
  \/ BspStartup \/ BspSendInitSipi \/ BspStallEnds \/ BspEnumerate \/ BspEnumDone
  \/ \E s \in {"func", "state"} : BspStore(s)
  \/ BspWait
  \/ \E a \in APs : ApArrive(a) \/ ApContinue(a) \/ ApCallUserFunc(a)
  \/ Running

Spec == Init /\ [][Next]_vars

\* Every processor runs on its own: each keeps taking its enabled steps.
Fairness ==
  /\ WF_vars(BspStartup \/ BspSendInitSipi \/ BspStallEnds \/ BspEnumerate
             \/ BspEnumDone \/ \E s \in {"func", "state"} : BspStore(s) \/ BspWait)
  /\ \A a \in APs : WF_vars(ApArrive(a) \/ ApContinue(a) \/ ApCallUserFunc(a))

FairSpec == Spec /\ Fairness

-----------------------------------------------------------------------------
TypeOK ==
  /\ bpc \in {"startup", "sipi", "stall", "enum", "run", "wait", "app"}
  /\ apc \in [APs -> {"halted", "spin", "call", "app", "crashed", "faulted"}]
  /\ bootstrapState \in {STATE_INIT, STATE_APS_ENUMERATED}
  /\ readyCounter \in 0..Cardinality(APs)
  /\ apsCounter \in 0..MaxCpu - 1 /\ nprocs \in 1..MaxCpu
  /\ presence \in [0..MaxCpu - 1 -> Nat]
  /\ userFunc \in {"null", "start_application"}
  /\ pending \subseteq {"func", "state"}
  /\ k \in 0..MaxCpu /\ apNum \in 0..MaxCpu
  /\ frame \in {"none", "bsp_gdtr", "reused"}
  /\ apGdt \in [APs -> {"none", "bsp_gdtr", "reused", "wild"}]

(***************************************************************************)
(* The page setup_low_memory_ap_code leaves is the trampoline the array   *)
(* describes: no instruction byte is overwritten, and every operand the   *)
(* APs execute is the one it stands for -- the real-mode segment of the  *)
(* page, a GDTR describing the copied gdt32_table, far-jump and jmp       *)
(* targets on the instructions labelled CONT16 and "readmsr(0x1B)", the  *)
(* selectors of the table's code and data descriptors, scratch stacks    *)
(* clear of the trampoline, and the BSP's GDTR address, CR3 and CS and   *)
(* ap_continue_wakeup_code for the switch to 64 bit.  The jump targets   *)
(* come from the instruction lengths, not from the *_OFFSET macros.       *)
(***************************************************************************)
GdtCsEntry == 2   \* gdt32_table[2]: 32bit cs
GdtDsEntry == 3   \* gdt32_table[3]: 32bit ds

TrampolinePatched ==
  SipiSent =>
    LET rd(f) == ReadField(page, f)
        g == rd("gdtr")
        base == ReadLE(page, g + 2, 4) - LowPage
    IN /\ \A p \in 0..CodeSize - 1 : CodeImage[p] = Op => page[p] = Op
       /\ rd("seg") * 16 = LowPage
       /\ ReadLE(page, g, 2) = Gdt32Bytes - 1
       /\ \A j \in 0..Gdt32Bytes - 1 : base + j \in PageRange /\ page[base + j] = GdtByte(j)
       /\ rd("cont16") = LowPage + InstrStart(9)
       /\ rd("modesw") = LowPage + InstrStart(20)
       /\ rd("cs") = 8 * GdtCsEntry
       /\ \A f \in {"ds", "es", "gs", "fs"} : rd(f) = 8 * GdtDsEntry
       /\ rd("scratch") - 16 >= LowPage + GDT_OFFSET_IN_PAGE + Gdt32Bytes
       /\ rd("gdtr64") = FrameAddr /\ rd("cr3") = BspCr3
       /\ rd("cs64") = BspCs /\ rd("cont") = ContinueAddr

(***************************************************************************)
(* Every AP switches to 64 bit with the BSP's GDT: the GDTR its lgdt      *)
(* (%eax) reads through the patched pointer still holds what              *)
(* setup_low_memory_ap_code stored in ap_gdtr_x32_for_x64.                *)
(***************************************************************************)
ApLoadsBspGdt == \A a \in APs : apGdt[a] \in {"none", "bsp_gdtr"}


(***************************************************************************)
(* No more APs get past the barrier of ap_procs_run and enter the          *)
(* application than bsp_enumerate_aps counted in g_aps_counter, the count  *)
(* number_of_processors_at_boot_time gives xmon.                           *)
(***************************************************************************)
EnteredApsCounted ==
  Cardinality({a \in APs : apc[a] \in {"call", "app"}}) <= apsCounter

(***************************************************************************)
(* No AP calls g_user_func before ap_procs_run has stored start_application *)
(* there: the release through mp_bootstrap_state publishes the function.   *)
(***************************************************************************)
UserFuncPublished == \A a \in APs : apc[a] # "crashed"

(***************************************************************************)
(* The rendezvous completes: the BSP leaves the wait of ap_procs_run and   *)
(* every AP of the platform enters the application.                        *)
(***************************************************************************)
AllReachApplication == <>(bpc = "app" /\ \A a \in APs : apc[a] = "app")

=============================================================================
