\* AP bring-up with every AP answering within the stall, the store order
\* of the source and the trampoline GDTR left intact by the BSP's later calls:
\* the page is patched as the array says, and the barrier completes.
CONSTANTS
  MaxCpu = 6
  Cpus <- MCCpus
  Bsp = 0
  Late <- MCNoLate
  LowPage = 589824
  FrameAddr = 524032
  BspCr3 = 2101248
  BspCs = 8
  ContinueAddr = 1052672
  FrameReuse = {"kept"}
  PublishOrders <- MCProgramOrder
SPECIFICATION FairSpec
INVARIANTS
  TypeOK
  TrampolinePatched
  EnteredApsCounted
  UserFuncPublished
PROPERTIES
  AllReachApplication
