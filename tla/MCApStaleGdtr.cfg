\* AP bring-up where send_broadcast_init_sipi's calls may reuse the stack
\* bytes of ap_gdtr_x32_for_x64 before the APs' lgdt reads them.
CONSTANTS
  MaxCpu = 6
  Cpus <- MCCpus
  Bsp = 0
  Late <- MCNoLate
  LowPage = 589824
  FrameAddr = 524032
  BspCr3 = 2101248
  BspCs = 8
  ContinueAddr = 1052672
  FrameReuse = {"kept", "reused"}
  PublishOrders <- MCProgramOrder
SPECIFICATION FairSpec
INVARIANTS
  ApLoadsBspGdt
