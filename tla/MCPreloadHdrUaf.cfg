CONSTANTS
  FileSizes <- MCFileSizes
  PageBytes = 4
  Headers <- MCHeaders
  FwAddrs <- MCFwAddrs
  HighAddr = 31
SPECIFICATION Spec
INVARIANTS
  NoHeaderUseAfterFree
CHECK_DEADLOCK FALSE
