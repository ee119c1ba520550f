CONSTANTS
  FileSizes <- MCFileSizes
  PageBytes = 4
  Headers <- MCLayoutHeaders
  FwAddrs <- MCFwAddrs
  HighAddr = 31
SPECIFICATION Spec
\* Every free_pages at out releases pages efi_main holds.
INVARIANT FreesOnlyAllocated
CHECK_DEADLOCK FALSE
