CONSTANTS
  FileSizes <- MCFileSizes
  PageBytes = 4
  Headers <- MCHeaders
  FwAddrs <- MCFwAddrs
  HighAddr = 31
SPECIFICATION Spec
INVARIANTS
  TypeOK
  PackageReleased
  
\* efi_main returns to the firmware: the final states have no successor.
CHECK_DEADLOCK FALSE
