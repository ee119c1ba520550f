CONSTANTS
  MemAlign = 4
  PageSize = 8
  HeapBase = 8
  HeapBytes = 24
  LoaderImages <- MCLoaderImages
  XmonImages <- MCXmonImages
  StartapImages <- MCStartapImages
  XmonLoaderImgSize = 4
  StartapImgSize = 4
  XmonTotalSizes = {2, 4}
  BootMagics <- MCMagics
  CpuStateSizes <- MCCpuSizes
  GuestSizes <- MCGuestSizes
  MemmapSizes <- MCMemmapSizes
  PlatformInfoSet = {TRUE, FALSE}
  CpuStates <- MCCpuStates
  InitialState <- MCInitialState
  XdAddr = 64
SPECIFICATION Spec
INVARIANTS
  HeapBlocksDisjoint
  HeapBlocksInsideHeap
  StartupObjectsDisjoint
  StartapEnvComplete
  GuestSegmentFieldsSaved
\* A failed stage returns to the starter's caller, which is not part of
\* this repository: those final states have no successor.
CHECK_DEADLOCK FALSE
