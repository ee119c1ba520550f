CONSTANTS
  MemAlign = 4
  PageSize = 8
  HeapBase = 8
  HeapBytes = 24
  LoaderImages <- MCLoaderImages
  XmonImages <- MCXmonImages
  StartapImages <- MCStartapImages
  XmonLoaderImgSize = 4
  StartapImgSize = 4
  XmonTotalSizes = {2, 4}
  BootMagics <- MCMagics
  CpuStateSizes <- MCCpuSizes
  GuestSizes <- MCGuestSizes
  MemmapSizes <- MCMemmapSizes
  PlatformInfoSet = {TRUE, FALSE}
  CpuStates <- MCCpuStates
  InitialState <- MCInitialState
  XdAddr = 64
SPECIFICATION Spec
\* save_segment_data against the architecture, with a GS descriptor based
\* above 2 GB.
INVARIANT GuestSegmentsSaved
CHECK_DEADLOCK FALSE
