\* xmon_packer on every command line and file set of MCPacker, with every
\* file operation allowed to fail.
SPECIFICATION Spec
CONSTANTS
  ArgVectors <- MCArgVectors
  DashArgs <- MCDashArgs
  FileSystems <- MCFileSystems
  LoaderBinSize = 12
  Page = 4
  StarterLayouts <- MCStarterLayouts
  BootHdrWords = 2
  MapHdrWords = 2
  IoCanFail = TRUE
INVARIANTS PackageLayout ImageSizeMatches
PROPERTY PackerEnds
\* main returns; its final states have no successor.
CHECK_DEADLOCK FALSE
