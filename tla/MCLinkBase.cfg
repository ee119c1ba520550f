\* Position-independent image linked at a non-zero address.
CONSTANTS
  AddrMod32 = 32
  AddrMod64 = 64
  PageSize = 4
  ShTabAlign = 2
  Images <- MCLinkBaseImages
  Dests <- MCDests
  CopyFlags <- MCCopyFlags
  AcceptedMachines <- MCAccepted
  TotalSize = 16
  MemSize = 32
SPECIFICATION FairSpec
PROPERTIES
  LoadRefinesContract
