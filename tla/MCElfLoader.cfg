\* get_image_info + load_image on well-formed position-independent and
\* fixed-address images, with the section-header and symbol-table options
\* of elf*_load_executable in every combination.
CONSTANTS
  AddrMod32 = 32
  AddrMod64 = 64
  PageSize = 4
  ShTabAlign = 2
  Images <- MCLoadImages
  Dests <- MCDests
  CopyFlags <- MCAllFlags
  AcceptedMachines <- MCAccepted
  TotalSize = 24
  MemSize = 32
SPECIFICATION FairSpec
INVARIANTS
  TypeOK
  NoStrayWrite
PROPERTIES
  LoadRefinesContract
  LoadReturns
