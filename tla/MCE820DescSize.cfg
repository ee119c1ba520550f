\* Firmware reporting 40-, 48- or 56-byte descriptors, as the UEFI
\* specification allows.
SPECIFICATION Spec
CONSTANTS
  Descs <- MCDescs
  MaxDescs = 3
  Junk = Junk
  FwDescSizes = {5, 6, 7}
INVARIANT E820MatchesEfiMap
\* get_e820_table_from_ibh returns; its final states have no successor.
CHECK_DEADLOCK FALSE
