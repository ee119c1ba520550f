-------------------------------- MODULE E820 --------------------------------
(***************************************************************************)
(* The UEFI memory map on its way to startap: preload records the map     *)
(* LibMemoryMap returns as memmap_size = desc_size * nr_entries, with the *)
(* descriptor size the firmware reports (uefi_bootloader/preload.c), and  *)
(* get_e820_table_from_ibh (pre_os/xmon_loader/e820.c) walks it with its  *)
(* own desc_size = sizeof(efi_memory_desc_t) + EFI_E820_SIZE_PADDING,     *)
(* converting one descriptor into one e820 entry per turn of its loop.    *)
(*                                                                         *)
(* Memory is counted in 8-byte units: efi_memory_desc_t is 5 of them      *)
(* (type and pad, phys_addr, virt_addr, num_pages, attribute), the        *)
(* loader's stride 6.  A unit read from the wrong place of a descriptor,  *)
(* or from past the map, yields Junk.                                      *)
(***************************************************************************)
EXTENDS Naturals, Sequences

CONSTANTS Descs,        \* the descriptors the firmware may report
          MaxDescs,     \* the most descriptors in a map
          FwDescSizes,  \* the descriptor sizes the firmware may report
          Junk          \* what a read of the wrong bytes yields

\* desc_size of get_e820_table_from_ibh
DescSize == 5 + 1

\* efi_acpi_memory_t
AddressRangeMemory == 1
AddressRangeReserved == 2
AddressRangeACPI == 3
AddressRangeNVS == 4

\* The conversion without its EfiBootServicesData case.
EfiTypeToE820TypeNoBootData(t) ==
  CASE t \in {1, 2, 3, 7} -> AddressRangeMemory
    [] t = 9 -> AddressRangeACPI
    [] t = 10 -> AddressRangeNVS
    [] OTHER -> AddressRangeReserved

\* EfiTypeToE820Type, on the EFI_MEMORY_TYPE numbers.
EfiTypeToE820Type(t) ==
  CASE t \in {1, 2, 3, 4, 7} -> AddressRangeMemory
    [] t = 9 -> AddressRangeACPI
    [] t = 10 -> AddressRangeNVS
    [] OTHER -> AddressRangeReserved

\* The units of the map buffer: descriptor j at j * fw, each field at its
\* offset, the rest of a descriptor (its padding) holding no field.
Units(map, fw) ==
  [u \in 0..fw * Len(map) - 1 |->
     LET d == map[(u \div fw) + 1] IN
     CASE u % fw = 0 -> [f |-> "type", v |-> d.type]
       [] u % fw = 1 -> [f |-> "phys_addr", v |-> d.base]
       [] u % fw = 3 -> [f |-> "num_pages", v |-> d.pages]
       [] OTHER -> [f |-> "other", v |-> 0]]

\* next->field for the descriptor the loader takes at unit u.
Field(mem, u, name) ==
  IF u \in DOMAIN mem /\ mem[u].f = name THEN mem[u].v ELSE Junk

VARIABLES fwMap,       \* the descriptors LibMemoryMap returned
          fwDescSize,  \* the desc_size it returned
          memmapSize,  \* platform_info->memmap_size
          i,           \* i of the conversion loop
          e820,        \* e820->memory_map_entry[0..i-1]
          done         \* get_e820_table_from_ibh has returned TRUE

evars == <<fwMap, fwDescSize, memmapSize, i, e820, done>>

Init ==
  /\ fwMap \in UNION {[1..n -> Descs] : n \in 1..MaxDescs}
  /\ fwDescSize \in FwDescSizes
  /\ memmapSize = fwDescSize * Len(fwMap)
  /\ i = 0
  /\ e820 = <<>>
  /\ done = FALSE

\* count = map_size / desc_size
Count == memmapSize \div DescSize

\* One turn of the loop: the entry from the descriptor at desc_size * i.
ConvertEntry ==
  LET mem == Units(fwMap, fwDescSize)
      u == DescSize * i
      t == Field(mem, u, "type")
  IN /\ ~done /\ i < Count
     /\ e820' = Append(e820, [base |-> Field(mem, u + 1, "phys_addr"),
                              pages |-> Field(mem, u + 3, "num_pages"),
                              type |-> IF t = Junk THEN Junk ELSE EfiTypeToE820Type(t)])
     /\ i' = i + 1
     /\ UNCHANGED <<fwMap, fwDescSize, memmapSize, done>>

\* memory_map_size = count * sizeof(entry); *e820_addr = e820; TRUE.
Finish ==
  /\ ~done /\ i = Count
  /\ done' = TRUE
  /\ UNCHANGED <<fwMap, fwDescSize, memmapSize, i, e820>>

Next == ConvertEntry \/ Finish

Spec == Init /\ [][Next]_evars

-----------------------------------------------------------------------------

\* The e820 type of each EFI memory type, as the UEFI specification's
\* table of E820 equivalents gives it for the types of EFI_MEMORY_TYPE:
\* code and data of the loader and of boot services and conventional
\* memory are usable, ACPI reclaim is ACPI, ACPI NVS is NVS, the rest is
\* reserved.
UsableAfterBoot == {1, 2, 3, 4, 7}
E820TypeOfEfiType ==
  [t \in 0..13 |-> IF t \in UsableAfterBoot THEN AddressRangeMemory
                   ELSE CASE t = 9 -> AddressRangeACPI
                          [] t = 10 -> AddressRangeNVS
                          [] OTHER -> AddressRangeReserved]

\* The e820 map startap receives lists exactly the firmware's memory map,
\* descriptor by descriptor, each with the e820 type of its EFI type.
E820MatchesEfiMap ==
  done =>
    e820 = [j \in 1..Len(fwMap) |->
              [base |-> fwMap[j].base, pages |-> fwMap[j].pages,
               type |-> E820TypeOfEfiType[fwMap[j].type]]]

=============================================================================
