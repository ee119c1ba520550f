------------------------------ MODULE ElfLoader ------------------------------
(***************************************************************************)
(* The ELF loader of src/common/ld/elf_ld as used by the boot stages: one  *)
(* caller (run_xmon_loader, xmon_loader) calls get_image_info on the file, *)
(* checks the answer, and calls load_image with the reported load_size as  *)
(* the buffer size.  load_image runs elf_get_load_info again, computes the *)
(* relocation offset and runs elf32_ or elf64_load_executable, whose loops *)
(* (segment copy, program-header fix-up, relocation, section copy) are one *)
(* action per iteration.                                                   *)
(*                                                                         *)
(* Reads of memory the loader never wrote, or of a NULL table pointer, are *)
(* undefined behaviour: the model moves to pc = "undefined".  Where such a *)
(* read is interpreted as a header whose count may as well be 0, the      *)
(* benign outcome is a second possibility.                                 *)
(***************************************************************************)
EXTENDS ElfTypes, FiniteSets, FiniteSetsExt

CONSTANTS
  Images,            \* image files: functions 0..n-1 -> cell
  Dests,             \* image_base_address values (4K aligned by the callers)
  CopyFlags,         \* elf_load_info_t copy_section_headers/copy_symbol_tables
  AcceptedMachines,  \* machine types the caller accepts ({"EM64T"} in src)
  TotalSize,         \* caller's bound on load_size (STARTAP_IMG_SIZE, ...)
  MemSize            \* destination memory modelled: addresses 0..MemSize-1

VARIABLES
  file,     \* the image being loaded
  dest,     \* image_base_address
  flags,    \* [csh, cst]: copy_section_headers, copy_symbol_tables
  pc,       \* position in the caller / loader
  imgInfo,  \* image_info_t returned by get_image_info
  info,     \* elf_load_info_t after elf_load_executable shifted it
  mem,      \* destination memory
  i,        \* loop index of the current loop
  dynPh,    \* phdr_dyn: index of the PT_DYNAMIC program header, or NULL
  rtab,     \* what the dynamic-section scan found (elf*_do_relocation)
  curr,     \* curr_addr of elf*_copy_sections
  status,   \* status of load_executable
  stray     \* ghost: some write left [dest, dest + load_size)

vars == <<file, dest, flags, pc, imgInfo, info, mem, i, dynPh, rtab, curr,
          status, stray>>

FileSize(f) == Cardinality(DOMAIN f)
Mod64(x) == x % AddrMod64
\* Modulus of the elf32_/elf64_ address types of an image class.
AddrMod(cls) == IF cls = 32 THEN AddrMod32 ELSE AddrMod64

EhdrOf(f) == SrcCell(f, 0)
PhdrOf(f, j) == SrcCell(f, EhdrOf(f).phoff + j)
ShdrOf(f, j) == SrcCell(f, EhdrOf(f).shoff + j)

Get(m, a) == IF a \in DOMAIN m THEN m[a] ELSE Junk
\* memcpy(to, source + from, n) and memset(to, c, n) on the memory model
CopyIn(m, to, f, from, n) ==
  [a \in DOMAIN m |-> IF to <= a /\ a < to + n THEN SrcCell(f, from + a - to)
                      ELSE m[a]]
Fill(m, to, n, c) ==
  [a \in DOMAIN m |-> IF to <= a /\ a < to + n THEN c ELSE m[a]]
Put(m, a, c) == IF a \in DOMAIN m THEN [m EXCEPT ![a] = c] ELSE m
\* A write of n cells at address to leaves the buffer load_image was given.
Outside(to, n) == n > 0 /\ (to < dest \/ to + n > dest + imgInfo.load_size)

(***************************************************************************)
(* elf32_get_load_info / elf64_get_load_info (identical but for the width  *)
(* m of the address type).  The min/max loop over program headers is the *)
(* minimum and maximum over the loadable ones; the packing loop over      *)
(* section headers is order dependent and recursive.                       *)
(***************************************************************************)
Loadable(f) == {j \in 0..EhdrOf(f).phnum - 1 :
                  PhdrOf(f, j).type = PT_LOAD /\ PhdrOf(f, j).memsz # 0}

\* Mutation: the packing loop forgets sh_addralign.
RECURSIVE PackSectionsNoAlign(_, _, _, _)
PackSectionsNoAlign(f, j, top, m) ==
  IF j = EhdrOf(f).shnum THEN top
  ELSE LET s == ShdrOf(f, j)
           t == IF s.size = 0 \/ s.addr # 0 THEN top ELSE (top + s.size) % m
       IN PackSectionsNoAlign(f, j + 1, t, m)

RECURSIVE PackSections(_, _, _, _)
PackSections(f, j, top, m) ==
  IF j = EhdrOf(f).shnum THEN top
  ELSE LET s == ShdrOf(f, j)
           t == IF s.size = 0 \/ s.addr # 0 THEN top
                ELSE ((IF s.align > 1 THEN AlignUp(top, s.align, m) ELSE top)
                      + s.size) % m
       IN PackSections(f, j + 1, t, m)

NoInfo == [ok |-> FALSE, machine |-> "none", start |-> 0, end |-> 0,
           entry |-> 0, sections |-> 0, reloc |-> 0]

GetLoadInfo(f, size, fl, cls) ==
  LET e == EhdrOf(f)
      m == AddrMod(cls)
      L == Loadable(f)
      low == IF L = {} THEN m - 1 ELSE Min({PhdrOf(f, j).paddr : j \in L})
      high == IF L = {} THEN 0
              ELSE Max({(PhdrOf(f, j).paddr + PhdrOf(f, j).memsz) % m : j \in L})
      sect == AlignUp(high, ShTabAlign, m)
      top == IF fl.cst THEN PackSections(f, 0, (sect + e.shnum) % m, m)
             ELSE IF fl.csh THEN (sect + e.shnum) % m ELSE high
  IN IF /\ MemImageCount(size, 0, 1) = 1
        /\ e.type \in {ET_EXEC, ET_DYN}
        /\ MemImageCount(size, e.phoff, e.phnum) = e.phnum
        /\ low % PageSize = 0
        /\ fl.cst => MemImageCount(size, e.shoff, e.shnum) = e.shnum
     THEN [ok |-> TRUE, machine |-> IF cls = 32 THEN "X86" ELSE "EM64T",
           start |-> low, end |-> top, entry |-> e.entry, sections |-> sect,
           reloc |-> 0]
     ELSE NoInfo

Elf32GetLoadInfo(f, size, fl) == GetLoadInfo(f, size, fl, 32)
Elf64GetLoadInfo(f, size, fl) == GetLoadInfo(f, size, fl, 64)

\* elf_get_load_info: the header's class picks the 32- or 64-bit code.
ElfGetLoadInfo(f, size, fl) ==
  CASE MemImageCount(size, 0, 1) # 1 -> NoInfo
    [] HeaderIsValid(EhdrOf(f), 32) -> Elf32GetLoadInfo(f, size, fl)
    [] HeaderIsValid(EhdrOf(f), 64) -> Elf64GetLoadInfo(f, size, fl)
    [] OTHER -> NoInfo

Cls == IF info.machine = "X86" THEN 32 ELSE 64
Terminal == {"rejected", "done", "undefined"}

-----------------------------------------------------------------------------
Init ==
  /\ file \in Images
  /\ dest \in Dests
  /\ flags \in CopyFlags
  /\ pc = "info"
  /\ imgInfo = [ok |-> FALSE, load_size |-> 0, machine |-> "none"]
  /\ info = NoInfo
  /\ mem = [a \in 0..MemSize - 1 |-> Junk]
  /\ i = 0
  /\ dynPh = NULL
  /\ rtab = [form |-> "none", base |-> NULL, count |-> 0, symtab |-> NULL]
  /\ curr = 0
  /\ status = "OK"
  /\ stray = FALSE

(***************************************************************************)
(* get_image_info on the whole file, then the caller's checks of status,  *)
(* machine type and load_size (xmon_loader, run_xmon_loader).              *)
(***************************************************************************)
GetImageInfo ==
  /\ pc = "info"
  /\ LET li == ElfGetLoadInfo(file, FileSize(file), flags)
         sz == Mod64(li.end - li.start)
     IN /\ imgInfo' = [ok |-> li.ok, load_size |-> sz, machine |-> li.machine]
        /\ pc' = IF li.ok /\ li.machine \in AcceptedMachines
                    /\ sz # 0 /\ sz <= TotalSize
                 THEN "load" ELSE "rejected"
  /\ UNCHANGED <<file, dest, flags, info, mem, i, dynPh, rtab, curr, status,
                 stray>>

\* Mutation: relocation_offset kept as a signed difference, not wrapped.
StartLoadSignedOffset ==
  /\ pc = "load"
  /\ LET li == ElfGetLoadInfo(file, imgInfo.load_size, flags)
         off == dest - li.start
     IN IF li.ok
        THEN /\ info' = [li EXCEPT !.start = Mod64(@ + off), !.end = Mod64(@ + off),
                                   !.entry = Mod64(@ + off),
                                   !.sections = Mod64(@ + off), !.reloc = off]
             /\ pc' = "segments" /\ status' = "OK"
        ELSE pc' = "done" /\ status' = "ERROR" /\ UNCHANGED info
  /\ i' = 0
  /\ UNCHANGED <<file, dest, flags, imgInfo, mem, dynPh, rtab, curr, stray>>

(***************************************************************************)
(* load_image(file, dest, load_size): load_elf_image wraps the file in a   *)
(* memory accessor of size load_size, runs elf_get_load_info again, and   *)
(* elf_load_executable shifts the addresses by dest - start_addr before    *)
(* elf*_load_executable maps the ELF header and program-header table.     *)
(***************************************************************************)
StartLoad ==
  /\ pc = "load"
  /\ LET li == ElfGetLoadInfo(file, imgInfo.load_size, flags)
         off == Mod64(dest - li.start)
         e == EhdrOf(file)
     IN IF li.ok /\ MemImageCount(imgInfo.load_size, e.phoff, e.phnum) = e.phnum
        THEN /\ info' = [li EXCEPT !.start = Mod64(@ + off), !.end = Mod64(@ + off),
                                   !.entry = Mod64(@ + off),
                                   !.sections = Mod64(@ + off), !.reloc = off]
             /\ pc' = "segments"
             /\ status' = "OK"
        ELSE /\ pc' = "done"
             /\ status' = "ERROR"
             /\ UNCHANGED info
  /\ i' = 0
  /\ UNCHANGED <<file, dest, flags, imgInfo, mem, dynPh, rtab, curr, stray>>


(***************************************************************************)
(* One iteration of the segment loop of elf*_load_executable over the     *)
(* source program-header table.                                            *)
(***************************************************************************)
SegHdr == PhdrOf(file, i)
InSegmentLoop == pc = "segments" /\ i < EhdrOf(file).phnum

\* PT_DYNAMIC: phdr_dyn = phdr; continue.
NoteDynamic ==
  /\ InSegmentLoop
  /\ SegHdr.type = PT_DYNAMIC
  /\ dynPh' = i
  /\ i' = i + 1
  /\ UNCHANGED <<file, dest, flags, pc, imgInfo, info, mem, rtab, curr, status,
                 stray>>

\* Not PT_LOAD, or p_memsz == 0: continue.
SkipSegment ==
  /\ InSegmentLoop
  /\ SegHdr.type # PT_DYNAMIC
  /\ SegHdr.type # PT_LOAD \/ SegHdr.memsz = 0
  /\ i' = i + 1
  /\ UNCHANGED <<file, dest, flags, pc, imgInfo, info, mem, dynPh, rtab, curr,
                 status, stray>>

\* filesz clamped to memsz; mem_image_read to paddr + relocation_offset,
\* its count compared after the copy; then the BSS memset.
SegFileSize == IF SegHdr.filesz > SegHdr.memsz THEN SegHdr.memsz ELSE SegHdr.filesz
SegTarget == Mod64(SegHdr.paddr + info.reloc)
SegRead == MemImageCount(imgInfo.load_size, SegHdr.off, SegFileSize)

\* Mutation: the BSS memset length is p_memsz instead of p_memsz - filesz.
CopySegmentBssTooLong ==
  /\ InSegmentLoop
  /\ SegHdr.type = PT_LOAD /\ SegHdr.memsz # 0
  /\ SegRead = SegFileSize
  /\ mem' = Fill(CopyIn(mem, SegTarget, file, SegHdr.off, SegFileSize),
                 SegTarget + SegFileSize, SegHdr.memsz, Data(0))
  /\ stray' = (stray \/ Outside(SegTarget, SegFileSize + SegHdr.memsz))
  /\ i' = i + 1
  /\ UNCHANGED <<file, dest, flags, pc, imgInfo, info, dynPh, rtab, curr,
                 status>>

CopySegment ==
  /\ InSegmentLoop
  /\ SegHdr.type = PT_LOAD /\ SegHdr.memsz # 0
  /\ SegRead = SegFileSize
  /\ mem' = Fill(CopyIn(mem, SegTarget, file, SegHdr.off, SegFileSize),
                 SegTarget + SegFileSize, SegHdr.memsz - SegFileSize, Data(0))
  /\ stray' = (stray \/ Outside(SegTarget, SegHdr.memsz))
  /\ i' = i + 1
  /\ UNCHANGED <<file, dest, flags, pc, imgInfo, info, dynPh, rtab, curr,
                 status>>

SegmentReadFails ==
  /\ InSegmentLoop
  /\ SegHdr.type = PT_LOAD /\ SegHdr.memsz # 0
  /\ SegRead # SegFileSize
  /\ mem' = CopyIn(mem, SegTarget, file, SegHdr.off, SegRead)
  /\ stray' = (stray \/ Outside(SegTarget, SegRead))
  /\ status' = "ERROR"
  /\ pc' = "done"
  /\ UNCHANGED <<file, dest, flags, imgInfo, info, i, dynPh, rtab, curr>>

(***************************************************************************)
(* After the segment loop: the ELF header is taken from the destination at *)
(* start_addr without a validity check, and every program header there     *)
(* with p_memsz != 0 gets relocation_offset added to p_paddr and p_vaddr.  *)
(* A header that is not there makes e_phoff/e_phnum garbage.               *)
(***************************************************************************)
AfterFixup == IF dynPh # NULL THEN "dynamic" ELSE "tables"
DstEhdr == Get(mem, info.start)
PhdrSlots == {Mod64(info.start + DstEhdr.phoff + j) : j \in 0..DstEhdr.phnum - 1}
\* Mutation: the fix-up moves p_paddr only.
ShiftPaddrOnly(c) == [c EXCEPT !.paddr = (@ + info.reloc) % AddrMod(Cls)]
Shift(c) == [c EXCEPT !.paddr = (@ + info.reloc) % AddrMod(Cls),
                      !.vaddr = (@ + info.reloc) % AddrMod(Cls)]

FixupPhdrs ==
  /\ pc = "segments" /\ i = EhdrOf(file).phnum
  /\ IF Is(DstEhdr, "ehdr")
       THEN LET S == {a \in PhdrSlots : Is(Get(mem, a), "phdr")}
                T == {a \in S : mem[a].memsz # 0}
            IN /\ mem' = [a \in DOMAIN mem |-> IF a \in T THEN Shift(mem[a]) ELSE mem[a]]
               /\ stray' = (stray \/ \E a \in T : Outside(a, 1))
               /\ \/ S = PhdrSlots /\ pc' = AfterFixup
                  \/ S # PhdrSlots /\ pc' = "undefined"
       ELSE /\ pc' \in {AfterFixup, "undefined"}
            /\ UNCHANGED <<mem, stray>>
  /\ UNCHANGED <<file, dest, flags, imgInfo, info, i, dynPh, rtab, curr, status>>

(***************************************************************************)
(* elf*_do_relocation: the dynamic section is mapped from the source and   *)
(* scanned; the last entry of each tag wins.  Table pointers are d_ptr +   *)
(* start_addr, i.e. they point into the destination.                       *)
(***************************************************************************)
DynPhdr == PhdrOf(file, dynPh)
DynMapped == MemImageCount(imgInfo.load_size, DynPhdr.off, DynPhdr.filesz)
               = DynPhdr.filesz
DynVal(tag, dflt) ==
  LET J == {j \in 0..DynPhdr.filesz - 1 :
              Is(SrcCell(file, DynPhdr.off + j), "dyn")
              /\ SrcCell(file, DynPhdr.off + j).tag = tag}
  IN IF J = {} THEN dflt ELSE SrcCell(file, DynPhdr.off + Max(J)).val
DynPtr(tag) == IF DynVal(tag, NULL) = NULL THEN NULL
               ELSE Mod64(DynVal(tag, NULL) + info.start)

DynamicUnmapped ==
  /\ pc = "dynamic" /\ ~DynMapped
  /\ status' = "ERROR"
  /\ pc' = "done"
  /\ UNCHANGED <<file, dest, flags, imgInfo, info, mem, i, dynPh, rtab, curr,
                 stray>>

\* elf64: the mandatory-tag checks are under #if 0, so the loop bound
\* rela_sz / rela_entsz is evaluated whatever the scan found.
ScanDynamic64 ==
  /\ pc = "dynamic" /\ DynMapped /\ Cls = 64
  /\ IF DynVal("DT_RELAENT", 0) = 0
       THEN pc' = "undefined" /\ UNCHANGED rtab
       ELSE /\ rtab' = [form |-> "rela", base |-> DynPtr("DT_RELA"),
                        count |-> DynVal("DT_RELASZ", 0) \div DynVal("DT_RELAENT", 0),
                        symtab |-> DynPtr("DT_SYMTAB")]
            /\ pc' = "relocate"
  /\ i' = 0
  /\ UNCHANGED <<file, dest, flags, imgInfo, info, mem, dynPh, curr, status,
                 stray>>

\* elf32: the RELA table if its triple and the symbol table are complete,
\* else the REL table if complete, else MON_ERROR.
RelaUsable == /\ DynPtr("DT_RELA") # NULL /\ DynVal("DT_RELASZ", 0) # 0
              /\ DynPtr("DT_SYMTAB") # NULL
              /\ DynVal("DT_RELAENT", 0) = 1 /\ DynVal("DT_SYMENT", 0) = 1
RelUsable == /\ DynPtr("DT_REL") # NULL /\ DynPtr("DT_SYMTAB") # NULL
             /\ DynVal("DT_RELSZ", 0) # 0 /\ DynVal("DT_RELENT", 0) = 1

ScanDynamic32 ==
  /\ pc = "dynamic" /\ DynMapped /\ Cls = 32
  /\ CASE RelaUsable ->
            /\ rtab' = [form |-> "rela", base |-> DynPtr("DT_RELA"),
                        count |-> DynVal("DT_RELASZ", 0), symtab |-> DynPtr("DT_SYMTAB")]
            /\ pc' = "relocate" /\ UNCHANGED status
       [] RelUsable ->
            /\ rtab' = [form |-> "rel", base |-> DynPtr("DT_REL"),
                        count |-> DynVal("DT_RELSZ", 0), symtab |-> DynPtr("DT_SYMTAB")]
            /\ pc' = "relocate" /\ UNCHANGED status
       [] OTHER -> pc' = "done" /\ status' = "ERROR" /\ UNCHANGED rtab
  /\ i' = 0
  /\ UNCHANGED <<file, dest, flags, imgInfo, info, mem, dynPh, curr, stray>>

(***************************************************************************)
(* One iteration of the relocation loop: entry i of the table, read from  *)
(* the destination; target r_offset + relocation_offset in the width of   *)
(* the address type; st_value read from the symbol table there.           *)
(***************************************************************************)
InRelocLoop == pc = "relocate" /\ i < rtab.count
RelEntry == Get(mem, Mod64(rtab.base + i))
RelTarget == (RelEntry.off + info.reloc) % AddrMod(Cls)
RelSym == Get(mem, Mod64(rtab.symtab + RelEntry.sym))
RelOld == Get(mem, RelTarget)
\* The value stored at the target, for a supported type.
RelValue ==
  LET m == AddrMod(Cls)
      base == IF rtab.form = "rela" THEN RelEntry.addend ELSE RelOld.v
  IN IF RelEntry.type = R_32 THEN (base + info.reloc + RelSym.value) % m
     ELSE (base + info.reloc) % m
\* The switch cases that store (RELA: 32 and RELATIVE; REL: the same).
Stores == {R_32, R_RELATIVE}
Unsupported == IF rtab.form = "rela" THEN {R_OTHER} ELSE {R_OTHER, R_NONE}
\* What the store reads is there: the symbol, and for REL the target word.
Readable == /\ RelEntry.type = R_32 => Is(RelSym, "sym")
            /\ rtab.form = "rel" => Is(RelOld, "data")

\* Mutation: case 0 of the switch leaves the loop without advancing.
RelocateEntryNoAdvance ==
  /\ InRelocLoop
  /\ CASE ~Is(RelEntry, rtab.form) \/ (RelEntry.type \in Stores /\ ~Readable) ->
            pc' = "undefined" /\ UNCHANGED <<mem, i, status, stray>>
       [] RelEntry.type \in Stores ->
            /\ mem' = Put(mem, RelTarget, Data(RelValue))
            /\ stray' = (stray \/ Outside(RelTarget, 1))
            /\ i' = i + 1
            /\ UNCHANGED <<pc, status>>
       [] RelEntry.type \in Unsupported ->
            status' = "ERROR" /\ pc' = "done" /\ UNCHANGED <<mem, i, stray>>
       [] OTHER -> UNCHANGED <<pc, mem, i, status, stray>>
  /\ UNCHANGED <<file, dest, flags, imgInfo, info, dynPh, rtab, curr>>

\* One turn of the loop: the switch on the entry's type.  An entry, symbol
\* or REL target that is not there to be read is undefined behaviour.
RelocateEntry ==
  /\ InRelocLoop
  /\ CASE ~Is(RelEntry, rtab.form) \/ (RelEntry.type \in Stores /\ ~Readable) ->
            pc' = "undefined" /\ UNCHANGED <<mem, i, status, stray>>
       [] RelEntry.type \in Stores ->
            /\ mem' = Put(mem, RelTarget, Data(RelValue))
            /\ stray' = (stray \/ Outside(RelTarget, 1))
            /\ i' = i + 1
            /\ UNCHANGED <<pc, status>>
       [] RelEntry.type \in Unsupported ->
            status' = "ERROR" /\ pc' = "done" /\ UNCHANGED <<mem, i, stray>>
       [] OTHER ->  \* case 0 of the RELA switch: do nothing
            i' = i + 1 /\ UNCHANGED <<pc, mem, status, stray>>
  /\ UNCHANGED <<file, dest, flags, imgInfo, info, dynPh, rtab, curr>>

RelocationDone ==
  /\ pc = "relocate" /\ i = rtab.count
  /\ status' = "OK"
  /\ pc' = "tables"
  /\ UNCHANGED <<file, dest, flags, imgInfo, info, mem, i, dynPh, rtab, curr,
                 stray>>

(***************************************************************************)
(* The optional tables, after relocation.  elf*_copy_section_header_table  *)
(* checks the destination ELF header, copies the section-header table to   *)
(* sections_addr and points e_shoff at it; its status is then overwritten  *)
(* by that of elf*_copy_sections when symbol tables are copied.            *)
(***************************************************************************)
NoTables ==
  /\ pc = "tables" /\ ~flags.csh /\ ~flags.cst
  /\ pc' = "done"
  /\ UNCHANGED <<file, dest, flags, imgInfo, info, mem, i, dynPh, rtab, curr,
                 status, stray>>

ShtabRead == MemImageCount(imgInfo.load_size, DstEhdr.shoff, DstEhdr.shnum)

\* Mutation: e_shoff is not pointed at the copied table.
CopyShdrTableKeepShoff ==
  /\ pc = "tables" /\ (flags.csh \/ flags.cst)
  /\ IF ~HeaderIsValid(DstEhdr, Cls)
       THEN status' = "ERROR" /\ UNCHANGED <<mem, stray>>
       ELSE /\ mem' = CopyIn(mem, info.sections, file, DstEhdr.shoff, ShtabRead)
            /\ stray' = (stray \/ Outside(info.sections, ShtabRead))
            /\ status' = IF ShtabRead # DstEhdr.shnum THEN "ERROR" ELSE "OK"
  /\ pc' = IF flags.cst THEN "sections" ELSE "done"
  /\ i' = 0
  /\ UNCHANGED <<file, dest, flags, imgInfo, info, dynPh, rtab, curr>>

CopyShdrTable ==
  /\ pc = "tables" /\ (flags.csh \/ flags.cst)
  /\ IF ~HeaderIsValid(DstEhdr, Cls)
       THEN status' = "ERROR" /\ UNCHANGED <<mem, stray>>
       ELSE LET m1 == CopyIn(mem, info.sections, file, DstEhdr.shoff, ShtabRead)
            IN /\ stray' = (stray \/ Outside(info.sections, ShtabRead))
               /\ IF ShtabRead # DstEhdr.shnum
                    THEN status' = "ERROR" /\ mem' = m1
                    ELSE /\ status' = "OK"
                         /\ mem' = [m1 EXCEPT ![info.start].shoff =
                                      (info.sections - info.start) % AddrMod(Cls)]
  /\ pc' = IF flags.cst THEN "sections" ELSE "done"
  /\ i' = 0
  /\ UNCHANGED <<file, dest, flags, imgInfo, info, dynPh, rtab, curr>>

(***************************************************************************)
(* elf*_copy_sections walks the copied section headers in the destination, *)
(* with the ELF header there read without a validity check (the loop bound *)
(* e_shnum is re-read on every iteration).  curr_addr starts right after  *)
(* the copied table.                                                       *)
(***************************************************************************)
InSectionLoop == pc = "sections" /\ Is(DstEhdr, "ehdr") /\ i < DstEhdr.shnum
SecSlot == Mod64(info.sections + i)
SecHdr == Get(mem, SecSlot)
\* curr_addr: sections_addr + table size before the first iteration.
Cursor == IF i = 0 THEN (info.sections + DstEhdr.shnum) % AddrMod(Cls) ELSE curr
SecAddr == IF SecHdr.align > 1 THEN AlignUp(Cursor, SecHdr.align, AddrMod(Cls))
           ELSE Cursor
SecRead == MemImageCount(imgInfo.load_size, SecHdr.off, SecHdr.size)

\* sh_addr != 0: loaded with a segment, only rebased.
RebaseSection ==
  /\ InSectionLoop /\ Is(SecHdr, "shdr") /\ SecHdr.addr # 0
  /\ mem' = [mem EXCEPT ![SecSlot].addr = (@ + info.reloc) % AddrMod(Cls)]
  /\ stray' = (stray \/ Outside(SecSlot, 1))
  /\ curr' = Cursor
  /\ i' = i + 1
  /\ UNCHANGED <<file, dest, flags, pc, imgInfo, info, dynPh, rtab, status>>

\* sh_size == 0: continue.  A slot that is not a section header the table
\* copy put there is read as one: a header of size 0, or garbage.
SkipSection ==
  /\ InSectionLoop
  /\ ~Is(SecHdr, "shdr") \/ (SecHdr.addr = 0 /\ SecHdr.size = 0)
  /\ \/ i' = i + 1 /\ curr' = Cursor /\ UNCHANGED pc
     \/ ~Is(SecHdr, "shdr") /\ pc' = "undefined" /\ UNCHANGED <<i, curr>>
  /\ UNCHANGED <<file, dest, flags, imgInfo, info, mem, dynPh, rtab, status,
                 stray>>

\* An orphan section is read to the aligned cursor and gets that address.
CopySection ==
  /\ InSectionLoop /\ Is(SecHdr, "shdr") /\ SecHdr.addr = 0 /\ SecHdr.size # 0
  /\ LET m1 == CopyIn(mem, SecAddr, file, SecHdr.off, SecRead)
     IN /\ stray' = (stray \/ Outside(SecAddr, SecRead))
        /\ IF SecRead # SecHdr.size
             THEN /\ mem' = m1 /\ status' = "ERROR" /\ pc' = "done"
                  /\ UNCHANGED <<i, curr>>
             ELSE /\ mem' = IF Is(m1[SecSlot], "shdr")
                              THEN [m1 EXCEPT ![SecSlot].addr = SecAddr] ELSE m1
                  /\ curr' = (SecAddr + SecHdr.size) % AddrMod(Cls)
                  /\ i' = i + 1
                  /\ UNCHANGED <<pc, status>>
  /\ UNCHANGED <<file, dest, flags, imgInfo, info, dynPh, rtab>>

\* Loop exit: copy_sections returns MON_OK, which becomes the status.
SectionsDone ==
  /\ pc = "sections"
  /\ Is(DstEhdr, "ehdr") => i >= DstEhdr.shnum
  /\ \/ Is(DstEhdr, "ehdr") /\ pc' = "done"
     \/ ~Is(DstEhdr, "ehdr") /\ pc' \in {"done", "undefined"}
  /\ status' = "OK"
  /\ UNCHANGED <<file, dest, flags, imgInfo, info, mem, i, dynPh, rtab, curr,
                 stray>>

Finished ==
  /\ pc \in Terminal
  /\ UNCHANGED vars

Next ==
  \/ GetImageInfo \/ StartLoad
  \/ NoteDynamic \/ SkipSegment \/ CopySegment \/ SegmentReadFails
  \/ FixupPhdrs
  \/ DynamicUnmapped \/ ScanDynamic64 \/ ScanDynamic32
  \/ RelocateEntry \/ RelocationDone
  \/ NoTables \/ CopyShdrTable
  \/ RebaseSection \/ SkipSection \/ CopySection
  \/ SectionsDone
  \/ Finished

Spec == Init /\ [][Next]_vars

\* The loader is one sequential call: every enabled step is eventually taken.
FairSpec == Spec /\ WF_vars(Next)

-----------------------------------------------------------------------------
CellKinds == {"junk", "data", "ehdr", "phdr", "shdr", "dyn", "rela", "rel", "sym"}
Addr64 == 0..AddrMod64 - 1

TypeOK ==
  /\ pc \in {"info", "load", "segments", "dynamic", "relocate", "tables",
             "sections"} \cup Terminal
  /\ status \in {"OK", "ERROR"}
  /\ stray \in BOOLEAN
  /\ DOMAIN mem = 0..MemSize - 1
  /\ \A a \in DOMAIN mem : mem[a].k \in CellKinds
  /\ {info.start, info.end, info.entry, info.sections, info.reloc, curr} \subseteq Addr64
  /\ imgInfo.load_size \in Addr64
  /\ dynPh \in {NULL} \cup Nat
  /\ i \in Nat

(***************************************************************************)
(* Every write of the loader (segment copy, BSS memset, program-header     *)
(* fix-up, relocation store, section-table and section copies), on the     *)
(* successful and on the failing paths, stays inside the buffer the caller *)
(* sized with get_image_info's load_size and passed to load_image.         *)
(***************************************************************************)
NoStrayWrite == ~stray

(***************************************************************************)
(* The caller-visible outcome of get_image_info + load_image implements    *)
(* the load contract of ImageLoadSpec: accepted images are either placed   *)
(* at dest exactly (segments, zeroed BSS, shifted program headers, applied *)
(* relocations, shifted entry point) or reported as failed when the image  *)
(* has no usable relocation table or an unsupported relocation; the        *)
(* loader never runs into undefined behaviour.                             *)
(***************************************************************************)
AbsPhase ==
  CASE pc = "rejected" -> "rejected"
    [] pc = "done" /\ status = "OK" -> "loaded"
    [] pc = "done" -> "failed"
    [] pc = "undefined" -> "undefined"
    [] OTHER -> "idle"

Contract == INSTANCE ImageLoadSpec
              WITH phase <- AbsPhase,
                   amem <- IF AbsPhase = "loaded" THEN mem
                           ELSE [a \in 0..MemSize - 1 |-> Junk],
                   entry <- IF AbsPhase = "loaded" THEN info.entry ELSE 0

LoadRefinesContract == Contract!SafeSpec

(***************************************************************************)
(* Under the fairness of one sequential call, load_image returns: the      *)
(* segment, relocation and section loops all end (their bounds are read    *)
(* from headers, one of them re-read from the destination on every turn).  *)
(***************************************************************************)
LoadReturns == <>(pc \in Terminal)

(***************************************************************************)
(* elf*_load_executable reports success only if the section-header table  *)
(* it was asked for is in place: the copied ELF header is valid and its    *)
(* e_shoff points at sections_addr.                                        *)
(***************************************************************************)
TableFailureReported ==
  (pc = "done" /\ status = "OK" /\ (flags.csh \/ flags.cst)) =>
     /\ HeaderIsValid(DstEhdr, Cls)
     /\ DstEhdr.shoff = (info.sections - info.start) % AddrMod(Cls)

(***************************************************************************)
(* spec.md 4.3: an image without a loadable segment is not an error of     *)
(* get_load_info; it yields start_addr = the address type's maximum and    *)
(* end_addr = 0, for the caller to treat as degenerate.                    *)
(***************************************************************************)
NoLoadIsNotAnError ==
  (pc # "info" /\ Is(EhdrOf(file), "ehdr") /\ EhdrOf(file).type \in {ET_EXEC, ET_DYN}
   /\ Loadable(file) = {}) => imgInfo.ok
=============================================================================
