------------------------------ MODULE ElfTypes ------------------------------
(***************************************************************************)
(* Cell-level vocabulary for the ELF loader of src/common/ld.              *)
(*                                                                         *)
(* Memory and image files are functions from offsets to cells.  A cell     *)
(* stands for one ELF structure (ELF header, program header, section       *)
(* header, dynamic entry, relocation entry, symbol) or one data word, so   *)
(* every sizeof(...) and *_entsize the loader compares against is 1.       *)
(* Addresses, sizes and offsets are counted in cells; a 4 KB page is       *)
(* PageSize cells and the 16-byte alignment of the section-header table is *)
(* ShTabAlign cells.  Address arithmetic wraps at AddrMod32 for the        *)
(* elf32_* types and at AddrMod64 for the elf64_* and size_t types.        *)
(***************************************************************************)
EXTENDS Integers

CONSTANTS
  AddrMod32,   \* 2^32, scaled: modulus of elf32_addr_t / elf32_off_t
  AddrMod64,   \* 2^64, scaled: modulus of elf64_addr_t, uint64_t, size_t
  PageSize,    \* 4 KB in cells; PAGE_4KB_MASK == PageSize - 1
  ShTabAlign   \* 16 bytes in cells: alignment of the copied section table

ASSUME PageSize > 0 /\ ShTabAlign > 0 /\ AddrMod32 % PageSize = 0
ASSUME AddrMod64 % AddrMod32 = 0

\* ELF constants the loader tests (elf32.h / elf64.h)
ET_EXEC == "ET_EXEC"
ET_DYN  == "ET_DYN"
PT_LOAD == "PT_LOAD"
PT_DYNAMIC == "PT_DYNAMIC"
PT_NOTE == "PT_NOTE"               \* stands for every other segment type
R_NONE == "R_NONE"                 \* type 0
R_RELATIVE == "R_RELATIVE"         \* R_386_RELATIVE / R_X86_64_RELATIVE
R_32 == "R_32"                     \* R_386_32 / R_X86_64_32
R_OTHER == "R_OTHER"               \* any unsupported relocation type
DynTags == {"DT_RELA", "DT_RELASZ", "DT_RELAENT", "DT_SYMTAB", "DT_SYMENT",
            "DT_REL", "DT_RELSZ", "DT_RELENT", "DT_NULL"}

\* The null pointer of the loader's locals (rela, rel, symtab).
NULL == -1

(***************************************************************************)
(* Cells.                                                                  *)
(***************************************************************************)
Junk == [k |-> "junk"]             \* memory whose content nobody wrote
Data(v) == [k |-> "data", v |-> v]
Ehdr(cls, type, entry, phoff, phnum, shoff, shnum) ==
  [k |-> "ehdr", cls |-> cls, type |-> type, entry |-> entry,
   phoff |-> phoff, phnum |-> phnum, shoff |-> shoff, shnum |-> shnum]
Phdr(type, off, paddr, filesz, memsz) ==
  [k |-> "phdr", type |-> type, off |-> off, paddr |-> paddr,
   vaddr |-> paddr, filesz |-> filesz, memsz |-> memsz]
Shdr(addr, off, size, align) ==
  [k |-> "shdr", addr |-> addr, off |-> off, size |-> size, align |-> align]
Dyn(tag, val) == [k |-> "dyn", tag |-> tag, val |-> val]
Rela(off, type, sym, addend) ==
  [k |-> "rela", off |-> off, type |-> type, sym |-> sym, addend |-> addend]
Rel(off, type, sym) == [k |-> "rel", off |-> off, type |-> type, sym |-> sym]
Sym(value) == [k |-> "sym", value |-> value]

Is(c, kind) == c.k = kind

(***************************************************************************)
(* elf32_header_is_valid / elf64_header_is_valid: magic and class check.   *)
(***************************************************************************)
HeaderIsValid(c, cls) == Is(c, "ehdr") /\ c.cls = cls

(***************************************************************************)
(* (x + (a - 1)) & ~(a - 1) in a type of modulus m, for a power of two a.  *)
(***************************************************************************)
AlignUp(x, a, m) == LET y == (x + a - 1) % m IN y - (y % a)

(***************************************************************************)
(* Image accessor over a memory buffer (image_access_mem.c).  The source   *)
(* is a file function and the size the accessor was created with.  Both    *)
(* mem_image_read and mem_image_map_to_mem clamp the count the same way;   *)
(* the subtraction is size_t arithmetic.                                   *)
(***************************************************************************)
MemImageCount(size, off, n) ==
  IF (off + n) % AddrMod64 > size THEN (size - off) % AddrMod64 ELSE n

\* Cell at offset o of the buffer the accessor wraps (past the file: junk).
SrcCell(file, o) == IF o \in DOMAIN file THEN file[o] ELSE Junk

=============================================================================
