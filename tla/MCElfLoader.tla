----------------------------- MODULE MCElfLoader -----------------------------
(***************************************************************************)
(* Model-checking instance of ElfLoader: small ELF images built cell by    *)
(* cell, loaded at a few page-aligned destinations.  Sizes are in cells;   *)
(* a page is 4 cells, the elf32 address space 32 cells, the elf64 one 64.  *)
(***************************************************************************)
EXTENDS ElfLoader, Sequences

\* A file from the sequence of its cells (offset 0 first).
Img(cells) == [o \in 0..Len(cells) - 1 |-> cells[o + 1]]

\* The orders in which three program headers can appear in the table.
Orders == {p \in [1..3 -> 1..3] : \A a, b \in 1..3 : a # b => p[a] # p[b]}

(***************************************************************************)
(* A position-independent image linked at 0 (xmon, startap, xmon_loader   *)
(* are built this way): text page with the headers, a data page holding    *)
(* the dynamic section (cells 4-8), the relocation table (9-11), two       *)
(* relocated words (12, 13), the symbol table (14) and one BSS cell (15).  *)
(* The section-header table (16-18) and an orphan section (19) follow in   *)
(* the file only.                                                          *)
(***************************************************************************)
PiePhdrs == <<Phdr(PT_LOAD, 0, 0, 4, 4), Phdr(PT_LOAD, 4, 4, 11, 12),
              Phdr(PT_DYNAMIC, 4, 4, 5, 5)>>
PieShdrs == <<Shdr(4, 4, 5, 1), Shdr(0, 19, 1, 2), Shdr(0, 0, 0, 0), Data(6)>>

RelaBody == <<Dyn("DT_RELA", 9), Dyn("DT_RELASZ", 3), Dyn("DT_RELAENT", 1),
              Dyn("DT_SYMTAB", 14), Dyn("DT_SYMENT", 1),
              Rela(12, R_RELATIVE, 0, 2), Rela(13, R_32, 0, 1), Rela(12, R_NONE, 0, 0),
              Data(0), Data(0), Sym(3), Data(9)>>
RelBody == <<Dyn("DT_REL", 9), Dyn("DT_RELSZ", 2), Dyn("DT_RELENT", 1),
             Dyn("DT_SYMTAB", 14), Dyn("DT_SYMENT", 1),
             Rel(12, R_RELATIVE, 0), Rel(13, R_32, 0), Data(5),
             Data(2), Data(1), Sym(3), Data(9)>>

Pie(cls, order, body) ==
  Img(<<Ehdr(cls, ET_DYN, 1, 1, 3, 16, 3)>>
      \o [k \in 1..3 |-> PiePhdrs[order[k]]] \o body \o PieShdrs)

\* A fixed-address executable linked at 8 with no dynamic section; its data
\* segment is two file cells and three BSS cells; a PT_NOTE is skipped.
Exec64 == Img(<<Ehdr(64, ET_EXEC, 9, 1, 3, 0, 0),
                Phdr(PT_LOAD, 0, 8, 4, 4), Phdr(PT_NOTE, 3, 11, 1, 1),
                Phdr(PT_LOAD, 4, 12, 2, 5), Data(1), Data(2)>>)

\* Images the caller rejects after get_image_info: lowest address not page
\* aligned, a relocatable object, no ELF header, load_size over TotalSize.
Unaligned64 == Img(<<Ehdr(64, ET_EXEC, 2, 1, 1, 0, 0), Phdr(PT_LOAD, 0, 2, 2, 2)>>)
Object64 == Img(<<Ehdr(64, "ET_REL", 0, 1, 1, 0, 0), Phdr(PT_LOAD, 0, 0, 2, 2)>>)
NotElf == Img(<<Data(0), Data(0)>>)
Big64 == Img(<<Ehdr(64, ET_EXEC, 0, 1, 1, 0, 0), Phdr(PT_LOAD, 0, 0, 2, 26)>>)

\* Images whose load fails: an unsupported relocation type (elf64), and a
\* RELA table without DT_SYMENT and no REL table (elf32).
Replace(body, k, c) == [body EXCEPT ![k] = c]
BadType64 == Pie(64, <<1, 2, 3>>, Replace(RelaBody, 8, Rela(12, R_OTHER, 0, 0)))
NoTable32 == Pie(32, <<3, 1, 2>>, Replace(RelaBody, 5, Dyn("DT_NULL", 0)))

\* Truncated files: the second segment, or the dynamic section, ends past
\* the end of the file and of the load_size-sized source.
Trunc64 == Img(<<Ehdr(64, ET_EXEC, 0, 1, 2, 0, 0), Phdr(PT_LOAD, 0, 0, 4, 4),
                 Phdr(PT_LOAD, 6, 4, 3, 4), Data(0), Data(0), Data(0), Data(1)>>)
DynOut64 == [Pie(64, <<1, 2, 3>>, RelaBody) EXCEPT ![3] = Phdr(PT_DYNAMIC, 18, 4, 5, 5)]

MCImages ==
  {Pie(64, o, RelaBody) : o \in Orders} \cup {Pie(32, o, RelaBody) : o \in Orders}
  \cup {Pie(32, o, RelBody) : o \in Orders}
  \cup {Exec64, Unaligned64, Object64, NotElf, Big64, BadType64, NoTable32}
  \cup {Trunc64, DynOut64}

\* The elf*_load_executable options with section tables, on images whose
\* section-header table and orphan section the loader can reach.
\* The same image with a longer BSS: the copied section-header table goes
\* after it, at an offset other than the file's e_shoff.
PieLongBss == Img(<<Ehdr(64, ET_DYN, 1, 1, 3, 16, 3), Phdr(PT_LOAD, 0, 0, 4, 4),
                    Phdr(PT_LOAD, 4, 4, 11, 13), Phdr(PT_DYNAMIC, 4, 4, 5, 5)>>
                  \o RelaBody \o PieShdrs)

MCTableImages == {Pie(64, o, RelaBody) : o \in Orders}
                 \cup {Pie(32, <<1, 2, 3>>, RelBody), Pie(32, <<2, 3, 1>>, RelaBody)}
                 \cup {PieLongBss}
MCAllFlags == [csh : BOOLEAN, cst : BOOLEAN]

(***************************************************************************)
(* Images on which the code and its contract disagree.                     *)
(***************************************************************************)
\* Linked at 4 with the ELF header in the file only: file offsets run past
\* load_size, which load_image uses as the size of the source.
Offset64 == Img(<<Ehdr(64, ET_EXEC, 4, 1, 1, 0, 0), Phdr(PT_LOAD, 4, 4, 4, 4),
                  Data(0), Data(0), Data(1), Data(2), Data(3), Data(4)>>)
\* A REL table whose second entry is type 0 (padding).
RelNone32 == Pie(32, <<1, 2, 3>>, Replace(RelBody, 7, Rel(13, R_NONE, 0)))
\* The position-independent image linked at 4 instead of 0.
PieAt4 == Img(<<Ehdr(64, ET_DYN, 5, 1, 3, 16, 3), Phdr(PT_LOAD, 0, 4, 4, 4),
                Phdr(PT_LOAD, 4, 8, 11, 12), Phdr(PT_DYNAMIC, 4, 8, 5, 5),
                Dyn("DT_RELA", 13), Dyn("DT_RELASZ", 3), Dyn("DT_RELAENT", 1),
                Dyn("DT_SYMTAB", 18), Dyn("DT_SYMENT", 1),
                Rela(16, R_RELATIVE, 0, 6), Rela(17, R_32, 0, 5), Rela(16, R_NONE, 0, 0),
                Data(0), Data(0), Sym(7), Data(9)>> \o PieShdrs)
\* The ELF header is not in the loaded image (a big BSS keeps the segment's
\* file bytes inside load_size).
HdrOut64 == Img(<<Ehdr(64, ET_EXEC, 0, 1, 1, 4, 2), Phdr(PT_LOAD, 2, 0, 2, 8),
                  Data(1), Data(2), Shdr(1, 2, 2, 1), Shdr(0, 2, 1, 1)>>)
\* An elf64 dynamic section without DT_RELAENT.
NoRelaEnt64 == Pie(64, <<1, 2, 3>>, Replace(RelaBody, 3, Dyn("DT_NULL", 0)))
\* An executable whose only program header is not PT_LOAD.
NoLoad64 == Img(<<Ehdr(64, ET_EXEC, 0, 1, 1, 0, 0), Phdr(PT_NOTE, 0, 0, 2, 2)>>)

MCOffsetImages == {Offset64}
MCRelNoneImages == {RelNone32}
MCLinkBaseImages == {PieAt4}
MCHdrOutImages == {HdrOut64}
MCNoRelaEntImages == {NoRelaEnt64}
MCNoLoadImages == {NoLoad64}

MCDests == {0, 4, 8}
MCCopyFlags == {[csh |-> FALSE, cst |-> FALSE]}
MCLoadImages == MCImages \cup MCTableImages

MCAccepted == {"X86", "EM64T"}

=============================================================================
