---------------------------- MODULE ImageLoadSpec ----------------------------
(***************************************************************************)
(* What loading an ELF image promises its caller, stated from the loader's *)
(* contract (get_image_info / load_image) rather than from its loops: in   *)
(* one step the caller either rejects the image, or the destination holds  *)
(* the image placed at dest, or the load reports failure.                  *)
(*                                                                         *)
(* The placed image: every loadable segment's file bytes at its address    *)
(* shifted by R = dest - start, its BSS zero; the program headers of the   *)
(* copied table shifted by R; every relocation of the image's relocation   *)
(* table, read as the image was linked (the tables are never relocated     *)
(* themselves), applied: RELATIVE stores A + R, the absolute-32 form A + R *)
(* + V, type 0 nothing; REL entries add to the word already there.         *)
(* When section headers are requested, the section-header table follows  *)
(* the segments at a 16-byte boundary and the copied ELF header points at *)
(* it; when symbol tables are requested, sections with an address are     *)
(* rebased and the others are packed after the table at their alignment.  *)
(***************************************************************************)
EXTENDS ElfTypes, FiniteSets, FiniteSetsExt

CONSTANTS Images, Dests, CopyFlags, AcceptedMachines, TotalSize, MemSize

VARIABLES file, dest, flags, phase, amem, entry

avars == <<file, dest, flags, phase, amem, entry>>

Hdr(f) == SrcCell(f, 0)
Width(f) == IF Hdr(f).cls = 32 THEN AddrMod32 ELSE AddrMod64
Ph(f, j) == SrcCell(f, Hdr(f).phoff + j)
Segs(f) == {j \in 0..Hdr(f).phnum - 1 : Ph(f, j).type = PT_LOAD /\ Ph(f, j).memsz > 0}
NaturalStart(f) == Min({Ph(f, j).paddr : j \in Segs(f)})
NaturalEnd(f) == Max({Ph(f, j).paddr + Ph(f, j).memsz : j \in Segs(f)})

\* Section headers, the copied table's link address, and the packing of the
\* sections without an address from a cursor c0 on.
Sh(f, j) == SrcCell(f, Hdr(f).shoff + j)
ShNum(f) == Hdr(f).shnum
ShTab(f) == AlignUp(NaturalEnd(f), ShTabAlign, Width(f))
Orphan(f, j) == Sh(f, j).addr = 0 /\ Sh(f, j).size # 0
AlignSec(f, j, c) == IF Sh(f, j).align > 1 THEN AlignUp(c, Sh(f, j).align, Width(f)) ELSE c
RECURSIVE Cursor(_, _, _)
Cursor(f, j, c0) ==
  IF j = 0 THEN c0
  ELSE IF Orphan(f, j - 1)
       THEN AlignSec(f, j - 1, Cursor(f, j - 1, c0)) + Sh(f, j - 1).size
       ELSE Cursor(f, j - 1, c0)
PackedAt(f, j, c0) == AlignSec(f, j, Cursor(f, j, c0))

Tables(fl) == fl.csh \/ fl.cst
NaturalTop(f, fl) ==
  CASE fl.cst -> Cursor(f, ShNum(f), ShTab(f) + ShNum(f))
    [] fl.csh -> ShTab(f) + ShNum(f)
    [] OTHER -> NaturalEnd(f)
LoadSize(f, fl) == NaturalTop(f, fl) - NaturalStart(f)

\* The caller goes on with the image (format, alignment, machine, size).
Acceptable(f, fl) ==
  /\ Is(Hdr(f), "ehdr") /\ Hdr(f).cls \in {32, 64}
  /\ Hdr(f).type \in {ET_EXEC, ET_DYN}
  /\ Segs(f) # {}
  /\ NaturalStart(f) % PageSize = 0
  /\ (IF Hdr(f).cls = 32 THEN "X86" ELSE "EM64T") \in AcceptedMachines
  /\ 0 < LoadSize(f, fl) /\ LoadSize(f, fl) <= TotalSize

\* The image at link address x before relocation (segments in header order).
Covering(f, x) == {j \in Segs(f) : Ph(f, j).paddr <= x /\ x < Ph(f, j).paddr + Ph(f, j).memsz}
Linked(f, x) ==
  IF Covering(f, x) = {} THEN Junk
  ELSE LET p == Ph(f, Max(Covering(f, x)))
           fs == IF p.filesz < p.memsz THEN p.filesz ELSE p.memsz
       IN IF x < p.paddr + fs THEN SrcCell(f, p.off + x - p.paddr) ELSE Data(0)

\* The dynamic section and the tables it names.
DynSegs(f) == {j \in 0..Hdr(f).phnum - 1 : Ph(f, j).type = PT_DYNAMIC}
DynHdr(f) == Ph(f, Max(DynSegs(f)))
Tag(f, t) ==
  LET J == {k \in 0..DynHdr(f).filesz - 1 : Is(SrcCell(f, DynHdr(f).off + k), "dyn")
                                         /\ SrcCell(f, DynHdr(f).off + k).tag = t}
  IN IF J = {} THEN NULL ELSE SrcCell(f, DynHdr(f).off + Max(J)).val
RelaTable(f) == Tag(f, "DT_RELA") # NULL /\ Tag(f, "DT_RELASZ") \notin {NULL, 0}
                /\ Tag(f, "DT_RELAENT") = 1
                /\ Tag(f, "DT_SYMTAB") # NULL /\ Tag(f, "DT_SYMENT") = 1
RelTable(f) == Tag(f, "DT_REL") # NULL /\ Tag(f, "DT_RELSZ") \notin {NULL, 0}
               /\ Tag(f, "DT_RELENT") = 1 /\ Tag(f, "DT_SYMTAB") # NULL
Form(f) == IF RelaTable(f) THEN "rela" ELSE "rel"
Entries(f) ==
  LET base == IF RelaTable(f) THEN Tag(f, "DT_RELA") ELSE Tag(f, "DT_REL")
      n == IF RelaTable(f) THEN Tag(f, "DT_RELASZ") ELSE Tag(f, "DT_RELSZ")
  IN [k \in 0..n - 1 |-> Linked(f, base + k)]
SymValue(f, r) == Linked(f, Tag(f, "DT_SYMTAB") + r.sym).value
\* Type 0 is padding in either form.
Supported == {R_NONE, R_RELATIVE, R_32}

\* The load fails: the section tables are requested and the ELF header is
\* not part of the loaded image, a segment or the dynamic section reaches past the end of
\* the file, the dynamic section has no usable table, or an entry is of an
\* unsupported type.
FileSize(f) == Cardinality(DOMAIN f)
PastEnd(f, p) == p.off + (IF p.filesz < p.memsz THEN p.filesz ELSE p.memsz) > FileSize(f)
MustFail(f, fl) ==
  \/ Tables(fl) /\ ~HeaderIsValid(Linked(f, NaturalStart(f)), Hdr(f).cls)
  \/ \E j \in Segs(f) : PastEnd(f, Ph(f, j))
  \/ DynSegs(f) # {} /\
       \/ DynHdr(f).off + DynHdr(f).filesz > FileSize(f)
       \/ ~RelaTable(f) /\ ~RelTable(f)
       \/ \E k \in DOMAIN Entries(f) : Entries(f)[k].type \notin Supported

\* Cell at link address x after relocation by r.
Relocated(f, x, r) ==
  LET E == Entries(f)
      K == {k \in DOMAIN E : E[k].off = x /\ E[k].type # R_NONE}
      V(k) == IF E[k].type = R_32 THEN SymValue(f, E[k]) ELSE 0
  IN IF DynSegs(f) = {} \/ K = {} THEN Linked(f, x)
     ELSE IF Form(f) = "rela"
       THEN Data((E[Max(K)].addend + r + V(Max(K))) % Width(f))
       ELSE Data((Linked(f, x).v + MapThenSumSet(LAMBDA k : r + V(k), K)) % Width(f))

\* The copied program-header table, its non-empty entries shifted by r.
PhdrTable(f) == {NaturalStart(f) + Hdr(f).phoff + j : j \in 0..Hdr(f).phnum - 1}

\* Copied section header j: rebased, or given its packed address c.
CopiedShdr(f, fl, j, r, c) ==
  LET s == Sh(f, j) IN
  CASE ~fl.cst -> s
    [] s.addr # 0 -> [s EXCEPT !.addr = (@ + r) % Width(f)]
    [] s.size = 0 -> s
    [] OTHER -> [s EXCEPT !.addr = c]

Placed(f, d, fl) ==
  LET r == d - NaturalStart(f)
      c0 == ShTab(f) + r + ShNum(f)      \* packing cursor, destination address
      Packed(a) == {j \in 0..ShNum(f) - 1 :
                      Orphan(f, j) /\ PackedAt(f, j, c0) <= a
                      /\ a < PackedAt(f, j, c0) + Sh(f, j).size}
  IN [a \in 0..MemSize - 1 |->
        LET x == a - r
            c == Relocated(f, x, r)
        IN CASE a < d \/ a >= d + LoadSize(f, fl) -> Junk
             [] Tables(fl) /\ x = NaturalStart(f) /\ Is(c, "ehdr") ->
                  [c EXCEPT !.shoff = ShTab(f) - NaturalStart(f)]
             [] Tables(fl) /\ x \in ShTab(f)..ShTab(f) + ShNum(f) - 1 ->
                  CopiedShdr(f, fl, x - ShTab(f), r, PackedAt(f, x - ShTab(f), c0))
             [] fl.cst /\ Packed(a) # {} ->
                  LET j == Max(Packed(a)) IN SrcCell(f, Sh(f, j).off + a - PackedAt(f, j, c0))
             [] x \in PhdrTable(f) /\ Is(c, "phdr") /\ c.memsz # 0 ->
                  [c EXCEPT !.paddr = (@ + r) % Width(f), !.vaddr = (@ + r) % Width(f)]
             [] OTHER -> c]

Unwritten == [a \in 0..MemSize - 1 |-> Junk]

Init ==
  /\ file \in Images
  /\ dest \in Dests
  /\ flags \in CopyFlags
  /\ phase = "idle"
  /\ amem = Unwritten
  /\ entry = 0

Reject ==
  /\ phase = "idle" /\ ~Acceptable(file, flags)
  /\ phase' = "rejected"
  /\ UNCHANGED <<file, dest, flags, amem, entry>>

Load ==
  /\ phase = "idle" /\ Acceptable(file, flags) /\ ~MustFail(file, flags)
  /\ phase' = "loaded"
  /\ amem' = Placed(file, dest, flags)
  /\ entry' = Hdr(file).entry + dest - NaturalStart(file)
  /\ UNCHANGED <<file, dest, flags>>

Fail ==
  /\ phase = "idle" /\ Acceptable(file, flags) /\ MustFail(file, flags)
  /\ phase' = "failed"
  /\ UNCHANGED <<file, dest, flags, amem, entry>>

Next == Reject \/ Load \/ Fail

SafeSpec == Init /\ [][Next]_avars

\* The caller's call returns.
Spec == SafeSpec /\ WF_avars(Next)

=============================================================================
