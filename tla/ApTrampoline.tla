----------------------------- MODULE ApTrampoline -----------------------------
(***************************************************************************)
(* The AP start-up trampoline of startap/ap_procs_init.c: the code array   *)
(* ap_start_up_code, the offsets at which setup_low_memory_ap_code patches *)
(* it, and setup_low_memory_ap_code itself, which copies the code to the   *)
(* low-memory page, patches it, copies gdt32_table after it and writes the *)
(* GDTR that the code's lgdt reads.                                        *)
(*                                                                         *)
(* A byte of the page is a number 0..255 where the code holds an operand   *)
(* the BSP patches; the other bytes are tags outside 0..255: Op for a byte *)
(* of an instruction that is never patched, GdtByte(j) for byte j of the   *)
(* copied GDT, Junk for what the page held before.  The instruction table  *)
(* is read off the array, one record per instruction, with the operand    *)
(* fields its comments name.                                               *)
(***************************************************************************)
EXTENDS Naturals, Sequences, SequencesExt

Op == 256
Junk == 257
GdtByte(j) == 512 + j

\* ap_start_up_code, without BREAK_IN_AP_STARTUP: the length of every
\* instruction and its patched operands <<offset in instruction, width,
\* field>>.  The SS load under #if 0 is not part of the array.
ApStartUpCode ==
  << [len |-> 3, imm |-> {<<1, 2, "seg">>}],        \* mov ax,AP_START_UP_SEGMENT
     [len |-> 2, imm |-> {}],                       \* mov ds,ax
     [len |-> 4, imm |-> {<<2, 2, "gdtr">>}],       \* lea si,GDTR_OFFSET_IN_PAGE
     [len |-> 3, imm |-> {}], [len |-> 3, imm |-> {}], \* lgdt [si]; mov eax,cr0
     [len |-> 2, imm |-> {}], [len |-> 3, imm |-> {}], \* or al,1; mov cr0,eax
     [len |-> 8, imm |-> {<<2, 4, "cont16">>, <<6, 2, "cs">>}], \* fjmp CS,CONT16
     [len |-> 1, imm |-> {}],                       \* CONT16: cli
     [len |-> 4, imm |-> {<<2, 2, "ds">>}], [len |-> 3, imm |-> {}],
     [len |-> 4, imm |-> {<<2, 2, "es">>}], [len |-> 3, imm |-> {}],
     [len |-> 4, imm |-> {<<2, 2, "gs">>}], [len |-> 3, imm |-> {}],
     [len |-> 4, imm |-> {<<2, 2, "fs">>}], [len |-> 3, imm |-> {}],
     [len |-> 5, imm |-> {<<1, 4, "modesw">>}],     \* mov eax,AP_MODE_SWITCH_CODE
     [len |-> 2, imm |-> {}],                       \* jmp eax
     [len |-> 5, imm |-> {}],                       \* mode switch: mov ecx,MSR
     [len |-> 2, imm |-> {}], [len |-> 5, imm |-> {}], [len |-> 3, imm |-> {}],
     [len |-> 3, imm |-> {}],
     [len |-> 5, imm |-> {<<1, 4, "scratch">>}],    \* mov eax,$AP_SCRATCH_BASE
     [len |-> 2, imm |-> {}], [len |-> 3, imm |-> {}], [len |-> 2, imm |-> {}],
     [len |-> 2, imm |-> {}],
     [len |-> 5, imm |-> {<<1, 4, "gdtr64">>}],     \* mov eax,ap_gdtr_x32_for_x64
     [len |-> 3, imm |-> {}],                       \* lgdt (%eax)
     [len |-> 5, imm |-> {<<1, 4, "cr3">>}],        \* mov eax,ap_cr3_x64
     [len |-> 3, imm |-> {}], [len |-> 3, imm |-> {}], [len |-> 4, imm |-> {}],
     [len |-> 3, imm |-> {}], [len |-> 1, imm |-> {}], [len |-> 5, imm |-> {}],
     [len |-> 2, imm |-> {}], [len |-> 4, imm |-> {}], [len |-> 2, imm |-> {}],
     [len |-> 1, imm |-> {}], [len |-> 3, imm |-> {}], [len |-> 4, imm |-> {}],
     [len |-> 3, imm |-> {}], [len |-> 2, imm |-> {}],
     [len |-> 5, imm |-> {<<1, 4, "cs64">>}],       \* mov eax,ap_cs_x64
     [len |-> 1, imm |-> {}],
     [len |-> 5, imm |-> {<<1, 4, "cont">>}],       \* mov eax,AP_CONTINUE_WAKEUP_CODE
     [len |-> 1, imm |-> {}], [len |-> 1, imm |-> {}] >>

\* Where instruction i starts, and the size of the array.
InstrStart(i) == FoldLeft(LAMBDA acc, r : acc + r.len, 0, SubSeq(ApStartUpCode, 1, i - 1))
CodeSize == InstrStart(Len(ApStartUpCode) + 1)

\* The operand fields of the array: field |-> <<offset in the array, width>>.
Fields == UNION {{r[3] : r \in ApStartUpCode[i].imm} : i \in DOMAIN ApStartUpCode}
FieldAt == [f \in Fields |->
              LET i == CHOOSE i \in DOMAIN ApStartUpCode : \E r \in ApStartUpCode[i].imm : r[3] = f
                  r == CHOOSE r \in ApStartUpCode[i].imm : r[3] = f
              IN <<InstrStart(i) + r[1], r[2]>>]

\* The array's bytes: placeholders 0x00 where an operand is patched.
CodeImage == [p \in 0..CodeSize - 1 |->
                IF \E f \in Fields : p \in FieldAt[f][1]..FieldAt[f][1] + FieldAt[f][2] - 1
                THEN 0 ELSE Op]

\* The offsets of ap_procs_init.c (AP_CODE_START = 0).
AP_START_UP_SEGMENT_IN_CODE_OFFSET == 1
GDTR_OFFSET_IN_CODE == 7
CONT16_IN_CODE_OFFSET == 22
CONT16_VALUE_OFFSET == 28
CS_IN_CODE_OFFSET == 26
DS_IN_CODE_OFFSET == 31
ES_IN_CODE_OFFSET == 38
GS_IN_CODE_OFFSET == 45
FS_IN_CODE_OFFSET == 52
SS_IN_CODE_OFFSET == 59
AP_MODE_SWITCH_CODE_IN_CODE_OFFSET == 58
AP_MODE_SWITCH_ADDR_OFFSET == 64
AP_SCRATCH_BASE_OFFSET == 83
AP_X32_TO_X64_GDTR_OFFSET == 97
AP_CR3_X64_OFFSET == 105
AP_CS_X64_OFFSET == 150
AP_CONTINUE_WAKEUP_CODE_IN_CODE_OFFSET == 156
GDTR_OFFSET_IN_PAGE == ((CodeSize + 7) \div 8) * 8
GDT_OFFSET_IN_PAGE == GDTR_OFFSET_IN_PAGE + 8
AP_32_CS == 16     \* __AP_32_CS
AP_32_DS == 24     \* __AP_32_DS
Gdt32Bytes == 32   \* sizeof(gdt32_table): null, null, 32-bit CS, 32-bit DS

\* Byte j of the little-endian store of v; a load of w bytes at o, which
\* gives -1 over a byte that is not a number.
ByteOf(v, j) == (v \div 256^j) % 256
RECURSIVE ReadLE(_, _, _)
ReadLE(pg, o, w) ==
  IF w = 0 THEN 0
  ELSE IF o \notin DOMAIN pg \/ pg[o] \notin 0..255 \/ ReadLE(pg, o + 1, w - 1) = -1 THEN -1
  ELSE pg[o] + 256 * ReadLE(pg, o + 1, w - 1)

\* The patches of setup_low_memory_ap_code, in source order: <<offset,
\* width, value>>.  low is the page, gdtrAddr &ap_gdtr_x32_for_x64, cr3 and
\* cs the BSP's CR3 and CS, cont ap_continue_wakeup_code.
\* (The same list with the CONT16 far-jump target stored through a uint16_t.)
ApCodePatchesCont16Narrow(low, gdtrAddr, cr3, cs, cont) ==
  << <<AP_START_UP_SEGMENT_IN_CODE_OFFSET, 2, (low \div 16) % 2^16>>,
     <<GDTR_OFFSET_IN_CODE, 2, GDTR_OFFSET_IN_PAGE>>,
     <<CONT16_IN_CODE_OFFSET, 2, low + CONT16_VALUE_OFFSET>>,
     <<CS_IN_CODE_OFFSET, 2, AP_32_CS>>, <<DS_IN_CODE_OFFSET, 2, AP_32_DS>>,
     <<ES_IN_CODE_OFFSET, 2, AP_32_DS>>, <<GS_IN_CODE_OFFSET, 2, AP_32_DS>>,
     <<FS_IN_CODE_OFFSET, 2, AP_32_DS>>,
     <<AP_CONTINUE_WAKEUP_CODE_IN_CODE_OFFSET, 4, cont>>,
     <<AP_X32_TO_X64_GDTR_OFFSET, 4, gdtrAddr>>, <<AP_CR3_X64_OFFSET, 4, cr3>>,
     <<AP_CS_X64_OFFSET, 4, cs>>, <<AP_SCRATCH_BASE_OFFSET, 4, low + 4096>>,
     <<AP_MODE_SWITCH_CODE_IN_CODE_OFFSET, 4, low + AP_MODE_SWITCH_ADDR_OFFSET>> >>

ApCodePatches(low, gdtrAddr, cr3, cs, cont) ==
  << <<AP_START_UP_SEGMENT_IN_CODE_OFFSET, 2, (low \div 16) % 2^16>>,
     <<GDTR_OFFSET_IN_CODE, 2, GDTR_OFFSET_IN_PAGE>>,
     <<CONT16_IN_CODE_OFFSET, 4, low + CONT16_VALUE_OFFSET>>,
     <<CS_IN_CODE_OFFSET, 2, AP_32_CS>>, <<DS_IN_CODE_OFFSET, 2, AP_32_DS>>,
     <<ES_IN_CODE_OFFSET, 2, AP_32_DS>>, <<GS_IN_CODE_OFFSET, 2, AP_32_DS>>,
     <<FS_IN_CODE_OFFSET, 2, AP_32_DS>>,
     <<AP_CONTINUE_WAKEUP_CODE_IN_CODE_OFFSET, 4, cont>>,
     <<AP_X32_TO_X64_GDTR_OFFSET, 4, gdtrAddr>>, <<AP_CR3_X64_OFFSET, 4, cr3>>,
     <<AP_CS_X64_OFFSET, 4, cs>>, <<AP_SCRATCH_BASE_OFFSET, 4, low + 4096>>,
     <<AP_MODE_SWITCH_CODE_IN_CODE_OFFSET, 4, low + AP_MODE_SWITCH_ADDR_OFFSET>> >>

\* setup_low_memory_ap_code(low) over the page pg (offsets from low): copy
\* the code, apply the patches in order, copy gdt32_table to
\* GDT_OFFSET_IN_PAGE, then write the GDTR at GDTR_OFFSET_IN_PAGE (base,
\* then limit).  A byte holds the last store that covers it.
SetupLowMemoryApCode(pg, low, gdtrAddr, cr3, cs, cont) ==
  LET P == ApCodePatches(low, gdtrAddr, cr3, cs, cont)
      covering(p) == {i \in DOMAIN P : p \in P[i][1]..P[i][1] + P[i][2] - 1}
      last(p) == CHOOSE i \in covering(p) : \A j \in covering(p) : j <= i
  IN [p \in DOMAIN pg |->
        IF p \in GDTR_OFFSET_IN_PAGE..GDTR_OFFSET_IN_PAGE + 1
          THEN ByteOf(Gdt32Bytes - 1, p - GDTR_OFFSET_IN_PAGE)
        ELSE IF p \in GDTR_OFFSET_IN_PAGE + 2..GDTR_OFFSET_IN_PAGE + 5
          THEN ByteOf(low + GDT_OFFSET_IN_PAGE, p - GDTR_OFFSET_IN_PAGE - 2)
        ELSE IF p \in GDT_OFFSET_IN_PAGE..GDT_OFFSET_IN_PAGE + Gdt32Bytes - 1
          THEN GdtByte(p - GDT_OFFSET_IN_PAGE)
        ELSE IF covering(p) # {} THEN ByteOf(P[last(p)][3], p - P[last(p)][1])
        ELSE IF p < CodeSize THEN CodeImage[p]
        ELSE pg[p]]

\* The operand the AP executes in field f of the page.
ReadField(pg, f) == ReadLE(pg, FieldAt[f][1], FieldAt[f][2])

=============================================================================
