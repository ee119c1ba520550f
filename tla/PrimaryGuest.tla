----------------------------- MODULE PrimaryGuest -----------------------------
(***************************************************************************)
(* The primary guest's BSP start-up state, as pre_os/xmon_loader/          *)
(* primary_guest.c builds it: setup_primary_guest_env copies the starter's *)
(* initial register state (and passes xd in rcx), then                     *)
(* save_other_cpu_state reads the BSP's GDTR, IDTR, control registers,    *)
(* MSRs and selectors, and save_segment_data decodes each selector's GDT  *)
(* descriptor into the base / limit / access-rights form xmon loads into  *)
(* the guest.                                                              *)
(*                                                                         *)
(* A descriptor is the tuple of its four 16-bit words (gen.lo is words 1 *)
(* and 2, gen.hi words 3 and 4): TLC's integers end at 2^31 - 1, below a  *)
(* dword with bit 31 set.  A 64-bit value is likewise the tuple of its    *)
(* four 16-bit words, lowest first.  The fields of                         *)
(* ia32_segment_descriptor_t and ia32_selector_t are extracted with shifts *)
(* and masks.  Registers and MSRs that are only copied are opaque values.  *)
(***************************************************************************)
EXTENDS Naturals, Bitwise, TLC

\* The segment registers save_other_cpu_state fills from a selector, and the
\* two it fills with constants.
SelectorRegs == {"CS", "DS", "ES", "FS", "GS", "SS"}
SegRegs == SelectorRegs \cup {"LDTR", "TR"}

\* A mon_segment_struct_t as allocate_memory leaves it: all zero.
ZeroSegment == [base |-> <<0, 0, 0, 0>>, limit |-> 0, attributes |-> 0, selector |-> 0]

\* mon_guest_cpu_startup_state_t as allocate_memory leaves it: all zero.
ZeroCpuState ==
  [gp |-> [r \in {} |-> 0], control |-> [gdtr |-> 0, idtr |-> 0, cr |-> 0],
   msr |-> [value |-> 0, pending_exceptions |-> 0, interruptibility_state |-> 0,
            activity_state |-> 0, smbase |-> 0],
   seg |-> [r \in SegRegs |-> ZeroSegment]]

\* 0xffffffff, TR's limit: above TLC's integers and only ever copied.
U32Max == "0xffffffff"

\* sizeof(ia32_segment_descriptor_t)
SegDescSize == 8

\* Bits lo .. lo + width - 1 of x.
Bits(x, lo, width) == shiftR(x, lo) & (2^width - 1)

\* ia32_selector_t: rpl 0..1, ti 2, index 3..15.
SelIndex(sel) == Bits(sel, 3, 13)
SelTi(sel) == Bits(sel, 2, 1)

\* The bitfields of a descriptor d = <<w1, w2, w3, w4>>: gen.lo is
\* limit_15_00 (w1) and base_address_15_00 (w2); gen.hi is
\* base_address_23_16, the attribute byte, limit_19_16, the flags and
\* base_address_31_24.
DescLimit(d) == d[1] | (Bits(d[4], 0, 4) * 2^16)
DescAttributes(d) == Bits(d[3], 8, 8) | (Bits(d[4], 0, 8) * 2^8)  \* gen_attr.attributes
DescGranularity(d) == Bits(d[4], 7, 1)

\* ss->base = (uint64_t)(base_15_00 | base_23_16 << 16 | base_31_24 << 24).
\* The bitfields are narrower than int, so they are promoted to int
\* (C11 6.3.1.1): with bit 7 of base_31_24 set, the shift by 24 leaves int's
\* range, and the build's result is the negative int with those bits, which
\* the conversion to uint64_t sign-extends into bits 63:32.
DescBase(d) ==
  LET high == Bits(d[3], 0, 8) | (Bits(d[4], 8, 8) * 2^8)
      ext == IF Bits(d[4], 15, 1) = 1 THEN 2^16 - 1 ELSE 0
  IN <<d[2], high, ext, ext>>

\* (save_segment_data with the page-granular limit shifted but its low 12
\* bits not filled.)
SaveSegmentDataNoGranFill(ss, sel, gdt, gdtrLimit) ==
  LET d == gdt[SelIndex(sel)]
  IN IF SelIndex(sel) = 0 \/ SelIndex(sel) \div SegDescSize > gdtrLimit \div SegDescSize
        \/ SelTi(sel) = 1
       THEN ss
       ELSE [base |-> DescBase(d),
             limit |-> IF DescGranularity(d) = 1 THEN DescLimit(d) * 2^12 ELSE DescLimit(d),
             attributes |-> DescAttributes(d) & 61695,
             selector |-> sel]

\* save_segment_data(sel16, ss): the GDT is gdt (index |-> descriptor) with
\* limit gdtrLimit; max is the last index the limit covers.  A null, LDT
\* selector, or one the bound test rejects (it compares index / 8 with
\* max), leaves ss alone.  Otherwise base and limit are reassembled from
\* their pieces, the limit is scaled to bytes when the granularity bit is
\* set ((limit << 12) | 0xfff, which a 20-bit limit cannot carry out of 32
\* bits), and the access rights are the attribute word with limit_19_16
\* cleared.
SaveSegmentData(ss, sel, gdt, gdtrLimit) ==
  LET max == gdtrLimit \div SegDescSize
      d == gdt[SelIndex(sel)]
  IN IF SelIndex(sel) = 0 \/ SelIndex(sel) \div SegDescSize > max \/ SelTi(sel) = 1
       THEN ss
       ELSE [base |-> DescBase(d),
             limit |-> IF DescGranularity(d) = 1 THEN (DescLimit(d) * 2^12) | 4095
                       ELSE DescLimit(d),
             attributes |-> DescAttributes(d) & 61695,   \* attr.bits.limit_19_16 = 0
             selector |-> sel]

\* save_other_cpu_state(s): cpu is the BSP as the loader runs on it.  The
\* descriptor-table registers, control registers and MSRs are copied (the
\* VMCS-only MSR fields zeroed); a selector in LDTR that is not null ends
\* the function there; otherwise LDTR is marked unusable, TR gets fixed
\* attributes and limit, and the six selector registers are decoded.
SaveOtherCpuState(s, cpu) ==
  LET s1 == [s EXCEPT !.control = [gdtr |-> cpu.gdtr, idtr |-> cpu.idtr, cr |-> cpu.cr],
                      !.msr = [value |-> cpu.msr, pending_exceptions |-> 0,
                               interruptibility_state |-> 0, activity_state |-> 0, smbase |-> 0]]
      seg(r) ==
        CASE r = "LDTR" -> [s1.seg[r] EXCEPT !.attributes = 65536]
          [] r = "TR" -> [s1.seg[r] EXCEPT !.attributes = 32907, !.limit = U32Max]
          [] OTHER -> SaveSegmentData(s1.seg[r], cpu.sel[r], cpu.gdt, cpu.gdtr.limit)
  IN IF SelIndex(cpu.ldtr) # 0 THEN s1
     ELSE [s1 EXCEPT !.seg = [r \in SegRegs |-> seg(r)]]

\* setup_primary_guest_env, the filling of primary_guest_bsp_cpu after its
\* zeroed allocation (ZeroCpuState): the starter's initial general registers, with rcx
\* replaced by the address of xd, then save_other_cpu_state.
SetupPrimaryGuestCpu(init, xd, cpu) ==
  SaveOtherCpuState([ZeroCpuState EXCEPT !.gp = ("rcx" :> xd) @@ init], cpu)

-----------------------------------------------------------------------------
(***************************************************************************)
(* The architecture's reading of a segment descriptor (Intel SDM vol. 3,  *)
(* 3.4.5) and of the VMCS access-rights format (24.4.1), in arithmetic:   *)
(* the reference the decoded guest segments are checked against.          *)
(***************************************************************************)
\* The base is 32 bits, zero-extended to the guest's 64-bit base field.
SdmBase(d) == <<d[2], (d[3] % 2^8) + (d[4] \div 2^8) * 2^8, 0, 0>>
SdmLimit(d) ==
  LET raw == d[1] + (d[4] % 2^4) * 2^16
  IN IF ((d[4] \div 2^7) % 2) = 1 THEN raw * 2^12 + (2^12 - 1) ELSE raw
SdmAccessRights(d) == (d[3] \div 2^8) + ((d[4] \div 2^4) % 2^4) * 2^12

=============================================================================
