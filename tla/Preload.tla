------------------------------- MODULE Preload -------------------------------
(***************************************************************************)
(* The UEFI preload stage (uefi_bootloader/preload.c): efi_main reads the  *)
(* packed image ikgt_pkg.bin into a firmware buffer (load_image), finds    *)
(* its boot header, allocates load-time and run-time memory, copies the    *)
(* package, allocates the platform_info block, checks VMX, calls the xmon  *)
(* loader and, at label out, releases what it holds.                       *)
(*                                                                         *)
(* Every firmware call (OpenProtocol, Open, AllocatePages, Read, ...) may  *)
(* succeed or fail: each outcome is a disjunct of the step that makes the  *)
(* call.  Memory is tracked per region ("none", "held", "freed"); a file   *)
(* handle per handle.  Sizes are in bytes of a page of PageBytes bytes.    *)
(*                                                                         *)
(* The boot header's rt_mem_base / rt_mem_size / ldr_mem_base /            *)
(* ldr_mem_size are UINT32 fields in that order, and AllocatePages reads   *)
(* and writes the 8-byte EFI_PHYSICAL_ADDRESS at &..._mem_base: its low    *)
(* half is the base field, its high half the size field after it.  A      *)
(* 64-bit address is the record [hi, lo] of those halves; the firmware     *)
(* hands out pages at the addresses FwAddrs.                               *)
(* Closing a NULL handle dereferences NULL (close_file calls               *)
(* FileHandle->Close): the step moves to pc = "undefined".                 *)
(***************************************************************************)
EXTENDS Naturals

CONSTANTS FileSizes,   \* sizes of ikgt_pkg.bin the firmware may report
          PageBytes,   \* bytes in an EFI page
          Headers,     \* [ldr, rt |-> [base, size]]: the package's boot headers
          FwAddrs,     \* [hi, lo] addresses of the pages the firmware can allocate
          HighAddr     \* HIGH_ADDR

ASSUME FileSizes \subseteq 1..(4 * PageBytes) /\ PageBytes \in Nat \ {0}

Regions == {"buf", "ldr", "rt", "platform"}
Handles == {"root", "file"}

VARIABLES
  pc,           \* position in efi_main (and load_image)
  err,          \* EFI_STATUS err: "success" or "error"
  res,          \* region -> "none" | "held" | "freed"
  hnd,          \* handle -> "null" | "open" | "closed"
  imageSet,     \* image_addr != HIGH_ADDR
  platformSet,  \* platform_addr != HIGH_ADDR
  allocFlag,    \* alloc_flag
  fileSize,     \* info->FileSize
  vmxOn,        \* check_vmx_support() returned 0
  loaderCalled, \* call_loader(platform_info) was made
  ret,          \* efi_main's return value once pc = "returned"
  hdr,          \* ikgt_header's ldr / rt base and size fields
  region,       \* ldr / rt -> [addr, pages] AllocatePages gave for it
  badFree,      \* ghost: free_pages of a region not held
  hdrAfterFree, \* ghost: ikgt_header read after its buffer was freed
  nulPastEnd    \* ghost: buf[buflen] written outside the allocated pages

vars == <<pc, err, res, hnd, imageSet, platformSet, allocFlag, fileSize,
          vmxOn, loaderCalled, ret, hdr, region, badFree, hdrAfterFree, nulPastEnd>>

\* EFI_SIZE_TO_PAGES
SizeToPages(n) == (n + PageBytes - 1) \div PageBytes

\* allocate_pages succeeding for region r.
Alloc(r) == res' = [res EXCEPT ![r] = "held"]

\* free_pages of the regions in R, each noted as bad if it is not held, and
\* of pages no region of R is (stray).
FreeAll(R, stray) ==
  /\ res' = [x \in Regions |-> IF x \in R THEN "freed" ELSE res[x]]
  /\ badFree' = (badFree \/ stray \/ \E x \in R : res[x] # "held")

\* The 8 bytes at &ikgt_header->{r}_mem_base: the base field and, above it,
\* the size field.
MemBaseWord(r) == [hi |-> hdr[r].size, lo |-> hdr[r].base]

\* Unsigned comparison of two 64-bit addresses.
AddrLeq(a, b) == a.hi < b.hi \/ (a.hi = b.hi /\ a.lo <= b.lo)

\* Pages the firmware can hand out for region r: not held by another region.
FreeFwAddrs(r) ==
  {a \in FwAddrs : \A x \in {"ldr", "rt"} \ {r} : res[x] = "held" => region[x].addr # a}

\* close_file(h) on an open handle; on NULL it dereferences NULL.
CloseFile(h) == hnd[h] = "open"

Init ==
  /\ pc = "protocol"
  /\ err = "success"
  /\ res = [r \in Regions |-> "none"]
  /\ hnd = [h \in Handles |-> "null"]
  /\ imageSet = FALSE /\ platformSet = FALSE /\ allocFlag = FALSE
  /\ fileSize \in FileSizes
  /\ vmxOn = FALSE /\ loaderCalled = FALSE
  /\ ret = "none"
  /\ hdr \in Headers
  /\ region = [r \in {"ldr", "rt"} |-> [addr |-> [hi |-> 0, lo |-> 0], pages |-> 0]]
  /\ badFree = FALSE /\ hdrAfterFree = FALSE /\ nulPastEnd = FALSE

\* open_protocol(ImageHandle, &efi_loaded_image): on error efi_main returns
\* at once, without going through out.
OpenProtocol ==
  /\ pc = "protocol"
  /\ \/ pc' = "root" /\ UNCHANGED <<err, ret>>
     \/ pc' = "returned" /\ err' = "error" /\ ret' = "error"
  /\ UNCHANGED <<res, hnd, imageSet, platformSet, allocFlag, fileSize, vmxOn,
                 loaderCalled, badFree, hdrAfterFree, nulPastEnd>>
  /\ UNCHANGED <<hdr, region>>

\* root_dir = LibOpenRoot(...): NULL goes to out with err still success.
OpenRoot ==
  /\ pc = "root"
  /\ \/ pc' = "load" /\ hnd' = [hnd EXCEPT !["root"] = "open"]
     \/ pc' = "out" /\ UNCHANGED hnd
  /\ UNCHANGED <<err, res, imageSet, platformSet, allocFlag, fileSize, vmxOn,
                 loaderCalled, ret, badFree, hdrAfterFree, nulPastEnd>>
  /\ UNCHANGED <<hdr, region>>

(***************************************************************************)
(* load_image(root_dir, IMAGE_NAME, &image_addr, &image_size), whole: open *)
(* the file, allocate FileSize+1 bytes of pages, read, NUL-terminate at    *)
(* buf[buflen], and at its out label close the handle.  A failed open      *)
(* leaves handle NULL, so close_file(NULL) is reached; a failed read frees *)
(* the buffer.  efi_main goes to out on any error.                         *)
(***************************************************************************)
\* Read fails: the buffer is freed inside load_image, image_addr untouched.
ReadFailsKeepBuffer ==
  /\ err' = "error" /\ pc' = "out"
  /\ Alloc("buf")
  /\ hnd' = [hnd EXCEPT !["file"] = "closed"]
  /\ UNCHANGED <<imageSet, badFree, nulPastEnd>>

ReadFails ==
  /\ err' = "error" /\ pc' = "out"
  /\ res' = [res EXCEPT !["buf"] = "freed"]
  /\ hnd' = [hnd EXCEPT !["file"] = "closed"]
  /\ UNCHANGED <<imageSet, badFree, nulPastEnd>>

LoadImage ==
  LET buflen == fileSize + 1 IN
  /\ pc = "load"
  /\ \/ /\ pc' = "undefined"                          \* open fails
        /\ err' = "error"
        /\ UNCHANGED <<res, hnd, imageSet, badFree, nulPastEnd>>
     \/ /\ err' = "error" /\ pc' = "out"              \* allocation fails
        /\ hnd' = [hnd EXCEPT !["file"] = "closed"]
        /\ UNCHANGED <<res, imageSet, badFree, nulPastEnd>>
     \/ ReadFails
     \/ /\ pc' = "header" /\ UNCHANGED err             \* read succeeds
        /\ Alloc("buf") /\ imageSet' = TRUE
        /\ nulPastEnd' = (buflen >= SizeToPages(buflen) * PageBytes)
        /\ hnd' = [hnd EXCEPT !["file"] = "closed"]
        /\ UNCHANGED badFree
  /\ UNCHANGED <<platformSet, allocFlag, fileSize, vmxOn, loaderCalled, ret,
                 hdrAfterFree>>
  /\ UNCHANGED <<hdr, region>>

\* ikgt_header = find_header(image_addr, image_size): the magic is there
\* or not; not found goes to out with err success.
FindHeader ==
  /\ pc = "header"
  /\ pc' \in {"ldr", "out"}
  /\ UNCHANGED <<err, res, hnd, imageSet, platformSet, allocFlag, fileSize,
                 vmxOn, loaderCalled, ret, badFree, hdrAfterFree, nulPastEnd>>
  /\ UNCHANGED <<hdr, region>>

\* allocate_pages(AllocateAddress, .., EFI_SIZE_TO_PAGES(size),
\* &ikgt_header->{r}_mem_base): the firmware reads the requested address
\* from the 8 bytes there -- the base field with the size field as its high
\* half -- and can allocate only pages it has.  On failure the retry at
\* pc = retry follows.  A successful run-time allocation sets alloc_flag.
AllocFixed(r, stage, retry, next) ==
  LET a == MemBaseWord(r) IN
  /\ pc = stage
  /\ \/ /\ a \in FreeFwAddrs(r)
        /\ Alloc(r) /\ pc' = next
        /\ region' = [region EXCEPT ![r] = [addr |-> a, pages |-> SizeToPages(hdr[r].size)]]
     \/ pc' = retry /\ UNCHANGED <<res, region>>
  /\ allocFlag' = (allocFlag \/ (r = "rt" /\ res'[r] = "held"))
  /\ UNCHANGED hdr

\* {r}_mem_base = HIGH_ADDR, a 32-bit store, then allocate_pages(
\* AllocateMaxAddress, ..): any free pages at or below the 8 bytes at
\* &{r}_mem_base, whose address the firmware writes back over the base
\* field and the size field after it.  A second failure goes to out.
AllocAny(r, retry, next) ==
  LET n == SizeToPages(hdr[r].size)
      max == [hi |-> hdr[r].size, lo |-> HighAddr]
  IN
  /\ pc = retry
  /\ \/ \E a \in FreeFwAddrs(r) :
          /\ AddrLeq(a, max)
          /\ Alloc(r) /\ pc' = next /\ UNCHANGED err
          /\ region' = [region EXCEPT ![r] = [addr |-> a, pages |-> n]]
          /\ hdr' = [hdr EXCEPT ![r] = [base |-> a.lo, size |-> a.hi]]
     \/ /\ pc' = "out" /\ err' = "error" /\ UNCHANGED <<res, region>>
        /\ hdr' = [hdr EXCEPT ![r].base = HighAddr]
  /\ allocFlag' = (allocFlag \/ (r = "rt" /\ res'[r] = "held"))

AllocLdr ==
  /\ \/ AllocFixed("ldr", "ldr", "ldr_any", "rt") /\ UNCHANGED err
     \/ AllocAny("ldr", "ldr_any", "rt")
  /\ UNCHANGED <<hnd, imageSet, platformSet, fileSize, vmxOn, loaderCalled, ret,
                 badFree, hdrAfterFree, nulPastEnd>>

AllocRt ==
  /\ \/ AllocFixed("rt", "rt", "rt_any", "platform") /\ UNCHANGED err
     \/ AllocAny("rt", "rt_any", "platform")
  /\ UNCHANGED <<hnd, imageSet, platformSet, fileSize, vmxOn, loaderCalled, ret,
                 badFree, hdrAfterFree, nulPastEnd>>

\* allocate_pages for platform_info, then its fields are filled in
\* (LibMemoryMap, load_addr, run_addr) and call_loader computed.
AllocPlatform ==
  /\ pc = "platform"
  /\ \/ Alloc("platform") /\ platformSet' = TRUE /\ pc' = "vmx" /\ UNCHANGED err
     \/ pc' = "out" /\ err' = "error" /\ UNCHANGED <<res, platformSet>>
  /\ UNCHANGED <<hnd, imageSet, allocFlag, fileSize, vmxOn, loaderCalled, ret,
                 badFree, hdrAfterFree, nulPastEnd>>
  /\ UNCHANGED <<hdr, region>>

\* check_vmx_support(): VT present and VMX not locked off; otherwise out,
\* with err still success.
CheckVmx ==
  /\ pc = "vmx"
  /\ \/ vmxOn' = TRUE /\ pc' = "call"
     \/ vmxOn' = FALSE /\ pc' = "out"
  /\ UNCHANGED <<err, res, hnd, imageSet, platformSet, allocFlag, fileSize,
                 loaderCalled, ret, badFree, hdrAfterFree, nulPastEnd>>
  /\ UNCHANGED <<hdr, region>>

\* call_loader(platform_info) (never NULL: ldr_mem_base is a page address),
\* and when it returns check_vmx_support() once more.
CallLoader ==
  /\ pc = "call"
  /\ loaderCalled' = TRUE
  /\ pc' = "out"
  /\ UNCHANGED <<err, res, hnd, imageSet, platformSet, allocFlag, fileSize,
                 vmxOn, ret, badFree, hdrAfterFree, nulPastEnd>>
  /\ UNCHANGED <<hdr, region>>

ReleaseSet ==
  {r \in Regions : \/ r = "buf" /\ imageSet
                   \/ r = "platform" /\ platformSet
                   \/ r = "ldr" /\ allocFlag}

\* free_pages(ikgt_header->ldr_mem_base, EFI_SIZE_TO_PAGES(ldr_mem_size)):
\* the UINT32 base widened to 64 bits and the size field as it now reads.
LdrFreeArg == [addr |-> [hi |-> 0, lo |-> hdr["ldr"].base],
               pages |-> SizeToPages(hdr["ldr"].size)]

\* The frees at out: the package buffer and platform_info by their own
\* addresses; load-time memory releases its pages when the header still
\* names them, nothing when the size reads as 0, and other pages otherwise.
ReleaseAtOut ==
  LET ldr == "ldr" \in ReleaseSet
      exact == ldr /\ LdrFreeArg = region["ldr"]
      stray == ldr /\ LdrFreeArg.pages > 0 /\ LdrFreeArg # region["ldr"]
  IN FreeAll((ReleaseSet \ {"ldr"}) \cup (IF exact THEN {"ldr"} ELSE {}), stray)

CleanupReturnsStatus ==
  /\ pc = "out"
  /\ ReleaseAtOut
  /\ hdrAfterFree' = (hdrAfterFree \/ (allocFlag /\ imageSet))
  /\ IF CloseFile("root")
       THEN /\ hnd' = [hnd EXCEPT !["root"] = "closed"]
            /\ pc' = "returned"
            /\ ret' = IF err = "success" THEN "success" ELSE "error"
       ELSE pc' = "undefined" /\ UNCHANGED <<hnd, ret>>
  /\ UNCHANGED <<err, imageSet, platformSet, allocFlag, fileSize, vmxOn,
                 loaderCalled, nulPastEnd, hdr, region>>

Cleanup ==
  /\ pc = "out"
  /\ ReleaseAtOut
  /\ hdrAfterFree' = (hdrAfterFree \/ (allocFlag /\ imageSet))
  /\ IF CloseFile("root")
       THEN /\ hnd' = [hnd EXCEPT !["root"] = "closed"]
            /\ pc' = "returned"
            /\ ret' = IF err = "success" THEN "not_found" ELSE "error"
       ELSE pc' = "undefined" /\ UNCHANGED <<hnd, ret>>
  /\ UNCHANGED <<err, imageSet, platformSet, allocFlag, fileSize, vmxOn,
                 loaderCalled, nulPastEnd, hdr, region>>

Next ==
  \/ OpenProtocol \/ OpenRoot \/ LoadImage \/ FindHeader
  \/ AllocLdr \/ AllocRt \/ AllocPlatform \/ CheckVmx \/ CallLoader
  \/ Cleanup

Spec == Init /\ [][Next]_vars

-----------------------------------------------------------------------------

TypeOK ==
  /\ pc \in {"protocol", "root", "load", "header", "ldr", "ldr_any", "rt",
             "rt_any", "platform", "vmx", "call", "out", "returned", "undefined"}
  /\ err \in {"success", "error"}
  /\ res \in [Regions -> {"none", "held", "freed"}]
  /\ hnd \in [Handles -> {"null", "open", "closed"}]
  /\ ret \in {"none", "not_found", "error"}
  /\ fileSize \in FileSizes
  /\ hdr \in [{"ldr", "rt"} -> [base : Nat, size : Nat]]
  /\ region \in [{"ldr", "rt"} -> [addr : [hi : Nat, lo : Nat], pages : Nat]]
  /\ {imageSet, platformSet, allocFlag, vmxOn, loaderCalled,
      badFree, hdrAfterFree, nulPastEnd} \subseteq BOOLEAN

\* Every free_pages in load_image and at out releases pages this run of
\* efi_main holds: the sentinels image_addr / platform_addr and alloc_flag
\* are set exactly when the matching allocation succeeded.
FreesOnlyAllocated == ~badFree

\* The package buffer read by load_image is released on every path that
\* returns: by load_image itself when the read fails, at out otherwise.
PackageReleased == pc = "returned" => res["buf"] # "held"

LoadTimeReleased == pc = "returned" => res["ldr"] # "held"

\* Run-time memory (EfiReservedMemoryType) stays reserved only when the
\* hypervisor was actually launched into it.
RuntimeKeptOnlyIfLaunched == (pc = "returned" /\ ~loaderCalled) => res["rt"] # "held"

\* The boot header is never read from the package buffer after that buffer
\* has been given back to the firmware.
NoHeaderUseAfterFree == ~hdrAfterFree

\* The terminating NUL of load_image lands inside the pages it allocated.
NulInsideBuffer == ~nulPastEnd

\* efi_main never calls close_file on a NULL handle.
NoNullClose == pc # "undefined"

=============================================================================
