------------------------------- MODULE Packer -------------------------------
(***************************************************************************)
(* The build-time packer (pre_os/tools/xmon_packer.c): main checks the     *)
(* files_options[] table, parses --option file pairs, sizes the four      *)
(* files (starter, xmon_loader, startap, xmon), checks the total against   *)
(* LOADER_BIN_SIZE, appends the files to ikgt_pkg.bin, writes the file    *)
(* mapping header found in starter.bin, and finally patches the boot     *)
(* header found in the package and pads the package to 4 KB.              *)
(*                                                                         *)
(* Files are measured in 4-byte words: both header searches step through *)
(* the data a word (unsigned int) at a time.  A word of the package is    *)
(* [t |-> "file", f |-> file index, k |-> word of that file], a word of a *)
(* written header, or padding.  What starter.bin holds (starter.S, not in *)
(* the repository) is a constant: where its two headers' magics lie.      *)
(***************************************************************************)
EXTENDS Integers, Sequences, FiniteSets, TLC

CONSTANTS ArgVectors,      \* argv[1..argc-1] given to the packer
          DashArgs,        \* the arguments that start with "--"
          FileSystems,     \* file name -> size in words, or -1 (stat fails)
          LoaderBinSize,   \* LOADER_BIN_SIZE, in words
          Page,            \* 4 KB, in words
          StarterLayouts,  \* [map, boot]: the words of starter.bin holding
                           \* MAPPING_HEADER_MAGIC0 and the 64-bit magic's
                           \* low half; -1 for a starter.bin without one
          MapHdrWords,     \* sizeof(xmon_loaderbin_file_mapping_header_t)
          BootHdrWords,    \* sizeof(ikgt_loader_boot_header_t)
          IoCanFail        \* whether fopen/fread/fwrite/remove may fail

Files == 0..3                       \* index in files_options[]
Bins == 1..3                        \* the files the mapping header describes
OptionName == 0 :> "--starter" @@ 1 :> "--xmon_loader" @@ 2 :> "--startap" @@ 3 :> "--xmon"
DefaultName == 0 :> "starter.bin" @@ 1 :> "xmon_loader.bin" @@ 2 :> "startap.bin" @@ 3 :> "xmon.bin"

\* INDEX_TO_BITMAP_FLAG: files_options[i].flag, 0 for starter.bin.
Flag(i) == IF i = 0 THEN 0 ELSE 2 ^ (i - 1)

\* ALIGN_4K
Align4K(n) == ((n + Page - 1) \div Page) * Page

\* The content of word k (0-based) of file f: starter.bin carries the two
\* magics, split over two words each.
Content(f, k, lay) ==
  CASE f = 0 /\ lay.map # -1 /\ k = lay.map -> "MAGIC0"
    [] f = 0 /\ lay.map # -1 /\ k = lay.map + 1 -> "MAGIC1"
    [] f = 0 /\ lay.boot # -1 /\ k = lay.boot -> "BOOTLO"
    [] f = 0 /\ lay.boot # -1 /\ k = lay.boot + 1 -> "BOOTHI"
    [] OTHER -> "data"

\* The value a word of the package holds.
Value(w, lay) ==
  CASE w.t = "file" -> Content(w.f, w.k, lay)
    [] w.t = "maphdr" /\ w.k = 0 -> "MAGIC0"
    [] w.t = "maphdr" /\ w.k = 1 -> "MAGIC1"
    [] w.t = "boothdr" /\ w.k = 0 -> "BOOTLO"
    [] w.t = "boothdr" /\ w.k = 1 -> "BOOTHI"
    [] OTHER -> "other"

FileWords(f, n) == [j \in 1..n |-> [t |-> "file", f |-> f, k |-> j - 1]]

\* fwrite of the words ws at word offset off of a file holding s (fseek
\* past the end extends the file).
Max2(a, b) == IF a >= b THEN a ELSE b
WriteAt(s, off, ws) ==
  [j \in 1..Max2(Len(s), off + Len(ws)) |->
     IF j > off /\ j <= off + Len(ws) THEN ws[j - off] ELSE s[j]]

\* The first word p of buf, with p < len - 1 (the loop bound
\* tmp < buf + fsize - 4), where the two words lo, hi start; -1 if none.
Search(buf, lo, hi, lay) ==
  LET hits == {p \in 0..Len(buf) - 2 : Value(buf[p + 1], lay) = lo /\ Value(buf[p + 2], lay) = hi}
  IN IF hits = {} THEN -1 ELSE CHOOSE p \in hits : \A q \in hits : p <= q

SumSizes(sz) == sz[0] + sz[1] + sz[2] + sz[3]

VARIABLES pc,      \* the stage of main
          argv,    \* argv[1..argc-1]
          ci,      \* cmd_idx of parse_packer_cmdline
          names,   \* files_options[i].file_name
          fs,      \* the file system the packer runs on
          layout,  \* where starter.bin holds its headers
          fsize,   \* files_options[i].fsize
          offset,  \* files_options[i].offset
          fi,      \* file_idx of the loop being run
          pkg,     \* the words of ikgt_pkg.bin
          pkgOld,  \* ikgt_pkg.bin is the file of an earlier run
          ret      \* main's return value

pvars == <<pc, argv, ci, names, fs, layout, fsize, offset, fi, pkg, pkgOld, ret>>

Init ==
  /\ pc = "check"
  /\ argv \in ArgVectors
  /\ ci = 1
  /\ names = DefaultName
  /\ fs \in FileSystems
  /\ layout \in StarterLayouts
  /\ fsize = [i \in Files |-> 0]
  /\ offset = [i \in Files |-> 0]
  /\ fi = 0
  /\ pkg = <<>>
  /\ pkgOld \in BOOLEAN
  /\ ret = 0

\* An error return of main's stages: goto error, cmdline_help, return -1.
Fail == pc' = "help" /\ ret' = -1

\* check_file_array_assumptions: starter.bin first, the flags in
\* FILE_PACK_INDEX order; files_options[] satisfies both.
CheckFileArrayAssumptions ==
  /\ pc = "check"
  /\ OptionName[0] = "--starter" /\ \A i \in Bins : Flag(i) = 2 ^ (i - 1)
  /\ pc' = "parse"
  /\ UNCHANGED <<argv, ci, names, fs, layout, fsize, offset, fi, pkg, pkgOld, ret>>

\* The loop turn without its cmd_idx increments.
ParseOptionNoAdvance ==
  /\ pc = "parse" /\ ci <= Len(argv)
  /\ IF \A i \in Files : OptionName[i] # argv[ci]
       THEN Fail /\ UNCHANGED <<ci, names>>
     ELSE LET i == CHOOSE i \in Files : OptionName[i] = argv[ci] IN
       IF ci + 1 > Len(argv) THEN pc' = "crashed" /\ UNCHANGED <<ci, names, ret>>
       ELSE IF argv[ci + 1] \in DashArgs THEN Fail /\ UNCHANGED <<ci, names>>
       ELSE /\ names' = [names EXCEPT ![i] = argv[ci + 1]]
            /\ UNCHANGED <<pc, ret, ci>>
  /\ UNCHANGED <<argv, fs, layout, fsize, offset, fi, pkg, pkgOld>>

\* One turn of the loop of parse_packer_cmdline: argv[cmd_idx] must be an
\* option; argv[cmd_idx + 1], read without checking cmd_idx + 1 < argc,
\* must not start with "--" and becomes that file's name.  argv[argc] is
\* NULL, and strncmp(NULL, "--", 2) faults.
ParseOption ==
  /\ pc = "parse" /\ ci <= Len(argv)
  /\ IF \A i \in Files : OptionName[i] # argv[ci]
       THEN Fail /\ UNCHANGED <<ci, names>>
     ELSE LET i == CHOOSE i \in Files : OptionName[i] = argv[ci] IN
       IF ci + 1 > Len(argv) THEN pc' = "crashed" /\ UNCHANGED <<ci, names, ret>>
       ELSE IF argv[ci + 1] \in DashArgs THEN Fail /\ UNCHANGED <<ci, names>>
       ELSE /\ names' = [names EXCEPT ![i] = argv[ci + 1]]
            /\ ci' = ci + 2
            /\ UNCHANGED <<pc, ret>>
  /\ UNCHANGED <<argv, fs, layout, fsize, offset, fi, pkg, pkgOld>>

ParseDone ==
  /\ pc = "parse" /\ ci > Len(argv)
  /\ pc' = "info" /\ fi' = 0
  /\ UNCHANGED <<argv, ci, names, fs, layout, fsize, offset, pkg, pkgOld, ret>>

\* get_file_size: stat's st_size, or -1.
GetFileSize(n) == IF n \in DOMAIN fs THEN fs[n] ELSE -1

\* The offset of a file taken as the previous file's offset alone.
UpdateFileInfoNoPrevSize ==
  LET sz == GetFileSize(names[fi]) IN
  /\ pc = "info"
  /\ IF sz \in {0, -1} THEN Fail /\ UNCHANGED <<fsize, offset, fi>>
     ELSE /\ fsize' = [fsize EXCEPT ![fi] = sz]
          /\ offset' = IF fi = 0 THEN offset ELSE [offset EXCEPT ![fi] = offset[fi - 1]]
          /\ fi' = IF fi = 3 THEN 0 ELSE fi + 1
          /\ pc' = IF fi = 3 THEN "sizecheck" ELSE "info"
          /\ UNCHANGED ret
  /\ UNCHANGED <<argv, ci, names, fs, layout, pkg, pkgOld>>

\* One turn of the first loop of update_file_info (every entry has
\* must_exist and a file name): a size of 0 or -1 is an error, otherwise
\* fsize is set and offset = previous offset + previous fsize.  The second
\* loop cannot fail once the first has passed.
UpdateFileInfo ==
  LET sz == GetFileSize(names[fi]) IN
  /\ pc = "info"
  /\ IF sz \in {0, -1} THEN Fail /\ UNCHANGED <<fsize, offset, fi>>
     ELSE /\ fsize' = [fsize EXCEPT ![fi] = sz]
          /\ offset' = IF fi = 0 THEN offset
                       ELSE [offset EXCEPT ![fi] = offset[fi - 1] + fsize[fi - 1]]
          /\ fi' = IF fi = 3 THEN 0 ELSE fi + 1
          /\ pc' = IF fi = 3 THEN "sizecheck" ELSE "info"
          /\ UNCHANGED ret
  /\ UNCHANGED <<argv, ci, names, fs, layout, pkg, pkgOld>>

\* total_file_size_check against LOADER_BIN_SIZE.
TotalFileSizeCheck ==
  /\ pc = "sizecheck"
  /\ IF SumSizes(fsize) > LoaderBinSize THEN Fail ELSE pc' = "remove" /\ UNCHANGED ret
  /\ UNCHANGED <<argv, ci, names, fs, layout, fsize, offset, fi, pkg, pkgOld>>

(***************************************************************************)
(* pack_files: remove the old ikgt_pkg.bin (an error other than ENOENT   *)
(* stops), open it for appending, then per file read it whole and append *)
(* it.  A failed read or append leaves the words appended so far.        *)
(***************************************************************************)
PackOpen ==
  /\ pc = "remove"
  /\ \/ /\ IoCanFail /\ pkgOld
        /\ Fail /\ UNCHANGED <<pkg, pkgOld, fi>>
     \/ /\ IoCanFail
        /\ pkg' = <<>> /\ pkgOld' = FALSE
        /\ Fail /\ UNCHANGED fi
     \/ /\ pkg' = <<>> /\ pkgOld' = FALSE
        /\ pc' = "pack" /\ fi' = 0 /\ UNCHANGED ret
  /\ UNCHANGED <<argv, ci, names, fs, layout, fsize, offset>>

PackFile ==
  /\ pc = "pack"
  /\ \/ IoCanFail /\ Fail /\ UNCHANGED <<pkg, fi>>
     \/ /\ pkg' = pkg \o FileWords(fi, fsize[fi])
        /\ fi' = IF fi = 3 THEN 0 ELSE fi + 1
        /\ pc' = IF fi = 3 THEN "filehdr" ELSE "pack"
        /\ UNCHANGED ret
  /\ UNCHANGED <<argv, ci, names, fs, layout, fsize, offset, pkgOld>>

\* get_file_hdr_info: the flags of the files present and, for each file
\* after starter.bin, files[file_idx - 1] = its offset and size.
FileHdrInfo(sz, off) ==
  [flags |-> {i \in Files : sz[i] # 0},
   files |-> [b \in Bins |-> [offset |-> off[b], size |-> sz[b]]]]

MapHdrWordsOf(h) == [j \in 1..MapHdrWords |-> [t |-> "maphdr", k |-> j - 1, hdr |-> h]]

\* update_file_header: get_file_header_location reads starter.bin and
\* searches it for the two magics (not found leaves hdr_offset at -1),
\* then the header is written at that offset of the package.
UpdateFileHeader ==
  LET loc == Search(FileWords(0, fsize[0]), "MAGIC0", "MAGIC1", layout) IN
  /\ pc = "filehdr"
  /\ \/ IoCanFail /\ Fail /\ UNCHANGED pkg
     \/ loc = -1 /\ Fail /\ UNCHANGED pkg
     \/ /\ loc # -1
        /\ pkg' = WriteAt(pkg, loc, MapHdrWordsOf(FileHdrInfo(fsize, offset)))
        /\ pc' = "boothdr" /\ UNCHANGED ret
  /\ UNCHANGED <<argv, ci, names, fs, layout, fsize, offset, fi, pkgOld>>

BootHdrWordsOf(size) == [j \in 1..BootHdrWords |-> [t |-> "boothdr", k |-> j - 1, image_size |-> size]]

\* update_boot_header without the padding.
UpdateBootHeaderNoPad ==
  LET total == SumSizes(fsize)
      loc == Search(SubSeq(pkg, 1, total), "BOOTLO", "BOOTHI", layout)
  IN /\ pc = "boothdr"
     /\ \/ IoCanFail /\ Fail /\ UNCHANGED pkg
        \/ loc = -1 /\ Fail /\ UNCHANGED pkg
        \/ /\ loc # -1
           /\ pkg' = WriteAt(pkg, loc, BootHdrWordsOf(Align4K(total)))
           /\ pc' = "done" /\ UNCHANGED ret
     /\ UNCHANGED <<argv, ci, names, fs, layout, fsize, offset, fi, pkgOld>>

\* update_boot_header: read the package back (its summed size), find the
\* 64-bit magic, set the fields -- image_size = ALIGN_4K(fsize) -- write
\* the header back, and append ALIGN_4K(fsize) - fsize zero bytes at the
\* end of the file.
UpdateBootHeader ==
  LET total == SumSizes(fsize)
      buf == SubSeq(pkg, 1, total)
      loc == Search(buf, "BOOTLO", "BOOTHI", layout)
      patched == WriteAt(pkg, loc, BootHdrWordsOf(Align4K(total)))
  IN /\ pc = "boothdr"
     /\ \/ IoCanFail /\ Fail /\ UNCHANGED pkg
        \/ loc = -1 /\ Fail /\ UNCHANGED pkg
        \/ /\ loc # -1
           /\ pkg' = patched \o [j \in 1..Align4K(total) - total |-> [t |-> "pad"]]
           /\ pc' = "done" /\ UNCHANGED ret
     /\ UNCHANGED <<argv, ci, names, fs, layout, fsize, offset, fi, pkgOld>>

Next ==
  \/ CheckFileArrayAssumptions \/ ParseOption \/ ParseDone \/ UpdateFileInfo
  \/ TotalFileSizeCheck \/ PackOpen \/ PackFile \/ UpdateFileHeader
  \/ UpdateBootHeader

\* The packer is one sequential process that runs to its return.
Spec == Init /\ [][Next]_pvars /\ WF_pvars(Next)

-----------------------------------------------------------------------------

\* The mapping header and boot header as they stand in the package.
MapHdrIn(s) == {s[j].hdr : j \in {j \in DOMAIN s : s[j].t = "maphdr"}}
BootSizesIn(s) == {s[j].image_size : j \in {j \in DOMAIN s : s[j].t = "boothdr"}}

\* A package the packer reports as made describes itself: the mapping
\* header starter_main reads names, for xmon_loader.bin, startap.bin and
\* xmon.bin, an offset and size whose words in the package are exactly that
\* file's -- offsets computed in update_file_info, the order pack_files
\* appends in and the two header writes all agree.
PackageLayout ==
  pc = "done" =>
    \E h \in MapHdrIn(pkg) :
      /\ MapHdrIn(pkg) = {h}
      /\ \A b \in Bins :
           /\ h.files[b].size = fsize[b]
           /\ h.files[b].offset + h.files[b].size <= Len(pkg)
           /\ SubSeq(pkg, h.files[b].offset + 1, h.files[b].offset + h.files[b].size)
                = FileWords(b, fsize[b])

\* The boot header's image_size is the package's length, a whole number of
\* pages, and the package fits the LOADER_BIN_SIZE the loader reserves.
ImageSizeMatches ==
  pc = "done" =>
    /\ BootSizesIn(pkg) = {Len(pkg)}
    /\ Len(pkg) % Page = 0
    /\ Len(pkg) <= LoaderBinSize

\* main never faults on its command line.
NoCrash == pc # "crashed"

\* main returns.
PackerEnds == <>(pc \in {"done", "help", "crashed"})

=============================================================================
