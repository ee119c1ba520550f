------------------------------ MODULE MCPacker ------------------------------
(* The packer on small files (sizes in words, a page of 4 words) and on   *)
(* command lines that exercise every branch of parse_packer_cmdline.      *)
EXTENDS Packer

\* The default files, and files named on the command line: a spare one, a
\* too large one and an empty one; "nofile.bin" does not exist.
MCFiles == "starter.bin" :> 4 @@ "xmon_loader.bin" :> 2 @@ "startap.bin" :> 1
           @@ "xmon.bin" :> 2 @@ "alt.bin" :> 3 @@ "big.bin" :> 6 @@ "empty.bin" :> 0
\* The same without xmon.bin.
MCFilesNoXmon == [n \in DOMAIN MCFiles \ {"xmon.bin"} |-> MCFiles[n]]
MCFileSystems == {MCFiles, MCFilesNoXmon}

MCArgVectors ==
  { <<>>, <<"--xmon", "alt.bin">>, <<"--bogus", "alt.bin">>,
    <<"--startap", "--xmon">>, <<"--xmon", "big.bin">>, <<"--xmon", "empty.bin">>,
    <<"--xmon", "nofile.bin">>, <<"--startap", "alt.bin", "--xmon", "alt.bin">>,
    <<"--xmon">> }
\* starter.bin with both headers (boot header first, as starter.S
\* places it), and without one or the other.
MCStarterLayouts == {[boot |-> 0, map |-> 2], [boot |-> -1, map |-> 2], [boot |-> 0, map |-> -1]}
MCDashArgs == {"--starter", "--xmon_loader", "--startap", "--xmon", "--bogus"}
=============================================================================
