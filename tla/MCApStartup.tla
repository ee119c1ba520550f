---------------------------- MODULE MCApStartup ----------------------------
(***************************************************************************)
(* Model-checking instance of ApStartup: a presence array of six entries  *)
(* and platforms of three to five processors, with a hole in the APIC ids.         *)
(***************************************************************************)
EXTENDS ApStartup

\* APIC ids 0 (BSP), 1, 2, 3 and 5: index 4 of ap_presence_array stays empty.
MCCpus == {0, 1, 2, 3, 5}
\* The BSP is not APIC id 0.
MCCpusBspOne == {0, 1, 3}
MCNoLate == {}
MCLateOne == {3}
MCProgramOrder == {"program"}
MCAnyOrder == {"program", "reordered"}

=============================================================================
