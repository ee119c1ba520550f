------------------------------- MODULE MCE820 -------------------------------
(* Maps of up to three descriptors over the EFI types that convert to each *)
(* e820 type: LoaderData, BootServicesData, RuntimeServicesData,          *)
(* ACPIReclaimMemory, ACPIMemoryNVS.                                       *)
EXTENDS E820

MCDescs == [type : {2, 4, 6, 9, 10}, base : {0, 1}, pages : {1}]
=============================================================================
