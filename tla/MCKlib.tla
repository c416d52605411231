------------------------------- MODULE MCKlib -------------------------------
(***************************************************************************)
(* The library of the kernel, one unit at a time: a behaviour picks a unit *)
(* and only its calls are made.                                            *)
(***************************************************************************)
EXTENDS Trees, Links, Sync, Clib, EarlyMalloc, CpuInfo

VARIABLE unit

RankByName == [e \in Elems |-> e \div 2]
KeyWithTwin == [n \in Nodes |-> IF n = 8 THEN 3 ELSE n]

AskedSizes == {24, 300}
GrownSizes == {24, 340}
AskedAlignments == {12, 64}
AskedBatches == {<<>>, <<300, 24, 340, 24, 300>>}
FootprintLimits == {0, 1000, MAX_SIZE_T}

vars == <<unit, treeVars, linkVars, syncVars, bitVars, clibVars, emallocVars, cpuVars>>
Init ==
    /\ unit \in {"rb", "splay", "links", "sync", "bits", "clib", "emalloc", "cpus"}
    /\ TreesInit /\ LinksInit /\ BitsInit /\ ClibInit /\ EarlyMallocInit /\ SyncInit /\ CpuInit
    /\ unit = "sync" \/ ie0 = [c \in CPUs |-> TRUE]
Next ==
    /\ UNCHANGED unit
    /\ \/ unit = "rb" /\ RbStep /\ UNCHANGED <<linkVars, syncVars, bitVars, clibVars, emallocVars, cpuVars>>
       \/ unit = "splay" /\ SplayStep /\ UNCHANGED <<linkVars, syncVars, bitVars, clibVars, emallocVars, cpuVars>>
       \/ unit = "links" /\ LinksStep /\ UNCHANGED <<treeVars, syncVars, bitVars, clibVars, emallocVars, cpuVars>>
       \/ unit = "sync" /\ SyncStep /\ UNCHANGED <<treeVars, linkVars, bitVars, clibVars, emallocVars, cpuVars>>
       \/ unit = "bits" /\ BitsStep /\ UNCHANGED <<treeVars, linkVars, syncVars, clibVars, emallocVars, cpuVars>>
       \/ unit = "clib" /\ ClibStep /\ UNCHANGED <<treeVars, linkVars, syncVars, bitVars, emallocVars, cpuVars>>
       \/ unit = "emalloc" /\ EarlyMallocStep /\ UNCHANGED <<treeVars, linkVars, syncVars, bitVars, clibVars, cpuVars>>
       \/ unit = "cpus" /\ CpuStep /\ UNCHANGED <<treeVars, linkVars, syncVars, bitVars, clibVars, emallocVars>>
Spec == Init /\ [][Next]_vars

(* What has no pointers and no concurrency of its own: a search in a       *)
(* bitmap finds the bit its users look for (klib/bitops.c); memory,        *)
(* strings, formats and dates agree with their reference definitions, but  *)
(* for the cases CallsCorrect lists, where the code departs from its       *)
(* comments; and registering a processor keeps the map (kern/cpuinfo.c),   *)
(* as far as CpuMapSound says.                                             *)
FunctionsCorrect == (unit = "bits" => SearchesFind) /\ (unit = "clib" => CallsCorrect) /\ CpuMapSound
=============================================================================
