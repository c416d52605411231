-------------------------------- MODULE MCVm --------------------------------
EXTENDS Proc
vars == <<vmVars, procVars>>
Init == VmInit /\ ProcInit
\* Address spaces by themselves, or one of them as that of a process, which is
\* created and freed again and again beside the process of the kernel.
FirstSpace == CHOOSE s \in Spaces : TRUE
OneProcess == \A p \in Spaces \ {FirstSpace} : proc'[p] = FreeProc
Next == \/ halted = "off" /\ VmStep /\ UNCHANGED procVars
        \/ halted # "off" /\ ProcStep /\ OneProcess
Spec == Init /\ [][Next]_vars

RW == {"R", "W"}
SmallRegions ==
    {[start |-> 0, len |-> 2, size |-> 1, prot |-> RW],      \* two pages of one table
     [start |-> 2, len |-> 2, size |-> 2, prot |-> {"R"}],   \* a large page beside it
     [start |-> 4, len |-> 1, size |-> 1, prot |-> RW]}      \* under another base entry
DownPairs == {<<s2, FirstSpace>> : s2 \in Spaces \ {FirstSpace}}
MovesAsked ==
    {[dest |-> 1, src |-> 1, len |-> 2],                     \* with the same offset in their pages
     [dest |-> 1, src |-> 2, len |-> 2]}                     \* with another one
Symmetry == Permutations(Actors) \cup Permutations(Thrs)
=============================================================================
