------------------------------- MODULE CpuInfo ------------------------------
(***************************************************************************)
(* The map of the processors (kern/cpuinfo.c): each hart registers itself  *)
(* at boot, under the lock of the map, and asks later who it is; the index *)
(* by physical number is a red-black tree over the entries of the map.     *)
(***************************************************************************)
EXTENDS Integers, FiniteSets, FiniteSetsExt

CONSTANTS
    KC_CPUS_NR, \* entries of the map
    Harts       \* physical numbers

ASSUME CpuAssumption == KC_CPUS_NR \in Nat \ {0} /\ Harts \subseteq Nat

Cpus == 0 .. KC_CPUS_NR - 1
NoCpu == -1
T == INSTANCE RbTree WITH Nodes <- Cpus, NULL <- NoCpu

VARIABLES
    cpumap,     \* the tree, the bitmaps available and online, and the entries
    stopped     \* the kassert that failed, or "no"

cpuVars == <<cpumap, stopped>>

krn_cpuinfo_init ==
    [head |-> T!RB_INIT, available |-> {}, online |-> {},
     cpuinfo |-> [c \in Cpus |-> [log_id |-> 0, phys_id |-> 0, cur_ti |-> NoCpu]]]
CpuInit == cpumap = krn_cpuinfo_init /\ stopped = "no"

(* The second test repeats the first: a key that comes later is taken for  *)
(* an equal one.                                                           *)
_cpu_info_cmp(k, ent) == IF k < ent THEN 1 ELSE IF ent > k THEN -1 ELSE 0

\* The descent of RB_FIND and of RB_INSERT: the equal entry, or the last one seen.
cpu_map_path(k) ==
    LET D[c \in Cpus] ==
          LET way  == _cpu_info_cmp(k, cpumap.cpuinfo[c].phys_id)
              next == IF way < 0 THEN cpumap.head.left[c] ELSE cpumap.head.right[c]
          IN  IF way = 0 \/ next = NoCpu THEN c ELSE D[next]
    IN  D[cpumap.head.root]
cpu_map_find(k) ==
    IF cpumap.head.root = NoCpu \/ _cpu_info_cmp(k, cpumap.cpuinfo[cpu_map_path(k)].phys_id) # 0
      THEN NoCpu ELSE cpu_map_path(k)
cpu_map_insert(c) ==
    LET k      == cpumap.cpuinfo[c].phys_id
        root   == cpumap.head.root
        parent == IF root = NoCpu THEN NoCpu ELSE cpu_map_path(k)
        leaf   == [cpumap.head EXCEPT !.parent[c] = parent]
    IN  T!RB_INSERT_COLOR(
          IF root = NoCpu THEN [leaf EXCEPT !.root = c]
          ELSE IF _cpu_info_cmp(k, cpumap.cpuinfo[parent].phys_id) < 0 THEN [leaf EXCEPT !.left[parent] = c]
          ELSE [leaf EXCEPT !.right[parent] = c], c)

(* A hart enters itself: the entry goes into the tree before its physical  *)
(* number is set.                                                          *)
\* A faulty variant: the entry is not marked as used.
MarkNone(c) == cpumap.available
Mark(c) == cpumap.available \cup {c}
krn_cpuinfo_cpu_register(h) ==
    /\ stopped = "no" /\ \A c \in cpumap.available : cpumap.cpuinfo[c].phys_id # h
    /\ IF Cpus \subseteq cpumap.available THEN UNCHANGED cpuVars     \* -ENOENT
       ELSE LET c == Min(Cpus \ cpumap.available)
            IN  IF cpu_map_find(cpumap.cpuinfo[c].phys_id) # NoCpu
                THEN stopped' = "twin" /\ UNCHANGED cpumap
                ELSE /\ cpumap' = [cpumap EXCEPT !.head = cpu_map_insert(c), !.available = Mark(c),
                                     !.cpuinfo[c] = [@ EXCEPT !.log_id = c, !.phys_id = h]]
                     /\ UNCHANGED stopped

\* The test of the bound is the wrong way round: -EINVAL for every entry of the map.
krn_cpuinfo_online(c) ==
    /\ stopped = "no"
    /\ IF KC_CPUS_NR > c THEN UNCHANGED cpumap
       ELSE cpumap' = [cpumap EXCEPT !.online = @ \cup {c}]
    /\ UNCHANGED stopped
\* What is returned for it is not zero, and so true.
krn_cpuinfo_cpu_is_online(c) == KC_CPUS_NR > c \/ c \in cpumap.online

Registered(h) == \E c \in cpumap.available : cpumap.cpuinfo[c].phys_id = h
krn_current_cpu_get(h) == cpumap.cpuinfo[cpu_map_find(h)].log_id
\* A registered hart takes over a thread; kassert: it finds its entry.
krn_cpuinfo_update(h) ==
    /\ stopped = "no" /\ Registered(h)
    /\ IF cpu_map_find(h) = NoCpu THEN stopped' = "unknown" /\ UNCHANGED cpumap
       ELSE cpumap' = [cpumap EXCEPT !.cpuinfo[krn_current_cpu_get(h)].cur_ti = h] /\ UNCHANGED stopped

CpuHalt == stopped # "no" /\ UNCHANGED cpuVars
CpuStep ==
    \/ \E h \in Harts : krn_cpuinfo_cpu_register(h) \/ krn_cpuinfo_update(h)
    \/ \E c \in Cpus : krn_cpuinfo_online(c)
    \/ CpuHalt
CpuSpec == CpuInit /\ [][CpuStep]_cpuVars

-----------------------------------------------------------------------------
(* Registration keeps the map: its tree holds the entries that are         *)
(* available and no other and stays balanced, an entry carries its own     *)
(* index, and no two entries are of one hart.  While one hart is           *)
(* registered, as the boot leaves it (hal/riscv64/rv64-prepare.c: the      *)
(* others loop before they register), that hart finds its own entry        *)
(* (krn_current_cpu_get).  With more entries nothing is said of the        *)
(* lookup: _cpu_info_cmp takes a later number for an equal one, and may    *)
(* find the entry of another hart.  Nor is it said which processors are    *)
(* online: krn_cpuinfo_cpu_is_online refuses every number of the map,      *)
(* registered or not, and its -EINVAL reads as true.                       *)
CpuMapSound ==
    /\ T!InTree(cpumap.head) = cpumap.available /\ T!Balanced(cpumap.head)
    /\ \A c \in cpumap.available : cpumap.cpuinfo[c].log_id = c
    /\ Cardinality({cpumap.cpuinfo[c].phys_id : c \in cpumap.available}) = Cardinality(cpumap.available)
    /\ \A c \in cpumap.available :
           cpumap.available = {c} => krn_current_cpu_get(cpumap.cpuinfo[c].phys_id) = c
=============================================================================
