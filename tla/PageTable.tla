----------------------------- MODULE PageTable -----------------------------
(***************************************************************************)
(* The page tables of Sv39 (hal/riscv64/rv64-pgtbl.c, kern/vm-pgtbl.c):    *)
(* three levels of tables whose pages are counted by the page frame        *)
(* database, one use for the table itself and one for each entry in it.    *)
(*                                                                         *)
(* Addresses are page numbers.  A table of the two lower levels has        *)
(* PerTable entries, so that a page of level l has PerTable ^ l pages; the *)
(* base table has Top entries, the last one for the kernel.  The functions *)
(* act on the record v of                                                  *)
(*   use   [Frames -> Nat]    the use count of the cluster that starts there *)
(*   len   [Frames -> Nat]    its length, 0 when no cluster starts there   *)
(*   pte   [Frames -> table]  a frame as a table                           *)
(*   word  [Frames -> bytes]  a frame as data                              *)
(*   base  [Spaces -> frame]  pgt->pgtbl_base                              *)
(*   nr    [Spaces -> Nat]    pgt->nr_pages                                *)
(*   panic                    a kassert failed; the kernel has stopped     *)
(* Only managed user pages are mapped and unmapped: vm_map_userpage        *)
(* refuses others.                                                         *)
(***************************************************************************)
EXTENDS Integers, Sequences, FiniteSets, FiniteSetsExt, SequencesExt

CONSTANTS
    Spaces,     \* page tables of users (vm_pgtbl_type)
    Frames,     \* the page pool, 0 .. n
    PerTable, Top,
    PageBytes   \* bytes of a page

ASSUME PageTableAssumption ==
    /\ PerTable \in Nat \ {0, 1} /\ Top \in Nat \ {0, 1} /\ PageBytes \in Nat \ {0}
    /\ PerTable <= Top
    /\ IsFiniteSet(Frames) /\ Frames = 0 .. Cardinality(Frames) - 1

NoFrame == -1
KernelFrame == -2       \* where the entry of the kernel points to

rv64_pgtbl_calc_pagesize(lvl) == <<1, PerTable, PerTable * PerTable>>[lvl + 1]
rv64_pgtbl_calc_index_val(va, lvl) ==
    (va \div rv64_pgtbl_calc_pagesize(lvl)) % (IF lvl = 2 THEN Top ELSE PerTable)
UserPages == 0 .. (Top - 1) * rv64_pgtbl_calc_pagesize(2) - 1
KernelIndex == Top - 1

-----------------------------------------------------------------------------
(* Page table entries: the set of the bits that are set, and a page.       *)

Empty == [bits |-> {}, ppn |-> 0]
RV64_PTE_IS_VALID(pte) == "V" \in pte.bits
RV64_PTE_IS_LEAF(pte)  == pte.bits \cap {"R", "W", "X"} # {}

pte_to_vmprot_and_vmflags(pte) ==
    [prot  |-> pte.bits \cap {"R", "W", "X"},
     flags |-> (pte.bits \cap {"A", "D"}) \cup (IF "U" \in pte.bits THEN {} ELSE {"S"})]
vmprot_and_vmflags_to_pte(prot, flags) ==
    prot \cup (flags \cap {"A", "D"}) \cup (IF "S" \in flags THEN {} ELSE {"U"})

TableEntry(f) == [bits |-> {"V", "A", "D"}, ppn |-> f]
NoTable == [i \in 0 .. Top - 1 |-> Empty]
KernelTable ==      \* the base table of the kernel: nothing for the user
    [NoTable EXCEPT ![KernelIndex] =
        [bits |-> vmprot_and_vmflags_to_pte({"R", "W", "X"}, {"S"}) \cup {"V"}, ppn |-> KernelFrame]]
Zeroed == [i \in 0 .. PageBytes - 1 |-> 0]

-----------------------------------------------------------------------------
(* The pages: pgif_get_free_page_cluster and the use counts.               *)

kassert(v, c) == IF c THEN v ELSE [v EXCEPT !.panic = TRUE]

Taken(v) == UNION {h .. h + v.len[h] - 1 : h \in Frames}
FreeClusters(v, n) == {h \in Frames : h % n = 0 /\ h .. h + n - 1 \subseteq Frames \ Taken(v)}
get_free_page_cluster(v, h, n) ==       \* cleared with memset
    [v EXCEPT !.use[h] = 1, !.len[h] = n, !.pte[h] = NoTable,
              !.word = [f \in Frames |-> IF f \in h .. h + n - 1 THEN Zeroed ELSE @[f]]]
pfdb_inc_page_use_count(v, f) == [kassert(v, v.use[f] > 0) EXCEPT !.use[f] = @ + 1]
\* The last use frees the cluster; what a free frame holds is forgotten.
pfdb_dec_page_use_count(v, f) ==
    IF v.use[f] > 1 THEN [v EXCEPT !.use[f] = @ - 1]
    ELSE [kassert(v, v.use[f] = 1) EXCEPT !.use[f] = 0, !.len[f] = 0, !.pte[f] = NoTable,
            !.word = [g \in Frames |-> IF g \in f .. f + v.len[f] - 1 THEN Zeroed ELSE @[g]]]

pgtbl_alloc_pgtbl_page(v, s) ==
    LET h == Min(FreeClusters(v, 1))
    IN  [frame |-> h, v |-> [get_free_page_cluster(v, h, 1) EXCEPT !.nr[s] = @ + 1]]

-----------------------------------------------------------------------------
(* Looking an address up: from the highest level of the tables down.       *)

walk_pgtbl(v, tbl, lvl, va) ==
    LET pte == v.pte[tbl][rv64_pgtbl_calc_index_val(va, lvl)]
    IN  CASE ~ RV64_PTE_IS_VALID(pte) -> [rc |-> "ENOENT"]
          [] RV64_PTE_IS_VALID(pte) /\ ~ RV64_PTE_IS_LEAF(pte) -> [rc |-> "EAGAIN", next |-> pte.ppn]
          [] OTHER -> [rc |-> "OK", paddr |-> pte.ppn, pgsize |-> rv64_pgtbl_calc_pagesize(lvl),
                       attr |-> pte_to_vmprot_and_vmflags(pte)]

walk_on(v, r, lvl, va) == IF r.rc = "EAGAIN" THEN walk_pgtbl(v, r.next, lvl, va) ELSE r
hal_pgtbl_extract(v, s, va) ==
    walk_on(v, walk_on(v, walk_on(v, [rc |-> "EAGAIN", next |-> v.base[s]], 2, va), 1, va), 0, va)

-----------------------------------------------------------------------------
(* Entering a page: tables are added on the way down.                      *)

\* One level: st has the record v, the table tbl that is looked at and rc.
grow_pgtbl(st, s, lvl, va, paddr, prot, flags, pgsize) ==
    LET idx  == rv64_pgtbl_calc_index_val(va, lvl)
        pte  == st.v.pte[st.tbl][idx]
        here == rv64_pgtbl_calc_pagesize(lvl) = pgsize
        leaf == [bits |-> vmprot_and_vmflags_to_pte(prot, flags) \cup {"V"}, ppn |-> paddr]
        new  == pgtbl_alloc_pgtbl_page(st.v, s)
        Put(v, e) == [pfdb_inc_page_use_count(v, st.tbl) EXCEPT !.pte[st.tbl][idx] = e]
    IN  CASE RV64_PTE_IS_VALID(pte) /\ here   -> [st EXCEPT !.rc = "EBUSY"]
          [] RV64_PTE_IS_VALID(pte) /\ ~ here -> [st EXCEPT !.tbl = pte.ppn]
          [] ~ RV64_PTE_IS_VALID(pte) /\ here -> [st EXCEPT !.v = Put(st.v, leaf), !.rc = "OK"]
          [] OTHER -> IF FreeClusters(st.v, 1) = {} THEN [st EXCEPT !.rc = "ENOMEM"]
                      ELSE [st EXCEPT !.v = Put(new.v, TableEntry(new.frame)), !.tbl = new.frame]

(* The tables from the base to the entry of va, by level; the walk ends at *)
(* a leaf, at the lowest level, or with a kassert at an entry that is not  *)
(* valid.                                                                  *)
Down(v, va, p, lvl) ==
    LET pte == v.pte[p.cur][rv64_pgtbl_calc_index_val(va, lvl)]
        q   == [p EXCEPT !.pgtbl[lvl] = p.cur, !.lvl = lvl]
    IN  IF p.rc # "go" THEN p
        ELSE IF ~ RV64_PTE_IS_VALID(pte) THEN [p EXCEPT !.rc = "bad"]
        ELSE IF lvl = 0 \/ RV64_PTE_IS_LEAF(pte) THEN [q EXCEPT !.rc = "found"]
        ELSE [q EXCEPT !.cur = pte.ppn]
TablePath(v, s, va) ==
    LET base == [pgtbl |-> [l \in 0 .. 2 |-> NoFrame], cur |-> v.base[s], lvl |-> 2, rc |-> "go"]
    IN  Down(v, va, Down(v, va, Down(v, va, base, 2), 1), 0)

\* A faulty variant: an entry is taken off the count of its table and kept.
UnlinkKept(v, tbl, idx) == pfdb_dec_page_use_count(v, tbl)
Unlink(v, tbl, idx) == pfdb_dec_page_use_count([v EXCEPT !.pte[tbl][idx] = Empty], tbl)

(* remove_table_reference: clears the entry of va and, while a table has   *)
(* lost its last entry, the entry above it.  A lower table is released     *)
(* after the entry above it, unless the upper table still has others.      *)
drop_low(v, s, low) ==
    [pfdb_dec_page_use_count(kassert(v, v.use[low] = 1), low) EXCEPT !.nr[s] = @ - 1]
Up(p, s, va, st) ==
    LET tbl == p.pgtbl[st.lvl]
        idx == rv64_pgtbl_calc_index_val(va, st.lvl)
        low == st.v.pte[tbl][idx].ppn
        cut == Unlink(st.v, tbl, idx)
    IN  IF st.stop \/ st.lvl > 2 THEN st
        ELSE IF cut.use[tbl] > 1 THEN [v |-> cut, lvl |-> st.lvl, stop |-> TRUE]
        ELSE [v    |-> IF st.lvl = p.lvl THEN cut ELSE drop_low(cut, s, low),
              lvl  |-> st.lvl + 1, stop |-> FALSE]
remove_table_reference(v, s, va) ==
    LET p == TablePath(v, s, va)
    IN  IF p.rc = "bad" THEN [v EXCEPT !.panic = TRUE]
        ELSE Up(p, s, va, Up(p, s, va, Up(p, s, va, [v |-> v, lvl |-> p.lvl, stop |-> FALSE]))).v

grow_on(st, s, lvl, va, paddr, prot, flags, pgsize) ==
    IF st.rc = "go" THEN grow_pgtbl(st, s, lvl, va, paddr, prot, flags, pgsize) ELSE st
map_vaddr_to_paddr(v, s, va, paddr, prot, flags, pgsize) ==
    LET Grow(st, lvl) == grow_on(st, s, lvl, va, paddr, prot, flags, pgsize)
        end == Grow(Grow(Grow([v |-> v, tbl |-> v.base[s], rc |-> "go"], 2), 1), 0)
    IN  [rc |-> end.rc,
         v  |-> IF end.rc = "ENOMEM" THEN remove_table_reference(end.v, s, va) ELSE end.v]

(* hal_pgtbl_enter: the largest size that the bounds of the virtual and   *)
(* the physical range allow is used, and the range is mapped in pieces of  *)
(* that size until one fails.                                              *)
map_pieces(v, s, va, paddr, prot, flags, size, count) ==
    LET Piece(r, i) == IF r.rc # "OK" THEN r
                      ELSE map_vaddr_to_paddr(r.v, s, va + i * size, paddr + i * size, prot, flags, size)
        upto[i \in 0 .. count] == IF i = 0 THEN [rc |-> "OK", v |-> v] ELSE Piece(upto[i - 1], i - 1)
    IN  upto[count]
enter_size(va, paddr, len) ==
    Max({n \in {rv64_pgtbl_calc_pagesize(l) : l \in 0 .. 2} : va % n = 0 /\ paddr % n = 0 /\ len % n = 0})
hal_pgtbl_enter(v, s, va, paddr, prot, flags, len) ==
    LET size == enter_size(va, paddr, len)
    IN  map_pieces(v, s, va, paddr, prot, flags, size, len \div size)

(* hal_pgtbl_remove for the page at va, which extract has found.           *)
hal_pgtbl_remove(v, s, va) ==
    LET r == hal_pgtbl_extract(v, s, va)
    IN  remove_table_reference(IF r.rc = "OK" THEN pfdb_dec_page_use_count(v, r.paddr) ELSE v, s, va)

-----------------------------------------------------------------------------
(* Page tables as a whole.                                                 *)

PageTableInit ==
    [use  |-> [f \in Frames |-> 0], len |-> [f \in Frames |-> 0],
     pte  |-> [f \in Frames |-> NoTable], word |-> [f \in Frames |-> Zeroed],
     base |-> [s \in Spaces |-> NoFrame], nr |-> [s \in Spaces |-> 0], panic |-> FALSE]

\* A new page table has a base and the entries of the kernel.
hal_copy_kernel_pgtbl(v, s) == [v EXCEPT !.pte[v.base[s]] = KernelTable]
pgtbl_alloc_user_pgtbl(v, s) ==
    LET a == pgtbl_alloc_pgtbl_page(v, s)
    IN  IF FreeClusters(v, 1) = {} THEN [v EXCEPT !.panic = TRUE]
        ELSE hal_copy_kernel_pgtbl([a.v EXCEPT !.base[s] = a.frame], s)

pgtbl_free_user_pgtbl(v, s) ==
    [pfdb_dec_page_use_count(kassert(v, v.nr[s] = 1), v.base[s])
       EXCEPT !.base[s] = NoFrame, !.nr[s] = 0]
=============================================================================
