------------------------------- MODULE VmMap -------------------------------
(***************************************************************************)
(* Operations on address spaces (kern/vm-map.c, kern/vm-copy.c) by kernel  *)
(* threads that run concurrently: mapping and unmapping of ranges, copying *)
(* of ranges and of bytes from one space to another.  Each holds the       *)
(* mutexes of its spaces, the destination's first, and works page by page; *)
(* a failure unmaps what was mapped so far.                                *)
(*                                                                         *)
(* mem is what the spaces look like to their users: the pages that calls   *)
(* have mapped, with protection, size and bytes.                           *)
(***************************************************************************)
EXTENDS PageTable

CONSTANTS
    Actors,
    Regions,    \* what callers map: records of start, len, size in pages and prot
    CopyPairs,  \* which spaces are copied to which, as <<dest, src>>
    Moves,      \* calls of vm_memmove: records of dest, src, len in bytes
    Strings,    \* addresses vm_strlen is asked about
    StorePages, \* the pages users store to
    MaxStores,  \* bounds the stores of users
    MaxCalls,   \* bounds the calls
    Nobody

\* The pages that are mapped with entries of the level lvl; two pages whose
\* entries of that level and above are the same.
RegionPages(lvl) ==
    UNION {r.start .. r.start + r.len - 1 : r \in {x \in Regions : x.size = rv64_pgtbl_calc_pagesize(lvl)}}
Agree(p, q, lvl) ==
    \A l \in lvl .. 2 : rv64_pgtbl_calc_index_val(p, l) = rv64_pgtbl_calc_index_val(q, l)

ASSUME VmAssumption ==
    /\ Nobody \notin Actors
    /\ \A r \in Regions :
         /\ r.start \in UserPages /\ r.len \in Nat \ {0} /\ r.start + r.len - 1 \in UserPages
         /\ \E lvl \in 0 .. 2 : r.size = rv64_pgtbl_calc_pagesize(lvl)
         /\ r.start % r.size = 0
         /\ r.prot \subseteq {"R", "W", "X"} /\ r.prot # {}
    \* Callers keep small pages out of the entries of large ones, where
    \* grow_pgtbl takes the large page for a table.
    /\ \A k, l \in 0 .. 2 : k < l =>
         \A p \in RegionPages(k), q \in RegionPages(l) : ~ Agree(p, q, l)
    \* The spaces are locked in the order of their roles, so that copies in
    \* both directions could wait for each other for ever.
    /\ CopyPairs \subseteq Spaces \X Spaces
    /\ \A p, q \in CopyPairs : p[1] # q[2]

VARIABLES
    v,          \* tables and pages
    owner,      \* pgt->mtx
    job,        \* the call an actor is in
    mem,        \* the memory of users
    stores, calls

vmVars == <<v, owner, job, mem, stores, calls>>

Hole == [prot |-> {}, size |-> 0, bytes |-> <<>>]
NoJob == [op |-> "none"]

VmInit ==
    /\ v = PageTableInit
    /\ owner = [s \in Spaces |-> Nobody]
    /\ job = [a \in Actors |-> NoJob]
    /\ mem = [s \in Spaces |-> [p \in UserPages |-> Hole]]
    /\ stores = 0 /\ calls = 0

Live(s) == v.base[s] # NoFrame
InUse(s) == \E a \in Actors : job[a].op # "none" /\ s \in {job[a].d, job[a].s}

-----------------------------------------------------------------------------
(* Page tables come and go.                                                *)

AllocSpace(s) ==
    /\ ~ Live(s)
    /\ v' = pgtbl_alloc_user_pgtbl(v, s)
    /\ UNCHANGED <<owner, job, mem, stores, calls>>

\* free_user_process: after its segments are released.
FreeSpace(s) ==
    /\ Live(s) /\ ~ InUse(s)
    /\ \A p \in UserPages : mem[s][p] = Hole
    /\ v' = pgtbl_free_user_pgtbl(v, s)
    /\ UNCHANGED <<owner, job, mem, stores, calls>>

\* The user of a space stores a byte.
Store(s, p, i) ==
    /\ stores < MaxStores /\ Live(s) /\ owner[s] = Nobody
    /\ "W" \in mem[s][p].prot
    /\ LET r == hal_pgtbl_extract(v, s, p)
       IN  v' = [v EXCEPT !.word[r.paddr + (p % r.pgsize)][i] = stores + 1]
    /\ mem' = [mem EXCEPT ![s][p].bytes[i] = stores + 1]
    /\ stores' = stores + 1
    /\ UNCHANGED <<owner, job, calls>>

-----------------------------------------------------------------------------
(* Calls: the locks, the loop, the unlock.  A call begins with the lock of *)
(* its destination.                                                        *)

Call(a, op, d, s, from, to, size, prot) ==
    /\ job[a] = NoJob /\ Live(d) /\ Live(s)
    /\ calls < MaxCalls /\ calls' = calls + 1
    /\ owner[d] = Nobody /\ owner' = [owner EXCEPT ![d] = a]
    /\ job' = [job EXCEPT ![a] = [op |-> op, pc |-> IF d = s THEN "loop" ELSE "lock_src", d |-> d, s |-> s, from |-> from,
                                  at |-> from, to |-> to, size |-> size, prot |-> prot, rc |-> "OK"]]
    /\ UNCHANGED <<v, mem, stores>>

CallMap(a, s, r)   == Call(a, "map", s, s, r.start, r.start + r.len, r.size, r.prot)
CallUnmap(a, s, r) == Call(a, "unmap", s, s, r.start, r.start + r.len, r.size, r.prot)
CallCopy(a, p, r)  == Call(a, "copy", p[1], p[2], r.start, r.start + r.len, r.size, r.prot)
CallMove(a, p, x) ==
    Call(a, "move", p[1], p[2], x.dest, x.dest + x.len, x.src - x.dest, {})
CallStrlen(a, s, addr) == Call(a, "strlen", s, s, addr, Cardinality(UserPages) * PageBytes, 0, {})

Step(a, pc) == job' = [job EXCEPT ![a].pc = pc]
LockSrc(a) ==
    /\ job[a] # NoJob /\ job[a].pc = "lock_src" /\ owner[job[a].s] = Nobody
    /\ owner' = [owner EXCEPT ![job[a].s] = a]
    /\ Step(a, "loop")
    /\ UNCHANGED <<v, mem, stores, calls>>

In(a, op) == job[a] # NoJob /\ job[a].op = op /\ job[a].pc = "loop" /\ ~ v.panic
Advance(a, n) == job' = [job EXCEPT ![a].at = @ + n]
Fail(a, rc, pc) == job' = [job EXCEPT ![a].rc = rc, ![a].pc = pc]

\* vm_map_common: a page that cannot be entered is not given back.
vm_map_common(u, s, va, prot, size) ==
    LET h == Min(FreeClusters(u, size))
    IN  IF FreeClusters(u, size) = {} THEN [rc |-> "ENOMEM", v |-> u]
        ELSE hal_pgtbl_enter(get_free_page_cluster(u, h, size), s, va, h, prot, {}, size)

vm_map_userpage(a) ==
    LET j == job[a]
        r == vm_map_common(v, j.d, j.at, j.prot, j.size)
    IN  /\ In(a, "map") /\ j.at < j.to
        /\ v' = r.v
        /\ IF r.rc = "OK" THEN Advance(a, j.size) ELSE Fail(a, r.rc, "undo")
        /\ UNCHANGED <<owner, mem, stores, calls>>

vm_unmap(a) ==
    LET j == job[a]
        r == hal_pgtbl_extract(v, j.d, j.at)
    IN  /\ In(a, "unmap") /\ j.at < j.to
        /\ IF r.rc = "OK" THEN v' = hal_pgtbl_remove(v, j.d, j.at) /\ Advance(a, r.pgsize)
           ELSE UNCHANGED v /\ Fail(a, r.rc, "unlock")
        /\ UNCHANGED <<owner, mem, stores, calls>>

\* Every 4K part of the source is copied to the first part of the new page,
\* which is left with the last one.
vm_copy_kmap_page(u, dst, src) == [u EXCEPT !.word[dst] = u.word[src]]
CopyPages(u, dst, src, n) == vm_copy_kmap_page(u, dst, src + n - 1)

vm_copy_range(a) ==
    LET j  == job[a]
        r  == hal_pgtbl_extract(v, j.s, j.at)
        h  == Min(FreeClusters(v, r.pgsize))
        c  == CopyPages(get_free_page_cluster(v, h, r.pgsize), h, r.paddr, r.pgsize)
        e  == hal_pgtbl_enter(c, j.d, j.at, h, r.attr.prot, r.attr.flags, r.pgsize)
        \* (rc, tables) of one page
        res == IF r.rc # "OK" THEN [rc |-> r.rc, v |-> v]
               ELSE IF FreeClusters(v, r.pgsize) = {} THEN [rc |-> "ENOMEM", v |-> v]
               ELSE IF e.rc = "OK" THEN e
               ELSE [rc |-> e.rc, v |-> pfdb_dec_page_use_count(e.v, h)]
    IN  /\ In(a, "copy") /\ j.at < j.to
        /\ v' = res.v
        /\ IF res.rc = "OK" THEN Advance(a, r.pgsize) ELSE Fail(a, res.rc, "unlock_src")
        /\ UNCHANGED <<owner, mem, stores, calls>>

\* The error path of vm_copy_range gives the source back before it unmaps.
UnlockSrc(a) ==
    /\ job[a] # NoJob /\ job[a].pc = "unlock_src"
    /\ owner' = [owner EXCEPT ![job[a].s] = Nobody]
    /\ Step(a, "undo")
    /\ UNCHANGED <<v, mem, stores, calls>>

\* A faulty variant: the page that failed is unmapped as well.
UndoEndPast(j) == j.at + 1
UndoEnd(j) == j.at

(* vm_unmap_common of what was mapped, page by page.                       *)
vm_unmap_common(a) ==
    LET j == job[a]
        r == hal_pgtbl_extract(v, j.d, j.from)
    IN  /\ job[a] # NoJob /\ job[a].pc = "undo" /\ ~ v.panic
        /\ IF j.from < UndoEnd(j)
           THEN /\ v' = hal_pgtbl_remove(v, j.d, j.from)
                /\ job' = [job EXCEPT ![a].from = @ + (IF r.rc = "OK" THEN r.pgsize ELSE 1)]
           ELSE Step(a, "unlock") /\ UNCHANGED v
        /\ UNCHANGED <<owner, mem, stores, calls>>

-----------------------------------------------------------------------------
(* vm_memmove: at and to are byte addresses of the destination, size is    *)
(* the distance to the source.                                             *)

Bytes(u, s, addr) ==        \* where the byte addr of a space is: frame and offset
    LET r == hal_pgtbl_extract(u, s, addr \div PageBytes)
    IN  [frame |-> r.paddr, size |-> r.pgsize * PageBytes]
Byte(u, f, off) == u.word[f + off \div PageBytes][off % PageBytes]
\* n bytes from a place in one page to a place in another page.
CopyBytes(u, dst, doff, src, soff, n) ==
    [u EXCEPT !.word = [f \in Frames |-> [o \in 0 .. PageBytes - 1 |->
       LET i == (f - dst) * PageBytes + o - doff
       IN  IF i \in 0 .. n - 1 THEN Byte(u, src, soff + i) ELSE @[f][o]]]]

\* The offset in the source page is computed from the destination.
src_off(dp, sp, size) == dp % size

vm_memmove(a) ==
    LET j    == job[a]
        sp   == j.at + j.size
        rd   == hal_pgtbl_extract(v, j.d, j.at \div PageBytes)
        rs   == hal_pgtbl_extract(v, j.s, sp \div PageBytes)
        d    == Bytes(v, j.d, j.at)
        s    == Bytes(v, j.s, sp)
        doff == j.at % d.size
        soff == src_off(j.at, sp, s.size)
        n    == Min({j.to - j.at, d.size - doff, s.size - soff})
    IN  /\ In(a, "move") /\ j.at < j.to
        /\ IF rd.rc = "OK" /\ rs.rc = "OK"
           THEN /\ v' = CopyBytes(v, d.frame, doff, s.frame, soff, n)
                /\ Advance(a, n)
           ELSE UNCHANGED v /\ Fail(a, "ENOENT", "unlock")
        /\ UNCHANGED <<owner, mem, stores, calls>>

-----------------------------------------------------------------------------
(* vm_strlen: a step looks at the rest of a page; size is the length so    *)
(* far.  When a page has no end of string, the address is advanced by one  *)
(* and not by the bytes looked at.                                         *)

vm_strlen(a) ==
    LET j    == job[a]
        r    == hal_pgtbl_extract(v, j.s, j.at \div PageBytes)
        b    == Bytes(v, j.s, j.at)
        off  == j.at % b.size
        ends == {o \in off .. b.size - 1 : Byte(v, b.frame, o) = 0}
        Done(n) == job' = [job EXCEPT ![a].size = n, ![a].pc = "unlock"]
    IN  /\ In(a, "strlen") /\ j.at < j.to
        /\ IF r.rc # "OK" THEN Done(0)
           ELSE IF ends # {} THEN Done(j.size + Min(ends) - off)
           ELSE job' = [job EXCEPT ![a].at = @ + 1, ![a].size = @ + b.size - off]
        /\ UNCHANGED <<v, owner, mem, stores, calls>>

-----------------------------------------------------------------------------
(* The end of a call.  What it promises is what its users see from now on: *)
(* a call that fails has changed nothing, but an unmap that meets a hole   *)
(* has unmapped the pages before it, and a move returns the bytes left.    *)
(* Of a byte that is Unsaid nothing is promised: those of a copied large   *)
(* page, of which the first part alone is written, with the last part of   *)
(* the source, and those that a move takes from another offset of a page   *)
(* than it brings them to, where it reads other bytes than it was asked.   *)

Covered(j, p) == p \in j.from .. j.at - 1
MapEffect(j) ==
    [p \in UserPages |-> IF j.rc = "OK" /\ Covered(j, p)
                           THEN [prot |-> j.prot, size |-> j.size, bytes |-> Zeroed] ELSE mem[j.d][p]]
UnmapEffect(j) == [p \in UserPages |-> IF Covered(j, p) THEN Hole ELSE mem[j.d][p]]
Unsaid == -1
Copied(m) == [m EXCEPT !.bytes = [i \in DOMAIN @ |-> IF m.size = 1 THEN @[i] ELSE Unsaid]]
CopyEffect(j) ==
    [p \in UserPages |-> IF j.rc = "OK" /\ Covered(j, p) THEN Copied(mem[j.s][p]) ELSE mem[j.d][p]]
\* The bytes moved have the same offsets in the pages of the source.
SameOffset(j) ==
    \A addr \in j.from .. j.at - 1 :
       LET m == mem[j.s][(addr + j.size) \div PageBytes]
       IN  m # Hole /\ j.size % (m.size * PageBytes) = 0
MoveEffect(j) ==
    [p \in UserPages |->
       [mem[j.d][p] EXCEPT !.bytes =
          [i \in DOMAIN @ |-> LET addr == p * PageBytes + i
                                  from == addr + j.size
                              IN  IF ~ Covered(j, addr) THEN @[i]
                                  ELSE IF ~ SameOffset(j) THEN Unsaid
                                  ELSE mem[j.s][from \div PageBytes].bytes[from % PageBytes]]]]
Effect(j) == CASE j.op = "map" -> MapEffect(j) [] j.op = "unmap" -> UnmapEffect(j)
               [] j.op = "copy" -> CopyEffect(j) [] j.op = "move" -> MoveEffect(j)
               [] j.op = "strlen" -> mem[j.d]

Return(a) ==
    LET j == job[a]
    IN  /\ j # NoJob /\ ~ v.panic
        /\ j.pc = "unlock" \/ (j.pc = "loop" /\ j.at >= j.to)
        /\ owner' = [s \in Spaces |-> IF owner[s] = a THEN Nobody ELSE owner[s]]
        /\ mem' = [mem EXCEPT ![j.d] = Effect(j)]
        /\ job' = [job EXCEPT ![a] = NoJob]
        /\ UNCHANGED <<v, stores, calls>>

\* After a kassert the kernel stands still; the calls of a behaviour are bounded.
Halt == v.panic /\ UNCHANGED vmVars
Quiet == calls = MaxCalls /\ (\A a \in Actors : job[a] = NoJob) /\ UNCHANGED vmVars

Calls(a) ==
    \/ \E s \in Spaces, r \in Regions : CallMap(a, s, r) \/ CallUnmap(a, s, r)
    \/ \E p \in CopyPairs, r \in Regions : CallCopy(a, p, r)
    \/ \E p \in CopyPairs, x \in Moves : CallMove(a, p, x)
    \/ \E s \in Spaces, addr \in Strings : CallStrlen(a, s, addr)
Works(a) ==
    \/ LockSrc(a) \/ vm_map_userpage(a) \/ vm_unmap(a) \/ vm_copy_range(a)
    \/ UnlockSrc(a) \/ vm_unmap_common(a) \/ vm_memmove(a) \/ vm_strlen(a) \/ Return(a)
Users ==
    \E s \in Spaces :
      \/ AllocSpace(s) \/ FreeSpace(s)
      \/ \E p \in StorePages, i \in 0 .. PageBytes - 1 : Store(s, p, i)
VmStep == Halt \/ Quiet \/ (~ v.panic /\ (Users \/ \E a \in Actors : Calls(a) \/ Works(a)))
VmSpec == VmInit /\ [][VmStep]_vmVars

-----------------------------------------------------------------------------
(* Properties.                                                             *)

Settled(s) == Live(s) /\ owner[s] = Nobody /\ ~ v.panic

\* The entries of a table for the user, and those of them that are tables.
Entries(f, lvl) == {i \in 0 .. (IF lvl = 2 THEN KernelIndex ELSE PerTable) - 1 :
                      RV64_PTE_IS_VALID(v.pte[f][i])}
Below(S, lvl) == UNION {{v.pte[f][i].ppn : i \in {k \in Entries(f, lvl) : ~ RV64_PTE_IS_LEAF(v.pte[f][k])}} : f \in S}
Tables(s, lvl) == CASE lvl = 2 -> {v.base[s]}
                    [] lvl = 1 -> Below({v.base[s]}, 2)
                    [] lvl = 0 -> Below(Below({v.base[s]}, 2), 1)
\* All entries of all spaces, with the level of their tables.
AllEntries == UNION {{<<t[1], t[2], i>> : i \in Entries(t[1], t[2])} :
                       t \in UNION {Tables(s, l) \X {l} : s \in {x \in Spaces : Live(x)}, l \in 0 .. 2}}
Target(e) == v.pte[e[1]][e[3]]

\* What a space holds at a byte address, for its user; the ends of strings.
Char(s, addr) == mem[s][addr \div PageBytes].bytes[addr % PageBytes]
Mapped(s, addr) == mem[s][addr \div PageBytes] # Hole
Ends(s, addr, last) ==
    {k \in addr .. last : (\A x \in addr .. k : Mapped(s, x) /\ Char(s, x) # Unsaid) /\ Char(s, k) = 0}
Measured(a) == job[a] # NoJob /\ job[a].op = "strlen" /\ job[a].pc = "unlock"
\* vm_strlen, of a string that ends in the page it begins in, or of no string.
StrlenInPage ==
    \A a \in Actors : Measured(a) =>
      LET j == job[a]
          ends == Ends(j.s, j.from, j.from + PageBytes - 1 - (j.from % PageBytes))
      IN  /\ ends # {} => j.size = Min(ends) - j.from
          /\ ~ Mapped(j.s, j.from) => j.size = 0

(* Until a kassert fails, what a space looks like to its user is what the  *)
(* calls that returned have made of it: every page they mapped is found    *)
(* with its protection and size, nothing else is found, a call that failed *)
(* has neither added nor removed a page, no space sees a store of another, *)
(* and the entry of the kernel is in every table.  A page has the bytes    *)
(* stored there, copied there when it is small, and moved there when their *)
(* offsets in the two pages agree; a string that ends in the page it       *)
(* begins in has its length (hal_pgtbl_extract, vm_map_userpage, vm_unmap, *)
(* vm_copy_range, vm_memmove, vm_strlen).  Nothing is said of the contents *)
(* of a copied large page (vm-map.c:223-231), of bytes moved between other *)
(* offsets (vm-copy.c:187), of the length of a string that goes on in the  *)
(* next page (vm-copy.c:64), nor of what follows when no page is left for  *)
(* a table, which stops the kernel (rv64-pgtbl.c:457): there the code does *)
(* not do what its comments say.                                           *)
TranslationExact ==
  /\ StrlenInPage
  /\ \A s \in {x \in Spaces : Settled(x)} :
      /\ \A p \in UserPages :
           LET r == hal_pgtbl_extract(v, s, p)
           IN  IF mem[s][p] = Hole THEN r.rc # "OK"
               ELSE /\ r.rc = "OK" /\ r.attr = [prot |-> mem[s][p].prot, flags |-> {}]
                    /\ r.pgsize = mem[s][p].size
                    /\ \A i \in DOMAIN mem[s][p].bytes :
                         mem[s][p].bytes[i] \in {Unsaid, v.word[r.paddr + (p % r.pgsize)][i]}
      /\ v.pte[v.base[s]][KernelIndex] = KernelTable[KernelIndex]

(* At every step each page has one role: a table or a page of data is      *)
(* referred to from one entry of one space, a table is counted once and    *)
(* once more for each of its entries, a page of data is counted once and   *)
(* as large as it is mapped, and none is free (grow_pgtbl,                 *)
(* remove_table_reference, vm_copy_range's release of a page).             *)
PagesOwned ==
    LET entries == AllEntries
        targets == {Target(e).ppn : e \in entries}
    IN  ~ v.panic =>
          /\ Cardinality(targets) = Cardinality(entries)
          /\ \A s \in Spaces : Live(s) =>
               /\ v.base[s] \notin targets
               /\ \A lvl \in 0 .. 2 : \A f \in Tables(s, lvl) :
                    v.len[f] = 1 /\ v.use[f] = 1 + Cardinality(Entries(f, lvl))
          /\ \A e \in entries : RV64_PTE_IS_LEAF(Target(e)) =>
               v.use[Target(e).ppn] = 1 /\ v.len[Target(e).ppn] = rv64_pgtbl_calc_pagesize(e[2])
=============================================================================
