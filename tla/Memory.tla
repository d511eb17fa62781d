------------------------------- MODULE Memory -------------------------------
(***************************************************************************)
(* User memory of kernel/memory.c with the page fault handler of           *)
(* kernel/interrupt.c: reference counts of page frames, page tables, lazy  *)
(* allocation, copy-on-write, brk, and the address spaces of fork and      *)
(* exit.  All of it runs with interrupts off and does not block, so each   *)
(* call is one step.                                                       *)
(*                                                                         *)
(* A page table is itself a frame.  A frame holds the page entries in it   *)
(* and one word of data; a freed frame that was not empty holds Junk.      *)
(* TABLES page tables of ENTRIES pages cover the user space, the last one  *)
(* is the stack.  The TLB entry of virtual page 0, through which copy_page *)
(* writes, is part of the state.                                           *)
(***************************************************************************)
EXTENDS Integers, FiniteSets

CONSTANTS Proc,
          FRAMES,      \* allocatable page frames
          TABLES, ENTRIES,
          MAX_REFS,    \* 255, the limit that copy_pgdir asserts
          MaxStores,   \* bound: words that processes store
          FollowSpoiled \* bound: go on after a spoiled step, see Init

ASSUME MemoryAssumption ==
    /\ FRAMES \in Nat \ {0} /\ TABLES \in Nat \ {0} /\ ENTRIES \in Nat \ {0}
    /\ MaxStores \in Nat /\ FollowSpoiled \in BOOLEAN
    /\ IsFiniteSet(Proc) /\ "kernel" \notin Proc
    /\ MAX_REFS \in Nat /\ Cardinality(Proc) < MAX_REFS  \* TASK_NR is 64

Frame == 1..FRAMES
Table == 1..TABLES
Page == 1..(TABLES * ENTRIES)       \* virtual pages of the user space
PDE_IDX(v) == ((v - 1) \div ENTRIES) + 1
PTE_IDX(v) == ((v - 1) % ENTRIES) + 1
Entry == (0 - TABLES)..(TABLES * ENTRIES) \ {0}   \* pages, and -i for page table i
InStack(v) == PDE_IDX(v) = TABLES
(* The pages that brk can take in.  brk stays below USER_STACK_BOOTOM      *)
(* (memory.c:561), so the page just under the stack is never one of them;  *)
(* it is no Page here: an access to it is a panic, as above brk anywhere.  *)
HeapTop == (TABLES - 1) * ENTRIES

VARIABLES
    m,      \* the memory, see Init
    alive,  \* processes
    parent, dead,  \* parent of each process; processes with a dead child
    cr3,    \* the process whose page directory is loaded
    vmap,   \* vmap[p]: pages marked in the bitmap of p
    brk,    \* brk[p]: heap pages of p
    stores, wrote   \* history: the last word stored, by p in page v

family == <<alive, parent, dead>>

vars == <<m, alive, parent, dead, cr3, vmap, brk, stores, wrote>>

Absent == [frame |-> 0, write |-> FALSE]
EmptyTable == [i \in 1..ENTRIES |-> Absent]
Junk == MaxStores + 1
NoTables == [i \in Table |-> 0]

(* Frame 0 stands for the frames of the kernel, which are never free.  One *)
(* process has called task_to_user_mode; its user space is empty.          *)
Init ==
    /\ m = [memory_map |-> [f \in 0..FRAMES |-> IF f = 0 THEN 1 ELSE 0],
            free_pages |-> FRAMES,
            data       |-> [f \in 0..FRAMES |-> 0],
            entries    |-> [f \in 0..FRAMES |-> EmptyTable],
            page_dir   |-> [p \in Proc |-> NoTables],
            paddr      |-> 0,        \* the result of alloc_page, copy_page
            tlb        |-> 0,        \* where virtual page 0 leads, 0: not cached
            halted     |-> "no",     \* "memory", "fault", "assert": panics
            spoiled    |-> FALSE]    \* history, see copy_page, get_pte, KernelStore
    /\ \E p \in Proc : alive = {p} /\ cr3 = p
    /\ parent = [p \in Proc |-> "kernel"] /\ dead = {}
    /\ vmap = [p \in Proc |-> {}]
    /\ brk = [p \in Proc |-> 0]
    /\ stores = 0 /\ wrote = [p \in Proc |-> [v \in Page |-> 0]]

-----------------------------------------------------------------------------
(* The functions of memory.c, each from a memory to a memory. *)

Panic(x, why) == [x EXCEPT !.halted = IF @ = "no" THEN why ELSE @]
Assert_(x, ok) == IF ok THEN x ELSE Panic(x, "assert")

alloc_page(x) ==
    LET free == {f \in Frame : x.memory_map[f] = 0}
        first == CHOOSE f \in free : \A g \in free : f <= g
    IN  IF free = {} THEN Panic([x EXCEPT !.paddr = 0], "memory")
        ELSE [Assert_(x, x.free_pages > 0) EXCEPT
                !.memory_map[first] = 1, !.free_pages = @ - 1, !.paddr = first]

(* A page that is given back is not cleared. *)
Left(x, f) == IF x.data[f] = 0 /\ x.entries[f] = EmptyTable THEN 0 ELSE Junk

free_page(x, f) ==
    CASE x.memory_map[f] = 0 -> Panic(x, "assert")
      [] x.memory_map[f] = 1 -> [x EXCEPT !.memory_map[f] = 0, !.free_pages = @ + 1,
                                          !.data[f] = Left(x, f), !.entries[f] = EmptyTable]
      [] OTHER -> [x EXCEPT !.memory_map[f] = @ - 1]

pte(x, p, v) == x.entries[x.page_dir[p][PDE_IDX(v)]][PTE_IDX(v)]
Mapped(x, p, v) == x.page_dir[p][PDE_IDX(v)] # 0 /\ pte(x, p, v).frame # 0

(* Where entry e of p leads: page e, or page table -e if it is negative. *)
Lead(x, p, e) ==
    IF e < 0 THEN x.page_dir[p][0 - e] ELSE IF Mapped(x, p, e) THEN pte(x, p, e).frame ELSE 0

SetPte(x, p, v, e) == [x EXCEPT !.entries[x.page_dir[p][PDE_IDX(v)]][PTE_IDX(v)] = e]

(* get_pte with create: a page table is a new frame, whatever it holds.    *)
(* The entries that junk makes are not followed.                           *)
get_pte(x, p, v) ==
    IF x.page_dir[p][PDE_IDX(v)] # 0 THEN x
    ELSE LET y == alloc_page(x)
         IN  [y EXCEPT !.page_dir[p][PDE_IDX(v)] = y.paddr,
                       !.spoiled = @ \/ y.data[y.paddr] # 0]

link_page(x, p, v) ==
    LET y == get_pte(x, p, v)
        z == alloc_page(y)
    IN  IF Mapped(y, p, v) THEN Assert_(y, v \in vmap[p])
        ELSE Assert_(SetPte(z, p, v, [frame |-> z.paddr, write |-> TRUE]), v \notin vmap[p])

(* Mutant of unlink_page: the entry stays. *)
unlink_pageKeeps(x, p, v) ==
    LET y == get_pte(x, p, v)
    IN  IF ~Mapped(y, p, v) THEN Assert_(y, v \notin vmap[p])
        ELSE Assert_(free_page(y, pte(y, p, v).frame), v \in vmap[p])

unlink_page(x, p, v) ==
    LET y == get_pte(x, p, v)
    IN  IF ~Mapped(y, p, v) THEN Assert_(y, v \notin vmap[p])
        ELSE Assert_(free_page(SetPte(y, p, v, Absent), pte(y, p, v).frame), v \in vmap[p])

(* copy_page maps the new frame at virtual page 0 and copies through it,   *)
(* without flush_tlb: when the processor still has (keep) the entry of an  *)
(* earlier copy, that is where the contents go.                            *)
copy_page(x, from, keep) ==
    LET y == alloc_page(x)
        to == IF keep /\ x.tlb # 0 THEN x.tlb ELSE y.paddr
    IN  [y EXCEPT !.data[to] = x.data[from], !.entries[to] = x.entries[from],
                  !.tlb = to, !.spoiled = @ \/ to # y.paddr]

(* Mutant of ShareTable: the pages of the parent stay writable. *)
ShareTableWritable(x, table) ==
    LET shared == {i \in 1..ENTRIES : x.entries[table][i].frame # 0}
        refs == [f \in 0..FRAMES |->
                   x.memory_map[f] + Cardinality({i \in shared : x.entries[table][i].frame = f})]
    IN  [x EXCEPT !.memory_map = refs]

(* copy_pgdir, one page table: one more reference to each page, read-only. *)
ShareTable(x, table) ==
    LET shared == {i \in 1..ENTRIES : x.entries[table][i].frame # 0}
        refs == [f \in 0..FRAMES |->
                   x.memory_map[f] + Cardinality({i \in shared : x.entries[table][i].frame = f})]
        y == [x EXCEPT !.memory_map = refs,
                       !.entries[table] = [i \in 1..ENTRIES |-> [@[i] EXCEPT !.write = FALSE]]]
    IN  Assert_(y, \A i \in shared : /\ x.memory_map[x.entries[table][i].frame] > 0
                                     /\ refs[x.entries[table][i].frame] < MAX_REFS)

(* copy_pgdir, page table i of p for the child c. *)
CopyTable(x, p, c, keep, i) ==
    LET y == copy_page(ShareTable(x, x.page_dir[p][i]), x.page_dir[p][i], keep)
    IN  IF x.page_dir[p][i] = 0 THEN x ELSE [y EXCEPT !.page_dir[c][i] = y.paddr]

(* The memory after each page table. *)
Copies(x, p, c, keep) ==
    LET step[i \in 0..TABLES] ==
            IF i = 0 THEN [x EXCEPT !.page_dir[c] = NoTables]
            ELSE CopyTable(step[i - 1], p, c, keep, i)
    IN  step

(* It ends with a load of cr3. *)
copy_pgdir(x, p, c, keep) == [Copies(x, p, c, keep)[TABLES] EXCEPT !.tlb = 0]

(* Each entry e of an address space, a page or (negative) a page table, is *)
(* freed as free_page does; refs[f] of them lead to frame f.               *)
Release(x, p, refs) ==
    LET left == [f \in 0..FRAMES |-> IF refs[f] > x.memory_map[f] THEN 0 ELSE x.memory_map[f] - refs[f]]
        freed == {f \in Frame : x.memory_map[f] > 0 /\ left[f] = 0}
        y == [x EXCEPT !.memory_map = left, !.free_pages = @ + Cardinality(freed),
                       !.data = [f \in 0..FRAMES |-> IF f \in freed THEN Left(x, f) ELSE @[f]],
                       !.entries = [f \in 0..FRAMES |-> IF f \in freed THEN EmptyTable ELSE @[f]],
                       !.page_dir[p] = NoTables]
    IN  Assert_(y, \A f \in Frame : refs[f] <= x.memory_map[f])

(* Mutant of free_pgdir: the page tables themselves are not freed. *)
free_pgdirPages(x, p) ==
    Release(x, p, [f \in 0..FRAMES |->
        IF f = 0 THEN 0 ELSE Cardinality({v \in Page : Lead(x, p, v) = f})])

(* free_pgdir: every page and every page table; nothing is cleared. *)
free_pgdir(x, p) ==
    Release(x, p, [f \in 0..FRAMES |->
        IF f = 0 THEN 0 ELSE Cardinality({e \in Entry : Lead(x, p, e) = f})])

-----------------------------------------------------------------------------
(* The memory as p finds it when it runs: a switch loads cr3. *)
Running(p) == IF cr3 = p THEN m ELSE [m EXCEPT !.tlb = 0]

(* The result of alloc_page is gone when the call is over. *)
Done(x) == [x EXCEPT !.paddr = 0]

CanRun(p) == m.halted = "no" /\ p \in alive /\ (m.spoiled => FollowSpoiled)

Runs(p) == CanRun(p) /\ cr3' = p

(* Access to a page that is not mapped: lazy allocation in the heap below  *)
(* brk and in the stack, a panic elsewhere.                                *)
FaultAbsent(p, v) ==
    /\ Runs(p) /\ ~Mapped(m, p, v)
    /\ IF v <= brk[p] \/ InStack(v)
       THEN /\ m' = Done(link_page(Running(p), p, v))
            /\ vmap' = [vmap EXCEPT ![p] = @ \cup {v}]
       ELSE /\ m' = Panic(Running(p), "fault")
            /\ UNCHANGED vmap
    /\ UNCHANGED <<family, brk, stores, wrote>>

(* Mutant of copy_on_write: the last but one user takes the page, too. *)
copy_on_writeTwo(x, p, v, keep) ==
    LET old == pte(x, p, v).frame
        y == copy_page(x, old, keep)
    IN  IF x.memory_map[old] <= 2 THEN SetPte(x, p, v, [frame |-> old, write |-> TRUE])
        ELSE [SetPte(y, p, v, [frame |-> y.paddr, write |-> TRUE]) EXCEPT !.memory_map[old] = @ - 1]

(* A page that nobody shares any more becomes writable; otherwise the      *)
(* process gets a copy and gives up its reference.                         *)
copy_on_write(x, p, v, keep) ==
    LET old == pte(x, p, v).frame
        y == copy_page(x, old, keep)
    IN  IF x.memory_map[old] = 1 THEN SetPte(x, p, v, [frame |-> old, write |-> TRUE])
        ELSE [SetPte(y, p, v, [frame |-> y.paddr, write |-> TRUE]) EXCEPT !.memory_map[old] = @ - 1]

(* Store to a read-only page. *)
FaultReadOnly(p, v, keep) ==
    /\ Runs(p) /\ Mapped(m, p, v) /\ ~pte(m, p, v).write
    /\ m' = IF m.memory_map[pte(m, p, v).frame] = 0 THEN Panic(Running(p), "assert")
            ELSE Done(copy_on_write(Running(p), p, v, keep))
    /\ UNCHANGED <<family, vmap, brk, stores, wrote>>

(* The processor lets a process store in a writable page. *)
Store(p, v) ==
    /\ Runs(p) /\ Mapped(m, p, v) /\ pte(m, p, v).write /\ stores < MaxStores
    /\ stores' = stores + 1
    /\ m' = [Running(p) EXCEPT !.data[pte(m, p, v).frame] = stores + 1]
    /\ wrote' = [wrote EXCEPT ![p][v] = stores + 1]
    /\ UNCHANGED <<family, vmap, brk>>

(* sys_waitpid collects a dead child (there may be more) and stores its    *)
(* status through the pointer of the caller.  CR0.WP is not set, so the    *)
(* kernel does not fault on a read-only page; a page that is not mapped is *)
(* a fault outside user mode, which panics.                                *)
KernelStore(p, v) ==
    /\ Runs(p) /\ p \in dead /\ stores < MaxStores
    /\ stores' = stores + 1
    /\ dead' \in {dead, dead \ {p}}
    /\ IF Mapped(m, p, v)
       THEN /\ m' = [Running(p) EXCEPT !.data[pte(m, p, v).frame] = stores + 1,
                                       !.spoiled = @ \/ ~pte(m, p, v).write]
            /\ wrote' = [wrote EXCEPT ![p][v] = stores + 1]
       ELSE /\ m' = Panic(Running(p), "fault")
            /\ UNCHANGED wrote
    /\ UNCHANGED <<alive, parent, vmap, brk>>

(* The memory after each page of the heap that sys_brk to n pages unlinks. *)
Unlinks(x, p, n) ==
    LET step[v \in 0..HeapTop] ==
            IF v = 0 THEN x
            ELSE IF v \in (n + 1)..brk[p] THEN unlink_page(step[v - 1], p, v) ELSE step[v - 1]
    IN  step

(* sys_brk to n heap pages: pages above are unlinked, more are refused     *)
(* when there are not enough free frames.                                  *)
Brk(p, n) ==
    /\ Runs(p) /\ n # brk[p]
    /\ m' = Done(Unlinks(Running(p), p, n)[HeapTop])
    /\ brk' = [brk EXCEPT ![p] = IF n > @ /\ n - @ > m.free_pages THEN @ ELSE n]
    /\ vmap' = [vmap EXCEPT ![p] = @ \ (n + 1)..brk[p]]
    /\ wrote' = [wrote EXCEPT ![p] = [v \in Page |-> IF v \in (n + 1)..brk[p] THEN 0 ELSE @[v]]]
    /\ UNCHANGED <<family, stores>>

(* sys_fork: the child gets copies of the bitmap and of the page tables. *)
Fork(p, c, keep) ==
    /\ Runs(p) /\ c \notin alive
    /\ alive' = alive \cup {c} /\ dead' = dead \ {c}
    /\ parent' = [parent EXCEPT ![c] = p]
    /\ vmap' = [vmap EXCEPT ![c] = vmap[p]]
    /\ brk' = [brk EXCEPT ![c] = brk[p]]
    /\ wrote' = [wrote EXCEPT ![c] = wrote[p]]
    /\ m' = Done(copy_pgdir(Running(p), p, c, keep))
    /\ UNCHANGED stores

(* sys_exit frees the address space; another task runs next. *)
Exit(p) ==
    /\ CanRun(p) /\ alive # {p}
    /\ m' = [free_pgdir(Running(p), p) EXCEPT !.tlb = 0]
    /\ alive' = alive \ {p} /\ dead' = (dead \cup {parent[p]}) \ {p, "kernel"}
    /\ parent' = [q \in Proc |-> IF q = p THEN "kernel" ELSE IF parent[q] = p THEN parent[p] ELSE parent[q]]
    /\ cr3' \in alive \ {p}
    /\ vmap' = [vmap EXCEPT ![p] = {}]
    /\ brk' = [brk EXCEPT ![p] = 0]
    /\ wrote' = [wrote EXCEPT ![p] = [v \in Page |-> 0]]
    /\ UNCHANGED stores

Next == \E p \in Proc :
    \/ \E v \in Page : FaultAbsent(p, v) \/ Store(p, v) \/ KernelStore(p, v)
    \/ \E v \in Page, keep \in BOOLEAN : FaultReadOnly(p, v, keep)
    \/ \E n \in 0..HeapTop : Brk(p, n)
    \/ \E c \in Proc, keep \in BOOLEAN : Fork(p, c, keep)
    \/ Exit(p)

Spec == Init /\ [][Next]_vars

-----------------------------------------------------------------------------
Sound == m.halted = "no" /\ ~m.spoiled

(* The page entries and page directory entries that lead to frame f. *)
Mappings(f) == {x \in alive \X Entry : Lead(m, x[1], x[2]) = f}

(* Counters stay within their ranges; the u8 reference counts stay below   *)
(* the limit that copy_pgdir asserts.                                      *)
TypeOK ==
    /\ \A f \in Frame : m.memory_map[f] \in 0..MAX_REFS
    /\ m.free_pages \in 0..FRAMES /\ m.tlb \in 0..FRAMES /\ m.spoiled \in BOOLEAN
    /\ m.halted \in {"no", "memory", "fault", "assert"}
    /\ alive \subseteq Proc /\ cr3 \in alive /\ dead \subseteq alive
    /\ parent \in [Proc -> alive \cup {"kernel"}]
    /\ vmap \in [Proc -> SUBSET Page] /\ brk \in [Proc -> 0..HeapTop]
    /\ stores \in 0..MaxStores /\ wrote \in [Proc -> [Page -> 0..MaxStores]]

(* The reference count of every frame is the number of page entries that   *)
(* lead to it, and free_pages counts the frames without one: nothing is    *)
(* freed while it is in use and nothing leaks, over every sequence of      *)
(* faults, brk, fork and exit (alloc_page, free_page, copy_pgdir).         *)
RefsMatch ==
    Sound => /\ \A f \in Frame : m.memory_map[f] = Cardinality(Mappings(f))
             /\ m.free_pages = Cardinality({f \in Frame : m.memory_map[f] = 0})

(* Copy-on-write: a page that can be written belongs to one process.       *)
(* (copy_pgdir, page_fault_handler).                                       *)
WritableIsPrivate ==
    Sound => \A p \in alive, v \in Page :
        (Mapped(m, p, v) /\ pte(m, p, v).write) => Cardinality(Mappings(pte(m, p, v).frame)) = 1

(* A process reads in each page the word it stored there last, or its      *)
(* parent before the fork, whatever the others do.                         *)
OwnData(p, v) == wrote[p][v] # 0 => Mapped(m, p, v) /\ m.data[pte(m, p, v).frame] = wrote[p][v]

(* Address spaces are separate as long as no page table was made in a      *)
(* frame that is not empty (get_pte), no copy went through a stale TLB     *)
(* entry (copy_page) and the kernel wrote to no shared page (sys_waitpid). *)
Separate == Sound => \A p \in alive, v \in Page : OwnData(p, v)

(* The bitmap of a process marks exactly its mapped pages, and none of     *)
(* them lies in the heap beyond brk; so the asserts of link_page,          *)
(* unlink_page and free_page hold and panics have other reasons.           *)
BitmapExact ==
    ~m.spoiled => /\ m.halted # "assert"
                  /\ m.halted = "no" => \A p \in alive :
                        /\ vmap[p] = {v \in Page : Mapped(m, p, v)}
                        /\ \A v \in vmap[p] : InStack(v) \/ v <= brk[p]

(* After a fork the child's memory is a copy: processes do not see each    *)
(* other's stores (070_fork.md).  It does not hold without the conditions  *)
(* of Separate.                                                            *)
ForkSeparates == m.halted = "no" => \A p \in alive, v \in Page : OwnData(p, v)
=============================================================================
