-------------------------------- MODULE Heap --------------------------------
(***************************************************************************)
(* The kernel heap: kmalloc and kfree of kernel/arena.c over the pages     *)
(* that kalloc_page and kfree_page of kernel/memory.c take from the bitmap *)
(* kernel_vmap.  Addresses are numbers; a page starts with an arena_t, its *)
(* blocks follow.  The callers free what they got, once.                   *)
(***************************************************************************)
EXTENDS Bitmap, FiniteSets, Sequences, SequencesExt

CONSTANTS PAGE_SIZE, ARENA_SIZE,        \* ARENA_SIZE: sizeof(arena_t)
          MIN_BLOCK_SIZE, ARENA_DESC_COUNT,
          START, PAGES,                 \* the first page of kernel_vmap, their number
          Sizes                         \* sizes asked for

VARIABLES kernel_vmap, arena, free_list,
          live,         \* the callers: [addr, size] of what they got
          panicked

vars == <<kernel_vmap, arena, free_list, live, panicked>>

Desc == 0..(ARENA_DESC_COUNT - 1)
block_size(d) == MIN_BLOCK_SIZE * 2^d
total_block(d) == (PAGE_SIZE - ARENA_SIZE) \div block_size(d)
MAX_BLOCK_SIZE == block_size(ARENA_DESC_COUNT - 1)
Page == START..(START + PAGES - 1)

NoArena == [large |-> FALSE, count |-> 0, desc |-> 0]

(* arena_init. *)
Init ==
    /\ kernel_vmap = bitmap_init(PAGES, START)
    /\ arena = [p \in Page |-> NoArena]
    /\ free_list = [d \in Desc |-> <<>>]
    /\ live = {} /\ panicked = FALSE

get_block_from_arena(p, d, i) == p * PAGE_SIZE + ARENA_SIZE + i * block_size(d)
get_arena_from_block(addr) == addr \div PAGE_SIZE
Blocks(p, d) == [i \in 1..total_block(d) |-> get_block_from_arena(p, d, i - 1)]
div_round_up(a, b) == (a + b - 1) \div b

(* kalloc_page: no free run of pages ends the system. *)
kalloc_page(count) ==
    /\ kernel_vmap' = bitmap_insert_nbits(kernel_vmap, count)
    /\ panicked' = (Scan(kernel_vmap, count) = EOF)

kmallocLarge(size) ==
    LET count == div_round_up(size + ARENA_SIZE, PAGE_SIZE)
        p == Scan(kernel_vmap, count)
    IN  /\ kalloc_page(count)
        /\ IF p = EOF THEN UNCHANGED <<arena, live>>
           ELSE /\ arena' = [arena EXCEPT ![p] = [large |-> TRUE, count |-> count, desc |-> 0]]
                /\ live' = live \cup {[addr |-> p * PAGE_SIZE + ARENA_SIZE, size |-> size]}
        /\ UNCHANGED free_list

(* The smallest blocks that are large enough. *)
DescFor(size) == CHOOSE d \in Desc : block_size(d) >= size /\ \A e \in 0..(d - 1) : block_size(e) < size

(* Mutant of Take: the block stays in the free list. *)
TakeKeeps(d, list, ar, size) ==
    LET block == list[1]
        p == get_arena_from_block(block)
    IN  /\ free_list' = [free_list EXCEPT ![d] = list]
        /\ arena' = [ar EXCEPT ![p].count = @ - 1]
        /\ live' = live \cup {[addr |-> block, size |-> size]}

Take(d, list, ar, size) ==
    LET block == list[1]
        p == get_arena_from_block(block)
    IN  /\ free_list' = [free_list EXCEPT ![d] = Tail(list)]
        /\ arena' = [ar EXCEPT ![p].count = @ - 1]
        /\ live' = live \cup {[addr |-> block, size |-> size]}

kmallocSmall(size) ==
    LET d == DescFor(size)
        p == Scan(kernel_vmap, 1)
    IN  IF free_list[d] # <<>>
        THEN Take(d, free_list[d], arena, size) /\ UNCHANGED <<kernel_vmap, panicked>>
        ELSE /\ kalloc_page(1)
             /\ IF p = EOF THEN UNCHANGED <<arena, free_list, live>>
                ELSE Take(d, Blocks(p, d),
                          [arena EXCEPT ![p] = [large |-> FALSE, count |-> total_block(d), desc |-> d]], size)

kmalloc(size) ==
    /\ ~panicked
    /\ IF size > MAX_BLOCK_SIZE THEN kmallocLarge(size) ELSE kmallocSmall(size)

(* kfree_page. *)
kfree_page(p, count) ==
    kernel_vmap' = [kernel_vmap EXCEPT !.bits = @ \ {p - START + i : i \in 0..(count - 1)}]

(* Mutant of kfree: an empty page keeps its blocks in the free list. *)
kfreeKeeps(m) ==
    LET p == get_arena_from_block(m.addr)
        a == arena[p]
        full == a.count + 1 = total_block(a.desc)
    IN  /\ ~panicked
        /\ live' = live \ {m}
        /\ IF a.large \/ full THEN kfree_page(p, IF a.large THEN a.count ELSE 1) ELSE UNCHANGED kernel_vmap
        /\ IF a.large THEN UNCHANGED <<arena, free_list>>
           ELSE /\ arena' = [arena EXCEPT ![p].count = @ + 1]
                /\ free_list' = [free_list EXCEPT ![a.desc] = Append(@, m.addr)]
        /\ UNCHANGED panicked

(* A free list without the blocks of page p. *)
Without(list, p) ==
    LET rest[i \in 0..Len(list)] ==
            IF i = 0 THEN <<>>
            ELSE IF get_arena_from_block(list[i]) = p THEN rest[i - 1] ELSE Append(rest[i - 1], list[i])
    IN  rest[Len(list)]

(* The pages of a large block go back; a small one to its free list, and   *)
(* the page too when none of its blocks is in use any more.                *)
kfree(m) ==
    LET p == get_arena_from_block(m.addr)
        a == arena[p]
        list == Append(free_list[a.desc], m.addr)
        full == a.count + 1 = total_block(a.desc)
    IN  /\ ~panicked
        /\ live' = live \ {m}
        /\ IF a.large THEN kfree_page(p, a.count) /\ UNCHANGED <<arena, free_list>>
           ELSE /\ arena' = [arena EXCEPT ![p].count = @ + 1]
                /\ free_list' = [free_list EXCEPT ![a.desc] =
                     IF full THEN Without(list, p) ELSE list]
                /\ IF full THEN kfree_page(p, 1) ELSE UNCHANGED kernel_vmap
        /\ UNCHANGED panicked

Next ==
    \/ \E size \in Sizes : kmalloc(size)
    \/ \E m \in live : kfree(m)

Spec == Init /\ [][Next]_vars

-----------------------------------------------------------------------------
Bytes(addr, size) == addr..(addr + size - 1)
PagesOf(m) == {a \div PAGE_SIZE : a \in Bytes(m.addr, m.size)}
FreeBlocks == UNION {{[addr |-> b, size |-> block_size(d)] : b \in ToSet(free_list[d])} : d \in Desc}

(* What callers have is theirs alone: it overlaps no other allocation, no  *)
(* free block and no arena_t, and lies in pages that are taken.            *)
Apart ==
    \A m \in live :
        /\ \A o \in (live \cup FreeBlocks) \ {m} : Bytes(m.addr, m.size) \cap Bytes(o.addr, o.size) = {}
        /\ m.addr % PAGE_SIZE >= ARENA_SIZE
        /\ \A p \in PagesOf(m) : bitmap_contains(kernel_vmap, p)

(* Nothing leaks: a page is taken exactly while something in it is in use, *)
(* and the counts of arenas and the free lists agree.                      *)
NoLeak == ~panicked =>
    \A p \in Page :
        LET used == {m \in live : p \in PagesOf(m)}
            a == arena[p]
            free == {b \in FreeBlocks : get_arena_from_block(b.addr) = p}
        IN  /\ bitmap_contains(kernel_vmap, p) <=> used # {}
            /\ used = {} => free = {}
            /\ (\E m \in used : get_arena_from_block(m.addr) = p) /\ ~a.large =>
                a.count = Cardinality(free) /\ a.count + Cardinality(used) = total_block(a.desc)

(* bitmap_insert_nbits finds the first run of n free bits, and finds one   *)
(* whenever there is one.                                                  *)
FirstFit == \A n \in 1..PAGES :
    LET runs == {i \in Page : \A j \in i..(i + n - 1) : j \in Page /\ ~bitmap_contains(kernel_vmap, j)}
        start == Scan(kernel_vmap, n)
    IN  IF runs = {} THEN start = EOF ELSE start \in runs /\ \A i \in runs : start <= i
=============================================================================
