-------------------------------- MODULE Files --------------------------------
(***************************************************************************)
(* The file system: fs/super.c, fs/fsmap.c and fs/inode.c.  It runs before *)
(* interrupts are enabled (kernel_init calls super_init, which mounts the  *)
(* root), one call after the other; a step is one call by a caller who     *)
(* keeps to the interface: he puts the inodes that he got, frees what he   *)
(* allocated and writes into his own blocks only.                          *)
(*                                                                         *)
(* The map blocks stay in the buffer cache while the file system is        *)
(* mounted.  Buffers get their memory from the top down, so the buffer     *)
(* with block k - 1 lies right above the one with block k, and a bitmap    *)
(* that runs over the end of its buffer continues in there.  BLOCK_BITS is *)
(* passed to bitmap_new as a number of bytes: the bitmap of a map block    *)
(* runs over 8 buffers.                                                    *)
(***************************************************************************)
EXTENDS Bitmap, FiniteSets, Sequences, SequencesExt

CONSTANTS
    Images,         \* super blocks and maps, as mkfs.minix makes them
    BLOCK_BITS, MAP_BLOCKS,         \* MAP_BLOCKS: IMAP_MAX_BLOCKS, ZMAP_MAX_BLOCKS
    DIRECT_BLOCKS, BLOCK_INDEXES, INODE_NR,
    MaxHeld         \* bound: times a caller gets the same inode

VARIABLES
    sb,         \* the descriptor of the super block
    mounted,
    mem, disk,  \* the ones of the map blocks, <<block, bit>>: cached and on disk
    zone,       \* the arrays of block numbers: of inode n at -n, of block b at b
    table, inode_list,  \* the pool of inodes; those in use, in order
    held,       \* callers: how often each inode was got and not put
    blocks, inodes,     \* callers: block and inode numbers allocated
    spoiled,    \* a map was overrun or an index block was not empty
    panicked    \* an assertion failed or NULL was followed

maps == <<mem, disk>>
callers == <<held, blocks, inodes>>
vars == <<sb, mounted, maps, zone, table, inode_list, callers, spoiled, panicked>>

Slot == 0..(INODE_NR - 1)
Inode == 1..sb.ninodes
Zone == sb.first_data_zone..(sb.nzones - 1)
TOTAL_BLOCKS == DIRECT_BLOCKS + BLOCK_INDEXES + BLOCK_INDEXES * BLOCK_INDEXES
Preset == {1, 2}    \* numbers of the bits that mkfs.minix sets in the inode map
Free == [nr |-> 0, count |-> 0]     \* dev_id = EOF

(* The places of block numbers: in an inode, in a block of indices. *)
Index(x) == 0..(IF x < 0 THEN DIRECT_BLOCKS + 1 ELSE BLOCK_INDEXES - 1)

(* The block of the first inode map, the first zone map. *)
imap == 2
zmap == 2 + sb.imap_blocks

(* Where bit j of the map that starts in block first is. *)
Bit(first, j) == <<first + j \div BLOCK_BITS, j % BLOCK_BITS>>

(* Where bit j of the bitmap that starts in buffer k is in memory. *)
Place(k, j) == <<k - j \div BLOCK_BITS, j % BLOCK_BITS>>

(* The bitmap that balloc and the others lay over buffer k, in memory m. *)
Over(m, k, offset) ==
    LET size == BLOCK_BITS * (IF k < 8 THEN k ELSE 8)
    IN  bitmap_new({j \in 0..(size - 1) : Place(k, j) \in m}, size, offset)

bwrite(m, d, k) == {x \in d : x[1] # k} \cup {x \in m : x[1] = k}

-----------------------------------------------------------------------------
(* What the calls on the maps read and change; nr is what they return. *)
Maps(m, d, nr, overrun, failed) ==
    [mem |-> m, disk |-> d, nr |-> nr, spoiled |-> overrun, panicked |-> failed]

Now == Maps(mem, disk, 0, spoiled, panicked)

Becomes(s) ==
    /\ mem' = s.mem /\ disk' = s.disk
    /\ spoiled' = s.spoiled /\ panicked' = s.panicked

(* A round of balloc and ialloc: a bit is taken in map block i before its  *)
(* number is held against the limit; a block that the file system does not *)
(* have is NULL.                                                           *)
Round(a, i, first, count, offset, limit) ==
    LET k == first + i
        map == Over(a.mem, k, offset + i * BLOCK_BITS)
        nr == Scan(map, 1)
        j == nr - map.offset
        m == a.mem \cup {Place(k, j)}
        overrun == a.spoiled \/ j >= BLOCK_BITS
    IN  IF i >= count THEN Maps(a.mem, a.disk, 0, a.spoiled, TRUE)
        ELSE IF nr = EOF THEN a
        ELSE IF nr < limit THEN Maps(m, bwrite(m, a.disk, k), nr, overrun, FALSE)
        ELSE Maps(m, a.disk, 0, overrun, FALSE)

Alloc(s, first, count, offset, limit) ==
    LET after[i \in 0..MAP_BLOCKS] ==
            IF i = 0 THEN Maps(s.mem, s.disk, 0, s.spoiled, s.panicked)
            ELSE LET a == after[i - 1]
                 IN  IF a.nr # 0 \/ a.panicked THEN a ELSE Round(a, i - 1, first, count, offset, limit)
    IN  after[MAP_BLOCKS]

(* Mutant of balloc: the number is held against the size of the map. *)
ballocAny(s) == Alloc(s, zmap, sb.zmap_blocks, sb.first_data_zone - 1, sb.nzones + BLOCK_BITS)

balloc(s) == Alloc(s, zmap, sb.zmap_blocks, sb.first_data_zone - 1, sb.nzones)

ialloc(s) == Alloc(s, imap, sb.imap_blocks, 1, sb.ninodes)

(* Mutant of Release: the map block is not written. *)
ReleaseUnwritten(s, first, j) == Maps(s.mem \ {Bit(first, j)}, s.disk, 0, s.spoiled, s.panicked)

(* bfree and ifree: the bit is cleared in the map block of the number. *)
Release(s, first, j) ==
    LET m == s.mem \ {Bit(first, j)}
    IN  IF Bit(first, j) \notin s.mem
        THEN Maps(s.mem, s.disk, 0, s.spoiled, TRUE)
        ELSE Maps(m, bwrite(m, s.disk, Bit(first, j)[1]), 0, s.spoiled, s.panicked)

(* Mutant of bfree: the first bit of the map is taken for the first block. *)
bfreeShifted(s, nr) == Release(s, zmap, nr - sb.first_data_zone)

bfree(s, nr) == Release(s, zmap, nr - (sb.first_data_zone - 1))

ifree(s, nr) == Release(s, imap, nr - 1)

-----------------------------------------------------------------------------
(* bmap: the indices that lead to block n of a file, from the inode on. *)
Path(n) ==
    LET n1 == n - DIRECT_BLOCKS
        n2 == n1 - BLOCK_INDEXES
    IN  IF n < DIRECT_BLOCKS THEN <<n>>
        ELSE IF n1 < BLOCK_INDEXES THEN <<DIRECT_BLOCKS, n1>>
        ELSE <<DIRECT_BLOCKS + 1, n2 \div BLOCK_INDEXES, n2 % BLOCK_INDEXES>>

(* A walk along them: it has come to cell at of the array of node x; it is *)
(* over at an index that is missing.                                       *)
Walker(s, z, x, at, over) == [maps |-> s, zone |-> z, node |-> x, at |-> at, over |-> over]

Number(w) == w.zone[w.node][w.at]

(* The cell gets the number that balloc has returned. *)
Made(w, a) ==
    LET z == IF a.panicked THEN w.zone ELSE [w.zone EXCEPT ![w.node][w.at] = a.nr]
    IN  Walker(a, z, w.node, w.at, w.over)

(* Mutant of Cell: create makes a block that there is already. *)
CellAlways(w, create) == IF ~create \/ w.maps.panicked THEN w ELSE Made(w, balloc(w.maps))

(* The block number in the cell is made if there is none. *)
Cell(w, create) ==
    IF Number(w) # 0 \/ ~create \/ w.maps.panicked THEN w ELSE Made(w, balloc(w.maps))

(* One level down from walk c, unless there is no block.  A new index      *)
(* block has in it whatever its last owner left there.                     *)
Enter(c, index, new) ==
    LET b == Number(c)
        junk == new /\ \E i \in Index(b) : c.zone[b][i] # 0
        s == Maps(c.maps.mem, c.maps.disk, c.maps.nr, c.maps.spoiled \/ junk, c.maps.panicked)
    IN  IF b = 0 \/ c.maps.panicked THEN Walker(c.maps, c.zone, c.node, c.at, TRUE)
        ELSE Walker(s, c.zone, b, index, FALSE)

Descend(w, index, create) ==
    IF w.over THEN w ELSE Enter(Cell(w, create), index, Number(w) = 0)

(* The levels of a path are one, two or three. *)
Walk(z, inode, n, create) ==
    LET path == Path(n)
        Level(w, k) == IF k > Len(path) THEN w ELSE Descend(w, path[k], create)
        from == Walker(Now, z, 0 - inode, path[1], FALSE)
    IN  Cell(Level(Level(from, 2), 3), create)

(* The block number that bmap returns without create. *)
Lookup(z, inode, n) == Number(Walk(z, inode, n, FALSE))

-----------------------------------------------------------------------------
Init ==
    /\ \E image \in Images :
        /\ sb = image.desc
        /\ disk = image.maps
        /\ zone = [x \in (0 - image.desc.ninodes)..(image.desc.nzones - 1) |->
                    [i \in Index(x) |-> IF x = -1 /\ i = 0 THEN image.desc.first_data_zone ELSE 0]]
        /\ held = [n \in 1..image.desc.ninodes |-> 0]
    /\ mounted = FALSE /\ mem = {}
    /\ table = [i \in Slot |-> Free] /\ inode_list = <<>>
    /\ blocks = {} /\ inodes = Preset
    /\ spoiled = FALSE /\ panicked = FALSE

(* Where inode n is in the list; find_inode returns the first. *)
Places(n) == {k \in DOMAIN inode_list : table[inode_list[k]].nr = n}
find_inode(n) == inode_list[Min(Places(n))]

(* iget, for every call of it. *)
Get(n) ==
    LET free == {i \in Slot : table[i] = Free}
        slot == CHOOSE i \in free : \A j \in free : i <= j
    IN  IF Places(n) # {}
        THEN /\ table' = [table EXCEPT ![find_inode(n)].count = @ + 1]
             /\ held' = [held EXCEPT ![n] = @ + 1]
             /\ UNCHANGED <<inode_list, panicked>>
        ELSE IF free = {}
        THEN panicked' = TRUE /\ UNCHANGED <<table, inode_list, held>>
        ELSE /\ table' = [table EXCEPT ![slot] = [nr |-> n, count |-> 1]]
             /\ inode_list' = Append(inode_list, slot)
             /\ held' = [held EXCEPT ![n] = @ + 1]
             /\ UNCHANGED panicked

(* read_superblock and the first iget of mount_root. *)
Mount ==
    /\ ~mounted /\ mounted' = TRUE
    /\ mem' = disk
    /\ Get(1)
    /\ UNCHANGED <<sb, disk, zone, blocks, inodes, spoiled>>

(* Calls are followed until a map or an index block is wrong. *)
Running == mounted /\ ~panicked /\ ~spoiled

iget(n) ==
    /\ Running /\ n \in inodes /\ held[n] < MaxHeld
    /\ Get(n)
    /\ UNCHANGED <<sb, mounted, maps, zone, blocks, inodes, spoiled>>

(* Mutant of iput: a reference that is not the last one frees the inode. *)
iputFrees(n) ==
    /\ Running /\ held[n] > 0
    /\ LET i == find_inode(n)
       IN  /\ table' = [table EXCEPT ![i] = Free]
           /\ inode_list' = RemoveAt(inode_list, Min(Places(n)))
           /\ UNCHANGED panicked
    /\ held' = [held EXCEPT ![n] = @ - 1]
    /\ UNCHANGED <<sb, mounted, maps, zone, blocks, inodes, spoiled>>

(* Slot 0 may not be given back. *)
iput(n) ==
    /\ Running /\ held[n] > 0
    /\ LET i == find_inode(n)
       IN  IF table[i].count > 1
           THEN table' = [table EXCEPT ![i].count = @ - 1] /\ UNCHANGED <<inode_list, panicked>>
           ELSE /\ inode_list' = RemoveAt(inode_list, Min(Places(n)))
                /\ panicked' = (i = 0)
                /\ table' = [table EXCEPT ![i] = IF i = 0 THEN [@ EXCEPT !.count = 0] ELSE Free]
    /\ held' = [held EXCEPT ![n] = @ - 1]
    /\ UNCHANGED <<sb, mounted, maps, zone, blocks, inodes, spoiled>>

inode_state == <<table, inode_list, held>>

Balloc ==
    /\ Running
    /\ LET s == balloc(Now)
       IN  /\ Becomes(s)
           /\ blocks' = blocks \cup ({s.nr} \ {0})
    /\ UNCHANGED <<sb, mounted, zone, inode_state, inodes>>

Bfree(b) ==
    /\ Running /\ b \in blocks
    /\ Becomes(bfree(Now, b))
    /\ blocks' = blocks \ {b}
    /\ UNCHANGED <<sb, mounted, zone, inode_state, inodes>>

Ialloc ==
    /\ Running
    /\ LET s == ialloc(Now)
       IN  /\ Becomes(s)
           /\ inodes' = inodes \cup ({s.nr} \ {0})
    /\ UNCHANGED <<sb, mounted, zone, inode_state, blocks>>

Ifree(n) ==
    /\ Running /\ n \in inodes \ Preset /\ held[n] = 0
    /\ Becomes(ifree(Now, n))
    /\ inodes' = inodes \ {n}
    /\ UNCHANGED <<sb, mounted, zone, inode_state, blocks>>

bmap(n, index, create) ==
    /\ Running /\ held[n] > 0
    /\ LET w == Walk(zone, n, index, create)
       IN  Becomes(w.maps) /\ zone' = w.zone
    /\ UNCHANGED <<sb, mounted, inode_state, blocks, inodes>>

(* The owner of a block writes to it. *)
Store(b) ==
    /\ Running /\ b \in blocks
    /\ zone' = [zone EXCEPT ![b] = [i \in Index(b) |-> sb.first_data_zone]]
    /\ UNCHANGED <<sb, mounted, maps, inode_state, blocks, inodes, spoiled, panicked>>

Next ==
    \/ Mount
    \/ \E n \in Inode : iget(n) \/ iput(n)
    \/ Balloc
    \/ \E b \in Zone : Bfree(b) \/ Store(b)
    \/ Ialloc
    \/ \E n \in Inode : Ifree(n)
    \/ \E n \in Inode, index \in 0..(TOTAL_BLOCKS - 1), create \in BOOLEAN :
            bmap(n, index, create)

Spec == Init /\ [][Next]_vars

-----------------------------------------------------------------------------
TypeOK ==
    /\ mem \subseteq (1..(zmap + sb.zmap_blocks - 1)) \X (0..(BLOCK_BITS - 1))
    /\ \A x \in DOMAIN zone : zone[x] \in [Index(x) -> Zone \cup {0}]
    /\ table \in [Slot -> [nr : Inode \cup {0}, count : 0..MaxHeld]]
    /\ inode_list \in Seq(Slot) /\ held \in [Inode -> 0..MaxHeld]
    /\ blocks \subseteq Zone /\ inodes \subseteq Inode
    /\ {mounted, spoiled, panicked} \subseteq BOOLEAN

(* The arrays of block numbers of an inode: its own, those of its index    *)
(* blocks.                                                                 *)
IndexBlocks(z, n) ==
    LET two == z[0 - n][DIRECT_BLOCKS + 1]
        below == IF two = 0 THEN {} ELSE {z[two][i] : i \in Index(two)}
    IN  ({z[0 - n][DIRECT_BLOCKS], two} \cup below) \ {0}

Nodes(z) == UNION {{0 - n} \cup IndexBlocks(z, n) : n \in Inode}

Linked(z) == (UNION {{z[x][i] : i \in Index(x)} : x \in Nodes(z)}) \ {0}

(* No block is in two files, twice in one, or in a file and in the hands   *)
(* of somebody who allocated it, whatever was allocated, freed and mapped  *)
(* before (bmap with balloc and bfree).                                    *)
BlocksApart == ~spoiled =>
    /\ \A x, y \in Nodes(zone) : \A i \in Index(x), j \in Index(y) :
            zone[x][i] # 0 /\ zone[x][i] = zone[y][j] => x = y /\ i = j
    /\ Linked(zone) \cap blocks = {} /\ Linked(zone) \subseteq Zone

(* The bit of a number, in the block of the map that it belongs to. *)
ZoneBit(b) == Bit(zmap, b - (sb.first_data_zone - 1))
InodeBit(n) == Bit(imap, n - 1)

(* The maps have a one for exactly the blocks and inodes in use, in the    *)
(* cache and on the disk.                                                  *)
MapsExact == mounted /\ ~panicked /\ ~spoiled => \A m \in {mem, disk} :
    /\ {b \in Zone : ZoneBit(b) \in m} = blocks \cup Linked(zone)
    /\ \A n \in 1..(sb.ninodes - 1) : InodeBit(n) \in m <=> n \in inodes

(* An inode that callers hold is in memory once, with as many references   *)
(* as they have; the others are not in memory (iget and iput).             *)
InodeTable == mounted /\ ~panicked =>
    /\ \A n \in Inode :
        IF held[n] = 0 THEN Places(n) = {}
        ELSE \E k \in DOMAIN inode_list :
                Places(n) = {k} /\ table[inode_list[k]] = [nr |-> n, count |-> held[n]]
    /\ \A i \in Slot : i \notin ToSet(inode_list) => table[i] = Free

(* A block of a file stays where it is: no call changes the number that    *)
(* bmap returns for it, once there is one.                                 *)
FilesKeep == [][mounted /\ ~spoiled' /\ zone' # zone =>
    \A n \in Inode, i \in 0..(TOTAL_BLOCKS - 1) :
        Lookup(zone, n, i) # 0 => Lookup(zone', n, i) = Lookup(zone, n, i)]_vars

(* fsmap.c:21: a block number is returned and the bit of the zone map that *)
(* belongs to it is set.                                                   *)
AllocMarks == \A b \in blocks : ZoneBit(b) \in mem
=============================================================================
