------------------------------ MODULE Services ------------------------------
(***************************************************************************)
(* The parts of the kernel that run to the end of a call without           *)
(* interleaving: lists, heap, console, calendar, CMOS, devices and files.   *)
(* They share no state: a behaviour exercises one of them, named by        *)
(* service, and leaves the others where they start.                        *)
(***************************************************************************)
EXTENDS Integers, FiniteSets

CONSTANTS NULL, Queue, Node, key, BLOCK_BITS, MAP_BLOCKS, INODE_NR, DIRECT_BLOCKS, BLOCK_INDEXES, MaxHeld,
          BLOCK_INODES, InodeNrs, BlockNrs,
          PAGE_SIZE, ARENA_SIZE, MIN_BLOCK_SIZE, ARENA_DESC_COUNT, START, PAGES, Sizes,
          Char, SCR_WIDTH, SCR_HEIGHT, CGA_MEM_SIZE, MaxLines, Alarms, Base, MaxTicks,
          DEV_NR, ATA_BUS_NR, ATA_DISK_NR, ATA_PARTITION_NR, LBA_NR

(* The bounds are numbers, display memory has room for two rows more than  *)
(* the screen, alarms are set for later, and one round of reading the CMOS *)
(* takes less than a minute.                                               *)
ASSUME ServicesAssumption ==
    /\ INODE_NR \in Nat \ {0} /\ MaxHeld \in Nat \ {0}
    /\ SCR_WIDTH \in Nat \ {0} /\ SCR_HEIGHT \in Nat \ {0} /\ CGA_MEM_SIZE \in Nat
    /\ SCR_WIDTH * SCR_HEIGHT + 2 * SCR_WIDTH < CGA_MEM_SIZE
    /\ Alarms \subseteq Nat
    /\ Base \in Nat /\ MaxTicks \in Nat /\ MaxTicks < Base

VARIABLES
    service,
    next, prev,
    kernel_vmap, arena, free_list, live, heap_panic,
    video, c, crt,
    date, days,
    clock, updating, time, at, ticks, overlap,
    attached, drives, devices, installed, step, drive, pidx,
    sb, mounted, mem, disk, zone, table, inode_list, held, blocks, inodes, spoiled, fs_panic

list == <<next, prev>>
heap == <<kernel_vmap, arena, free_list, live, heap_panic>>
console == <<video, c, crt>>
calendar == <<date, days>>
cmos == <<clock, updating, time, at, ticks, overlap>>
startup == <<attached, drives, devices, installed, step, drive, pidx>>
files == <<sb, mounted, mem, disk, zone, table, inode_list, held, blocks, inodes, spoiled, fs_panic>>
vars == <<service, list, heap, console, calendar, cmos, startup, files>>

-----------------------------------------------------------------------------
(* Nodes move between lists; what they are sorted by is an int. *)
Lists == INSTANCE List WITH Lists <- Queue

(* A node is no head and no tail, and NULL is the address of none of them. *)
ASSUME ListAssumption ==
    /\ IsFiniteSet(Node) /\ key \in [Node -> Int]
    /\ \A l \in Queue : Lists!head(l) \notin Node /\ Lists!tail(l) \notin Node
    /\ NULL \notin Lists!Link

Heap == INSTANCE Heap WITH panicked <- heap_panic

(* The blocks of each descriptor fit in a page behind its arena_t, and     *)
(* nobody asks for nothing.                                                *)
ASSUME HeapAssumption ==
    /\ PAGE_SIZE \in Nat \ {0} /\ ARENA_SIZE \in 0..(PAGE_SIZE - 1) /\ ARENA_DESC_COUNT \in Nat \ {0}
    /\ \A d \in Heap!Desc : Heap!block_size(d) \in 1..(PAGE_SIZE - ARENA_SIZE)
    /\ START \in Nat /\ PAGES \in Nat /\ Sizes \subseteq Nat \ {0}

Console == INSTANCE Console WITH ERASE <- "_", mem <- video

Calendar == INSTANCE Time

Cmos == INSTANCE Cmos

(* A place may be empty, or its drive fail.  The partitions of a drive of  *)
(* up to LBA_NR sectors lie on it and do not overlap; the entries that are *)
(* used may be any of the table.                                           *)
Entry == [start : 0..LBA_NR, count : 0..LBA_NR]
Apart(e, f) == e.start + e.count <= f.start \/ f.start + f.count <= e.start
Table(size) == {t \in [1..ATA_PARTITION_NR -> Entry] : \A i, j \in 1..ATA_PARTITION_NR :
    /\ t[i].start + t[i].count <= size
    /\ i # j /\ t[i].count # 0 /\ t[j].count # 0 => Apart(t[i], t[j])}
Drives == {[status |-> "none"], [status |-> "error"]}
    \cup UNION {{[status |-> "ready", total_lba |-> size, table |-> t] : t \in Table(size)} : size \in 0..LBA_NR}

Devices == INSTANCE Devices WITH Contents <- Drives, disk <- drives

(* There is a bus, a drive and an entry of its table. *)
ASSUME DevicesAssumption ==
    /\ DEV_NR \in Nat /\ LBA_NR \in Nat
    /\ ATA_BUS_NR \in Nat \ {0} /\ ATA_DISK_NR \in Nat \ {0} /\ ATA_PARTITION_NR \in Nat \ {0}

(* What mkfs.minix makes: the blocks after the super block are the maps of *)
(* ninodes inodes and nblocks blocks, the inodes, the blocks.  Bit 0 of    *)
(* each map and the bits behind the end are set; bit 1 of the inode map is *)
(* the root's, bit 1 of the zone map its directory's.                      *)
Blocks(number, size) == (number + size - 1) \div size
Layout(ninodes, nblocks) ==
    LET imap_blocks == Blocks(ninodes + 1, BLOCK_BITS)
        zmap_blocks == Blocks(nblocks + 1, BLOCK_BITS)
        first == 2 + imap_blocks + zmap_blocks + Blocks(ninodes, BLOCK_INODES)
    IN  [ninodes |-> ninodes, nzones |-> first + nblocks, imap_blocks |-> imap_blocks,
         zmap_blocks |-> zmap_blocks, first_data_zone |-> first]
Bits(first, count, number) ==
    {<<first + j \div BLOCK_BITS, j % BLOCK_BITS>> : j \in {0, 1} \cup (number + 1)..(count * BLOCK_BITS - 1)}
Image(ninodes, nblocks) ==
    LET desc == Layout(ninodes, nblocks)
    IN  [desc |-> desc,
         maps |-> {<<1, 0>>} \cup Bits(2, desc.imap_blocks, ninodes)
                             \cup Bits(2 + desc.imap_blocks, desc.zmap_blocks, nblocks)]

(* A file system has the root and one more inode, a block, and no more map *)
(* blocks than read_superblock reads; an inode has a direct block.         *)
ASSUME FilesAssumption ==
    /\ BLOCK_BITS \in Nat \ {0} /\ BLOCK_INODES \in Nat \ {0} /\ MAP_BLOCKS \in Nat
    /\ DIRECT_BLOCKS \in Nat \ {0} /\ BLOCK_INDEXES \in Nat \ {0}
    /\ InodeNrs \subseteq Nat \ {0, 1} /\ InodeNrs # {}
    /\ BlockNrs \subseteq Nat \ {0} /\ BlockNrs # {}
    /\ \A ninodes \in InodeNrs, nblocks \in BlockNrs :
            LET desc == Layout(ninodes, nblocks)
            IN  desc.imap_blocks <= MAP_BLOCKS /\ desc.zmap_blocks <= MAP_BLOCKS

Files == INSTANCE Files WITH
    Images <- {Image(ninodes, nblocks) : ninodes \in InodeNrs, nblocks \in BlockNrs}, panicked <- fs_panic

-----------------------------------------------------------------------------
Init ==
    /\ service \in {"list", "heap", "console", "calendar", "cmos", "startup", "files"}
    /\ Lists!Init /\ Heap!Init /\ Console!Init /\ Calendar!Init /\ Cmos!Init /\ Devices!Init /\ Files!Init
    /\ service # "startup" => attached = [d \in DOMAIN attached |-> [status |-> "none"]]
    /\ service # "files" => sb = Layout(CHOOSE n \in InodeNrs : TRUE, CHOOSE n \in BlockNrs : TRUE)

Next ==
    /\ UNCHANGED service
    /\ \/ service = "list" /\ Lists!Next /\ UNCHANGED <<heap, console, calendar, cmos, startup, files>>
       \/ service = "heap" /\ Heap!Next /\ UNCHANGED <<list, console, calendar, cmos, startup, files>>
       \/ service = "console" /\ Console!Next /\ UNCHANGED <<list, heap, calendar, cmos, startup, files>>
       \/ service = "calendar" /\ Calendar!Next /\ UNCHANGED <<list, heap, console, cmos, startup, files>>
       \/ service = "cmos" /\ Cmos!Next /\ UNCHANGED <<list, heap, console, calendar, startup, files>>
       \/ service = "startup" /\ Devices!Next /\ UNCHANGED <<list, heap, console, calendar, cmos, files>>
       \/ service = "files" /\ Files!Next /\ UNCHANGED <<list, heap, console, calendar, cmos, startup>>

Spec == Init /\ [][Next]_vars

-----------------------------------------------------------------------------
(* The properties of the parts, for the runs; a part that is not exercised *)
(* is not looked at.                                                       *)

(* list.c: whatever sequence of calls two lists go through, both ways      *)
(* along the links agree, and each call does to its list what its name     *)
(* says, the sorted insertion with equal keys included.                    *)
ListsExact == [](service = "list" => Lists!TwoWay) /\ Lists!CallsExact

(* arena.c, bitmap.c: allocations do not overlap each other or the free    *)
(* blocks, pages are taken exactly while a block of them is in use, and    *)
(* the first run of free pages is found (kmalloc, kfree, kalloc_page).     *)
HeapSound == service = "heap" => Heap!Apart /\ Heap!NoLeak /\ Heap!FirstFit

(* console.c: the screen behaves as a terminal wherever it lies in video   *)
(* memory, and the registers of the CRT follow it (console_write).         *)
ConsoleExact == [](service = "console" => Console!Shown) /\ Console!IsTerminal

(* time.c, rtc.c: mktime is exact until March and within a day after it;   *)
(* the alarm is set to the right time of day; the time read from the CMOS  *)
(* is not put together from two seconds, if no read fell into an update of *)
(* the clock (mktime, set_alarm, time_read_bcd).                           *)
TimeExact ==
    /\ service = "calendar" => Calendar!ExactToMarch /\ Calendar!AlarmExact
    /\ service = "cmos" => Cmos!NotTorn

(* ata.c, device.c: what answers is installed, is found in the order of    *)
(* installation, and partitions do not reach each other's sectors.         *)
DevicesSound ==
    service = "startup" => Devices!DrivesInstalled /\ Devices!FindExact /\ Devices!PartitionsApart

(* fsmap.c: as long as no map is overrun, no block is used twice and the   *)
(* maps, on the disk too, have a one for exactly what is in use.           *)
MapsExact == service = "files" => Files!TypeOK /\ Files!BlocksApart /\ Files!MapsExact

(* inode.c: an inode that callers hold is in memory once, with the number  *)
(* of their references, and no entry in use is given away.                 *)
InodeTable == service = "files" => Files!InodeTable

(* fsmap.c: the block that bmap has answered for a place of a file stays   *)
(* the file's.                                                             *)
FilesKeep == Files!FilesKeep

(* fsmap.c:21: balloc sets the bit of the block that it returns.  It does  *)
(* not hold when a map is overrun.                                         *)
AllocMarks == service = "files" => Files!AllocMarks
=============================================================================
