------------------------------ MODULE Devices ------------------------------
(***************************************************************************)
(* The device table of kernel/device.c and how it is filled: kernel_init   *)
(* installs the console and the keyboard, then ata_init probes every drive *)
(* of both buses and installs those that answer with their partitions.     *)
(* All of it happens in one thread before interrupts are enabled; a step   *)
(* is a round of one of its loops, with one probe or at most one entry.    *)
(* The drives that are attached, and their partition tables, are any of    *)
(* Contents.                                                               *)
(***************************************************************************)
EXTENDS Naturals, Sequences, FiniteSets

CONSTANTS DEV_NR, ATA_BUS_NR, ATA_DISK_NR, ATA_PARTITION_NR,
          NULL,
          Contents      \* what can be at a drive's place, see Answers

Drive == 0..(ATA_BUS_NR * ATA_DISK_NR - 1)
Dev == 0..(DEV_NR - 1)

VARIABLES
    attached,   \* the drives: Drive -> Contents
    disk,       \* buses[].disks[]: total_lba and parts of each drive
    devices,    \* the table
    installed,  \* history: the entries in the order of installation
    step,       \* of the start-up
    drive, pidx \* its loops: the drive of the round, and the partition, from 1

vars == <<attached, disk, devices, installed, step, drive, pidx>>

(* A drive answers IDENTIFY when it is there and reports no error; one     *)
(* that reports no sectors is treated as if there was none.                *)
Answers(x) == x.status = "ready" /\ x.total_lba # 0

(* DEV_CONSOLE is the first subtype: what the table is filled with. *)
Unused == [type |-> "DEV_NULL", subtype |-> "DEV_CONSOLE", dev |-> NULL]
NoDisk == [total_lba |-> 0, parts |-> <<>>]

Init ==
    /\ attached \in [Drive -> Contents]
    /\ disk = [d \in Drive |-> NoDisk]
    /\ devices = [i \in Dev |-> Unused]
    /\ installed = <<>>
    /\ step = "console" /\ drive = 0 /\ pidx = 0

(* A new device takes the first free entry; when there is none,            *)
(* get_null_dev panics and the start-up ends there.                        *)
dev_install(type, subtype, dev) ==
    LET free == {i \in Dev : devices[i].type = "DEV_NULL"}
        vdev == CHOOSE i \in free : \A j \in free : i <= j
    IN  /\ free # {}
        /\ devices' = [devices EXCEPT ![vdev] = [type |-> type, subtype |-> subtype, dev |-> dev]]
        /\ installed' = Append(installed, vdev)

console_init ==
    /\ step = "console" /\ step' = "keyboard"
    /\ dev_install("DEV_CHAR", "DEV_CONSOLE", NULL)
    /\ UNCHANGED <<attached, disk, drive, pidx>>

keyboard_init ==
    /\ step = "keyboard" /\ step' = "probe"
    /\ dev_install("DEV_CHAR", "DEV_KEYBOARD", NULL)
    /\ UNCHANGED <<attached, disk, drive, pidx>>

(* The loops over buses and drives go on, or end. *)
NextDrive(then) ==
    IF drive + 1 \in Drive THEN drive' = drive + 1 /\ UNCHANGED step ELSE drive' = 0 /\ step' = then

(* ata_partition reads the table of a drive that is there.  An extended    *)
(* partition is taken as one partition, what is in it is only logged.      *)
ata_partition(x) ==
    IF Answers(x) THEN [total_lba |-> x.total_lba, parts |-> x.table] ELSE NoDisk

ata_bus_init ==
    /\ step = "probe" /\ NextDrive("install")
    /\ disk' = [disk EXCEPT ![drive] = ata_partition(attached[drive])]
    /\ UNCHANGED <<attached, devices, installed, pidx>>

(* ata_device_install: the drive, if it is there, ... *)
install_disk ==
    /\ step = "install" /\ pidx = 0
    /\ IF disk[drive].total_lba = 0
       THEN NextDrive("booted") /\ UNCHANGED <<devices, installed, pidx>>
       ELSE /\ dev_install("DEV_BLOCK", "DEV_ATA_DISK", <<drive, 0>>)
            /\ pidx' = 1
            /\ UNCHANGED <<step, drive>>
    /\ UNCHANGED <<attached, disk>>

NextPart ==
    IF pidx < ATA_PARTITION_NR THEN pidx' = pidx + 1 /\ UNCHANGED <<step, drive>>
    ELSE pidx' = 0 /\ NextDrive("booted")

(* Mutant of install_part: empty partitions are installed, too. *)
install_partEmpty ==
    /\ step = "install" /\ pidx # 0 /\ NextPart
    /\ dev_install("DEV_BLOCK", "DEV_ATA_PART", <<drive, pidx>>)
    /\ UNCHANGED <<attached, disk>>

(* ... and then each of its partitions; one of length 0 is none. *)
install_part ==
    /\ step = "install" /\ pidx # 0 /\ NextPart
    /\ IF disk[drive].parts[pidx].count = 0 THEN UNCHANGED <<devices, installed>>
       ELSE dev_install("DEV_BLOCK", "DEV_ATA_PART", <<drive, pidx>>)
    /\ UNCHANGED <<attached, disk>>

Next == console_init \/ keyboard_init \/ ata_bus_init \/ install_disk \/ install_part

Spec == Init /\ [][Next]_vars

-----------------------------------------------------------------------------
Before(found, i) == {j \in found : j < i}

(* Mutant of dev_find: the count starts with the first match. *)
dev_findOne(subtype, idx) ==
    LET found == {i \in Dev : devices[i].subtype = subtype}
    IN  IF \E i \in found : Cardinality(Before(found, i)) + 1 = idx
        THEN CHOOSE i \in found : Cardinality(Before(found, i)) + 1 = idx ELSE NULL

(* The number of the device of this subtype with index idx, from 0: idx    *)
(* others stand before it.                                                 *)
dev_find(subtype, idx) ==
    LET found == {i \in Dev : devices[i].subtype = subtype}
    IN  IF \E i \in found : Cardinality(Before(found, i)) = idx
        THEN CHOOSE i \in found : Cardinality(Before(found, i)) = idx ELSE NULL

(* What part number i of drive d covers; the drive itself is number 0. *)
Extent(d, i) ==
    IF i = 0 THEN [start |-> 0, count |-> disk[d].total_lba]
    ELSE [start |-> disk[d].parts[i].start, count |-> disk[d].parts[i].count]

(* Mutant of Sector: partitions start at the beginning of the drive. *)
SectorPlain(i, idx) == <<devices[i].dev[1], idx>>

(* dev_read and dev_write: the drive and the sector that sector idx of     *)
(* block device i is.                                                      *)
Sector(i, idx) ==
    LET d == devices[i].dev[1]
    IN  <<d, Extent(d, devices[i].dev[2]).start + idx>>

-----------------------------------------------------------------------------
Blocks(subtype) == {i \in Dev : devices[i].type = "DEV_BLOCK" /\ devices[i].subtype = subtype}

(* Every drive that answers, and every partition of one that is not empty, *)
(* is a device once, and nothing else is but the console and the keyboard, *)
(* whichever places are empty or fail (ata_bus_init, ata_device_install).  *)
DrivesInstalled == step = "booted" =>
    LET there == {d \in Drive : Answers(attached[d])}
        Of(subtype) == {devices[i].dev : i \in Blocks(subtype)}
    IN  /\ Of("DEV_ATA_DISK") = {<<d, 0>> : d \in there}
        /\ Of("DEV_ATA_PART") = {x \in there \X (1..ATA_PARTITION_NR) : attached[x[1]].table[x[2]].count # 0}
        /\ \A i, j \in Dev :
              /\ devices[i].type = "DEV_CHAR" => i \in 0..1
              /\ i # j /\ devices[i].type = "DEV_BLOCK" /\ devices[j].type = "DEV_BLOCK" =>
                    devices[i].dev # devices[j].dev

(* dev_find counts the devices of a subtype in the order in which they     *)
(* were installed; free entries, which have the subtype of the console,    *)
(* are never before a device.                                              *)
FindExact ==
    LET Earlier(k, subtype) == {i \in {installed[j] : j \in 1..(k - 1)} : devices[i].subtype = subtype}
    IN  /\ \A k \in 1..Len(installed) :
              LET subtype == devices[installed[k]].subtype
              IN  dev_find(subtype, Cardinality(Earlier(k, subtype))) = installed[k]
        /\ \A subtype \in {"DEV_KEYBOARD", "DEV_ATA_DISK", "DEV_ATA_PART"} :
              dev_find(subtype, Cardinality(Earlier(Len(installed) + 1, subtype))) = NULL

(* Requests reach their own sectors: those of a partition lie in its range *)
(* of its drive, those of two partitions are never the same when the table *)
(* has no overlaps (ata_pio_partition_read, ata_pio_partition_write).      *)
PartitionsApart == \A i, j \in Blocks("DEV_ATA_PART") :
    LET Reach(k) == {Sector(k, idx) : idx \in 0..(Extent(devices[k].dev[1], devices[k].dev[2]).count - 1)}
    IN  /\ i # j => Reach(i) \cap Reach(j) = {}
        /\ \A s \in Reach(i) : s[2] < disk[s[1]].total_lba
=============================================================================
