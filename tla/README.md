# TXOS in TLA+

A verification development for the TXOS kernel (`src/src`), a teaching
operating system for one 32-bit x86 CPU: preemptive tasks, processes, mutexes,
disk requests, a buffer cache and the beginnings of a Minix file system.

The modules are translations of the C code at this commit. `PROJECT.json`
lists, for every definition, the lines it stands for, and the runs, mutants,
theorems, findings and hazards.

## Contents

1. Inventory of the system
2. How concurrency works in this kernel
3. Modules and their correspondence with the code
4. Runs: what TLC checks, bounds, fairness
5. Proofs
6. Where documents and code disagree
7. What is not modelled
8. Plan

## 1. Inventory

| component | state | operations | correct means |
|---|---|---|---|
| tasks (`task.c`, `thread.c`) | `task_queue`, PCB fields `state ticks jiffies ppid waitpid`, `blocked_queue`, `sleeping_queue` | `schedule`, `task_block`, `task_unblock`, `task_sleep`, `task_wakeup`, `sys_yield`, `sys_fork`, `sys_exit`, `sys_waitpid` | one task runs and it is the one marked running; list nodes and states agree; no wake-up is lost; the parent relation is a tree of live processes; sleepers wake in time |
| clock (`clock.c`) | `jiffies`, `beeping` | `clock_handler`, `start_beep`, `stop_beep`, `sys_time` | time slices never underflow; beeps end; time does not go back |
| mutex, lock (`mutex.c`) | `semphore`, `waiters`; `holder`, `repeat` | acquire, release | mutual exclusion under preemption, reentrancy, no lost wake-up, interrupt flag restored |
| interrupt flag (`interrupt.c`) | EFLAGS.IF per task | `irq_disable`, `set_irq_state`, `irq_save`, `irq_restore` | callers get their own flag back |
| device table, requests (`device.c`) | `devices[]`, `request_list`, `direction` | `dev_install`, `dev_find`, `dev_request`, `next_request` | one request per device served at a time, every request served, elevator order |
| ATA driver (`ata.c`) | `bus->lock`, `bus->waiter`, `bus->active`, partitions | `ata_pio_read`, `ata_pio_write`, `ata_handler`, identify, partition | a task moves the data of its own command; the interrupt finds its waiter |
| buffer cache (`buffer.c`) | hash table, `free_list`, `wait_list`, per buffer `count dirty valid` | `getblk`, `bread`, `bwrite`, `brelse` | one buffer per block, no reuse while referenced or dirty, waiters woken |
| keyboard, FIFO (`keyboard.c`, `fifo.c`) | key states, modifiers, ring buffer, `waiter` | `keyboard_handler`, `keyboard_read` | bytes arrive in order, the reader is woken, modifiers follow the keys |
| memory (`memory.c`) | `memory_map` reference counts, page tables, `brk` | `alloc_page`, `free_page`, `link_page`, `copy_pgdir`, `free_pgdir`, page fault | reference counts equal mappings; copy-on-write never shares a writable page |
| heap, bitmap (`arena.c`, `bitmap.c`) | arenas, free lists, bitmaps | `kmalloc`, `kfree`, `bitmap_insert_nbits` | blocks disjoint, arenas freed when empty |
| file system (`fs/`) | superblock table, inode table, inode and zone maps | `read_superblock`, `ialloc`, `balloc`, `bmap`, `iget`, `iput` | one inode in memory per number, maps count allocations |
| time (`time.c`, `rtc.c`) | `startup_time`, CMOS | `mktime`, `time_read`, `set_alarm` | seconds since 1970 |
| console, formatting, strings | screen memory, cursor | `console_write`, `vsprintf` | cursor inside the screen |
| boot, GDT, IDT, system call table | – | straight-line set-up | – |

Interaction: system calls and interrupt handlers call into `task.c`; drivers
block the current task in its default queue and their handlers unblock it; the
lock puts tasks in a queue of its own through `task_block`; the buffer cache
calls `dev_request`, which calls the ATA driver through the device table; the
file system calls the buffer cache; `fork` and `exit` copy and free address
spaces.

Hard: a task stops in the middle of `sys_waitpid`, `mutex_acquire`,
`dev_request`, `bread` and goes on after any number of steps of others; the
clock interrupt may preempt kernel threads anywhere; the disk interrupt is
matched with its waiter by one pointer per bus; `jiffies` and `ticks` are u32
and wrap; slots, buffers, inodes run out.

## 2. How concurrency works in this kernel

One CPU. Interrupts and system calls enter through interrupt gates and run
with the interrupt flag clear, so their code is atomic up to a call of
`schedule()`: in `task_block`, `task_yield`, `sys_exit`, or in `clock_handler`
when the slice is used up. The task that `schedule()` leaves goes on behind that call when
it is chosen again, with interrupts still off. Kernel threads (idle, test)
run with interrupts on and can be preempted anywhere.

This gives three granularities. `Task`, `BlockDev`, `Buffer` and `Keyboard`
model code that always runs with interrupts off: an action is everything from
one scheduling point to the next. `Mutex` is used by callers of both kinds, so
each memory access is a step of its own and the interrupt flag is part of the
state. The calls of `Memory` and of the parts gathered in `Services` neither
block nor are interrupted (or run in the only thread of the start-up): there an
action is a whole call, and what is checked is every sequence of calls.

## 3. Modules

### Task (`task.c`, `clock_handler`, `idle_thread`)

State: the PCB fields as functions on slots (a pid is a slot), `current`,
`jiffies`, the two queues; `call` is the argument of the `sys_waitpid` a task
is inside, its program counter; `idle_pc` tells `hlt` from the `yield` behind
it; `mode` is "panic" after the NULL dereference of `fork` on a full table.

| action | code |
|---|---|
| `Yield` | `sys_yield`, `task_yield` |
| `Block`, `Unblock(t)` | `task_block` by a driver, `task_unblock` by its interrupt handler |
| `Sleep(ms)` | `sys_sleep`, `task_sleep` with `list_insert_sort` |
| `ClockInterrupt` | `clock_handler` with `task_wakeup` and `schedule` |
| `Fork`, `ForkNoSlot` | `sys_fork` |
| `Exit` | `sys_exit`, with the wake-up of the parent and `schedule` |
| `Waitpid(pid)`, `WaitpidResume` | `sys_waitpid`, called, and resumed in its loop |

`task_search` is the code's scan in slot order with the code's test, as a
recursive function; `Signed` is the signed reading of a key in
`list_insert_sort`. `WORD` stands for 2^32. `blocked_queue` is a set, because
its order is never read. Left out: stacks and registers, the address spaces,
`status`, `uid`, `brk`, and the beeper that `clock_handler` also serves
(it shares nothing with the tasks but `jiffies`).

Not every task has the calls a user process has: idle only yields and halts,
and only user processes fork, exit and wait (the asserts on `uid`). User code
is otherwise unconstrained.

### ReentrantLock and Mutex (`mutex.c`, interrupt flag)

`ReentrantLock` is the promise of `054_lock.md`: `held[t]` counts acquires; only
a task that holds the lock, or any task when nobody does, acquires; only the
holder releases. `Mutex` has one action per access: `AcquireCall` tests
`holder` with interrupts as they are, `AcquireDisable` clears the flag,
`AcquireBlock`/`AcquireFree` are the `while` test, and so on to
`ReleaseRestore`. `iff[t]` is the flag a task will find when it runs, `irq[t]`
the local variable it is saved in. `CanRun(t)`: `t` is on the CPU, or nobody
is (after `schedule()`), or the task on the CPU can be preempted.
`Syscall` are the tasks that call with interrupts off.
The refinement mapping is `Held`: the caller's nesting count, one already
between `semphore--` and the end of `mutexlock_acquire`.

### BlockDev (`dev_request`, `next_request`, ATA PIO, `ata_handler`)

`request_list[d]` is the sequence of tasks with a request, sorted by `idx`;
`pc` is where a task waits: "queued" in the `task_block` of `dev_request`,
"lock" in the queue of the bus lock, "io" in `task_block` for the interrupt,
"done" in the `task_yield` of `mutexlock_release`. `active` and `owed` are the
drive: whose command it executes, whether it owes an interrupt. Requests for
the disk and for partitions have lists of their own and meet at the bus lock.
Reads and writes wait for one interrupt per sector alike, so one action stands
for both. The lock is used with interrupts off only, and is modelled at that
granularity (`PioStart`, `LastSectorYield`). `DriveError` is external: a drive
that ends a command without an interrupt.

### Buffer (`buffer.c`)

A block has a version number as contents; the disk, the buffers and the last
modification (`latest`) can so be compared. `bread` is `BreadHit`, `BreadNew`,
`BreadReuse` or `BreadWait`, by what `getblk` finds, and `BreadReturn` when it
had to read; `bwrite` and `brelse` are split where they block in `dev_request`
(`Bwrite`, `Transfer`, `BwriteReturn`; `BrelseShared`, `BrelseLast`,
`BrelseReturn`). `Modify` is a caller who changes a buffer he holds and marks it
dirty, as `balloc` does. `Transfer` is external: the device moves the block at
some moment of the call. Two asserts stop the kernel (`halted`): `getblk` gets a
dirty buffer from the free list, and the wake-up of a waiter, see section 6.

`raced` is history: a buffer was modified, or a write of it begun, while a
transfer of it was under way. `Coherent` speaks of behaviours without that;
`RefsCounted` and `OneBufferPerBlock` of all.

### Memory (`memory.c`, page faults, address spaces of `fork` and `exit`)

`m` is the memory: counts per frame, data and page entries in each frame, page
directories, and the TLB entry of virtual page 0. The functions of `memory.c`
(`alloc_page`, `free_page`, `get_pte`, `link_page`, `unlink_page`, `copy_page`,
`copy_pgdir`, `free_pgdir`) are functions from a memory to a memory, the actions
call them: `FaultAbsent` and `FaultReadOnly` (`page_fault_handler`), `Brk`,
`Fork`, `Exit`, `Store` (user code), `KernelStore` (the status that
`sys_waitpid` writes through a user pointer), `Running` (`task_activate`).
A page table is a frame like any other, so running out, reuse and junk in
page tables are possible. `wrote` records what a process stored last. The
loops over page tables (`Copies`) and heap pages (`Unlinks`) are recursive
functions; `Release` is the loop of `free_pgdir` in one step: each frame loses
as many references as there are entries that lead to it, as free_page does one
by one, in whatever order.
`sys_brk` asserts that `brk` stays below the stack (`memory.c:561`), so the page just
under the stack is never a page of the heap; the model leaves it out.

`spoiled` is history: a page table was made in a frame that is not empty, a copy
went through a stale TLB entry, or the kernel stored into a shared page. After
such a step the code's memory is arbitrary; the properties of the run `memory`
are about behaviours before it, and the run does not go on behind it.
`fork_separate` does.

### Keyboard and DropQueue (`keyboard.c`, `fifo.c`)

An action is one interrupt (`PrefixByte`, `IllegalCode`, `MakeCode`,
`BreakCode`) or what a reader does until it blocks (`Read`, `Retry` after the
lock's queue, `Resume` after the keyboard's wake-up). `down` and `prefix` are
the keyboard itself: keys are pressed, repeated and released, prefixed ones in
two bytes. A byte in the ring is a running number. `DropQueue` is the promise of
the ring buffer: a bounded queue that loses its oldest byte.

### Services and its parts

The parts without interleaving are modules of their own that `Services`
instantiates side by side; `service` names the one a behaviour exercises.

| module | code | an action is | compared with |
|---|---|---|---|
| `List` | `list.c`, on the links | a call on one of two lists, any order | the sequence of nodes |
| `Heap`, `Bitmap` | `arena.c`, `kalloc_page`, `bitmap.c` | `kmalloc` or `kfree` | sets of bytes |
| `Console`, `Terminal` | `console.c` in video memory | one character | `Terminal`, rows that scroll (a refinement) |
| `Time` | `mktime`, `get_yday`, `set_alarm`, BCD | the next day, 1970 to 2069 | a calendar walked day by day |
| `Cmos` | `time_read_bcd` | one register read, or an update of the clock begins or ends | times the clock really showed |
| `Devices` | `device.c` table, ATA start-up | the next round of the start-up's loops | the drives attached and their partitions |
| `Files` | `fsmap.c`, `inode.c`, `super.c` | a call of `iget`, `iput`, `balloc`, `bfree`, `ialloc`, `ifree`, `bmap`, or the mount | sets of blocks and inodes in use |

In `Cmos` the registers are off the bus during an update (`038_rtc.md:28-39`: up to
1984 microseconds in every second), and a read of one then returns anything.
`time_read_bcd` never polls the bit UIP that announces this (`time.c:67-76`), so
reads do fall into updates; `overlap` is history and says that one did in this
round. `NotTorn`, a part of `TimeExact`, is about the rounds without: there the
second look at the second is enough. For the others see section 6.

In `Files` buffers lie in memory in the order of their allocation, because
`balloc` and `bfree` run over the end of a map block; `spoiled` is history again:
a map was overrun, or an index block was used that was not empty. Callers keep
to the interface. The file system code is called by one thread only at this
commit (`super_init` at the end of the start-up).

### MC modules

Instances for TLC; `MCBlockDev`, `MCBuffer` and `MCMemory` add symmetry of
tasks, devices or processes, used by safety runs only. `MCServices` gives the nodes
of the lists their keys; the other instances of the services are in the cfg.

## 4. Runs

| run | checks | instance | distinct states |
|---|---|---|---|
| `tasks` | `OneRunning`, `ParentAlive`, `TreeRooted`, `WaiterHasLiveChild`, `WokenWaiterHasZombie`, `TypeOK`, `QueuesMatchStates`, `NoEmptySlice`, `WakesOnTime` | 5 slots, slice 2; four slots with sleeps of 1 and 2 ticks and 4 ticks, the fifth slot for 3 ticks without sleep | 1 459 000 |
| `lock` | `MutualExclusion`, `AssertsHold`, `NoLostWakeup`, `IrqRestored`, `FreeIsTaken`, `ImplementsLock` | 2 kernel threads, 1 system call, nesting 2 | 3 000 |
| `disk` | `OneServed`, `OwnCommand`, `InterruptFindsWaiter`, `Scan` | 4 tasks, disk and partition, 3 sectors, up to 2 sectors a request, drive errors | 273 000 (up to symmetry) |
| `disk_live` | `IoEnds`, `DiskWorks`, no deadlock | 3 tasks, 2 devices, no drive errors | 11 000 |
| `buffer` | `RefsCounted`, `OneBufferPerBlock`, `Coherent` | 2 tasks, 3 blocks, 2 buffers, 2 modifications | 465 000 (up to symmetry) |
| `memory` | `RefsMatch`, `WritableIsPrivate`, `Separate`, `BitmapExact` | 2 processes, 5 frames, 2 page tables, 2 stores | 450 000 (up to symmetry) |
| `keyboard` | `NoLostWakeup`, `TypedAsHeld`, `IsQueue`, `ReaderServed`, no deadlock | 2 readers, 4 keys, ring of 3 | 123 000 |
| `services` | `ListsExact`, `HeapSound`, `ConsoleExact`, `TimeExact`, `DevicesSound`, `MapsExact`, `InodeTable`, `FilesKeep` | see below | 294 000 |
| `buffer_write`, `fork_separate`, `zone_map` | violated, see section 6 | as `buffer`, `memory`, `services` | |
| `mktime` | `SecondsSince1970`, violated, see section 6 | every day from 1970 to 2069 | |

**What the newer runs show.** `buffer`: through every sharing, release, delayed
write and reuse a buffer that somebody has is never given away, a block never has
two buffers, and if nobody touches a buffer during its transfer every block
reads as it was last written. `memory`: counts equal mappings, so nothing is
freed in use and nothing leaks; a writable page has one owner; a process reads
what it or its parent stored; bitmap, page tables and `brk` agree, so that no
assert fails. `keyboard`: the interrupt never misses a blocked reader, whatever
the second one does; a character has the case of the keys held at that moment
although `keyboard.shift` goes stale on release; a reader ends its call while
characters keep coming. `services`: each part, through every sequence of its
calls, equals its reference.

**Bounds.** `tasks`: five slots give init two children, a grandchild, a
grandchild that changes parent, and a slot used again; a cycle of parents, a
lost child or a stale `waitpid` needs no more. Clock interrupts only reorder
these calls, so three suffice; the constraint `Bounds` of `MCTask` cuts off
behind states in which the fifth slot is used beside a sleeper or later. Two tasks (init and test, or a forked
child) sleep for one or two ticks, which covers equal, rising and falling
wake-up times; `WORD` is 64, far from wrapping, which is the condition of the
sleep theorems. The wrap of u32 values is covered by the theorems on `TypeOK` and
`NoEmptySlice`, which hold for every `WORD`. `lock`: two preemptible
tasks and one with interrupts off are one each of holder, waiter and
latecomer, in both modes. `disk`: three requests on one device beside one on
the other; on three sectors the head turns, passes and meets equal sectors.
`buffer`: more blocks than buffers, so that buffers are reused and run out; two
tasks overlap in any two transfers. (Three tasks give 8 million states and the
same result, in four minutes.) `memory`: a page table for the heap and one for the
stack, frames that run out, a process slot used again; `MAX_REFS` is above
the number of processes, as 255 is above the 64 slots of the task table.
`keyboard`: a letter, a key with a prefix, a shift key and caps lock; a ring of
two bytes overflows and empties. `services`: four nodes, two with one key, in
two lists; four heap pages with blocks of two sizes and a large one; a screen of
two rows in video memory of five; every day of a hundred years; three CMOS
registers with two updates a round, less than a minute (a read takes far
less), each with a beginning and an end between any two reads; two buses with a drive that is absent, fails or has up to two
sectors, under every partition table of two entries that do not overlap, and a
device table of seven slots, which some of these drives fill; file systems of four and of seven blocks and map blocks
of five bits, hence with one and with two blocks of zone map; files up to
the second level of index blocks, two entries of inode table.

`CHECK_DEADLOCK FALSE` is used where the model really stops: after a panic or a
failed assert (`Task`, `Buffer`, `Memory`, `Services`), at the bounds on
`jiffies`, days and start-up steps, and in `BlockDev` after a drive error.

**Fairness.** `FairSpec` of `Mutex`: weak fairness of the steps inside the
lock code *taken together*, which says only that the CPU goes on executing
some task that can run; and of `Away` for tasks in a system call, because a
system call ends or blocks. It is not assumed that a task calls, releases, or
is ever chosen. `FairSpec` of `BlockDev`: the drive interrupts for each sector
(it may fail instead when `DriveErrors` holds), and some ready
task goes on. `SchedFairSpec` gives every ready task its turn. It is stronger
than what `task_search` guarantees, and used only for a violation: even so the
statement fails. `FairSpec` of `Keyboard`: the
CPU goes on executing some reader that is ready, again not a particular one.
This leaves out programs that compute for ever and that `task_search` may
prefer. Nothing is assumed of the keyboard: `ReaderServed` has the typing as its
premise.

Every property has a mutant, a variant of a modelled definition with a
plausible slip (a missing reset, a dropped test, a swapped flag), defined next to the
original; under it TLC finds the property violated. A property that joins
several statements has a mutant for each of them.

The modules state more invariants than the runs list; they hold on the same
instances: the other type invariants, `DueSleepersWoken` (implied by
`WakesOnTime`), `RepeatCounts`, `ListsSorted`, `CleanIsOnDisk` of `Buffer`,
`KeysInSync` and `LockMoves` of `Keyboard`. All but the type invariant of
`Memory` are theorems, see section 5; of that one the ranges that matter are
theorems too (`MemoryInvariance`, `CountsBounded`).

## 5. Proofs

The proof modules `TaskProofs`, `MutexProofs`, `BlockDevProofs`,
`KeyboardProofs`, `BufferProofs`, `MemoryProofs`, `ServicesProofs` and `FileProofs`
hold for every value of the constants under the named assumptions of the modules they are about (at least
three slots, a priority between 1 and `WORD`, sleeps shorter than `WORD` ticks,
`NULL` is no task, the sizes of tables and rings are positive numbers). Nothing
is assumed of the number of tasks that share a lock, a disk, a keyboard or a
buffer: it may be infinite. `Memory` needs finitely many processes, fewer than
`MAX_REFS`, because frames count them (64 slots and 255 in the code), and
`Cmos` fewer ticks in a round of reading than a digit has values (60 in the
code: a round takes microseconds, a full turn of the second's register a minute).
The console's screen has at least one place and display memory holds at least
one byte more than two rows beyond it; blocks of every descriptor fit in a page behind its `arena_t`
and nobody asks the heap for 0 bytes; a node of a list is neither the head nor the tail
of one, NULL is the address of none of them, and there are finitely many nodes
(`ListAssumption`); there is a bus, a drive per bus and an
entry per partition table, and the partitions of a drive lie on it and do not overlap.
A disk is as mkfs.minix makes it, for any numbers of inodes and blocks (`Layout`,
`Image`), with the root and one inode more, at least one block, and no more map
blocks than `read_superblock` reads; an inode has a direct block, an index block
an index.

**Task.** `IInv` is the conjunction of the type invariant, the properties
below, and what makes them inductive: idle is always ready or running
(`IdleRunnable`, so `task_search` may fall back on it), init may die but is
never collected (`InitKept`: the loops start at slot 2), a task is inside
`sys_waitpid` only if it is waiting or was woken (`CallsMatchStates`), and idle
and init are children of idle (`RootParents`). That no process is its own parent is not inductive by itself: handing
children over turns a two-cycle into a loop. `TreeRooted`, which says that no
non-empty set of processes is closed under parents, is; it is preserved by
`fork` because a new slot has no children, by `exit` because handing over
shortens paths, and by collecting because `ParentAlive` leaves a dead process
without children. One lemma per action shows `IInv` preserved;
`ScheduleEffect` states once what `schedule()` does to the states and slices.
From it: `TypeCorrect`, `RunningIsCurrent`, `ListsMatch`, `SlicesPositive`,
`ParentsLive`, `ProcessTree`, `NoLostChildWakeup`, `WokenParentCollects`.

**Sleep.** Under `NoWrap` (the time and every wake-up time that a sleep can ask
for stay below `WORD / 2`) the sleeping queue is sorted by `ticks` and holds no time before `jiffies`
(`SleepInv`). From it `NoSleeperLeftBehind` and `SleepersWakeOnTime`.
`sleep_wrap.cfg` shows that the condition cannot be dropped. The other half of
`NoWrap` is that the sum in `div_round_up` does not wrap: a sleep of 2^32 - 9 ms
or more would be rounded up to no period at all.

**Mutex.** `MInv` says which program points own the mutex, that at most one
task is at them, that `semphore` is 0 exactly then, that interrupts are off
between `irq_disable` and `set_irq_state`, that the task that has found
`semphore` 1 keeps the CPU until it has taken it (`TakeAlone`), that `holder` and `repeat` agree with the owner, and that
waiters are at "blocked". From it the six safety theorems, and `LockRefines`:
`Spec => ImplementsLock`, by the mapping `Held`.

**BlockDev.** `DInv` joins the types with `BusInv` (the holder of the bus lock
is the only task in "io", those in its queue are at "lock", and the drive's
command and the interrupt it owes are the holder's), `ListInv` (a task is in the list of the
device it asked, once, exactly while its request lasts), `OneServed` and
`ListsSorted`. `OneServed` needs the list: the task that leaves wakes the one
`next_request` chose, who is in "queued" only because nobody else is served.
`OwnCommand` and `InterruptFindsWaiter` are then facts about `BusInv`. The
elevator property `Scan` follows from the list being sorted:
the request next in the direction of travel is a neighbour in the list.

**Keyboard.** `KInv` is the types with the indices of the ring inside it,
`KeysInv` (the driver's table agrees with the keys that are down; only some
keys have a prefix) and `ReadersInv` (a reader blocked for a character is the `waiter`, holds
the lock and the ring is empty; a woken one finds a byte). From it
`NoLostWakeup`, `LockMoves`, `TypedAsHeld`, and `KeyboardIsQueue`: the ring of
`BUFFER_SIZE` cells between `tail` and `head` is a queue of `BUFFER_SIZE - 1`
bytes, where the step from the last cell to cell 0 is the case that matters.

**Buffer.** `BInv` has the types, which buffers are in use (`UsedInv`), one
buffer per block, the references that each program point holds (`RefsInv`),
`RefsCounted`, and, as long as there was no race, what clean, reading and
writing buffers contain (`DataInv`). A held or a dirty buffer is valid, so no
read begins in a buffer that is being written; a buffer is reused only when it
is clean and has no reference, hence no transfer under way; and with one buffer
per block a transfer changes the disk block of no other buffer. `Coherent`
and `CleanIsOnDisk` follow. The references of a buffer are a finite set of
numbered pairs, so counting them needs no finite set of tasks. `HeldStays`, that
a buffer keeps its block while somebody holds it, is an action property stated
in `BufferProofs`.

**Memory.** `MInv` is the types and, unless the memory is spoiled or the kernel
stopped for lack of memory or a fault (`Bad`), the following. Counts are exact
(`Counted`); a page table is one entry of one directory
(`TablesPrivate`); a frame is at most once in an address space (`Once`); only page
tables have entries (`Plain`); dead processes have no memory (`Dirs`); a
writable page has one owner (`WritesPrivate`); bitmaps mark the mapped pages
(`Marked`) and contents are what was stored (`Kept`). None of the four checked
properties is inductive alone. A step that sets an entry of a page table must
change no other address space, which is `TablesPrivate`. `alloc_page` gives out
a frame that nobody uses because counts are exact, and that frame must hold no
entries, which is `Plain`. The copy that `page_fault_handler` skips for a
count of 1 is safe because that 1 is the number of users. `fork` adds one to the
count of each page it shares and not more, which is `Once`; with fewer processes
than `MAX_REFS` the count then stays below the limit that `copy_pgdir` asserts
(`CountsBounded`), and the u8 does not wrap. A failed assert is not among the
exceptions: that none fails is part of what is proved (`ExactBitmaps`). `x.data`
and `x.entries` of a frame are separate in the model, and a page table that is made in a
frame with data is a spoiled memory.

The proof first says what each function does to a memory (`AllocEffect`,
`FreeEffect`, `SetPteEffect`, `GetPteEffect`, `LinkEffect`, `UnlinkEffect`, `CowEffect`,
`ShareEffect`, `CopyTableEffect`, `ReleaseEffect`) and then combines
these per action. Induction theorems cannot be used, so the two loops
are proved by a minimal counterexample: the set of indices at which the loop
has gone wrong, were it not empty, would have a smallest element, and the step
to it refutes that (`CopyEffect`, `UnlinksEffect`).

**Services.** A behaviour of `Services` exercises one part, so an invariant of a
part is proved from its own steps and the fact that the others leave it alone.

*Lists* (`LinksInv`): there are sequences, one per list, such that the links join
head, nodes and tail of each both ways (`Chain`), no node is twice in one or in two
of them (`OnceIn`), and a node in none has no links: this is `Lay`. The properties speak
of what the loops of `list.c` find (`Forward`), which says nothing of a node that no loop
reaches and so is not inductive; `Lay` is, because it says of every link where it
leads. The loops find these sequences and end within as many steps as there are nodes
(`AlongIs`, `LayForward`). Two assignments through pointers put a node between two
neighbours or take it from between them (`InsertLay`, `RemoveLay`): they touch the points they
mean and no other, because the points of all lists differ (`PtSame`). What is left is
to say which point a call means: `insert_sort` stops at the first node that is
not less. From it `ListsAreExact`, for any lists, nodes and keys, the action property of
`CallsExact` included.

*CMOS* (`CmosInv`), as long as no
register was read during an update: since the second of a round was read the
clock has been updated `k` times, and if `k` is 0 all that was read is what it
shows. The register of the second is then `(time.sec + k) % Base`, so it reads
the same at the end of the round only for `k = 0`, because `k < Base`. *Calendar* (`CalendarInv`): the date is a day of
its month, and what `mktime` adds up for it is the number of days that have
passed, and one more from April on. The full rule of leap years is every
fourth year in the hundred years of the CMOS (`LeapYears`), and the table of
`time.c` and `(year + 1) / 4` move with the calendar by one a day across the
ends of months and years (`MonthEnds`, `YearDaysFit`), and by two from the last
of March to the first of April.
`set_alarm` is exact for every number of seconds, by quotients
and remainders (`Division`, `Quotient`, `Carry`), and not for seven chosen
alarms. Together: `TimesExact`. *Inode table* (`InodeInv`): each entry listed
has an inode number that the file system has, an inode that is held is
listed in one place with its count, one that is not held in none, and entries
that are not listed are free. The number is what makes it inductive:
a free entry has number 0, so `iget` never takes an entry that is in
the list. `RemoveStep` says that taking the `k`-th element out of the list leaves
the others in one place each. An `iget` without a free entry and the last `iput` of
slot 0 are assertions; they end the system, and nothing is claimed after them.
From it `InodesExact`, for every size of the table and number of references.

*Console* (`ConsoleInv`): the screen is at the start of display memory or one row
behind it, the cursor is in its row and column, `cursor_y`, which is never taken
back, is that row until the last one is reached, and the registers of the CRT hold what the
descriptor holds. That the test of `scroll_up` is the wrong way round (it
copies the rows while there is room, so the screen never gets further) is why
two places suffice, and why the memory behind one more row is never used.
`ConsoleIsTerminal` is the refinement, for every size of the screen: a
character, a line feed, a back space and a scroll, with the copy or without,
do to the rows of the screen what `Terminal` says.

*Devices* (`DevicesInv`): the table holds what the rounds of the loops so far had to
install, each drive and partition once, in the order of the rounds, without gaps,
and free entries behind (`TableInv`, `CountInv`); a block device lies on its
drive (`BlocksInv`). The number of devices found before a round is the index of
the entry that `get_null_dev` finds, which is why a table that is too small
stops the system instead of losing a device. `dev_find(type, idx)` counts the entries of
the type; with an index below their number it returns the one with so many
predecessors (`DevicesAreSound`). For any numbers of buses, drives, partitions
and slots.

*Heap* (`HeapInv`): the page is the unit of the argument. A page is
free: no bit, no caller, no free block (`FreePage`); or cut in blocks of one
size, each of them in use by one caller or in the free list of that size, and
`count` is the number of the latter (`SmallPage`); or it belongs to one large
block whose first page counts its pages (`LargePage`). A call changes one page,
or the pages of one large block, and the frame lemmas keep the others (`HeapFrame`,
`SmallFrame`). `kfree` of the last block in use takes exactly the blocks of its page
out of the free list (`WithoutIs`), so that the page may go. That
`bitmap_insert_nbits` finds the first run of free pages, and says `EOF` only if
there is none, is proved from its counter: at bit `i` it is the length of the run
that ends there (`ScanCounts`, `ScanFirst`), by a minimal counterexample again. From it
`HeapIsSound`: what callers hold is disjoint and large enough, and nothing leaks, for any
number and size of pages, block sizes and sizes asked for.

*Files* (`FileProofs`, `FilesInv`). The super block is one of mkfs.minix (`SbInv`),
cells hold block numbers or 0, and, while the maps are not `spoiled`, `FilesSound`: no
number is in two cells of files (`Once`), no linked block is in the hands of a
caller, and the maps, in the cache and on the disk, are `Exact`: they have the
ones that the blocks and inodes in use call for (of the zone map also bit 0 and the bits
behind the end) and zeros for the free ones. `Exact` says nothing of other bits, and that
makes it inductive: `balloc` and `ialloc` set a bit before they look at its number,
and their bitmap runs over buffers that are not theirs. Bit 0 of the zone
map, which mkfs.minix sets, stays set even in a spoiled map (`First`): it would be the
number of the block before the first data zone, the last with inodes.
`AllocEffect` says, for any number of map blocks, that a search either ends in an
assertion, or has spoiled a map, or found none because all are in use, or
returns the number of a zero of the map and makes it a one in both copies; the
loop over the blocks is proved by a minimal counterexample (`Searched`).
`IallocEffect` and `BallocEffect` put in the layout, `ReleaseEffect` the reverse.
A cell that `bmap` fills gets a number that was linked nowhere, so `Once`
holds again and the linked blocks grow by that one (`CellMade`, `Good`); a step
down into a new index block that is empty links nothing. A walk has one to
three of these steps. `Keeps` is that a cell with a number is left alone; the path of
a lookup consists of such cells, so it leads where it led (`LookupStays`).
From it: `MapsAreExact` and `FilesStay`. Nothing is
claimed after a failed assertion or once a map or an index block is spoiled: `zone_map`
shows that the code gets there.

**Only model-checked:** `FreeIsTaken`, `IoEnds`, `DiskWorks`, `ReaderServed`
(liveness under fairness is outside the prover), the `TypeOK` of `Memory` as it
stands, and the violations.

## 6. Where documents and code disagree

With a run:

- `buffer_write`: `bwrite` clears `dirty` after its blocked transfer
  (`buffer.c:170`). A released buffer that is still being written can be read
  and released again, dirty, which queues a second write; after the first one
  returns the buffer is taken for another block, and the second writes that
  block's data to the old place.
- `fork_separate`: `copy_page` maps its target at page 0 and does not flush the
  TLB (`memory.c:452`): the second of two copies goes into the frame of the
  first.
- `zone_map`: `balloc` gives `bitmap_new` a length in bits where it takes
  bytes (`fsmap.c:18`): behind a full map block the search runs on into
  other memory and returns a block whose bit is not set. With a map of one
  block the loop follows the NULL in `zmaps[1]` instead of returning 0
  (`fsmap.c:28`).
- `mktime`: `time.c:11`, `time.h:56` and `037_time.md:269` say seconds since
  1970-01-01; the table of months counts 29 days for February from April on
  (`time.c:22-29`) and a leap day on top of that, so `mktime` is a day ahead from
  1 April to the end of every year. What is true of it is in `ExactToMarch`, which
  would also hold of the right table.

Statements that fail, with a configuration to see it (`tlc -config <name>.cfg`
on the MC module):

- `wait_any` (`MCTask`): `waitpid(-1)` waits for the first child in the table
  only and does not see another one that is dead (`task.c:502`;
  `072_waitpid.md:49` promises any child).
- `fork_slice` (`MCTask`): `sys_fork` writes the priority into `jiffies`, not
  into `ticks` (`task.c:406`): the child has what is left of its parent's slice.
- `search_best` (`MCTask`): the test of `task_search` is a disjunction and no
  order (`task.c:63`); a task can be chosen that another ready task beats in
  both respects.
- `sleep_wrap` (`MCTask`): signed sort key, unsigned comparison (`list.h:13`,
  `task.c:257`): after 2^31 ticks a due task can be left asleep.
- `hand_off` (`MCMutex`): the waiter that `mutex_release` wakes has no claim on
  the mutex (`mutex.c:54`); a third task may take it, and the waiter queues at
  the end again.
- `served` (`MCBlockDev`): new requests go before listed ones with the same
  sector (`device.c:170`); two tasks that ask for the same sector in turn keep
  a lower one waiting for ever.
- `drive_error` (`MCBlockDev`): no timeout and no polling while a task waits for
  the disk (`ata.c:215`), against the advice of `075_ata_pio_async.md:7`.
- `cmos_update` (`Cmos` itself): the comment at `time.c:64-66` says that the error is kept
  within a second; a round that lies within an update of the clock returns
  what was on the bus, since UIP is not polled (`time.c:67-76`).
- `buffer_wake` (`MCBuffer`): `brelse` takes a waiter out of `wait_list` and
  `task_unblock` removes its node once more; the assert of `list_remove` stops
  the kernel (`buffer.c:197`). Waiting for a buffer therefore never succeeds,
  which is also why the missing second look into the hash table behind
  `buffer.c:128` makes no second buffer.

Part of what the models state, or seen while reading:

- a modification of a buffer while it is written is marked clean without being
  on the disk, and a second read of a buffer that is still being read may
  overwrite one (`raced` in `Buffer`);
- `get_pte` does not clear a new page table (`memory.c:320`), and `sys_waitpid`
  writes to a user page without copy-on-write since CR0.WP is not set
  (`spoiled` in `Memory`);
- `bmap` takes index blocks as it finds them, with what a former owner left in
  them, and never releases their buffers (`spoiled` in `Files`);
- `ialloc` counts inodes from bit 0 of the map with number 1, MINIX keeps bit 0
  unused; `085_fsmap.md` names inode 2 as the root and `mount_root` takes 1;
- `dev_install` ignores its `parent` argument; `dev_find` of the console with an
  index above 0 returns free entries; `ata_pio_partition_ioctl` takes the
  partition by value where `dev_ioctl` passes a pointer;
- `DIRECT_IN` walks to smaller sectors, the comment at `device.c:100` and
  `080_SCAN_scheduling.md:79` call the other way inward;
- `sys_time` goes back when `jiffies * jiffy` wraps after 49 days
  (`clock.c:100`); `fork` on a full table follows NULL (`task.c:400`,
  `ForkNoSlot` in `Task`); the result of `ata_busy_wait` is not used
  (`ata.c:200`).

## 7. What is not modelled

Boot, descriptor tables, PIC, context switch and interrupt entry code are
hardware set-up without branching state, as are memory detection and the
kernel's own page tables. `vsprintf`, `printf`, `printk` and the string functions are
formatting without state, most of it the classic Linux code. The system call
table, `dev_ioctl`, `dev_read` and `dev_write` dispatch. The command that sets
the keyboard's LEDs, the beeper and the RTC interrupt change no state that is
read. `irq_save` and `irq_restore` have no callers. The ports and delays of an
ATA command are one step of the drive. Calls of the file system that overlap
across a blocking `bread` are not modelled: there is one caller at this commit
(two calls of `iget` would then be able to take the same table entry,
`inode.c:75`).

## 8. Plan

1. `Task`, `TaskProofs` — done
2. `Mutex`, `ReentrantLock`, `MutexProofs` — done
3. `BlockDev`, `BlockDevProofs` — done
4. `Buffer`, `BufferProofs` — done
5. `Memory`, `MemoryProofs` — done
6. `Keyboard`, `DropQueue`, `KeyboardProofs` — done
7. `Time`, `Cmos`, `Console`, `Terminal`, `List`, `Heap`, `Bitmap`, `Devices`,
   `Files` — done, composed in `Services`; `ServicesProofs` for the lists, the
   calendar, the CMOS, the console, the device table and the heap, `FileProofs` for the
   file system — done
8. Open: interleaved file system calls over `Buffer`, fairness of `task_search`
