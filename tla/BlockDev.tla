----------------------------- MODULE BlockDev -----------------------------
(***************************************************************************)
(* Block device requests: dev_request and next_request of kernel/device.c, *)
(* ata_pio_read, ata_pio_write and ata_handler of kernel/ata.c, for the    *)
(* disk and the partitions behind one ATA bus.                             *)
(*                                                                         *)
(* All of it runs with interrupts off: a task goes on until it blocks or   *)
(* yields, and an action is what it does from one such point to the next.  *)
(* The disk interrupt comes between actions.  Reads and writes wait for    *)
(* one interrupt per sector and differ only in whether the data moves      *)
(* before or after the wait.                                               *)
(***************************************************************************)
EXTENDS Integers, Sequences

CONSTANTS Task,         \* the tasks that use the disk
          Dev,          \* the disk and its partitions, each a dev_t
          Lba,          \* the first sectors of requests
          MaxCount,     \* bound: sectors in one request
          NULL,         \* no task
          DriveErrors   \* whether the drive may end a command with an error

ASSUME TaskAssumption == NULL \notin Task
ASSUME LbaAssumption == Lba \subseteq Nat /\ MaxCount \in Nat /\ MaxCount > 0
ASSUME ErrorsAssumption == DriveErrors \in BOOLEAN

VARIABLES
    request_list,   \* dev_t: the tasks whose requests are listed, by idx
    direction,      \* dev_t: which way the head moves
    req,            \* the request of each task, while it is in dev_request
    pc,             \* where each task waits in dev_request, "out" elsewhere
    blocked,        \* the default queue of task_block
    holder,         \* bus->lock: its holder
    lock_waiters,   \* bus->lock: its queue
    waiter,         \* bus->waiter: the task the next interrupt wakes
    active,         \* the task whose command the drive executes
    owed            \* whether the drive still owes an interrupt

vars == <<request_list, direction, req, pc, blocked, holder, lock_waiters,
          waiter, active, owed>>

NoReq == [dev |-> NULL, idx |-> 0, left |-> 0]
Requests == [dev : Dev, idx : Lba, left : 0 .. MaxCount]

Contains(s, t) == \E i \in 1 .. Len(s) : s[i] = t
Position(s, t) == CHOOSE i \in 1 .. Len(s) : s[i] = t
Without(s, t) ==
    [i \in 1 .. Len(s) - 1 |-> IF i < Position(s, t) THEN s[i] ELSE s[i + 1]]

Ready(t) == t \notin blocked /\ ~ Contains(lock_waiters, t)

-----------------------------------------------------------------------------
(* The drive and its bus. *)

(* Mutant of PioStart: the bus is used without its lock. *)
PioStartNoLock(t) ==
    /\ holder' = t
    /\ active' = t
    /\ owed' = TRUE
    /\ waiter' = t
    /\ blocked' = blocked \cup {t}
    /\ pc' = [pc EXCEPT ![t] = "io"]
    /\ UNCHANGED lock_waiters

(* ata_pio_read, ata_pio_write up to the first wait: mutexlock_acquire, the *)
(* registers, the command, bus->waiter = task, task_block.                  *)
PioStart(t) ==
    \/ /\ holder = NULL
       /\ holder' = t
       /\ active' = t
       /\ owed' = TRUE
       /\ waiter' = t
       /\ blocked' = blocked \cup {t}
       /\ pc' = [pc EXCEPT ![t] = "io"]
       /\ UNCHANGED lock_waiters
    \/ /\ holder # NULL
       /\ lock_waiters' = Append(lock_waiters, t)
       /\ pc' = [pc EXCEPT ![t] = "lock"]
       /\ UNCHANGED <<holder, active, owed, waiter, blocked>>

(* Mutant of ata_handler: bus->waiter keeps the task it has woken. *)
ata_handlerKeeps ==
    /\ owed
    /\ owed' = FALSE
    /\ blocked' = blocked \ {waiter}
    /\ UNCHANGED <<request_list, direction, req, pc, holder, lock_waiters, waiter, active>>

(* The drive has finished a sector and interrupts. *)
ata_handler ==
    /\ owed
    /\ owed' = FALSE
    /\ blocked' = blocked \ {waiter}
    /\ waiter' = NULL
    /\ UNCHANGED <<request_list, direction, req, pc, holder, lock_waiters, active>>

(* The drive ends the command with an error: no interrupt (075_ata_pio_async.md:7). *)
DriveError ==
    /\ DriveErrors
    /\ owed
    /\ owed' = FALSE
    /\ UNCHANGED <<request_list, direction, req, pc, blocked, holder, lock_waiters,
                   waiter, active>>

-----------------------------------------------------------------------------
(* The request list of a device. *)

(* list_insert_sort on idx: before the first request not smaller. *)
InsertAt(q, i) ==
    LET notSmaller == {k \in 1 .. Len(q) : req[q[k]].idx >= i}
    IN  IF notSmaller = {} THEN Len(q) + 1
        ELSE CHOOSE k \in notSmaller : \A j \in notSmaller : k <= j

InsertSorted(q, t, i) ==
    LET k == InsertAt(q, i)
    IN  SubSeq(q, 1, k - 1) \o <<t>> \o SubSeq(q, k, Len(q))

(* next_request, first half: turn round at the end of the list. *)
NewDirection(d, t) ==
    LET q == request_list[d]
    IN  IF direction[d] = "OUT" /\ t = q[Len(q)] THEN "IN"
        ELSE IF direction[d] = "IN" /\ t = q[1] THEN "OUT"
        ELSE direction[d]

(* Mutant of NextRequest: the smallest sector comes first. *)
NextRequestFirst(d, t) ==
    LET q == request_list[d]
    IN  IF Len(q) = 1 THEN NULL ELSE IF q[1] = t THEN q[2] ELSE q[1]

(* next_request, second half: the neighbour in that direction. *)
NextRequest(d, t) ==
    LET q == request_list[d]
        i == Position(q, t)
    IN  IF Len(q) = 1 THEN NULL
        ELSE IF NewDirection(d, t) = "OUT" THEN q[i + 1] ELSE q[i - 1]

(* Mutant of Wakeup: the next request is not woken. *)
WakeupNobody(d, t) == {}

(* The task dev_request unblocks when the request of t is done. *)
Wakeup(d, t) == {NextRequest(d, t)} \ {NULL}

(* dev_request after do_dev_request: the request leaves the list. *)
Complete(t) ==
    LET d == req[t].dev
    IN  /\ direction' = [direction EXCEPT ![d] = NewDirection(d, t)]
        /\ request_list' = [request_list EXCEPT ![d] = Without(request_list[d], t)]
        /\ blocked' = blocked \ Wakeup(d, t)
        /\ req' = [req EXCEPT ![t] = NoReq]
        /\ pc' = [pc EXCEPT ![t] = "out"]

(* dev_request on an idle device goes straight on to the drive. *)
RequestIdle(t, d, i, n) ==
    /\ pc[t] = "out"
    /\ request_list[d] = <<>>
    /\ req' = [req EXCEPT ![t] = [dev |-> d, idx |-> i, left |-> n]]
    /\ request_list' = [request_list EXCEPT ![d] = <<t>>]
    /\ PioStart(t)
    /\ UNCHANGED direction

(* dev_request on a busy device waits for its turn. *)
RequestBusy(t, d, i, n) ==
    /\ pc[t] = "out"
    /\ request_list[d] # <<>>
    /\ req' = [req EXCEPT ![t] = [dev |-> d, idx |-> i, left |-> n]]
    /\ request_list' = [request_list EXCEPT ![d] = InsertSorted(request_list[d], t, i)]
    /\ blocked' = blocked \cup {t}
    /\ pc' = [pc EXCEPT ![t] = "queued"]
    /\ UNCHANGED <<direction, holder, lock_waiters, waiter, active, owed>>

(* It is the turn of the request of t, or t tries for the bus again. *)
StartIo(t) ==
    /\ Ready(t)
    /\ pc[t] \in {"queued", "lock"}
    /\ PioStart(t)
    /\ UNCHANGED <<request_list, direction, req>>

(* Mutant of NextSector: bus->waiter is not set again. *)
NextSectorNoWaiter(t) ==
    /\ Ready(t)
    /\ pc[t] = "io"
    /\ req[t].left > 1
    /\ req' = [req EXCEPT ![t].left = @ - 1]
    /\ owed' = TRUE
    /\ blocked' = blocked \cup {t}
    /\ UNCHANGED <<request_list, direction, pc, holder, lock_waiters, waiter, active>>

(* An interrupt has come for a sector that is not the last. *)
NextSector(t) ==
    /\ Ready(t)
    /\ pc[t] = "io"
    /\ req[t].left > 1
    /\ req' = [req EXCEPT ![t].left = @ - 1]
    /\ owed' = TRUE
    /\ waiter' = t
    /\ blocked' = blocked \cup {t}
    /\ UNCHANGED <<request_list, direction, pc, holder, lock_waiters, active>>

(* The last sector: mutexlock_release wakes the first task that waits for   *)
(* the bus and yields to it.                                                *)
LastSectorYield(t) ==
    /\ Ready(t)
    /\ pc[t] = "io"
    /\ req[t].left = 1
    /\ lock_waiters # <<>>
    /\ holder' = NULL
    /\ lock_waiters' = Tail(lock_waiters)
    /\ req' = [req EXCEPT ![t].left = 0]
    /\ pc' = [pc EXCEPT ![t] = "done"]
    /\ UNCHANGED <<request_list, direction, blocked, waiter, active, owed>>

(* The last sector, and nobody waits for the bus. *)
LastSector(t) ==
    /\ Ready(t)
    /\ pc[t] = "io"
    /\ req[t].left = 1
    /\ lock_waiters = <<>>
    /\ holder' = NULL
    /\ Complete(t)
    /\ UNCHANGED <<lock_waiters, waiter, active, owed>>

(* Back from the yield in mutexlock_release. *)
Finish(t) ==
    /\ pc[t] = "done"
    /\ Complete(t)
    /\ UNCHANGED <<holder, lock_waiters, waiter, active, owed>>

(* device_init, ata_bus_init *)
Init ==
    /\ request_list = [d \in Dev |-> <<>>]
    /\ direction = [d \in Dev |-> "IN"]
    /\ req = [t \in Task |-> NoReq]
    /\ pc = [t \in Task |-> "out"]
    /\ blocked = {}
    /\ holder = NULL
    /\ lock_waiters = <<>>
    /\ waiter = NULL
    /\ active = NULL
    /\ owed = FALSE

Go(t) == StartIo(t) \/ NextSector(t) \/ LastSectorYield(t) \/ LastSector(t) \/ Finish(t)

Ask(t) ==
    \E d \in Dev, i \in Lba, n \in 1 .. MaxCount :
        RequestIdle(t, d, i, n) \/ RequestBusy(t, d, i, n)

Next ==
    \/ \E t \in Task : Ask(t) \/ Go(t)
    \/ ata_handler
    \/ DriveError

Spec == Init /\ [][Next]_vars

(***************************************************************************)
(* Fairness.  The drive interrupts for every sector it finishes, and the   *)
(* CPU goes on: when tasks can go on in the driver, one of them does.      *)
(* Nothing is assumed of which, and nobody has to make requests.           *)
(***************************************************************************)
FairSpec == Spec /\ WF_vars(ata_handler) /\ WF_vars(\E t \in Task : Go(t))

(* The strongest scheduler: every ready task runs. *)
SchedFairSpec == Spec /\ WF_vars(ata_handler) /\ \A t \in Task : WF_vars(Go(t))

-----------------------------------------------------------------------------
(* Properties. *)

TypeOK ==
    /\ \A d \in Dev : request_list[d] \in Seq(Task)
    /\ direction \in [Dev -> {"IN", "OUT"}]
    /\ req \in [Task -> Requests \cup {NoReq}]
    /\ pc \in [Task -> {"out", "queued", "lock", "io", "done"}]
    /\ blocked \subseteq Task
    /\ holder \in Task \cup {NULL}
    /\ lock_waiters \in Seq(Task)
    /\ waiter \in Task \cup {NULL}
    /\ active \in Task \cup {NULL}
    /\ owed \in BOOLEAN

(* t waits in the task_block of dev_request for its turn. *)
InLine(t) == pc[t] = "queued" /\ t \in blocked

(* Of the requests of a device exactly one is being served: none is served  *)
(* beside another and a list never stands still because the wake-up at the  *)
(* end of dev_request was missed.                                           *)
OneServed ==
    \A d \in Dev : request_list[d] # <<>> =>
        \E t \in Task :
            /\ Contains(request_list[d], t) /\ ~ InLine(t)
            /\ \A u \in Task \ {t} : Contains(request_list[d], u) => InLine(u)

(* The task that moves data is the one whose command the drive executes,    *)
(* also when requests for two devices meet on the bus (bus->lock).          *)
OwnCommand == \A t \in Task : pc[t] = "io" => holder = t /\ active = t

(* The interrupt finds the task that waits for it: the task is blocked when *)
(* ata_handler unblocks it, and a task blocked for the drive is the one the *)
(* bus remembers.                                                           *)
InterruptFindsWaiter ==
    \A t \in Task : waiter = t <=> pc[t] = "io" /\ t \in blocked

(* The request lists stay ordered by sector, which next_request relies on.  *)
ListsSorted ==
    \A d \in Dev : \A i, j \in 1 .. Len(request_list[d]) :
        i <= j => req[request_list[d][i]].idx <= req[request_list[d][j]].idx

(* u is served after t on device d. *)
Follows(d, t, u) ==
    /\ Contains(request_list[d], t) /\ ~ Contains(request_list'[d], t)
    /\ InLine(u) /\ ~ InLine(u)'
    /\ Contains(request_list'[d], u)

(* The sector of y lies ahead of the sector of x, as the head of d moves. *)
Ahead(d, x, y) ==
    IF direction[d] = "OUT" THEN req[x].idx < req[y].idx ELSE req[y].idx < req[x].idx

ScanStep ==
    \A d \in Dev : \A t, u \in Task : Follows(d, t, u) =>
        LET others == {x \in Task : Contains(request_list'[d], x)}
        IN  /\ \A x \in others : ~ (Ahead(d, t, x) /\ Ahead(d, x, u))
            /\ Ahead(d, u, t) =>
                 \A x \in others : ~ Ahead(d, t, x) /\ ~ (Ahead(d, u, x) /\ Ahead(d, x, t))

(* The elevator: the head goes to the nearest request in its direction, and *)
(* turns only when no request lies further ahead (next_request).            *)
Scan == [][ScanStep]_vars

(* A task that waits for the drive gets its data when the drive reports no  *)
(* errors, whatever the other tasks do.                                     *)
IoEnds == \A t \in Task : pc[t] = "io" ~> pc[t] # "io"

(* While requests wait the drive does not stay idle. *)
DiskWorks == (\E t \in Task : pc[t] # "out") ~> ((\E t \in Task : pc[t] = "io") \/ \A t \in Task : pc[t] = "out")

-----------------------------------------------------------------------------
(* What the documents of the repository say and the code does not. *)

(* 079_block_device_request.md:127: the request list guarantees that all    *)
(* requests are executed.                                                   *)
EveryRequestServed == \A t \in Task : pc[t] = "queued" ~> pc[t] = "io"
=============================================================================
