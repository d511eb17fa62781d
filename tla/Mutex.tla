------------------------------- MODULE Mutex -------------------------------
(***************************************************************************)
(* kernel/mutex.c: the mutex, a binary semaphore with a queue of waiters,  *)
(* and the reentrant lock built on it, with the interrupt flag that makes  *)
(* their steps atomic (irq_disable, set_irq_state of kernel/interrupt.c).  *)
(*                                                                         *)
(* A step is one access to shared data.  The clock interrupt may switch to *)
(* another task between any two steps of a task whose interrupt flag is    *)
(* set.  With the flag clear a task loses the CPU only where it calls      *)
(* schedule(), in task_block and task_yield.  A preempted task finds its   *)
(* flag set again on the iret that resumes it, and one that called         *)
(* schedule() finds it clear: the flag is the task's own.  Which ready     *)
(* task schedule() picks is left open here.                                *)
(***************************************************************************)
EXTENDS Integers, Sequences

CONSTANTS Task,         \* the tasks that use the lock
          Syscall,      \* those that use it inside a system call: interrupts off
          NULL,         \* no task
          MaxRepeat     \* bound: how often a task nests the lock

ASSUME TaskAssumption == Syscall \subseteq Task /\ NULL \notin Task
ASSUME RepeatAssumption == MaxRepeat \in Nat /\ MaxRepeat > 0

VARIABLES
    semphore,   \* mutex: free resources, 1 or 0
    waiters,    \* mutex: the tasks task_block put in its queue
    holder,     \* lock: its holder
    repeat,     \* lock: how often the holder has taken it
    pc,         \* where each task is in mutex.c, "out" when it is not
    iff,        \* the interrupt flag of each task
    irq,        \* the local variable irq of mutex_acquire and mutex_release
    nest,       \* the caller's acquires that it has not released yet
    current     \* the task on the CPU, NULL while schedule() looks for one

vars == <<semphore, waiters, holder, repeat, pc, iff, irq, nest, current>>

Waiting(t) == \E i \in 1 .. Len(waiters) : waiters[i] = t

(* The task can take the next step. *)
CanRun(t) ==
    /\ ~ Waiting(t)
    /\ current \in {t, NULL} \/ \E u \in Task : current = u /\ iff[u]

Goto(t, from, to) == pc[t] = from /\ pc' = [pc EXCEPT ![t] = to]

-----------------------------------------------------------------------------
(* The interrupt flag. *)

(* Mutant of DisableIrq: the flag is saved, not cleared. *)
DisableIrqNot(t) ==
    /\ irq' = [irq EXCEPT ![t] = iff[t]]
    /\ UNCHANGED iff

(* irq = irq_disable() *)
DisableIrq(t) ==
    /\ irq' = [irq EXCEPT ![t] = iff[t]]
    /\ iff' = [iff EXCEPT ![t] = FALSE]

(* Mutant of RestoreIrq: interrupts are switched on, whatever they were. *)
RestoreIrqOn(t) == iff' = [iff EXCEPT ![t] = TRUE]

(* set_irq_state(irq) *)
RestoreIrq(t) == iff' = [iff EXCEPT ![t] = irq[t]]

-----------------------------------------------------------------------------
(* mutexlock_acquire *)

(* Is the caller the holder already?  Asked with interrupts still on. *)
AcquireCall(t) ==
    /\ CanRun(t)
    /\ nest[t] < MaxRepeat
    /\ \/ holder # t /\ Goto(t, "out", "disable")
       \/ holder = t /\ Goto(t, "out", "again")
    /\ current' = t
    /\ UNCHANGED <<semphore, waiters, holder, repeat, iff, irq, nest>>

(* lock->repeat++ *)
AcquireAgain(t) ==
    /\ CanRun(t)
    /\ Goto(t, "again", "out")
    /\ repeat' = repeat + 1
    /\ nest' = [nest EXCEPT ![t] = nest[t] + 1]
    /\ current' = t
    /\ UNCHANGED <<semphore, waiters, holder, iff, irq>>

(* mutex_acquire *)
AcquireDisable(t) ==
    /\ CanRun(t)
    /\ Goto(t, "disable", "test")
    /\ DisableIrq(t)
    /\ current' = t
    /\ UNCHANGED <<semphore, waiters, holder, repeat, nest>>

(* while (semphore == 0) task_block(current, &mutex->waiters, TASK_BLOCKED): *)
(* a task goes on in task_block when it is woken, and tests again.          *)
Testing(t) == pc[t] \in {"test", "blocked"}

AcquireBlock(t) ==
    /\ CanRun(t)
    /\ Testing(t)
    /\ semphore = 0
    /\ pc' = [pc EXCEPT ![t] = "blocked"]
    /\ waiters' = Append(waiters, t)
    /\ current' = NULL
    /\ UNCHANGED <<semphore, holder, repeat, iff, irq, nest>>

(* Mutant of AcquireFree: if instead of while, a woken task does not test. *)
AcquireFreeOnce(t) ==
    /\ CanRun(t)
    /\ Testing(t)
    /\ semphore # 0 \/ pc[t] = "blocked"
    /\ pc' = [pc EXCEPT ![t] = "take"]
    /\ current' = t
    /\ UNCHANGED <<semphore, waiters, holder, repeat, iff, irq, nest>>

AcquireFree(t) ==
    /\ CanRun(t)
    /\ Testing(t)
    /\ semphore # 0
    /\ pc' = [pc EXCEPT ![t] = "take"]
    /\ current' = t
    /\ UNCHANGED <<semphore, waiters, holder, repeat, iff, irq, nest>>

(* semphore-- *)
AcquireTake(t) ==
    /\ CanRun(t)
    /\ Goto(t, "take", "restore")
    /\ semphore' = 0
    /\ current' = t
    /\ UNCHANGED <<waiters, holder, repeat, iff, irq, nest>>

AcquireRestore(t) ==
    /\ CanRun(t)
    /\ Goto(t, "restore", "holder")
    /\ RestoreIrq(t)
    /\ current' = t
    /\ UNCHANGED <<semphore, waiters, holder, repeat, irq, nest>>

(* Back in mutexlock_acquire. *)
AcquireHolder(t) ==
    /\ CanRun(t)
    /\ Goto(t, "holder", "repeat")
    /\ holder' = t
    /\ current' = t
    /\ UNCHANGED <<semphore, waiters, repeat, iff, irq, nest>>

AcquireRepeat(t) ==
    /\ CanRun(t)
    /\ Goto(t, "repeat", "out")
    /\ repeat' = 1
    /\ nest' = [nest EXCEPT ![t] = nest[t] + 1]
    /\ current' = t
    /\ UNCHANGED <<semphore, waiters, holder, iff, irq>>

-----------------------------------------------------------------------------
(* mutexlock_release *)

(* Only a caller that has taken the lock releases it. *)
ReleaseCall(t) ==
    /\ CanRun(t)
    /\ nest[t] > 0
    /\ Goto(t, "out", "release")
    /\ current' = t
    /\ UNCHANGED <<semphore, waiters, holder, repeat, iff, irq, nest>>

ReleaseOne(t) ==
    /\ CanRun(t)
    /\ repeat > 1
    /\ Goto(t, "release", "out")
    /\ repeat' = repeat - 1
    /\ nest' = [nest EXCEPT ![t] = nest[t] - 1]
    /\ current' = t
    /\ UNCHANGED <<semphore, waiters, holder, iff, irq>>

ReleaseHolder(t) ==
    /\ CanRun(t)
    /\ ~ (repeat > 1)
    /\ Goto(t, "release", "clear")
    /\ holder' = NULL
    /\ current' = t
    /\ UNCHANGED <<semphore, waiters, repeat, iff, irq, nest>>

(* Mutant of ReleaseRepeat: repeat = 0 is missing. *)
ReleaseRepeatKept(t) ==
    /\ CanRun(t)
    /\ Goto(t, "clear", "give")
    /\ current' = t
    /\ UNCHANGED <<semphore, waiters, holder, repeat, iff, irq, nest>>

ReleaseRepeat(t) ==
    /\ CanRun(t)
    /\ Goto(t, "clear", "give")
    /\ repeat' = 0
    /\ current' = t
    /\ UNCHANGED <<semphore, waiters, holder, iff, irq, nest>>

(* mutex_release *)
ReleaseDisable(t) ==
    /\ CanRun(t)
    /\ Goto(t, "give", "free")
    /\ DisableIrq(t)
    /\ current' = t
    /\ UNCHANGED <<semphore, waiters, holder, repeat, nest>>

(* semphore++: from here on the mutex is free for others. *)
ReleaseFree(t) ==
    /\ CanRun(t)
    /\ Goto(t, "free", "wake")
    /\ semphore' = 1
    /\ nest' = [nest EXCEPT ![t] = 0]
    /\ current' = t
    /\ UNCHANGED <<waiters, holder, repeat, iff, irq>>

(* Mutant of ReleaseWake: task_yield without task_unblock. *)
ReleaseWakeNobody(t) ==
    /\ CanRun(t)
    /\ waiters # <<>>
    /\ Goto(t, "wake", "leave")
    /\ current' = NULL
    /\ UNCHANGED <<semphore, waiters, holder, repeat, iff, irq, nest>>

(* task_unblock the first waiter and task_yield *)
ReleaseWake(t) ==
    /\ CanRun(t)
    /\ waiters # <<>>
    /\ Goto(t, "wake", "leave")
    /\ waiters' = Tail(waiters)
    /\ current' = NULL
    /\ UNCHANGED <<semphore, holder, repeat, iff, irq, nest>>

ReleaseNoWaiter(t) ==
    /\ CanRun(t)
    /\ waiters = <<>>
    /\ Goto(t, "wake", "leave")
    /\ current' = t
    /\ UNCHANGED <<semphore, waiters, holder, repeat, iff, irq, nest>>

ReleaseRestore(t) ==
    /\ CanRun(t)
    /\ Goto(t, "leave", "out")
    /\ RestoreIrq(t)
    /\ current' = t
    /\ UNCHANGED <<semphore, waiters, holder, repeat, irq, nest>>

-----------------------------------------------------------------------------
(* A task that is in no lock operation calls schedule(): it yields, or      *)
(* blocks for something else, a disk interrupt for instance.                *)
Away(t) ==
    /\ current = t
    /\ pc[t] = "out"
    /\ current' = NULL
    /\ UNCHANGED <<semphore, waiters, holder, repeat, pc, iff, irq, nest>>

(* mutexlock_init, mutex_init *)
Init ==
    /\ semphore = 1
    /\ waiters = <<>>
    /\ holder = NULL
    /\ repeat = 0
    /\ pc = [t \in Task |-> "out"]
    /\ iff = [t \in Task |-> t \notin Syscall]
    /\ irq = [t \in Task |-> FALSE]
    /\ nest = [t \in Task |-> 0]
    /\ current = NULL

LockStep(t) ==
    \/ AcquireCall(t) \/ AcquireAgain(t) \/ AcquireDisable(t)
    \/ AcquireBlock(t) \/ AcquireFree(t) \/ AcquireTake(t)
    \/ AcquireRestore(t) \/ AcquireHolder(t) \/ AcquireRepeat(t)
    \/ ReleaseCall(t) \/ ReleaseOne(t) \/ ReleaseHolder(t)
    \/ ReleaseRepeat(t) \/ ReleaseDisable(t) \/ ReleaseFree(t)
    \/ ReleaseWake(t) \/ ReleaseNoWaiter(t) \/ ReleaseRestore(t)

Next == \E t \in Task : LockStep(t) \/ Away(t)

Spec == Init /\ [][Next]_vars

(***************************************************************************)
(* Fairness.  The CPU goes on: when tasks inside the lock code can step,   *)
(* one of them eventually does; nothing is assumed of which one.  A task   *)
(* in a system call does not keep the CPU for ever with interrupts off.    *)
(* Nobody has to call the lock or to release it.                           *)
(***************************************************************************)
Fairness ==
    /\ WF_vars(\E t \in Task : pc[t] # "out" /\ LockStep(t))
    /\ \A t \in Syscall : WF_vars(Away(t))

FairSpec == Spec /\ Fairness

-----------------------------------------------------------------------------
(* Properties. *)

Label == {"out", "again", "disable", "test", "blocked", "take", "restore", "holder",
          "repeat", "release", "clear", "give", "free", "wake", "leave"}

TypeOK ==
    /\ semphore \in {0, 1}
    /\ waiters \in Seq(Task)
    /\ holder \in Task \cup {NULL}
    /\ repeat \in 0 .. MaxRepeat
    /\ pc \in [Task -> Label]
    /\ iff \in [Task -> BOOLEAN]
    /\ irq \in [Task -> BOOLEAN]
    /\ nest \in [Task -> 0 .. MaxRepeat]
    /\ current \in Task \cup {NULL}

(* The task is between its semphore-- and its semphore++. *)
Owns(t) ==
    \/ pc[t] \in {"restore", "holder", "repeat", "again", "release", "clear", "give", "free"}
    \/ pc[t] = "out" /\ nest[t] > 0

(* Between mutexlock_acquire and mutexlock_release of a task no other task  *)
(* is, although the clock interrupt may come between any two steps          *)
(* (mutex.c).                                                               *)
MutualExclusion == \A t, u \in Task : Owns(t) /\ Owns(u) => t = u

(* No assert of mutex.c fails, and neither do the asserts of task_block and *)
(* schedule() that interrupts are off.                                      *)
AssertsHold ==
    \A t \in Task :
        /\ pc[t] = "take" => semphore = 1
        /\ pc[t] = "repeat" => repeat = 0
        /\ pc[t] = "release" => holder = t /\ repeat >= 1
        /\ pc[t] = "free" => semphore = 0
        /\ pc[t] \in {"test", "blocked", "wake"} => ~ iff[t]

(* repeat counts the acquires of the holder that are not released: after as *)
(* many releases, no sooner and no later, the lock is free.                 *)
RepeatCounts ==
    \A t \in Task : pc[t] = "out" /\ nest[t] > 0 => holder = t /\ repeat = nest[t]

(* A free mutex with waiters is on its way to one of them: somebody is      *)
(* about to wake the first, or has tested the semaphore or is about to.     *)
NoLostWakeup ==
    semphore = 1 /\ waiters # <<>> =>
        \E t \in Task : ~ Waiting(t) /\ pc[t] \in {"test", "blocked", "take", "wake"}

(* A caller gets its interrupt flag back, also when it lost the CPU with    *)
(* interrupts off and others ran with theirs on (set_irq_state(irq)).       *)
IrqRestored ==
    \A t \in Task : pc[t] \notin {"test", "blocked", "take", "restore", "free", "wake", "leave"}
                        => iff[t] = (t \notin Syscall)

(* A free mutex that somebody asks for is taken, whoever the scheduler runs *)
(* and however often tasks are preempted.                                   *)
FreeIsTaken == semphore = 1 /\ (\E t \in Task : Testing(t)) ~> semphore = 0

(* How often a task holds the lock, read off the code's variables. *)
Held == [t \in Task |-> IF pc[t] \in {"restore", "holder", "repeat"} THEN 1 ELSE nest[t]]

Lock == INSTANCE ReentrantLock WITH held <- Held

(* mutex.c implements the reentrant lock of 054_lock.md. *)
ImplementsLock == Lock!Spec

-----------------------------------------------------------------------------
(* Comment at mutex.c:53 on the task_yield after the wake-up: it guarantees *)
(* that the woken task gets the mutex (053_mutex.md:40: holders rotate      *)
(* first in, first out).  So a woken waiter never has to wait again.        *)
HandOff == [][\A t \in Task : pc[t] = "blocked" /\ ~ Waiting(t) => ~ Waiting(t)']_vars
=============================================================================
