-------------------------------- MODULE Task --------------------------------
(***************************************************************************)
(* Task management: kernel/task.c with the clock interrupt of              *)
(* kernel/clock.c and the idle thread of kernel/thread.c.                  *)
(*                                                                         *)
(* The kernel runs on one CPU.  Interrupt handlers and system calls enter  *)
(* through interrupt gates, so they run with interrupts off: each is one   *)
(* action, up to the point where it calls schedule() and another task      *)
(* goes on.  A task switched out inside sys_waitpid goes on inside the     *)
(* loop of sys_waitpid when it is switched in, still with interrupts off:  *)
(* while the current task has a pending call only WaitpidResume is         *)
(* enabled.                                                                *)
(*                                                                         *)
(* A pid is its slot in task_queue.  blocked_queue is kept as a set: its   *)
(* nodes are removed by task_unblock from wherever they stand and its      *)
(* order is never read.  sleeping_queue is a sequence: its order matters.  *)
(***************************************************************************)
EXTENDS Integers, Sequences

CONSTANTS NUM_TASKS,    \* slots of task_queue (64 in task.h)
          PRIORITY,     \* priority of every task but idle (5 in task_init)
          SleepMs,      \* the arguments user code passes to sleep(), in ms
          WORD,         \* 2^32 in the code: one more than the largest u32
          MaxJiffies    \* bound: no clock interrupt at or after this time

IDLE == 0               \* task_init creates idle, init, test in this order
INIT == 1
TEST == 2
JIFFY == 10             \* ms in one clock period: 1000 / CLOCK_HZ
Slots == 0 .. NUM_TASKS - 1

ASSUME SlotsAssumption == NUM_TASKS \in Nat /\ NUM_TASKS > TEST
ASSUME WordAssumption == WORD \in Nat /\ WORD > 1
ASSUME PriorityAssumption == PRIORITY \in Nat /\ 1 < PRIORITY /\ PRIORITY < WORD
ASSUME BoundAssumption == MaxJiffies \in Nat /\ 1 < MaxJiffies /\ MaxJiffies <= WORD
ASSUME SleepAssumption ==
    \A ms \in SleepMs : ms \in Nat /\ 0 < ms /\ ms < WORD

NoTask == -1            \* NULL
AnyChild == -1          \* waitpid(-1, ...)
NoCall == -2            \* the task is not inside sys_waitpid

TaskState == {"FREE", "RUNNING", "READY", "BLOCKED", "SLEEPING", "WAITING", "DIED"}

VARIABLES
    state,           \* task_queue[i]->state, "FREE" where task_queue[i] is NULL
    ticks,           \* PCB: remaining time slice, or the wake-up time of a sleeper
    last,            \* PCB: jiffies, when the task last ran
    ppid,            \* PCB: pid of the parent
    waitpid,         \* PCB: pid of the child waited for
    call,            \* the pid argument of the sys_waitpid the task is inside
    current,         \* the task on the CPU
    jiffies,         \* clock interrupts since boot
    sleeping_queue,  \* the sleepers, ordered by ticks
    blocked_queue,   \* the default queue of task_block
    idle_pc,         \* idle_thread: halted at "hlt" or about to call "yield"
    mode             \* "running", or "panic" after a kernel fault

procVars == <<ppid, waitpid, call>>
vars == <<state, ticks, last, ppid, waitpid, call, current, jiffies,
          sleeping_queue, blocked_queue, idle_pc, mode>>

(* Priorities never change after task_create. *)
Priority(t) == IF t = IDLE THEN 1 ELSE PRIORITY

(* fork, exit and waitpid assert that the caller is a user task. *)
IsUser(t) == t \notin {IDLE, TEST}

(* u32 arithmetic on the sum of two u32 values. *)
U32(x) == IF x < WORD THEN x ELSE x - WORD
DecU32(x) == IF x = 0 THEN WORD - 1 ELSE x - 1

(* What list_node_key reads: a u32 field through a pointer to int. *)
Signed(x) == IF x < WORD \div 2 THEN x ELSE x - WORD

div_round_up(ms) == U32(ms + JIFFY - 1) \div JIFFY

-----------------------------------------------------------------------------
(* The scheduler. *)

(* The tasks task_search looks at when the states are st. *)
Candidates(st) == {t \in Slots \ {current} : st[t] = "READY"}

(* The test by which task_search replaces the best task so far, r, by t. *)
Preferred(t, r) == ticks[t] > ticks[r] \/ last[t] < last[r]

(***************************************************************************)
(* task_search(TASK_READY): one pass over task_queue in slot order, idle   *)
(* when it finds no candidate.  The tasks it compares are not the current  *)
(* one, so the ticks and jiffies it reads are those before the handler.    *)
(***************************************************************************)
task_search(st) ==
    LET scan[i \in 0 .. NUM_TASKS] ==
            IF i = 0 THEN NoTask
            ELSE LET t == i - 1
                     r == scan[i - 1]
                 IN  IF t \in Candidates(st) /\ (r = NoTask \/ Preferred(t, r))
                     THEN t
                     ELSE r
    IN  IF scan[NUM_TASKS] \in Candidates(st) THEN scan[NUM_TASKS] ELSE IDLE

(* Mutant of Schedule: the running task is not put back among the ready.   *)
ScheduleNotReady(st, tk) ==
    LET next == task_search(st)
    IN  /\ state' = [st EXCEPT ![next] = "RUNNING"]
        /\ ticks' = IF tk[current] = 0
                    THEN [tk EXCEPT ![current] = Priority(current)] ELSE tk
        /\ current' = next

(* Mutant of Schedule: an empty time slice is not refilled.                *)
ScheduleNoRefill(st, tk) ==
    LET next == task_search(st)
        st1  == IF st[current] = "RUNNING"
                THEN [st EXCEPT ![current] = "READY"] ELSE st
    IN  /\ state' = [st1 EXCEPT ![next] = "RUNNING"]
        /\ ticks' = tk
        /\ current' = next

(* schedule(), when the handler that calls it has made the states st and   *)
(* the time slices tk.                                                     *)
Schedule(st, tk) ==
    LET next == task_search(st)
        st1  == IF st[current] = "RUNNING"
                THEN [st EXCEPT ![current] = "READY"] ELSE st
    IN  /\ state' = [st1 EXCEPT ![next] = "RUNNING"]
        /\ ticks' = IF tk[current] = 0
                    THEN [tk EXCEPT ![current] = Priority(current)] ELSE tk
        /\ current' = next

(* The CPU executes instructions of the current task, interrupts on. *)
Interruptible == mode = "running" /\ call[current] = NoCall

(* An interrupt ends idle's hlt, also when the handler switches away. *)
LeaveHlt == idle_pc' = IF current = IDLE THEN "yield" ELSE idle_pc

(* yield(): sys_yield and task_yield.  idle calls it after each hlt. *)
Yield ==
    /\ Interruptible
    /\ current = IDLE => idle_pc = "yield"
    /\ Schedule(state, ticks)
    /\ idle_pc' = IF current = IDLE THEN "hlt" ELSE idle_pc
    /\ UNCHANGED <<last, procVars, jiffies, sleeping_queue, blocked_queue, mode>>

-----------------------------------------------------------------------------
(* Blocking.  The callers are the drivers and the mutexes. *)

(* task_block(current, NULL, TASK_BLOCKED) *)
Block ==
    /\ Interruptible
    /\ current # IDLE
    /\ blocked_queue' = blocked_queue \cup {current}
    /\ Schedule([state EXCEPT ![current] = "BLOCKED"], ticks)
    /\ UNCHANGED <<last, procVars, jiffies, sleeping_queue, idle_pc, mode>>

(* Mutant of Unblock: the node stays in its list. *)
UnblockKeepsNode(t) ==
    /\ Interruptible
    /\ state[t] = "BLOCKED"
    /\ state' = [state EXCEPT ![t] = "READY"]
    /\ LeaveHlt
    /\ UNCHANGED <<ticks, last, procVars, current, jiffies, sleeping_queue,
                   blocked_queue, mode>>

(* The interrupt handler of a device calls task_unblock on its waiter. *)
Unblock(t) ==
    /\ Interruptible
    /\ state[t] = "BLOCKED"
    /\ blocked_queue' = blocked_queue \ {t}
    /\ state' = [state EXCEPT ![t] = "READY"]
    /\ LeaveHlt
    /\ UNCHANGED <<ticks, last, procVars, current, jiffies, sleeping_queue, mode>>

-----------------------------------------------------------------------------
(* Sleeping and the clock. *)

(* list_insert_sort on the key tk: before the first node not smaller. *)
InsertAt(q, t, tk) ==
    LET notSmaller == {i \in 1 .. Len(q) : Signed(tk[q[i]]) >= Signed(tk[t])}
    IN  IF notSmaller = {} THEN Len(q) + 1
        ELSE CHOOSE i \in notSmaller : \A j \in notSmaller : i <= j

list_insert_sort(q, t, tk) ==
    LET k == InsertAt(q, t, tk)
    IN  [i \in 1 .. Len(q) + 1 |->
            IF i < k THEN q[i] ELSE IF i = k THEN t ELSE q[i - 1]]

(* task_sleep(ms), from sys_sleep. *)
Sleep(ms) ==
    LET tk == [ticks EXCEPT ![current] = U32(jiffies + div_round_up(ms))]
    IN  /\ Interruptible
        /\ current # IDLE
        /\ sleeping_queue' = list_insert_sort(sleeping_queue, current, tk)
        /\ Schedule([state EXCEPT ![current] = "SLEEPING"], tk)
        /\ UNCHANGED <<last, procVars, jiffies, blocked_queue, idle_pc, mode>>

(* Mutant of Due: a task whose time is now sleeps for one more period. *)
DueLate ==
    LET early == {i \in 1 .. Len(sleeping_queue) : ticks[sleeping_queue[i]] >= jiffies}
    IN  IF early = {} THEN Len(sleeping_queue)
        ELSE (CHOOSE i \in early : \A j \in early : i <= j) - 1

(* task_wakeup: how many nodes it takes off the front of sleeping_queue. *)
Due ==
    LET early == {i \in 1 .. Len(sleeping_queue) : ticks[sleeping_queue[i]] > jiffies}
    IN  IF early = {} THEN Len(sleeping_queue)
        ELSE (CHOOSE i \in early : \A j \in early : i <= j) - 1

(* clock_handler: wakes the sleepers, then advances the time and charges   *)
(* the running task.                                                       *)
ClockInterrupt ==
    LET woken == {sleeping_queue[i] : i \in 1 .. Due}
        st == [t \in Slots |-> IF t \in woken THEN "READY" ELSE state[t]]
        tk == [ticks EXCEPT ![current] = DecU32(ticks[current])]
    IN  /\ Interruptible
        /\ jiffies < MaxJiffies
        /\ sleeping_queue' = SubSeq(sleeping_queue, Due + 1, Len(sleeping_queue))
        /\ jiffies' = U32(jiffies + 1)
        /\ last' = [last EXCEPT ![current] = U32(jiffies + 1)]
        /\ IF tk[current] = 0
           THEN Schedule(st, tk)
           ELSE state' = st /\ ticks' = tk /\ current' = current
        /\ LeaveHlt
        /\ UNCHANGED <<procVars, blocked_queue, mode>>

-----------------------------------------------------------------------------
(* Processes. *)

FreeSlots == {i \in Slots : state[i] = "FREE"}

(* get_free_task: the first empty slot. *)
get_free_task == CHOOSE i \in FreeSlots : \A j \in FreeSlots : i <= j

(* sys_fork: the child's PCB is a copy of the parent's. *)
Fork ==
    /\ Interruptible
    /\ IsUser(current)
    /\ FreeSlots # {}
    /\ LET child == get_free_task
       IN  /\ state' = [state EXCEPT ![child] = "READY"]
           /\ ticks' = [ticks EXCEPT ![child] = ticks[current]]
           /\ last' = [last EXCEPT ![child] = Priority(current)]
           /\ ppid' = [ppid EXCEPT ![child] = current]
           /\ waitpid' = [waitpid EXCEPT ![child] = waitpid[current]]
    /\ UNCHANGED <<call, current, jiffies, sleeping_queue, blocked_queue,
                   idle_pc, mode>>

(* sys_fork on a full table: get_free_task returns NULL and reading         *)
(* child->pid faults in the kernel, where page_fault_handler panics.        *)
ForkNoSlot ==
    /\ Interruptible
    /\ IsUser(current)
    /\ FreeSlots = {}
    /\ mode' = "panic"
    /\ UNCHANGED <<state, ticks, last, procVars, current, jiffies,
                   sleeping_queue, blocked_queue, idle_pc>>

(* The children sys_exit hands over and sys_waitpid looks through. *)
ChildrenOf(p) == {i \in Slots : i >= 2 /\ i # p /\ state[i] # "FREE" /\ ppid[i] = p}

(* Mutant of HandOver: the children keep the pid of the dead parent. *)
HandOverNone(p) == ppid

(* sys_exit hands the children of the caller over to its parent. *)
HandOver(p) == [i \in Slots |-> IF i \in ChildrenOf(p) THEN ppid[p] ELSE ppid[i]]

(* Mutant of WakesParent: only a parent that waits for any child is woken. *)
WakesAnyWaiter(c) == state[ppid[c]] = "WAITING" /\ waitpid[ppid[c]] = AnyChild

(* Mutant of WakesParent: a parent that waits for another child is woken. *)
WakesAlways(c) == state[ppid[c]] = "WAITING"

(* The parent sys_exit wakes: waiting, and for this process. *)
WakesParent(c) ==
    /\ state[ppid[c]] = "WAITING"
    /\ waitpid[ppid[c]] \in {c, AnyChild}

(* sys_exit: the children go to the parent, who is woken if it waits. *)
Exit ==
    LET dead == [state EXCEPT ![current] = "DIED"]
    IN  /\ Interruptible
        /\ IsUser(current)
        /\ ppid' = HandOver(current)
        /\ IF WakesParent(current)
           THEN /\ blocked_queue' = blocked_queue \ {ppid[current]}
                /\ Schedule([dead EXCEPT ![ppid[current]] = "READY"], ticks)
           ELSE /\ blocked_queue' = blocked_queue
                /\ Schedule(dead, ticks)
        /\ UNCHANGED <<last, waitpid, call, jiffies, sleeping_queue, idle_pc, mode>>

(* The children sys_waitpid(pid) accepts. *)
Matching(pid) == {i \in ChildrenOf(current) : pid \in {i, AnyChild}}

(* Mutant of WaitsFor: the argument is remembered, not the child. *)
WaitsForArg(pid, child) == pid

(* What sys_waitpid(pid) stores in waitpid when it blocks on child. *)
WaitsFor(pid, child) == child

(* One pass of the loop of sys_waitpid(pid): return -1 without a child,     *)
(* free and return the first matching child if it is dead, else block.      *)
WaitpidLoop(pid) ==
    LET child == CHOOSE i \in Matching(pid) : \A j \in Matching(pid) : i <= j
    IN  \/ /\ Matching(pid) = {}
           /\ call' = [call EXCEPT ![current] = NoCall]
           /\ UNCHANGED <<state, ticks, last, ppid, waitpid, current, blocked_queue>>
        \/ /\ Matching(pid) # {}
           /\ state[child] = "DIED"
           /\ state' = [state EXCEPT ![child] = "FREE"]
           /\ ticks' = [ticks EXCEPT ![child] = 0]
           /\ last' = [last EXCEPT ![child] = 0]
           /\ ppid' = [ppid EXCEPT ![child] = 0]
           /\ waitpid' = [waitpid EXCEPT ![child] = 0]
           /\ call' = [call EXCEPT ![current] = NoCall]
           /\ UNCHANGED <<current, blocked_queue>>
        \/ /\ Matching(pid) # {}
           /\ state[child] # "DIED"
           /\ waitpid' = [waitpid EXCEPT ![current] = WaitsFor(pid, child)]
           /\ call' = [call EXCEPT ![current] = pid]
           /\ blocked_queue' = blocked_queue \cup {current}
           /\ Schedule([state EXCEPT ![current] = "WAITING"], ticks)
           /\ UNCHANGED <<last, ppid>>

(* sys_waitpid is called. *)
Waitpid(pid) ==
    /\ Interruptible
    /\ IsUser(current)
    /\ WaitpidLoop(pid)
    /\ UNCHANGED <<jiffies, sleeping_queue, idle_pc, mode>>

(* The waiter is switched in again and goes round the loop of sys_waitpid. *)
WaitpidResume ==
    /\ mode = "running"
    /\ call[current] # NoCall
    /\ WaitpidLoop(call[current])
    /\ UNCHANGED <<jiffies, sleeping_queue, idle_pc, mode>>

-----------------------------------------------------------------------------
(***************************************************************************)
(* task_init has created idle, init and test, and the first clock          *)
(* interrupt has switched from the boot stack, which is in no slot of      *)
(* task_queue and is never resumed, to the first task task_search finds:   *)
(* init has more ticks than idle, test does not beat init.                 *)
(***************************************************************************)
Init ==
    /\ current = INIT
    /\ state = [t \in Slots |->
                  IF t = INIT THEN "RUNNING"
                  ELSE IF t <= TEST THEN "READY" ELSE "FREE"]
    /\ ticks = [t \in Slots |-> IF t <= TEST THEN Priority(t) ELSE 0]
    /\ last = [t \in Slots |-> 0]
    /\ ppid = [t \in Slots |-> 0]
    /\ waitpid = [t \in Slots |-> 0]
    /\ call = [t \in Slots |-> NoCall]
    /\ jiffies = 1
    /\ sleeping_queue = <<>>
    /\ blocked_queue = {}
    /\ idle_pc = "hlt"
    /\ mode = "running"

WaitpidArgs == (2 .. NUM_TASKS - 1) \cup {AnyChild}

Next ==
    \/ Yield
    \/ Block
    \/ \E t \in Slots : Unblock(t)
    \/ \E ms \in SleepMs : Sleep(ms)
    \/ ClockInterrupt
    \/ Fork
    \/ ForkNoSlot
    \/ Exit
    \/ \E pid \in WaitpidArgs : Waitpid(pid)
    \/ WaitpidResume

Spec == Init /\ [][Next]_vars

-----------------------------------------------------------------------------
(* Properties. *)

TypeOK ==
    /\ state \in [Slots -> TaskState]
    /\ ticks \in [Slots -> 0 .. WORD - 1]
    /\ last \in [Slots -> 0 .. WORD - 1]
    /\ ppid \in [Slots -> Slots]
    /\ waitpid \in [Slots -> Slots]
    /\ call \in [Slots -> WaitpidArgs \cup {NoCall}]
    /\ current \in Slots
    /\ jiffies \in 0 .. WORD - 1
    /\ sleeping_queue \in Seq(Slots)
    /\ blocked_queue \subseteq Slots
    /\ idle_pc \in {"hlt", "yield"}
    /\ mode \in {"running", "panic"}

(* The task on the CPU, and no other, is in the running state, whatever     *)
(* blocks, wakes, dies or is scheduled (task.c schedule).                   *)
OneRunning == \A t \in Slots : state[t] = "RUNNING" <=> t = current

(* A task hangs in a list exactly when its state says so, and hangs in it   *)
(* once: every ASSERT_NODE_FREE and every list_remove of task.c is safe.    *)
Asleep(t) == \E i \in 1 .. Len(sleeping_queue) : sleeping_queue[i] = t
BlockedMatch == \A t \in Slots : t \in blocked_queue <=> state[t] \in {"BLOCKED", "WAITING"}
SleepMatch == \A t \in Slots : Asleep(t) <=> state[t] = "SLEEPING"
SleepOnce ==
    \A i, j \in 1 .. Len(sleeping_queue) : sleeping_queue[i] = sleeping_queue[j] => i = j

(* The three together: list nodes and task states never disagree.          *)
QueuesMatchStates == BlockedMatch /\ SleepMatch /\ SleepOnce

(* No task that can still run has an empty time slice: ticks-- in           *)
(* clock_handler never wraps below zero, which would give the task the CPU  *)
(* for the next 2^32 clock periods.                                         *)
NoEmptySlice == \A t \in Slots : state[t] \notin {"FREE", "DIED"} => ticks[t] > 0

(* clock_handler leaves no task asleep whose time has come: task_wakeup     *)
(* may stop at the first node that is not due (comment at task.c:250).      *)
DueSleepersWoken ==
    [][jiffies' # jiffies =>
         \A t \in Slots : state'[t] = "SLEEPING" => ticks[t] > jiffies]_vars

(* A sleeper leaves the sleeping queue at the clock interrupt it asked for, *)
(* neither before nor after it (task_sleep, task_wakeup).                   *)
WakesOnTime ==
    [][\A t \in Slots : state[t] = "SLEEPING" /\ state'[t] # "SLEEPING"
                            => ticks[t] = jiffies]_vars

(* The parent of every process exists and has not died: task_queue[ppid] in *)
(* sys_exit is never NULL, and a process that exits is always somebody's.   *)
ParentAlive ==
    \A t \in Slots : state[t] # "FREE" => state[ppid[t]] \notin {"FREE", "DIED"}

(* Handing children over and reusing slots never closes a cycle of parents: *)
(* a set of processes without idle has a member whose parent is outside.    *)
TreeRooted ==
    \A S \in SUBSET {t \in Slots : t # IDLE /\ state[t] # "FREE"} :
        S # {} => \E t \in S : ppid[t] \notin S

(* A process blocked in waitpid waits for a child of its own that can still *)
(* exit: the wake-up in sys_exit is never missed and nobody else collects   *)
(* the child.                                                               *)
WaiterHasLiveChild ==
    \A p \in Slots : state[p] = "WAITING" =>
        waitpid[p] \in ChildrenOf(p) /\ state[waitpid[p]] # "DIED"

(* A waiter that was woken still finds the dead child that woke it when it  *)
(* goes round the loop of sys_waitpid, however late it is scheduled.        *)
WokenWaiterHasZombie ==
    \A p \in Slots : call[p] # NoCall /\ state[p] # "WAITING" =>
        waitpid[p] \in ChildrenOf(p) /\ state[waitpid[p]] = "DIED"

-----------------------------------------------------------------------------
(* What comments and documents of the repository say and the code does not. *)

(* 072_waitpid.md: waitpid(-1) waits for any child to end, and returns at   *)
(* once when a child has ended already.                                     *)
WaitAnySeesZombie ==
    \A p \in Slots : state[p] = "WAITING" /\ call[p] = AnyChild =>
        \A i \in ChildrenOf(p) : state[i] # "DIED"

(* Comment at task.c:406: a new process starts with a remaining time slice  *)
(* equal to its priority.                                                   *)
ForkedSliceIsPriority ==
    [][\A t \in Slots : state[t] = "FREE" /\ state'[t] # "FREE"
                            => ticks'[t] = Priority(t)]_vars

(* Comment at task.c:47: of the ready tasks task_search takes the one of    *)
(* highest priority (046_kernel_thread.md: remaining ticks) that has not    *)
(* run for longest.  The least this says: no other ready task has both more *)
(* ticks and an older last run than the one chosen.                         *)
SearchTakesBest ==
    [][current' # current =>
         ~ \E t \in Slots \ {current, current'} :
              /\ state'[t] = "READY"
              /\ ticks[t] > ticks[current']
              /\ last[t] < last[current']]_vars
=============================================================================
