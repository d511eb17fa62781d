----------------------------- MODULE TaskProofs -----------------------------
(***************************************************************************)
(* Proofs about Task, for any number of slots, any priority, any sleep     *)
(* lengths and any width of the machine word.                              *)
(***************************************************************************)
EXTENDS Task, TLAPS, SequenceTheorems, WellFoundedInduction

Runnable == {"READY", "RUNNING"}

(* The constants of task_init are slots. *)
LEMMA SlotFacts == IDLE \in Slots /\ INIT \in Slots /\ TEST \in Slots /\ Slots \subseteq Nat
  BY SlotsAssumption DEF Slots, IDLE, INIT, TEST

(* A nonempty set of naturals has a least element. *)
LEMMA MinExists ==
  ASSUME NEW S, S \subseteq Nat, S # {}
  PROVE  \E i \in S : \A j \in S : i <= j
<1> DEFINE R == OpToRel(<, Nat)
<1>1. IsWellFoundedOn(R, Nat)
  BY NatLessThanWellFounded
<1> HIDE DEF R
<1>2. \E i \in S : \A j \in S : ~ (<<j, i>> \in R)
  BY <1>1, WFMin
<1>3. R = {ss \in Nat \X Nat : ss[1] < ss[2]}
  BY Zenon DEF R, OpToRel
<1> HIDE DEF R
<1>4. QED
  <2>1. \A i, j \in Nat : <<j, i>> \in R <=> j < i
    BY <1>3
  <2>2. PICK i \in S : \A j \in S : ~ (<<j, i>> \in R)
    BY <1>2
  <2>3. ASSUME NEW j \in S PROVE i <= j
    <3>1. i \in Nat /\ j \in Nat
      OBVIOUS
    <3>2. ~ (j < i)
      BY <2>1, <2>2, <3>1
    <3>3. QED
      BY <3>1, <3>2
  <2>4. QED
    BY <2>3

(* Initial segments of the naturals are equal only if their ends are. *)
LEMMA SameInterval ==
  ASSUME NEW a \in Nat, NEW b \in Nat, 1 .. a = 1 .. b
  PROVE  a = b
<1>1. \A i \in Nat : (1 <= i /\ i <= a) <=> (1 <= i /\ i <= b)
  OBVIOUS
<1>2. QED
  BY <1>1

(* u32 arithmetic stays in the word. *)
LEMMA U32Range ==
  ASSUME NEW x \in 0 .. WORD - 1, NEW y \in 0 .. WORD - 1
  PROVE  U32(x + y) \in 0 .. WORD - 1
  BY WordAssumption DEF U32

(* ticks-- stays in the word. *)
LEMMA DecRange ==
  ASSUME NEW x \in 0 .. WORD - 1
  PROVE  DecU32(x) \in 0 .. WORD - 1
  BY WordAssumption DEF DecU32

(* task_search returns a ready task other than the current one, or idle. *)
LEMMA SearchResult ==
  ASSUME NEW st
  PROVE  task_search(st) \in Candidates(st) \cup {IDLE}
  BY DEF task_search

(***************************************************************************)
(* What schedule() does to the states and the time slices, as far as the   *)
(* invariants see it: the runnable tasks stay runnable, exactly the next   *)
(* task runs, no other state changes, no slice is left empty.              *)
(***************************************************************************)
LEMMA ScheduleEffect ==
  ASSUME current \in Slots,
         NEW st \in [Slots -> TaskState], NEW tk \in [Slots -> 0 .. WORD - 1],
         st[IDLE] \in Runnable,
         \A t \in Slots \ {current} : st[t] # "RUNNING",
         Schedule(st, tk)
  PROVE  /\ state' \in [Slots -> TaskState]
         /\ ticks' \in [Slots -> 0 .. WORD - 1]
         /\ current' \in Slots
         /\ \A t \in Slots : state'[t] = "RUNNING" <=> t = current'
         /\ \A t \in Slots : st[t] \notin Runnable => state'[t] = st[t]
         /\ \A t \in Slots : st[t] \in Runnable => state'[t] \in Runnable
         /\ \A t \in Slots : tk[t] > 0 => ticks'[t] = tk[t]
         /\ \A t \in Slots : t # current => ticks'[t] = tk[t]
         /\ ticks'[current] > 0
<1> DEFINE next == task_search(st)
<1> DEFINE st1 == IF st[current] = "RUNNING" THEN [st EXCEPT ![current] = "READY"] ELSE st
<1>1. next \in Candidates(st) \cup {IDLE}
  BY SearchResult
<1>2. next \in Slots /\ st[next] \in Runnable /\ (next = current => next = IDLE)
  BY <1>1, SlotFacts DEF Candidates, Runnable
<1>3. /\ state' = [st1 EXCEPT ![next] = "RUNNING"]
      /\ ticks' = IF tk[current] = 0 THEN [tk EXCEPT ![current] = Priority(current)] ELSE tk
      /\ current' = next
  BY DEF Schedule
<1> HIDE DEF next
<1>4. st1 \in [Slots -> TaskState]
  BY DEF TaskState
<1>5. /\ state' \in [Slots -> TaskState]
      /\ \A t \in Slots : state'[t] = "RUNNING" <=> t = current'
      /\ \A t \in Slots : st[t] \notin Runnable => state'[t] = st[t]
      /\ \A t \in Slots : st[t] \in Runnable => state'[t] \in Runnable
  BY <1>2, <1>3, <1>4 DEF Runnable, TaskState
<1>6. Priority(current) \in 0 .. WORD - 1 /\ Priority(current) > 0
  BY PriorityAssumption, WordAssumption DEF Priority
<1>7. /\ ticks' \in [Slots -> 0 .. WORD - 1]
      /\ \A t \in Slots : tk[t] > 0 => ticks'[t] = tk[t]
      /\ \A t \in Slots : t # current => ticks'[t] = tk[t]
      /\ ticks'[current] > 0
  BY <1>3, <1>6, WordAssumption
<1>8. QED
  BY <1>2, <1>3, <1>5, <1>7

-----------------------------------------------------------------------------
(* The inductive invariant. *)

(* idle never blocks, sleeps or dies: schedule() can always fall back to it. *)
IdleRunnable == state[IDLE] \in Runnable

(* The loops of sys_exit and sys_waitpid start at slot 2: the two tasks they *)
(* skip are nobody's children but idle's.                                    *)
RootParents == ppid[IDLE] = IDLE /\ ppid[INIT] = IDLE

(* init may die but is never collected: no loop looks at its slot. *)
InitKept == state[INIT] # "FREE"

(* What TreeRooted says of a single process. *)
NotOwnParent == \A t \in Slots : state[t] # "FREE" /\ t # IDLE => ppid[t] # t

(* Who is inside sys_waitpid, seen from the states. *)
CallsMatchStates ==
    /\ \A p \in Slots : state[p] = "WAITING" => call[p] # NoCall
    /\ \A p \in Slots : call[p] # NoCall => IsUser(p) /\ state[p] \in Runnable \cup {"WAITING"}

IInv ==
    /\ TypeOK
    /\ OneRunning
    /\ QueuesMatchStates
    /\ NoEmptySlice
    /\ IdleRunnable
    /\ InitKept
    /\ RootParents
    /\ TreeRooted
    /\ ParentAlive
    /\ CallsMatchStates
    /\ WaiterHasLiveChild
    /\ WokenWaiterHasZombie

(* task_init establishes the invariant. *)
LEMMA InitIInv == Init => IInv
<1> SUFFICES ASSUME Init PROVE IInv
  OBVIOUS
<1> USE SlotFacts, WordAssumption, PriorityAssumption, SlotsAssumption DEF Init
<1>1. TypeOK
  BY DEF TypeOK, TaskState, Priority, IDLE, INIT, TEST
<1>2. OneRunning /\ IdleRunnable /\ InitKept /\ RootParents /\ CallsMatchStates
  BY DEF OneRunning, IdleRunnable, InitKept, RootParents, CallsMatchStates, Runnable, IDLE, INIT, TEST
<1>3. QueuesMatchStates
  BY DEF QueuesMatchStates, BlockedMatch, SleepMatch, SleepOnce, Asleep, IDLE, INIT, TEST
<1>4. NoEmptySlice
  BY DEF NoEmptySlice, Priority, IDLE, INIT, TEST
<1>5. TreeRooted /\ ParentAlive
  BY DEF TreeRooted, ParentAlive, IDLE, INIT, TEST
<1>6. WaiterHasLiveChild /\ WokenWaiterHasZombie
  BY DEF WaiterHasLiveChild, WokenWaiterHasZombie
<1>7. QED
  BY <1>1, <1>2, <1>3, <1>4, <1>5, <1>6 DEF IInv

(* Frame: the same tasks sleep and the list of sleepers is the same. *)
LEMMA SleepFrame ==
  ASSUME SleepMatch, SleepOnce, UNCHANGED sleeping_queue,
         \A t \in Slots : state'[t] = "SLEEPING" <=> state[t] = "SLEEPING"
  PROVE  SleepMatch' /\ SleepOnce'
  BY DEF SleepMatch, SleepOnce, Asleep

(* In a rooted tree nobody is its own parent. *)
LEMMA RootedNotOwnParent == TreeRooted => NotOwnParent
<1> SUFFICES ASSUME TreeRooted, NEW t \in Slots, state[t] # "FREE", t # IDLE
             PROVE  ppid[t] # t
  BY DEF NotOwnParent
<1>1. {t} \in SUBSET {u \in Slots : u # IDLE /\ state[u] # "FREE"}
  OBVIOUS
<1>2. \E u \in {t} : ppid[u] \notin {t}
  BY <1>1 DEF TreeRooted
<1>3. QED
  BY <1>2

(* Frame: the tree shrinks or stays. *)
LEMMA TreeFrame ==
  ASSUME TreeRooted,
         \A t \in Slots : state'[t] # "FREE" => state[t] # "FREE" /\ ppid'[t] = ppid[t]
  PROVE  TreeRooted'
<1> SUFFICES ASSUME NEW S \in SUBSET {t \in Slots : t # IDLE /\ state'[t] # "FREE"}, S # {}
             PROVE  \E t \in S : ppid'[t] \notin S
  BY DEF TreeRooted
<1>1. S \in SUBSET {t \in Slots : t # IDLE /\ state[t] # "FREE"}
  OBVIOUS
<1>2. PICK t \in S : ppid[t] \notin S
  BY <1>1 DEF TreeRooted
<1>3. QED
  BY <1>2

(* Frame: waiters and their children are seen the same way. *)
LEMMA WaitFrame ==
  ASSUME TypeOK, CallsMatchStates, WaiterHasLiveChild, WokenWaiterHasZombie,
         UNCHANGED procVars,
         \A t \in Slots : state'[t] = "WAITING" <=> state[t] = "WAITING",
         \A t \in Slots : state'[t] = "FREE" <=> state[t] = "FREE",
         \A t \in Slots : state'[t] = "DIED" <=> state[t] = "DIED"
  PROVE  WaiterHasLiveChild' /\ WokenWaiterHasZombie'
<1>1. UNCHANGED <<ppid, waitpid, call>>
  BY DEF procVars
<1>2. \A p, i \in Slots : i \in ChildrenOf(p)' <=> i \in ChildrenOf(p)
  BY <1>1 DEF ChildrenOf
<1>3. \A p \in Slots : waitpid[p] \in Slots
  BY DEF TypeOK
<1>4. WaiterHasLiveChild'
  BY <1>1, <1>2, <1>3 DEF WaiterHasLiveChild
<1>5. WokenWaiterHasZombie'
  BY <1>1, <1>2, <1>3 DEF WokenWaiterHasZombie
<1>6. QED
  BY <1>4, <1>5

-----------------------------------------------------------------------------
(* The steps. *)

(* yield keeps the invariant. *)
LEMMA YieldIInv == IInv /\ Yield => IInv'
<1> SUFFICES ASSUME IInv, Yield PROVE IInv'
  OBVIOUS
<1> USE SlotFacts DEF IInv
<1>1. /\ state' \in [Slots -> TaskState]
      /\ ticks' \in [Slots -> 0 .. WORD - 1]
      /\ current' \in Slots
      /\ \A t \in Slots : state'[t] = "RUNNING" <=> t = current'
      /\ \A t \in Slots : state[t] \notin Runnable => state'[t] = state[t]
      /\ \A t \in Slots : state[t] \in Runnable => state'[t] \in Runnable
      /\ \A t \in Slots : ticks[t] > 0 => ticks'[t] = ticks[t]
  BY ScheduleEffect DEF Yield, TypeOK, OneRunning, IdleRunnable
<1>2. UNCHANGED <<last, procVars, jiffies, sleeping_queue, blocked_queue, mode>>
  BY DEF Yield
<1>3. idle_pc' \in {"hlt", "yield"}
  BY DEF Yield, TypeOK
<1>4. TypeOK'
  BY <1>1, <1>2, <1>3 DEF TypeOK, procVars
<1>5. OneRunning' /\ NoEmptySlice' /\ IdleRunnable' /\ InitKept'
  BY <1>1 DEF TypeOK, OneRunning, NoEmptySlice, IdleRunnable, InitKept, Runnable
<1>6. QueuesMatchStates'
  BY <1>1, <1>2, SleepFrame DEF QueuesMatchStates, BlockedMatch, Runnable
<1>7. RootParents' /\ TreeRooted' /\ ParentAlive'
  BY TreeFrame, <1>1, <1>2 DEF RootParents, ParentAlive, Runnable, procVars, TypeOK
<1>8. CallsMatchStates'
  BY <1>1, <1>2 DEF CallsMatchStates, Runnable, procVars, TypeOK
<1>9. WaiterHasLiveChild' /\ WokenWaiterHasZombie'
  BY <1>1, <1>2, WaitFrame DEF Runnable
<1>10. QED
  BY <1>4, <1>5, <1>6, <1>7, <1>8, <1>9 DEF IInv

(* task_block keeps the invariant. *)
LEMMA BlockIInv == IInv /\ Block => IInv'
<1> SUFFICES ASSUME IInv, Block PROVE IInv'
  OBVIOUS
<1> USE SlotFacts DEF IInv
<1> DEFINE st == [state EXCEPT ![current] = "BLOCKED"]
<1>0. /\ current \in Slots /\ current # IDLE /\ call[current] = NoCall
      /\ state[current] = "RUNNING"
      /\ \A t \in Slots : st[t] = IF t = current THEN "BLOCKED" ELSE state[t]
      /\ st \in [Slots -> TaskState]
      /\ st[IDLE] \in Runnable
      /\ \A t \in Slots \ {current} : st[t] # "RUNNING"
      /\ ticks \in [Slots -> 0 .. WORD - 1]
      /\ Schedule(st, ticks)
  BY DEF Block, Interruptible, TypeOK, OneRunning, TaskState, IdleRunnable
<1> HIDE DEF st
<1>1. /\ state' \in [Slots -> TaskState]
      /\ ticks' \in [Slots -> 0 .. WORD - 1]
      /\ current' \in Slots
      /\ \A t \in Slots : state'[t] = "RUNNING" <=> t = current'
      /\ \A t \in Slots : st[t] \notin Runnable => state'[t] = st[t]
      /\ \A t \in Slots : st[t] \in Runnable => state'[t] \in Runnable
      /\ \A t \in Slots : ticks[t] > 0 => ticks'[t] = ticks[t]
  BY <1>0, ScheduleEffect
<1>2. /\ UNCHANGED <<last, procVars, jiffies, sleeping_queue, idle_pc, mode>>
      /\ blocked_queue' = blocked_queue \cup {current}
  BY DEF Block
<1>3. state'[current] = "BLOCKED"
  BY <1>0, <1>1 DEF Runnable
<1>4. \A t \in Slots : t # current =>
        /\ state[t] \notin Runnable => state'[t] = state[t]
        /\ state[t] \in Runnable => state'[t] \in Runnable
  BY <1>0, <1>1
<1>5. TypeOK'
  BY <1>0, <1>1, <1>2 DEF TypeOK, procVars
<1>6. OneRunning' /\ NoEmptySlice' /\ IdleRunnable' /\ InitKept'
  BY <1>0, <1>1, <1>4 DEF TypeOK, OneRunning, NoEmptySlice, IdleRunnable, InitKept, Runnable
<1>7. QueuesMatchStates'
  BY <1>0, <1>2, <1>3, <1>4, SleepFrame DEF QueuesMatchStates, BlockedMatch, Runnable
<1>8. RootParents' /\ TreeRooted' /\ ParentAlive'
  BY TreeFrame, <1>0, <1>2, <1>3, <1>4 DEF RootParents, ParentAlive, Runnable, procVars, TypeOK
<1>9. CallsMatchStates'
  BY ZenonT(60), <1>0, <1>2, <1>3, <1>4 DEF CallsMatchStates, Runnable, procVars, TypeOK
<1>10. WaiterHasLiveChild' /\ WokenWaiterHasZombie'
  BY <1>0, <1>2, <1>3, <1>4, WaitFrame DEF Runnable
<1>11. QED
  BY <1>5, <1>6, <1>7, <1>8, <1>9, <1>10 DEF IInv

(* task_unblock keeps the invariant. *)
LEMMA UnblockIInv == ASSUME NEW x \in Slots PROVE IInv /\ Unblock(x) => IInv'
<1> SUFFICES ASSUME IInv, Unblock(x) PROVE IInv'
  OBVIOUS
<1> USE SlotFacts DEF IInv
<1>1. /\ state[x] = "BLOCKED"
      /\ state' = [state EXCEPT ![x] = "READY"]
      /\ blocked_queue' = blocked_queue \ {x}
      /\ UNCHANGED <<ticks, last, procVars, current, jiffies, sleeping_queue, mode>>
      /\ idle_pc' \in {"hlt", "yield"}
  BY DEF Unblock, LeaveHlt, TypeOK
<1>2. /\ state' \in [Slots -> TaskState]
      /\ \A t \in Slots : state'[t] = IF t = x THEN "READY" ELSE state[t]
  BY <1>1 DEF TypeOK, TaskState
<1>3. TypeOK'
  BY <1>1, <1>2 DEF TypeOK, procVars
<1>4. OneRunning' /\ NoEmptySlice' /\ IdleRunnable' /\ InitKept'
  BY <1>1, <1>2 DEF TypeOK, OneRunning, NoEmptySlice, IdleRunnable, InitKept, Runnable
<1>5. QueuesMatchStates'
  BY <1>1, <1>2, SleepFrame DEF QueuesMatchStates, BlockedMatch
<1>6. RootParents' /\ TreeRooted' /\ ParentAlive'
  BY TreeFrame, <1>1, <1>2 DEF RootParents, ParentAlive, procVars, TypeOK
<1>7. CallsMatchStates'
  BY <1>1, <1>2 DEF CallsMatchStates, Runnable, procVars, TypeOK
<1>8. WaiterHasLiveChild' /\ WokenWaiterHasZombie'
  BY <1>1, <1>2, WaitFrame
<1>9. QED
  BY <1>3, <1>4, <1>5, <1>6, <1>7, <1>8 DEF IInv

-----------------------------------------------------------------------------
(* The list of sleepers. *)

(* list_insert_sort inserts at a place inside the list or at its end. *)
LEMMA InsertAtRange ==
  ASSUME NEW q \in Seq(Slots), NEW t \in Slots, NEW tk \in [Slots -> 0 .. WORD - 1]
  PROVE  InsertAt(q, t, tk) \in 1 .. Len(q) + 1
<1> DEFINE S == {i \in 1 .. Len(q) : Signed(tk[q[i]]) >= Signed(tk[t])}
<1>1. CASE S = {}
  BY <1>1 DEF InsertAt
<1>2. CASE S # {}
  <2>1. S \subseteq Nat /\ S # {}
    BY <1>2
  <2>2. \E i \in S : \A j \in S : i <= j
    <3> HIDE DEF S
    <3> QED BY <2>1, MinExists
  <2>3. InsertAt(q, t, tk) \in S
    BY <1>2, <2>2 DEF InsertAt
  <2>4. QED
    BY <2>3
<1>3. QED
  BY <1>1, <1>2

Member(x, q) == \E i \in 1 .. Len(q) : q[i] = x
NoRepeat(q) == \A i, j \in 1 .. Len(q) : q[i] = q[j] => i = j

(* list_insert_sort adds its node once and keeps the others. *)
LEMMA InsertSortElements ==
  ASSUME NEW q \in Seq(Slots), NEW t \in Slots, NEW tk \in [Slots -> 0 .. WORD - 1],
         ~ Member(t, q), NoRepeat(q),
         NEW r, r = list_insert_sort(q, t, tk)
  PROVE  /\ r \in Seq(Slots)
         /\ Len(r) = Len(q) + 1
         /\ \A x \in Slots : Member(x, r) <=> (x = t \/ Member(x, q))
         /\ NoRepeat(r)
<1>0. /\ \A i \in 1 .. Len(q) : q[i] # t
      /\ \A i, j \in 1 .. Len(q) : q[i] = q[j] => i = j
  BY DEF Member, NoRepeat
<1> DEFINE k == InsertAt(q, t, tk)
<1>1. k \in 1 .. Len(q) + 1 /\ Len(q) \in Nat
  BY InsertAtRange
<1>2. r = [i \in 1 .. Len(q) + 1 |-> IF i < k THEN q[i] ELSE IF i = k THEN t ELSE q[i - 1]]
  BY DEF list_insert_sort
<1> HIDE DEF k
<1>3. r \in [1 .. Len(q) + 1 -> Slots]
  BY <1>1, <1>2
<1>4. r \in Seq(Slots) /\ Len(r) = Len(q) + 1
  <2>1. r \in Seq(Slots)
    BY <1>1, <1>3, SeqDef
  <2>2. DOMAIN r = 1 .. Len(r) /\ Len(r) \in Nat /\ DOMAIN r = 1 .. Len(q) + 1
    BY <1>3, <2>1, LenProperties
  <2>3. ASSUME NEW m \in Nat, NEW n \in Nat, m = Len(r), n = Len(q) + 1 PROVE m = n
    <3>1. 1 .. m = 1 .. n
      BY <2>2, <2>3
    <3>2. QED
      BY <3>1, SameInterval
  <2>4. Len(q) + 1 \in Nat
    BY <1>1
  <2>5. QED
    BY <2>1, <2>2, <2>3, <2>4
<1>5. \A i \in 1 .. Len(r) : \/ i < k /\ r[i] = q[i]
                             \/ i = k /\ r[i] = t
                             \/ i > k /\ r[i] = q[i - 1]
  BY <1>1, <1>2, <1>4
<1>6. ASSUME NEW x, NEW i \in 1 .. Len(r), r[i] = x
      PROVE  x = t \/ \E j \in 1 .. Len(q) : q[j] = x
  <2>1. CASE i < k
    <3>1. i \in 1 .. Len(q) /\ q[i] = x
      BY <1>1, <1>4, <1>5, <1>6, <2>1
    <3>2. QED
      BY <3>1
  <2>2. CASE i = k
    BY <1>1, <1>4, <1>5, <1>6, <2>2
  <2>3. CASE i > k
    <3>1. i - 1 \in 1 .. Len(q) /\ q[i - 1] = x
      BY SMTT(30), <1>1, <1>4, <1>5, <1>6, <2>3
    <3>2. QED
      BY <3>1
  <2>4. QED
    BY <1>1, <1>4, <2>1, <2>2, <2>3
<1>7. ASSUME NEW i \in 1 .. Len(q)
      PROVE  \E j \in 1 .. Len(r) : r[j] = q[i]
  <2>1. CASE i < k
    <3>1. i \in 1 .. Len(r) /\ r[i] = q[i]
      BY <1>1, <1>2, <1>4, <2>1
    <3>2. QED
      BY <3>1
  <2>2. CASE i >= k
    <3>1. i + 1 \in 1 .. Len(r) /\ r[i + 1] = q[i]
      BY <1>1, <1>2, <1>4, <2>2
    <3>2. QED
      BY <3>1
  <2>3. QED
    BY <1>1, <2>1, <2>2
<1>8. \E j \in 1 .. Len(r) : r[j] = t
  BY <1>1, <1>2, <1>4
<1>9. ASSUME NEW i \in 1 .. Len(r), NEW j \in 1 .. Len(r), r[i] = r[j]
      PROVE  i = j
  <2>1. /\ i \in Int /\ j \in Int /\ k \in Int
        /\ (i < k => i \in 1 .. Len(q)) /\ (i > k => i - 1 \in 1 .. Len(q))
        /\ (j < k => j \in 1 .. Len(q)) /\ (j > k => j - 1 \in 1 .. Len(q))
    BY <1>1, <1>4
  <2>2. /\ (i < k => r[i] = q[i]) /\ (i = k => r[i] = t) /\ (i > k => r[i] = q[i - 1])
        /\ (j < k => r[j] = q[j]) /\ (j = k => r[j] = t) /\ (j > k => r[j] = q[j - 1])
    BY SMTT(30), <1>5, <2>1
  <2>3. CASE i < k
    BY <1>0, <1>9, <2>1, <2>2, <2>3
  <2>4. CASE i = k
    BY <1>0, <1>9, <2>1, <2>2, <2>4
  <2>5. CASE i > k
    BY SMTT(30), <1>0, <1>9, <2>1, <2>2, <2>5
  <2>6. QED
    BY <2>1, <2>3, <2>4, <2>5
<1>10. ASSUME NEW x \in Slots
       PROVE  (\E i \in 1 .. Len(r) : r[i] = x) <=> (x = t \/ \E i \in 1 .. Len(q) : q[i] = x)
  <2>1. (\E i \in 1 .. Len(r) : r[i] = x) => (x = t \/ \E i \in 1 .. Len(q) : q[i] = x)
    BY <1>6
  <2>2. (x = t \/ \E i \in 1 .. Len(q) : q[i] = x) => \E i \in 1 .. Len(r) : r[i] = x
    BY <1>7, <1>8
  <2>3. QED
    BY <2>1, <2>2
<1>11. QED
  BY <1>4, <1>9, <1>10 DEF Member, NoRepeat

(* task_sleep keeps the invariant. *)
LEMMA SleepIInv == ASSUME NEW ms \in SleepMs PROVE IInv /\ Sleep(ms) => IInv'
<1> SUFFICES ASSUME IInv, Sleep(ms) PROVE IInv'
  OBVIOUS
<1> USE SlotFacts DEF IInv
<1> DEFINE st == [state EXCEPT ![current] = "SLEEPING"]
<1> DEFINE tk == [ticks EXCEPT ![current] = U32(jiffies + div_round_up(ms))]
<1>0. /\ current \in Slots /\ current # IDLE /\ call[current] = NoCall
      /\ state[current] = "RUNNING"
      /\ \A t \in Slots : st[t] = IF t = current THEN "SLEEPING" ELSE state[t]
      /\ st \in [Slots -> TaskState]
      /\ st[IDLE] \in Runnable
      /\ \A t \in Slots \ {current} : st[t] # "RUNNING"
      /\ Schedule(st, tk)
  BY DEF Sleep, Interruptible, TypeOK, OneRunning, TaskState, IdleRunnable
<1>1. div_round_up(ms) \in 0 .. WORD - 1
  BY SleepAssumption, WordAssumption DEF div_round_up, U32, JIFFY
<1>2. U32(jiffies + div_round_up(ms)) \in 0 .. WORD - 1
  BY <1>1, U32Range DEF TypeOK
<1>3. /\ tk \in [Slots -> 0 .. WORD - 1]
      /\ \A t \in Slots \ {current} : tk[t] = ticks[t]
  BY <1>0, <1>2 DEF TypeOK
<1>4. /\ UNCHANGED <<last, procVars, jiffies, blocked_queue, idle_pc, mode>>
      /\ sleeping_queue' = list_insert_sort(sleeping_queue, current, tk)
  BY DEF Sleep
<1> HIDE DEF st, tk
<1>5. /\ state' \in [Slots -> TaskState]
      /\ ticks' \in [Slots -> 0 .. WORD - 1]
      /\ current' \in Slots
      /\ \A t \in Slots : state'[t] = "RUNNING" <=> t = current'
      /\ \A t \in Slots : st[t] \notin Runnable => state'[t] = st[t]
      /\ \A t \in Slots : st[t] \in Runnable => state'[t] \in Runnable
      /\ \A t \in Slots : t # current => ticks'[t] = tk[t]
      /\ ticks'[current] > 0
  BY <1>0, <1>3, ScheduleEffect
<1>6. state'[current] = "SLEEPING"
  BY <1>0, <1>5 DEF Runnable
<1>7. \A t \in Slots : t # current =>
        /\ state[t] \notin Runnable => state'[t] = state[t]
        /\ state[t] \in Runnable => state'[t] \in Runnable
  BY <1>0, <1>5
<1>8. /\ sleeping_queue \in Seq(Slots)
      /\ ~ Member(current, sleeping_queue)
      /\ NoRepeat(sleeping_queue)
  BY <1>0 DEF TypeOK, QueuesMatchStates, SleepMatch, SleepOnce, Asleep, Member, NoRepeat
<1>9. /\ sleeping_queue' \in Seq(Slots)
      /\ \A x \in Slots : Member(x, sleeping_queue') <=> (x = current \/ Member(x, sleeping_queue))
      /\ NoRepeat(sleeping_queue')
  BY <1>0, <1>3, <1>4, <1>8, InsertSortElements
<1>10. TypeOK'
  BY <1>0, <1>4, <1>5, <1>9 DEF TypeOK, procVars
<1>11. OneRunning' /\ NoEmptySlice' /\ IdleRunnable' /\ InitKept'
  BY <1>0, <1>3, <1>5, <1>7 DEF TypeOK, OneRunning, NoEmptySlice, IdleRunnable, InitKept, Runnable
<1>12. SleepMatch' /\ SleepOnce'
  <2>1. \A t \in Slots : Asleep(t)' <=> (t = current \/ Asleep(t))
    BY <1>9 DEF Asleep, Member
  <2>2. \A t \in Slots : state'[t] = "SLEEPING" <=> (t = current \/ state[t] = "SLEEPING")
    BY <1>6, <1>7 DEF Runnable
  <2>3. QED
    BY <1>9, <2>1, <2>2 DEF QueuesMatchStates, SleepMatch, SleepOnce, NoRepeat
<1>13. QueuesMatchStates'
  BY <1>0, <1>4, <1>6, <1>7, <1>12 DEF QueuesMatchStates, BlockedMatch, Runnable
<1>14. RootParents' /\ TreeRooted' /\ ParentAlive'
  BY TreeFrame, <1>0, <1>4, <1>6, <1>7 DEF RootParents, ParentAlive, Runnable, procVars, TypeOK
<1>15. CallsMatchStates'
  BY ZenonT(60), <1>0, <1>4, <1>6, <1>7 DEF CallsMatchStates, Runnable, procVars, TypeOK
<1>16. WaiterHasLiveChild' /\ WokenWaiterHasZombie'
  BY <1>0, <1>4, <1>6, <1>7, WaitFrame DEF Runnable
<1>17. QED
  BY <1>10, <1>11, <1>13, <1>14, <1>15, <1>16 DEF IInv

(* task_wakeup takes a prefix of the list of sleepers. *)
LEMMA DueRange ==
  ASSUME sleeping_queue \in Seq(Slots)
  PROVE  Due \in 0 .. Len(sleeping_queue)
<1> DEFINE S == {i \in 1 .. Len(sleeping_queue) : ticks[sleeping_queue[i]] > jiffies}
<1>1. CASE S = {}
  BY <1>1 DEF Due
<1>2. CASE S # {}
  <2>1. S \subseteq Nat /\ S # {}
    BY <1>2
  <2>2. \E i \in S : \A j \in S : i <= j
    <3> HIDE DEF S
    <3> QED BY <2>1, MinExists
  <2>3. \E i \in S : Due = i - 1
    BY <1>2, <2>2 DEF Due
  <2>4. QED
    BY <2>3
<1>3. QED
  BY <1>1, <1>2

(* clock_handler keeps the invariant. *)
LEMMA ClockIInv == IInv /\ ClockInterrupt => IInv'
<1> SUFFICES ASSUME IInv, ClockInterrupt PROVE IInv'
  OBVIOUS
<1> USE SlotFacts DEF IInv
<1> DEFINE woken == {sleeping_queue[i] : i \in 1 .. Due}
<1> DEFINE st == [t \in Slots |-> IF t \in woken THEN "READY" ELSE state[t]]
<1> DEFINE tk == [ticks EXCEPT ![current] = DecU32(ticks[current])]
<1>1. /\ current \in Slots /\ call[current] = NoCall
      /\ state[current] = "RUNNING"
      /\ UNCHANGED <<procVars, blocked_queue, mode>>
      /\ jiffies' = U32(jiffies + 1)
      /\ last' = [last EXCEPT ![current] = U32(jiffies + 1)]
      /\ sleeping_queue' = SubSeq(sleeping_queue, Due + 1, Len(sleeping_queue))
      /\ \/ tk[current] = 0 /\ Schedule(st, tk)
         \/ tk[current] # 0 /\ state' = st /\ ticks' = tk /\ current' = current
      /\ idle_pc' \in {"hlt", "yield"}
  BY DEF ClockInterrupt, Interruptible, LeaveHlt, TypeOK, OneRunning
<1>2. sleeping_queue \in Seq(Slots) /\ Len(sleeping_queue) \in Nat /\ Due \in 0 .. Len(sleeping_queue)
  BY DueRange DEF TypeOK
<1>3. \A i \in 1 .. Len(sleeping_queue) : sleeping_queue[i] \in Slots
  BY <1>2, ElementOfSeq
<1>4. \A t \in woken : t \in Slots /\ state[t] = "SLEEPING"
  <2>1. ASSUME NEW t \in woken PROVE t \in Slots /\ Asleep(t)
    <3>1. PICK i \in 1 .. Due : t = sleeping_queue[i]
      OBVIOUS
    <3>2. i \in 1 .. Len(sleeping_queue)
      BY <1>2
    <3>3. QED
      BY <1>3, <3>1, <3>2 DEF Asleep
  <2>2. QED
    BY <2>1 DEF QueuesMatchStates, SleepMatch
<1>5. /\ st \in [Slots -> TaskState]
      /\ \A t \in Slots : st[t] = IF t \in woken THEN "READY" ELSE state[t]
      /\ st[IDLE] \in Runnable
      /\ \A t \in Slots \ {current} : st[t] # "RUNNING"
  BY DEF TypeOK, TaskState, IdleRunnable, Runnable, OneRunning
<1>6. /\ tk \in [Slots -> 0 .. WORD - 1]
      /\ \A t \in Slots \ {current} : tk[t] = ticks[t]
  <2>1. ticks \in [Slots -> 0 .. WORD - 1] /\ DecU32(ticks[current]) \in 0 .. WORD - 1
    BY <1>1, DecRange DEF TypeOK
  <2>2. QED
    BY <1>1, <2>1
<1> HIDE DEF st, tk, woken
<1>7. /\ state' \in [Slots -> TaskState]
      /\ ticks' \in [Slots -> 0 .. WORD - 1]
      /\ current' \in Slots
      /\ \A t \in Slots : state'[t] = "RUNNING" <=> t = current'
      /\ \A t \in Slots : st[t] \notin Runnable => state'[t] = st[t]
      /\ \A t \in Slots : st[t] \in Runnable => state'[t] \in Runnable
      /\ \A t \in Slots : t # current => ticks'[t] = tk[t]
      /\ ticks'[current] > 0
  <2>1. CASE tk[current] = 0 /\ Schedule(st, tk)
    BY <1>1, <1>5, <1>6, <2>1, ScheduleEffect
  <2>2. CASE tk[current] # 0 /\ state' = st /\ ticks' = tk /\ current' = current
    BY SMTT(30), <1>1, <1>4, <1>5, <1>6, <2>2, WordAssumption DEF OneRunning
  <2>3. QED
    BY <1>1, <2>1, <2>2
<1>8. \A t \in Slots :
        /\ t \in woken => state'[t] \in Runnable
        /\ t \notin woken /\ state[t] \notin Runnable => state'[t] = state[t]
        /\ t \notin woken /\ state[t] \in Runnable => state'[t] \in Runnable
  BY <1>5, <1>7 DEF Runnable
<1>9. U32(jiffies + 1) \in 0 .. WORD - 1
  BY WordAssumption, U32Range DEF TypeOK
<1>10. /\ sleeping_queue' \in Seq(Slots)
       /\ Len(sleeping_queue') = Len(sleeping_queue) - Due
       /\ \A i \in 1 .. Len(sleeping_queue') : sleeping_queue'[i] = sleeping_queue[Due + i]
  BY <1>1, <1>2, <1>3, SubSeqProperties
<1>11. TypeOK'
  BY <1>1, <1>7, <1>9, <1>10 DEF TypeOK, procVars
<1>12. OneRunning' /\ NoEmptySlice' /\ IdleRunnable' /\ InitKept'
  BY <1>4, <1>6, <1>7, <1>8 DEF TypeOK, OneRunning, NoEmptySlice, IdleRunnable, InitKept, Runnable
<1>13. SleepOnce'
  BY SMTT(30), <1>2, <1>10 DEF QueuesMatchStates, SleepOnce
<1>14. SleepMatch'
  <2>1. ASSUME NEW t \in Slots PROVE Asleep(t)' <=> (Asleep(t) /\ t \notin woken)
    <3>1. ASSUME Asleep(t)' PROVE Asleep(t) /\ t \notin woken
      <4>1. PICK i \in 1 .. Len(sleeping_queue') : sleeping_queue'[i] = t
        BY <3>1 DEF Asleep
      <4>2. Due + i \in 1 .. Len(sleeping_queue) /\ sleeping_queue[Due + i] = t
        BY <1>2, <1>10, <4>1
      <4>3. \A j \in 1 .. Due : j \in 1 .. Len(sleeping_queue) /\ j # Due + i
        BY <1>2, <4>1
      <4>4. t \notin woken
        BY <4>2, <4>3 DEF woken, QueuesMatchStates, SleepOnce
      <4>5. QED
        BY <4>2, <4>4 DEF Asleep
    <3>2. ASSUME Asleep(t), t \notin woken PROVE Asleep(t)'
      <4>1. PICK i \in 1 .. Len(sleeping_queue) : sleeping_queue[i] = t
        BY <3>2 DEF Asleep
      <4>2. i \notin 1 .. Due
        BY <3>2, <4>1 DEF woken
      <4>3. i - Due \in 1 .. Len(sleeping_queue') /\ sleeping_queue'[i - Due] = t
        BY <1>2, <1>10, <4>1, <4>2
      <4>4. QED
        BY <4>3 DEF Asleep
    <3>3. QED
      BY <3>1, <3>2
  <2>2. \A t \in Slots : state'[t] = "SLEEPING" <=> (state[t] = "SLEEPING" /\ t \notin woken)
    BY <1>8 DEF Runnable
  <2>3. QED
    BY <2>1, <2>2 DEF QueuesMatchStates, SleepMatch
<1>15. QueuesMatchStates'
  BY <1>1, <1>4, <1>8, <1>13, <1>14 DEF QueuesMatchStates, BlockedMatch, Runnable
<1>16. RootParents' /\ TreeRooted' /\ ParentAlive'
  BY TreeFrame, <1>1, <1>4, <1>8 DEF RootParents, ParentAlive, Runnable, procVars, TypeOK
<1>17. CallsMatchStates'
  BY <1>1, <1>4, <1>8 DEF CallsMatchStates, Runnable, procVars, TypeOK
<1>18. WaiterHasLiveChild' /\ WokenWaiterHasZombie'
  BY <1>1, <1>4, <1>8, WaitFrame DEF Runnable
<1>19. QED
  BY <1>11, <1>12, <1>15, <1>16, <1>17, <1>18 DEF IInv

-----------------------------------------------------------------------------
(* Processes. *)

(* sys_fork keeps the invariant. *)
LEMMA ForkIInv == IInv /\ Fork => IInv'
<1> SUFFICES ASSUME IInv, Fork PROVE IInv'
  OBVIOUS
<1> USE SlotFacts DEF IInv
<1> DEFINE c == get_free_task
<1>1. c \in FreeSlots
  <2>1. FreeSlots \subseteq Nat /\ FreeSlots # {}
    BY DEF Fork, FreeSlots
  <2>2. \E i \in FreeSlots : \A j \in FreeSlots : i <= j
    BY <2>1, MinExists
  <2>3. QED
    BY <2>2 DEF get_free_task
<1>2. /\ state' = [state EXCEPT ![c] = "READY"]
      /\ ticks' = [ticks EXCEPT ![c] = ticks[current]]
      /\ last' = [last EXCEPT ![c] = Priority(current)]
      /\ ppid' = [ppid EXCEPT ![c] = current]
      /\ waitpid' = [waitpid EXCEPT ![c] = waitpid[current]]
      /\ UNCHANGED <<call, current, jiffies, sleeping_queue, blocked_queue, idle_pc, mode>>
      /\ call[current] = NoCall
  BY DEF Fork, Interruptible
<1> HIDE DEF c
<1>3. /\ c \in Slots /\ state[c] = "FREE" /\ c # current /\ current \in Slots
      /\ state[current] = "RUNNING"
  BY <1>1 DEF FreeSlots, OneRunning, TypeOK
<1>4. c # IDLE /\ c # INIT
  BY <1>3 DEF IdleRunnable, Runnable, InitKept
<1>5. /\ state' \in [Slots -> TaskState]
      /\ \A t \in Slots : state'[t] = IF t = c THEN "READY" ELSE state[t]
      /\ ticks' \in [Slots -> 0 .. WORD - 1]
      /\ \A t \in Slots : ticks'[t] = IF t = c THEN ticks[current] ELSE ticks[t]
      /\ ppid' \in [Slots -> Slots]
      /\ \A t \in Slots : ppid'[t] = IF t = c THEN current ELSE ppid[t]
      /\ waitpid' \in [Slots -> Slots]
      /\ \A t \in Slots : t # c => waitpid'[t] = waitpid[t]
  BY <1>2, <1>3 DEF TypeOK, TaskState
<1>6. last' \in [Slots -> 0 .. WORD - 1]
  BY SMTT(30), <1>2, <1>3, PriorityAssumption, WordAssumption DEF TypeOK, Priority
<1>7. TypeOK'
  BY <1>2, <1>5, <1>6 DEF TypeOK
<1>8. OneRunning' /\ NoEmptySlice' /\ IdleRunnable' /\ InitKept'
  BY <1>2, <1>3, <1>5 DEF OneRunning, NoEmptySlice, IdleRunnable, Runnable, InitKept
<1>9. QueuesMatchStates'
  BY <1>2, <1>3, <1>5, SleepFrame DEF QueuesMatchStates, BlockedMatch
<1>10. RootParents'
  BY <1>3, <1>4, <1>5 DEF RootParents
<1>10a. TreeRooted'
  <2> SUFFICES ASSUME NEW S \in SUBSET {t \in Slots : t # IDLE /\ state'[t] # "FREE"}, S # {}
               PROVE  \E t \in S : ppid'[t] \notin S
    BY DEF TreeRooted
  <2>1. S \ {c} \in SUBSET {t \in Slots : t # IDLE /\ state[t] # "FREE"}
    BY <1>5
  <2>2. CASE S \ {c} = {}
    <3>1. c \in S /\ ppid'[c] \notin S
      BY <1>3, <1>5, <2>2
    <3>2. QED
      BY <3>1
  <2>3. CASE S \ {c} # {}
    <3>1. PICK t \in S \ {c} : ppid[t] \notin S \ {c}
      BY <2>1, <2>3 DEF TreeRooted
    <3>2. t \in Slots /\ state[t] # "FREE" /\ ppid'[t] = ppid[t] /\ ppid[t] \in Slots
      BY <1>5, <2>1, <3>1 DEF TypeOK
    <3>3. ppid[t] # c
      BY <1>3, <3>2 DEF ParentAlive
    <3>4. QED
      BY <3>1, <3>2, <3>3
  <2>4. QED
    BY <2>2, <2>3
<1>11. ParentAlive'
  BY ZenonT(60), <1>3, <1>5 DEF ParentAlive, TypeOK
<1>12. CallsMatchStates'
  BY <1>2, <1>3, <1>5 DEF CallsMatchStates, Runnable
<1>13. \A p, i \in Slots : i # c => (i \in ChildrenOf(p)' <=> i \in ChildrenOf(p))
  BY <1>5 DEF ChildrenOf
<1>14. \A p \in Slots : c \notin ChildrenOf(p)
  BY <1>3 DEF ChildrenOf
<1>15. WaiterHasLiveChild'
  <2>1. ASSUME NEW p \in Slots, state'[p] = "WAITING"
        PROVE  waitpid'[p] \in ChildrenOf(p)' /\ state'[waitpid'[p]] # "DIED"
    <3>1. p # c /\ state[p] = "WAITING" /\ waitpid'[p] = waitpid[p]
      BY <1>5, <2>1
    <3>2. waitpid[p] \in Slots /\ waitpid[p] \in ChildrenOf(p) /\ state[waitpid[p]] # "DIED"
      BY <3>1 DEF WaiterHasLiveChild, TypeOK
    <3>3. QED
      BY <1>5, <1>13, <1>14, <3>1, <3>2
  <2>2. QED
    BY <2>1 DEF WaiterHasLiveChild
<1>16. WokenWaiterHasZombie'
  <2>1. call[c] = NoCall
    BY <1>3 DEF CallsMatchStates, Runnable
  <2>2. ASSUME NEW p \in Slots, call'[p] # NoCall, state'[p] # "WAITING"
        PROVE  waitpid'[p] \in ChildrenOf(p)' /\ state'[waitpid'[p]] = "DIED"
    <3>1. p # c /\ call[p] # NoCall /\ state[p] # "WAITING" /\ waitpid'[p] = waitpid[p]
      BY <1>2, <1>5, <2>1, <2>2
    <3>2. waitpid[p] \in Slots /\ waitpid[p] \in ChildrenOf(p) /\ state[waitpid[p]] = "DIED"
      BY <3>1 DEF WokenWaiterHasZombie, TypeOK
    <3>3. QED
      BY <1>5, <1>13, <1>14, <3>1, <3>2
  <2>3. QED
    BY <2>2 DEF WokenWaiterHasZombie
<1>17. QED
  BY <1>7, <1>8, <1>9, <1>10, <1>10a, <1>11, <1>12, <1>15, <1>16 DEF IInv

(* sys_exit keeps the invariant. *)
LEMMA ExitIInv == IInv /\ Exit => IInv'
<1> SUFFICES ASSUME IInv, Exit PROVE IInv'
  OBVIOUS
<1> USE SlotFacts DEF IInv
<1> DEFINE g == ppid[current]
<1> DEFINE w == WakesParent(current)
<1> DEFINE dead == [state EXCEPT ![current] = "DIED"]
<1> DEFINE st == IF w THEN [dead EXCEPT ![g] = "READY"] ELSE dead
<1>1. /\ current \in Slots /\ current # IDLE /\ call[current] = NoCall
      /\ state[current] = "RUNNING"
      /\ g \in Slots /\ g # current
      /\ state[g] \notin {"FREE", "DIED"}
  BY RootedNotOwnParent DEF Exit, Interruptible, IsUser, TypeOK, OneRunning, NotOwnParent, ParentAlive
<1>2. /\ Schedule(st, ticks)
      /\ blocked_queue' = IF w THEN blocked_queue \ {g} ELSE blocked_queue
      /\ ppid' = [i \in Slots |-> IF i \in ChildrenOf(current) THEN g ELSE ppid[i]]
      /\ UNCHANGED <<last, waitpid, call, jiffies, sleeping_queue, idle_pc, mode>>
  BY DEF Exit, HandOver
<1>3. w <=> state[g] = "WAITING" /\ waitpid[g] = current
  <2>1. waitpid[g] \in Slots
    BY <1>1 DEF TypeOK
  <2>2. waitpid[g] # AnyChild
    BY <2>1 DEF AnyChild
  <2>3. QED
    BY <2>2 DEF WakesParent
<1>4. /\ st \in [Slots -> TaskState]
      /\ \A t \in Slots : st[t] = IF t = current THEN "DIED"
                                   ELSE IF w /\ t = g THEN "READY" ELSE state[t]
  BY <1>1 DEF TypeOK, TaskState
<1> HIDE DEF st, w, g, dead
<1>5. /\ st[IDLE] \in Runnable
      /\ \A t \in Slots \ {current} : st[t] # "RUNNING"
      /\ ticks \in [Slots -> 0 .. WORD - 1]
  BY <1>1, <1>4 DEF IdleRunnable, OneRunning, Runnable, TypeOK
<1>6. /\ state' \in [Slots -> TaskState]
      /\ ticks' \in [Slots -> 0 .. WORD - 1]
      /\ current' \in Slots
      /\ \A t \in Slots : state'[t] = "RUNNING" <=> t = current'
      /\ \A t \in Slots : st[t] \notin Runnable => state'[t] = st[t]
      /\ \A t \in Slots : st[t] \in Runnable => state'[t] \in Runnable
      /\ \A t \in Slots : ticks[t] > 0 => ticks'[t] = ticks[t]
  BY <1>1, <1>2, <1>4, <1>5, ScheduleEffect
<1>7. /\ state'[current] = "DIED"
      /\ w => state'[g] \in Runnable
      /\ \A t \in Slots : t # current /\ ~ (w /\ t = g) =>
            /\ state[t] \notin Runnable => state'[t] = state[t]
            /\ state[t] \in Runnable => state'[t] \in Runnable
  BY <1>1, <1>4, <1>6 DEF Runnable
<1>8. \A t \in Slots : ppid'[t] = IF t \in ChildrenOf(current) THEN g ELSE ppid[t]
  BY <1>2
<1>9. \A t \in Slots : ppid'[t] \in Slots
  BY <1>1, <1>8 DEF TypeOK
<1>10. TypeOK'
  BY <1>1, <1>2, <1>6, <1>9 DEF TypeOK
<1>11. OneRunning' /\ NoEmptySlice' /\ IdleRunnable' /\ InitKept'
  BY <1>1, <1>3, <1>6, <1>7 DEF TypeOK, OneRunning, NoEmptySlice, IdleRunnable, Runnable, InitKept
<1>12. QueuesMatchStates'
  BY <1>1, <1>2, <1>3, <1>7, SleepFrame DEF QueuesMatchStates, BlockedMatch, Runnable
<1>13. \A t \in Slots : t >= 2 \/ t = IDLE \/ t = INIT
  BY DEF IDLE, INIT
<1>14. \A t \in Slots : state'[t] # "FREE" => state[t] # "FREE"
  BY <1>1, <1>3, <1>7 DEF Runnable
<1>15. RootParents'
  BY <1>8 DEF RootParents, ChildrenOf, IDLE, INIT
<1>16. \A t \in Slots : state[t] # "FREE" => ppid'[t] # current
  BY <1>1, <1>8, <1>13, RootedNotOwnParent DEF RootParents, ChildrenOf, NotOwnParent
<1>17. TreeRooted'
  <2> SUFFICES ASSUME NEW S \in SUBSET {t \in Slots : t # IDLE /\ state'[t] # "FREE"}, S # {},
                      \A t \in S : ppid'[t] \in S
               PROVE  FALSE
    BY DEF TreeRooted
  <2>1. \A t \in S : t \in Slots /\ t # IDLE /\ state[t] # "FREE"
    BY <1>14
  <2>2. CASE \E t \in S : t \in ChildrenOf(current)
    <3>1. g \in S
      BY <1>8, <2>1, <2>2
    <3>2. S \cup {current} \in SUBSET {t \in Slots : t # IDLE /\ state[t] # "FREE"}
      BY <1>1, <2>1
    <3>3. PICK t \in S \cup {current} : ppid[t] \notin S \cup {current}
      BY <3>2 DEF TreeRooted
    <3>4. t # current
      BY <3>1, <3>3 DEF g
    <3>5. t \notin ChildrenOf(current)
      BY <3>3 DEF ChildrenOf
    <3>6. QED
      BY <1>8, <2>1, <3>3, <3>4, <3>5
  <2>3. CASE \A t \in S : t \notin ChildrenOf(current)
    <3>1. \A t \in S : ppid[t] \in S
      BY <1>8, <2>1, <2>3
    <3>2. QED
      BY <2>1, <3>1 DEF TreeRooted
  <2>4. QED
    BY <2>2, <2>3
<1>18. ParentAlive'
  <2>1. ASSUME NEW t \in Slots, state[t] # "FREE"
        PROVE  ppid'[t] \in Slots /\ state[ppid'[t]] \notin {"FREE", "DIED"}
    BY <1>1, <1>8, <1>9, <2>1 DEF ParentAlive
  <2>2. QED
    BY <1>3, <1>7, <1>14, <1>16, <2>1 DEF ParentAlive, Runnable
<1>19. CallsMatchStates'
  BY <1>1, <1>2, <1>3, <1>7 DEF CallsMatchStates, Runnable
<1>20. \A p, i \in Slots : p # current /\ i \in ChildrenOf(p) => i \in ChildrenOf(p)'
  BY <1>3, <1>7, <1>8 DEF ChildrenOf, Runnable
<1>21. WaiterHasLiveChild'
  <2>1. ASSUME NEW p \in Slots, state'[p] = "WAITING"
        PROVE  /\ waitpid'[p] \in ChildrenOf(p)'
               /\ state'[waitpid'[p]] # "DIED"
    <3>1. p # current /\ state[p] = "WAITING" /\ ~ (w /\ p = g)
      BY <1>7, <2>1 DEF Runnable
    <3>2. waitpid[p] \in Slots /\ waitpid[p] \in ChildrenOf(p) /\ state[waitpid[p]] # "DIED"
      BY <3>1 DEF WaiterHasLiveChild, TypeOK
    <3>3. waitpid[p] # current
      BY <1>3, <3>1, <3>2 DEF ChildrenOf, g
    <3>4. QED
      BY <1>2, <1>7, <1>20, <3>1, <3>2, <3>3 DEF Runnable
  <2>2. QED
    BY <2>1 DEF WaiterHasLiveChild
<1>22. WokenWaiterHasZombie'
  <2>1. ASSUME NEW p \in Slots, call'[p] # NoCall, state'[p] # "WAITING"
        PROVE  /\ waitpid'[p] \in ChildrenOf(p)'
               /\ state'[waitpid'[p]] = "DIED"
    <3>1. p # current /\ call[p] # NoCall /\ waitpid'[p] = waitpid[p] /\ waitpid[p] \in Slots
      BY <1>1, <1>2, <2>1 DEF TypeOK
    <3>2. CASE state[p] = "WAITING"
      <4>1. w /\ p = g /\ waitpid[p] = current
        BY <1>3, <1>7, <2>1, <3>1, <3>2 DEF Runnable
      <4>2. current \in ChildrenOf(p)
        BY <3>2, <4>1 DEF WaiterHasLiveChild
      <4>3. QED
        BY <1>1, <1>7, <1>20, <3>1, <4>1, <4>2
    <3>3. CASE state[p] # "WAITING"
      <4>1. waitpid[p] \in ChildrenOf(p) /\ state[waitpid[p]] = "DIED"
        BY <3>1, <3>3 DEF WokenWaiterHasZombie
      <4>2. waitpid[p] # current /\ ~ (w /\ waitpid[p] = g)
        BY <1>1, <4>1
      <4>3. QED
        BY <1>7, <1>20, <3>1, <4>1, <4>2 DEF Runnable
    <3>4. QED
      BY <3>2, <3>3
  <2>2. QED
    BY <2>1 DEF WokenWaiterHasZombie
<1>23. QED
  BY <1>10, <1>11, <1>12, <1>15, <1>17, <1>18, <1>19, <1>21, <1>22 DEF IInv

(* One pass of the loop of sys_waitpid, on the first call or later. *)
LEMMA WaitpidLoopIInv ==
  ASSUME NEW pid \in WaitpidArgs, IInv, IsUser(current), WaitpidLoop(pid),
         UNCHANGED <<jiffies, sleeping_queue, idle_pc, mode>>
  PROVE  IInv'
<1> USE SlotFacts DEF IInv
<1> DEFINE child == CHOOSE i \in Matching(pid) : \A j \in Matching(pid) : i <= j
<1>1. current \in Slots /\ state[current] = "RUNNING" /\ pid # NoCall /\ current # IDLE
  BY DEF TypeOK, OneRunning, WaitpidArgs, NoCall, AnyChild, IsUser
<1>2. CASE /\ Matching(pid) = {}
           /\ call' = [call EXCEPT ![current] = NoCall]
           /\ UNCHANGED <<state, ticks, last, ppid, waitpid, current, blocked_queue>>
  <2>1. TypeOK'
    BY <1>1, <1>2 DEF TypeOK
  <2>2. OneRunning' /\ NoEmptySlice' /\ IdleRunnable' /\ InitKept' /\ RootParents' /\ ParentAlive' /\ TreeRooted'
    BY <1>2, TreeFrame DEF OneRunning, NoEmptySlice, IdleRunnable, InitKept, RootParents, ParentAlive
  <2>3. QueuesMatchStates'
    BY <1>2, SleepFrame DEF QueuesMatchStates, BlockedMatch
  <2>4. \A p \in Slots : call'[p] = IF p = current THEN NoCall ELSE call[p]
    BY <1>1, <1>2 DEF TypeOK
  <2>5. CallsMatchStates' /\ WaiterHasLiveChild' /\ WokenWaiterHasZombie'
    BY <1>1, <1>2, <2>4 DEF CallsMatchStates, WaiterHasLiveChild, WokenWaiterHasZombie, ChildrenOf
  <2>6. QED
    BY <2>1, <2>2, <2>3, <2>5 DEF IInv
<1>3. ASSUME Matching(pid) # {}
      PROVE  child \in ChildrenOf(current) /\ child \in Slots /\ child >= 2 /\ child # current
  <2>1. Matching(pid) \subseteq Nat
    BY DEF Matching, ChildrenOf
  <2>2. \E i \in Matching(pid) : \A j \in Matching(pid) : i <= j
    BY <1>3, <2>1, MinExists
  <2>3. child \in Matching(pid)
    BY <2>2
  <2>4. QED
    BY <2>3 DEF Matching, ChildrenOf
<1> HIDE DEF child
<1>4. CASE /\ Matching(pid) # {}
           /\ state[child] = "DIED"
           /\ state' = [state EXCEPT ![child] = "FREE"]
           /\ ticks' = [ticks EXCEPT ![child] = 0]
           /\ last' = [last EXCEPT ![child] = 0]
           /\ ppid' = [ppid EXCEPT ![child] = 0]
           /\ waitpid' = [waitpid EXCEPT ![child] = 0]
           /\ call' = [call EXCEPT ![current] = NoCall]
           /\ UNCHANGED <<current, blocked_queue>>
  <2>1. child \in ChildrenOf(current) /\ child \in Slots /\ child >= 2 /\ child # current
    BY <1>3, <1>4
  <2>2. /\ state' \in [Slots -> TaskState]
        /\ \A t \in Slots : state'[t] = IF t = child THEN "FREE" ELSE state[t]
        /\ \A t \in Slots : t # child => ticks'[t] = ticks[t] /\ ppid'[t] = ppid[t] /\ waitpid'[t] = waitpid[t]
        /\ \A p \in Slots : call'[p] = IF p = current THEN NoCall ELSE call[p]
    BY <1>1, <1>4, <2>1 DEF TypeOK, TaskState
  <2>3. ticks' \in [Slots -> 0 .. WORD - 1] /\ last' \in [Slots -> 0 .. WORD - 1]
    BY SMTT(30), <1>4, <2>1, WordAssumption DEF TypeOK
  <2>4. ppid' \in [Slots -> Slots] /\ waitpid' \in [Slots -> Slots] /\ call' \in [Slots -> WaitpidArgs \cup {NoCall}]
    BY <1>1, <1>4, <2>1 DEF TypeOK, IDLE
  <2>5. TypeOK'
    BY <1>4, <2>2, <2>3, <2>4 DEF TypeOK
  <2>6. OneRunning' /\ NoEmptySlice'
    BY <1>4, <2>2 DEF OneRunning, NoEmptySlice
  <2>7. IdleRunnable' /\ InitKept' /\ RootParents'
    BY <2>1, <2>2 DEF IdleRunnable, InitKept, RootParents, IDLE, INIT
  <2>8. TreeRooted'
    BY <2>2, TreeFrame
  <2>9. ParentAlive'
    BY <1>4, <2>1, <2>2 DEF ParentAlive, TypeOK
  <2>10. QueuesMatchStates'
    BY <1>4, <2>2, SleepFrame DEF QueuesMatchStates, BlockedMatch
  <2>11. CallsMatchStates'
    BY <1>1, <1>4, <2>1, <2>2 DEF CallsMatchStates, Runnable
  <2>12. \A p, i \in Slots : i # child /\ i \in ChildrenOf(p) => i \in ChildrenOf(p)'
    BY <2>2 DEF ChildrenOf
  <2>13. WaiterHasLiveChild'
    <3>1. ASSUME NEW p \in Slots, state'[p] = "WAITING"
          PROVE  waitpid'[p] \in ChildrenOf(p)' /\ state'[waitpid'[p]] # "DIED"
      <4>1. p # child /\ state[p] = "WAITING" /\ waitpid'[p] = waitpid[p]
        BY <2>2, <3>1
      <4>2. waitpid[p] \in Slots /\ waitpid[p] \in ChildrenOf(p) /\ state[waitpid[p]] # "DIED"
        BY <4>1 DEF WaiterHasLiveChild, TypeOK
      <4>3. QED
        BY <1>4, <2>2, <2>12, <4>1, <4>2
    <3>2. QED
      BY <3>1 DEF WaiterHasLiveChild
  <2>14. WokenWaiterHasZombie'
    <3>1. ASSUME NEW p \in Slots, call'[p] # NoCall, state'[p] # "WAITING"
          PROVE  waitpid'[p] \in ChildrenOf(p)' /\ state'[waitpid'[p]] = "DIED"
      <4>1. p # current /\ call[p] # NoCall
        BY <2>2, <3>1
      <4>2. p # child /\ state[p] # "WAITING" /\ waitpid'[p] = waitpid[p]
        BY <1>4, <2>2, <3>1, <4>1 DEF CallsMatchStates, Runnable
      <4>3. waitpid[p] \in Slots /\ waitpid[p] \in ChildrenOf(p) /\ state[waitpid[p]] = "DIED"
        BY <4>1, <4>2 DEF WokenWaiterHasZombie, TypeOK
      <4>4. waitpid[p] # child
        BY <2>1, <4>1, <4>3 DEF ChildrenOf
      <4>5. QED
        BY <2>2, <2>12, <4>2, <4>3, <4>4
    <3>2. QED
      BY <3>1 DEF WokenWaiterHasZombie
  <2>15. QED
    BY <2>5, <2>6, <2>7, <2>8, <2>9, <2>10, <2>11, <2>13, <2>14 DEF IInv
<1>5. CASE /\ Matching(pid) # {}
           /\ state[child] # "DIED"
           /\ waitpid' = [waitpid EXCEPT ![current] = child]
           /\ call' = [call EXCEPT ![current] = pid]
           /\ blocked_queue' = blocked_queue \cup {current}
           /\ Schedule([state EXCEPT ![current] = "WAITING"], ticks)
           /\ UNCHANGED <<last, ppid>>
  <2> DEFINE st == [state EXCEPT ![current] = "WAITING"]
  <2>1. child \in ChildrenOf(current) /\ child \in Slots /\ child >= 2 /\ child # current
    BY <1>3, <1>5
  <2>2. /\ \A t \in Slots : st[t] = IF t = current THEN "WAITING" ELSE state[t]
        /\ st \in [Slots -> TaskState]
        /\ st[IDLE] \in Runnable
        /\ \A t \in Slots \ {current} : st[t] # "RUNNING"
        /\ ticks \in [Slots -> 0 .. WORD - 1]
        /\ Schedule(st, ticks)
    BY <1>1, <1>5 DEF TypeOK, OneRunning, TaskState, IdleRunnable
  <2> HIDE DEF st
  <2>3. /\ state' \in [Slots -> TaskState]
        /\ ticks' \in [Slots -> 0 .. WORD - 1]
        /\ current' \in Slots
        /\ \A t \in Slots : state'[t] = "RUNNING" <=> t = current'
        /\ \A t \in Slots : st[t] \notin Runnable => state'[t] = st[t]
        /\ \A t \in Slots : st[t] \in Runnable => state'[t] \in Runnable
        /\ \A t \in Slots : ticks[t] > 0 => ticks'[t] = ticks[t]
    BY <1>1, <2>2, ScheduleEffect
  <2>4. /\ state'[current] = "WAITING"
        /\ \A t \in Slots : t # current =>
              /\ state[t] \notin Runnable => state'[t] = state[t]
              /\ state[t] \in Runnable => state'[t] \in Runnable
    BY <1>1, <2>2, <2>3 DEF Runnable
  <2>5. /\ waitpid' \in [Slots -> Slots] /\ call' \in [Slots -> WaitpidArgs \cup {NoCall}]
        /\ \A p \in Slots : waitpid'[p] = IF p = current THEN child ELSE waitpid[p]
        /\ \A p \in Slots : call'[p] = IF p = current THEN pid ELSE call[p]
    BY <1>1, <1>5, <2>1 DEF TypeOK
  <2>6. TypeOK'
    <3>1. blocked_queue' \subseteq Slots
      BY <1>1, <1>5 DEF TypeOK
    <3>2. QED
      BY <1>5, <2>3, <2>5, <3>1 DEF TypeOK
  <2>7. OneRunning' /\ NoEmptySlice' /\ IdleRunnable' /\ InitKept'
    BY <1>1, <2>3, <2>4 DEF TypeOK, OneRunning, NoEmptySlice, IdleRunnable, InitKept, Runnable
  <2>8. RootParents' /\ TreeRooted' /\ ParentAlive'
    BY <1>1, <1>5, <2>4, TreeFrame DEF RootParents, ParentAlive, Runnable, TypeOK
  <2>9. QueuesMatchStates'
    BY <1>1, <1>5, <2>4, SleepFrame DEF QueuesMatchStates, BlockedMatch, Runnable
  <2>10. CallsMatchStates'
    BY <1>1, <2>4, <2>5 DEF CallsMatchStates, Runnable
  <2>11. \A p, i \in Slots : i \in ChildrenOf(p)' <=> i \in ChildrenOf(p)
    BY <1>1, <1>5, <2>4 DEF ChildrenOf, Runnable
  <2>12. \A t \in Slots : state'[t] = "DIED" <=> state[t] = "DIED"
    BY <1>1, <2>4 DEF Runnable
  <2>13. WaiterHasLiveChild'
    <3>1. ASSUME NEW p \in Slots, state'[p] = "WAITING", p # current
          PROVE  waitpid[p] \in Slots /\ waitpid[p] \in ChildrenOf(p) /\ state[waitpid[p]] # "DIED"
      BY <2>4, <3>1 DEF WaiterHasLiveChild, TypeOK, Runnable
    <3>2. ASSUME NEW p \in Slots, state'[p] = "WAITING"
          PROVE  waitpid'[p] \in Slots /\ waitpid'[p] \in ChildrenOf(p)
                     /\ state[waitpid'[p]] # "DIED"
      <4>1. CASE p = current
        BY <1>5, <2>1, <2>5, <4>1
      <4>2. CASE p # current
        BY <2>5, <3>1, <3>2, <4>2
      <4>3. QED
        BY <4>1, <4>2
    <3>3. QED
      BY <2>11, <2>12, <3>2 DEF WaiterHasLiveChild
  <2>14. WokenWaiterHasZombie'
    <3>1. ASSUME NEW p \in Slots, call'[p] # NoCall, state'[p] # "WAITING"
          PROVE  /\ waitpid[p] \in Slots /\ waitpid[p] \in ChildrenOf(p)
                 /\ state[waitpid[p]] = "DIED" /\ p # current
      BY <2>4, <2>5, <3>1 DEF WokenWaiterHasZombie, TypeOK, Runnable
    <3>2. QED
      BY <2>5, <2>11, <2>12, <3>1 DEF WokenWaiterHasZombie
  <2>15. QED
    BY <2>6, <2>7, <2>8, <2>9, <2>10, <2>13, <2>14 DEF IInv
<1>6. QED
  BY <1>2, <1>4, <1>5 DEF WaitpidLoop, WaitsFor, child

-----------------------------------------------------------------------------
(* The invariant is inductive. *)

(* A step that changes nothing but the mode keeps the invariant. *)
LEMMA StutterIInv ==
  ASSUME IInv, mode' \in {"running", "panic"},
         UNCHANGED <<state, ticks, last, ppid, waitpid, call, current, jiffies,
                     sleeping_queue, blocked_queue, idle_pc>>
  PROVE  IInv'
<1> USE DEF IInv
<1>1. TypeOK'
  BY DEF TypeOK
<1>2. OneRunning' /\ NoEmptySlice' /\ IdleRunnable' /\ InitKept' /\ RootParents'
  BY DEF OneRunning, NoEmptySlice, IdleRunnable, InitKept, RootParents
<1>3. QueuesMatchStates'
  BY SleepFrame DEF QueuesMatchStates, BlockedMatch
<1>4. TreeRooted' /\ ParentAlive'
  BY TreeFrame DEF ParentAlive
<1>5. CallsMatchStates'
  BY DEF CallsMatchStates
<1>6. WaiterHasLiveChild' /\ WokenWaiterHasZombie'
  BY WaitFrame DEF procVars
<1>7. QED
  BY <1>1, <1>2, <1>3, <1>4, <1>5, <1>6

(* The invariant is inductive. *)
LEMMA NextIInv == IInv /\ [Next]_vars => IInv'
<1> SUFFICES ASSUME IInv, [Next]_vars PROVE IInv'
  OBVIOUS
<1>1. CASE ForkNoSlot
  BY <1>1, StutterIInv DEF ForkNoSlot, procVars
<1>2. ASSUME NEW pid \in WaitpidArgs, Waitpid(pid) PROVE IInv'
  BY <1>2, WaitpidLoopIInv DEF Waitpid
<1>3. CASE WaitpidResume
  <2>1. current \in Slots /\ call[current] \in WaitpidArgs /\ IsUser(current)
    BY <1>3 DEF WaitpidResume, IInv, TypeOK, CallsMatchStates
  <2>2. QED
    BY <1>3, <2>1, WaitpidLoopIInv DEF WaitpidResume
<1>4. CASE UNCHANGED vars
  BY <1>4, StutterIInv DEF vars, IInv, TypeOK
<1>5. QED
  BY <1>1, <1>2, <1>3, <1>4, YieldIInv, BlockIInv, UnblockIInv, SleepIInv, ClockIInv, ForkIInv, ExitIInv
     DEF Next

(* The inductive invariant holds in every reachable state of task.c. *)
THEOREM Invariance == Spec => []IInv
  BY InitIInv, NextIInv, PTL DEF Spec

(* Every variable of the task management keeps its type, for any table      *)
(* size: the u32 fields stay in the word, every pid names a slot.           *)
THEOREM TypeCorrect == Spec => []TypeOK
<1>1. IInv => TypeOK
  BY DEF IInv
<1>2. QED
  BY <1>1, Invariance, PTL

(* schedule() keeps exactly one task running, and it is the one on the CPU. *)
THEOREM RunningIsCurrent == Spec => []OneRunning
<1>1. IInv => OneRunning
  BY DEF IInv
<1>2. QED
  BY <1>1, Invariance, PTL

(* No ASSERT_NODE_FREE or list_remove of task.c ever fails: a task hangs in *)
(* a list exactly when its state says so.                                   *)
THEOREM ListsMatch == Spec => []QueuesMatchStates
<1>1. IInv => QueuesMatchStates
  BY DEF IInv
<1>2. QED
  BY <1>1, Invariance, PTL

(* The remaining ticks of a task never fall below zero in clock_handler,    *)
(* not even when jiffies wraps around.                                      *)
THEOREM SlicesPositive == Spec => []NoEmptySlice
<1>1. IInv => NoEmptySlice
  BY DEF IInv
<1>2. QED
  BY <1>1, Invariance, PTL

(* The parent sys_exit reads from task_queue[ppid] exists and is not dead.  *)
THEOREM ParentsLive == Spec => []ParentAlive
<1>1. IInv => ParentAlive
  BY DEF IInv
<1>2. QED
  BY <1>1, Invariance, PTL

(* The processes stay a tree under idle, however forks, exits and the reuse *)
(* of slots interleave.                                                     *)
THEOREM ProcessTree == Spec => []TreeRooted
<1>1. IInv => TreeRooted
  BY DEF IInv
<1>2. QED
  BY <1>1, Invariance, PTL

(* A parent blocked in waitpid has a live child to wake it: sys_exit cannot *)
(* come between the scan and the block, and no one else takes the child.    *)
THEOREM NoLostChildWakeup == Spec => []WaiterHasLiveChild
<1>1. IInv => WaiterHasLiveChild
  BY DEF IInv
<1>2. QED
  BY <1>1, Invariance, PTL

(* A parent woken by an exiting child finds that child dead in the table.   *)
THEOREM WokenParentCollects == Spec => []WokenWaiterHasZombie
<1>1. IInv => WokenWaiterHasZombie
  BY DEF IInv
<1>2. QED
  BY <1>1, Invariance, PTL

-----------------------------------------------------------------------------
(* Sleepers wake on time, as long as no time of the run reaches half the   *)
(* machine word: 2^31 clock periods, 248 days.  Beyond that the signed     *)
(* order of list_insert_sort and the unsigned test of task_wakeup part.    *)
(* Nor may the milliseconds wrap when they are rounded up to periods.      *)

NoWrap ==
    /\ MaxJiffies < WORD \div 2
    /\ \A ms \in SleepMs : ms + JIFFY - 1 < WORD /\ MaxJiffies + div_round_up(ms) < WORD \div 2

(* The nodes of q are in the order of their values of f. *)
Sorted(q, f) == \A i, j \in 1 .. Len(q) : i <= j => f[q[i]] <= f[q[j]]

(* The sleepers are in the order of their wake-up times. *)
SleepSorted == Sorted(sleeping_queue, ticks)

(* Nobody oversleeps, and no wake-up time is in the upper half of the word. *)
SleepTimes ==
    \A t \in Slots : state[t] = "SLEEPING" => jiffies <= ticks[t] /\ ticks[t] < WORD \div 2

SleepInv ==
    /\ jiffies <= MaxJiffies
    /\ SleepSorted
    /\ SleepTimes

(* The upper half of the word holds no value of the lower half. *)
LEMMA HalfWord == WORD \div 2 \in Nat /\ WORD \div 2 < WORD
  BY WordAssumption

(* schedule() refills an empty slice of the current task and nothing else. *)
LEMMA ScheduleTicks ==
  ASSUME NEW st, NEW tk \in [Slots -> 0 .. WORD - 1], current \in Slots, Schedule(st, tk)
  PROVE  \A t \in Slots : (t # current \/ tk[t] > 0) => ticks'[t] = tk[t]
<1>1. ticks' = IF tk[current] = 0 THEN [tk EXCEPT ![current] = Priority(current)] ELSE tk
  BY DEF Schedule
<1>2. QED
  BY <1>1

(* Every action but sleep and the clock leaves the sleepers alone. *)
Awake == Yield \/ Block \/ (\E t \in Slots : Unblock(t)) \/ Fork \/ ForkNoSlot \/ Exit
         \/ (\E pid \in WaitpidArgs : Waitpid(pid)) \/ WaitpidResume

(* The sleepers, their order and their wake-up times survive such a step. *)
LEMMA SleepersKept ==
  ASSUME IInv, IInv', Awake
  PROVE  /\ UNCHANGED <<jiffies, sleeping_queue>>
         /\ \A t \in Slots : state'[t] = "SLEEPING" <=> state[t] = "SLEEPING"
         /\ \A t \in Slots : state[t] = "SLEEPING" => ticks'[t] = ticks[t]
<1>1. UNCHANGED <<jiffies, sleeping_queue>>
  BY DEF Awake, Yield, Block, Unblock, Fork, ForkNoSlot, Exit, Waitpid, WaitpidResume
<1>2. \A t \in Slots : state'[t] = "SLEEPING" <=> state[t] = "SLEEPING"
  BY <1>1 DEF IInv, QueuesMatchStates, SleepMatch, Asleep
<1>3. /\ current \in Slots /\ state[current] = "RUNNING" /\ ticks \in [Slots -> 0 .. WORD - 1]
  BY DEF IInv, TypeOK, OneRunning
<1>4. ASSUME NEW t \in Slots, state[t] = "SLEEPING"
      PROVE  ticks'[t] = ticks[t]
  <2>1. t # current
    BY <1>3, <1>4
  <2>2. CASE \E st : Schedule(st, ticks)
    BY <1>3, <2>1, <2>2, ScheduleTicks
  <2>3. CASE UNCHANGED ticks
    BY <2>3
  <2>4. CASE Fork
    <3>1. FreeSlots \subseteq Nat /\ FreeSlots # {}
      BY <2>4, SlotFacts DEF Fork, FreeSlots
    <3>2. get_free_task \in FreeSlots
      BY <3>1, MinExists DEF get_free_task
    <3>3. t # get_free_task
      BY <1>4, <3>2 DEF FreeSlots
    <3>4. QED
      BY <1>3, <2>4, <3>3 DEF Fork
  <2>5. ASSUME NEW pid \in WaitpidArgs, WaitpidLoop(pid)
        PROVE  ticks'[t] = ticks[t]
    <3> DEFINE child == CHOOSE i \in Matching(pid) : \A j \in Matching(pid) : i <= j
    <3>1. CASE state[child] = "DIED" /\ ticks' = [ticks EXCEPT ![child] = 0]
      BY <1>3, <1>4, <3>1
    <3>2. QED
      BY <2>2, <2>3, <2>5, <3>1 DEF WaitpidLoop
  <2>6. call[current] # NoCall => call[current] \in WaitpidArgs
    BY <1>3 DEF IInv, TypeOK
  <2>7. CASE Yield \/ Block \/ Exit
    BY <2>2, <2>7 DEF Yield, Block, Exit
  <2>8. CASE (\E x \in Slots : Unblock(x)) \/ ForkNoSlot
    BY <2>3, <2>8 DEF Unblock, ForkNoSlot
  <2>9. CASE (\E pid \in WaitpidArgs : Waitpid(pid)) \/ WaitpidResume
    BY <2>5, <2>6, <2>9 DEF Waitpid, WaitpidResume
  <2>10. QED
    BY <2>4, <2>7, <2>8, <2>9 DEF Awake
<1>5. QED
  BY <1>1, <1>2, <1>4

(* Everything before the place InsertAt finds is smaller, the rest is not.  *)
LEMMA InsertAtSplits ==
  ASSUME NEW q \in Seq(Slots), NEW t \in Slots, NEW tk \in [Slots -> 0 .. WORD - 1],
         \A i \in 1 .. Len(q) : tk[q[i]] < WORD \div 2, tk[t] < WORD \div 2,
         Sorted(q, tk)
  PROVE  \A i \in 1 .. Len(q) : IF i < InsertAt(q, t, tk) THEN tk[q[i]] <= tk[t]
                                 ELSE tk[t] <= tk[q[i]]
<1> DEFINE S == {i \in 1 .. Len(q) : Signed(tk[q[i]]) >= Signed(tk[t])}
<1>1. \A i \in 1 .. Len(q) : q[i] \in Slots /\ tk[q[i]] \in Nat
  BY WordAssumption
<1>2. tk[t] \in Nat /\ Len(q) \in Nat
  BY WordAssumption
<1>3. \A i \in 1 .. Len(q) : i \in S <=> tk[q[i]] >= tk[t]
  BY <1>1, <1>2, HalfWord DEF Signed
<1>4. CASE S = {}
  <2>1. InsertAt(q, t, tk) = Len(q) + 1
    BY <1>4 DEF InsertAt
  <2>2. QED
    BY <1>1, <1>2, <1>3, <1>4, <2>1
<1>5. CASE S # {}
  <2>1. S \subseteq Nat /\ S # {}
    BY <1>5
  <2>2. \E i \in S : \A j \in S : i <= j
    <3> HIDE DEF S
    <3> QED BY <2>1, MinExists
  <2>3. InsertAt(q, t, tk) \in S /\ \A j \in S : InsertAt(q, t, tk) <= j
    BY <1>5, <2>2 DEF InsertAt
  <2>4. PICK k : k = InsertAt(q, t, tk)
    OBVIOUS
  <2>5. k \in 1 .. Len(q) /\ tk[q[k]] >= tk[t] /\ (\A i \in 1 .. Len(q) : tk[q[i]] >= tk[t] => k <= i)
    BY <1>3, <2>3, <2>4
  <2>6. \A i \in 1 .. Len(q) : k <= i => tk[q[k]] <= tk[q[i]]
    BY <2>5 DEF Sorted
  <2>7. \A i \in 1 .. Len(q) : IF i < k THEN tk[q[i]] <= tk[t] ELSE tk[t] <= tk[q[i]]
    BY <1>1, <1>2, <2>5, <2>6
  <2>8. QED
    BY <2>4, <2>7
<1>6. QED
  BY <1>4, <1>5

(* list_insert_sort keeps a sorted list sorted. *)
LEMMA InsertKeepsSorted ==
  ASSUME NEW q \in Seq(Slots), NEW t \in Slots, NEW tk \in [Slots -> 0 .. WORD - 1],
         \A i \in 1 .. Len(q) : tk[q[i]] < WORD \div 2, tk[t] < WORD \div 2,
         Sorted(q, tk)
  PROVE  Sorted(list_insert_sort(q, t, tk), tk)
<1> DEFINE k == InsertAt(q, t, tk)
<1> DEFINE r == list_insert_sort(q, t, tk)
<1>1. k \in 1 .. Len(q) + 1 /\ Len(q) \in Nat
  BY InsertAtRange
<1>2. \A i \in 1 .. Len(q) : IF i < k THEN tk[q[i]] <= tk[t] ELSE tk[t] <= tk[q[i]]
  BY InsertAtSplits
<1>3. Len(r) = Len(q) + 1 /\ \A i \in 1 .. Len(q) + 1 :
         r[i] = IF i < k THEN q[i] ELSE IF i = k THEN t ELSE q[i - 1]
  BY <1>1 DEF list_insert_sort
<1>4. \A i \in 1 .. Len(q) : q[i] \in Slots /\ tk[q[i]] \in Nat
  BY WordAssumption
<1>5. tk[t] \in Nat
  BY WordAssumption
<1> HIDE DEF k, r
<1>6. ASSUME NEW i \in 1 .. Len(q) + 1, NEW j \in 1 .. Len(q) + 1, i <= j
      PROVE  tk[r[i]] <= tk[r[j]]
  <2>1. \A x, y \in 1 .. Len(q) : x <= y => tk[q[x]] <= tk[q[y]]
    BY DEF Sorted
  <2>2. CASE i = k /\ j = k
    BY <1>1, <1>3, <1>5, <2>2
  <2>3. CASE j < k
    <3>1. i \in 1 .. Len(q) /\ j \in 1 .. Len(q) /\ i < k
      BY <1>1, <1>6, <2>3
    <3>2. r[i] = q[i] /\ r[j] = q[j]
      BY <1>3, <2>3, <3>1
    <3>3. QED
      BY <1>6, <2>1, <3>1, <3>2
  <2>4. CASE i < k /\ j = k
    BY SMTT(30), <1>1, <1>2, <1>3, <2>4
  <2>5. CASE i < k /\ j > k
    <3>1. i \in 1 .. Len(q) /\ j - 1 \in 1 .. Len(q) /\ i <= j - 1
      BY <1>1, <2>5
    <3>2. r[i] = q[i] /\ r[j] = q[j - 1]
      BY <1>1, <1>3, <2>5
    <3>3. QED
      BY <2>1, <3>1, <3>2
  <2>6. CASE i = k /\ j > k
    <3>1. j - 1 \in 1 .. Len(q) /\ ~ (j - 1 < k)
      BY <1>1, <2>6
    <3>2. r[i] = t /\ r[j] = q[j - 1]
      BY <1>1, <1>3, <2>6
    <3>3. QED
      BY <1>2, <3>1, <3>2
  <2>7. CASE i > k /\ j > k
    <3>1. i - 1 \in 1 .. Len(q) /\ j - 1 \in 1 .. Len(q) /\ i - 1 <= j - 1
      BY <1>1, <1>6, <2>7
    <3>2. r[i] = q[i - 1] /\ r[j] = q[j - 1]
      BY SMTT(30), <1>1, <1>3, <2>7
    <3>3. QED
      BY <2>1, <3>1, <3>2
  <2>8. QED
    BY <1>1, <1>6, <2>2, <2>3, <2>4, <2>5, <2>6, <2>7
<1>7. QED
  BY <1>3, <1>6 DEF Sorted, r

(* A queue of tasks whose values are kept stays sorted. *)
LEMMA SortedFrame ==
  ASSUME NEW q, NEW f, NEW g, Sorted(q, f), \A i \in 1 .. Len(q) : g[q[i]] = f[q[i]]
  PROVE  Sorted(q, g)
  BY DEF Sorted

(* The types the steps below need, and who is in the queue. *)
LEMMA SleepFacts ==
  ASSUME IInv
  PROVE  /\ current \in Slots /\ state[current] = "RUNNING"
         /\ ticks \in [Slots -> 0 .. WORD - 1]
         /\ jiffies \in Nat
         /\ sleeping_queue \in Seq(Slots) /\ Len(sleeping_queue) \in Nat
         /\ \A i \in 1 .. Len(sleeping_queue) :
               sleeping_queue[i] \in Slots /\ state[sleeping_queue[i]] = "SLEEPING"
<1>1. current \in Slots /\ ticks \in [Slots -> 0 .. WORD - 1] /\ sleeping_queue \in Seq(Slots)
  BY DEF IInv, TypeOK
<1>2. jiffies \in Nat
  BY WordAssumption DEF IInv, TypeOK
<1>3. state[current] = "RUNNING"
  BY <1>1 DEF IInv, OneRunning
<1>4. \A i \in 1 .. Len(sleeping_queue) : sleeping_queue[i] \in Slots
  BY <1>1
<1>5. \A i \in 1 .. Len(sleeping_queue) : state[sleeping_queue[i]] = "SLEEPING"
  BY <1>4 DEF IInv, QueuesMatchStates, SleepMatch, Asleep
<1>6. QED
  BY <1>1, <1>2, <1>3, <1>4, <1>5

(* Yield, block, fork, exit and waitpid keep the sleepers in order. *)
LEMMA AwakeSleepInv ==
  ASSUME IInv, IInv', SleepInv, Awake
  PROVE  SleepInv'
<1>1. /\ jiffies' = jiffies /\ sleeping_queue' = sleeping_queue
      /\ \A t \in Slots : state'[t] = "SLEEPING" <=> state[t] = "SLEEPING"
      /\ \A t \in Slots : state[t] = "SLEEPING" => ticks'[t] = ticks[t]
  BY SleepersKept
<1>2. SleepSorted'
  <2>1. \A i \in 1 .. Len(sleeping_queue) : ticks'[sleeping_queue[i]] = ticks[sleeping_queue[i]]
    BY <1>1, SleepFacts
  <2>2. QED
    BY <1>1, <2>1, SortedFrame DEF SleepInv, SleepSorted
<1>3. SleepTimes'
  BY <1>1 DEF SleepInv, SleepTimes
<1>4. QED
  BY <1>1, <1>2, <1>3 DEF SleepInv

(* task_sleep inserts a future time below half the word at its place. *)
LEMMA SleepSleepInv ==
  ASSUME IInv, SleepInv, NoWrap, NEW ms \in SleepMs, Sleep(ms)
  PROVE  SleepInv'
<1> DEFINE tk == [ticks EXCEPT ![current] = U32(jiffies + div_round_up(ms))]
<1> DEFINE st == [state EXCEPT ![current] = "SLEEPING"]
<1>1. /\ jiffies' = jiffies
      /\ sleeping_queue' = list_insert_sort(sleeping_queue, current, tk)
      /\ Schedule(st, tk)
  BY DEF Sleep
<1>2. div_round_up(ms) \in Nat /\ div_round_up(ms) > 0
  BY SleepAssumption, WordAssumption DEF NoWrap, div_round_up, U32, JIFFY
<1>3. jiffies \in Nat /\ jiffies <= MaxJiffies /\ MaxJiffies \in Nat
  BY SleepFacts, BoundAssumption DEF SleepInv
<1>4. jiffies + div_round_up(ms) < WORD \div 2
  BY <1>2, <1>3, HalfWord DEF NoWrap
<1>5. U32(jiffies + div_round_up(ms)) = jiffies + div_round_up(ms)
  BY <1>2, <1>3, <1>4, HalfWord, WordAssumption DEF U32
<1>6. /\ tk \in [Slots -> 0 .. WORD - 1]
      /\ tk[current] = jiffies + div_round_up(ms)
      /\ \A t \in Slots : t # current => tk[t] = ticks[t]
  <2>1. jiffies + div_round_up(ms) \in 0 .. WORD - 1
    BY <1>2, <1>3, <1>4, HalfWord, WordAssumption
  <2>2. QED
    BY <1>5, <2>1, SleepFacts
<1> HIDE DEF tk
<1>7. ticks' = tk
  <2>1. tk[current] # 0
    BY <1>2, <1>3, <1>6
  <2>2. QED
    BY <1>1, <2>1 DEF Schedule
<1>8. \A t \in Slots : state'[t] = "SLEEPING" => t = current \/ state[t] = "SLEEPING"
  BY <1>1, SleepFacts DEF Schedule, IInv, TypeOK
<1>9. \A i \in 1 .. Len(sleeping_queue) :
         /\ sleeping_queue[i] \in Slots
         /\ sleeping_queue[i] # current
         /\ ticks[sleeping_queue[i]] < WORD \div 2
  BY SleepFacts DEF SleepInv, SleepTimes
<1>10. SleepSorted'
  <2>1. \A i \in 1 .. Len(sleeping_queue) : tk[sleeping_queue[i]] = ticks[sleeping_queue[i]]
    BY <1>6, <1>9
  <2>2. Sorted(sleeping_queue, tk)
    BY <2>1, SortedFrame DEF SleepInv, SleepSorted
  <2>3. /\ \A i \in 1 .. Len(sleeping_queue) : tk[sleeping_queue[i]] < WORD \div 2
        /\ tk[current] < WORD \div 2
    BY <1>4, <1>6, <1>9, <2>1
  <2>4. Sorted(list_insert_sort(sleeping_queue, current, tk), tk)
    BY <1>6, <2>2, <2>3, SleepFacts, InsertKeepsSorted
  <2>5. QED
    BY <1>1, <1>7, <2>4 DEF SleepSorted
<1>11. SleepTimes'
  <2>1. ASSUME NEW t \in Slots, state'[t] = "SLEEPING"
        PROVE  jiffies <= tk[t] /\ tk[t] < WORD \div 2
    <3>1. CASE t = current
      BY <1>2, <1>3, <1>4, <1>6, <3>1
    <3>2. CASE t # current
      BY <1>6, <1>8, <2>1, <3>2 DEF SleepInv, SleepTimes
    <3>3. QED
      BY <3>1, <3>2
  <2>2. QED
    BY <1>1, <1>7, <2>1 DEF SleepTimes
<1>12. QED
  BY <1>1, <1>10, <1>11 DEF SleepInv

(* task_wakeup takes exactly the sleepers whose time has come. *)
LEMMA DueSplits ==
  ASSUME IInv, SleepInv
  PROVE  \A i \in 1 .. Len(sleeping_queue) :
            IF i <= Due THEN ticks[sleeping_queue[i]] = jiffies
            ELSE ticks[sleeping_queue[i]] > jiffies
<1> DEFINE q == sleeping_queue
<1> DEFINE S == {i \in 1 .. Len(q) : ticks[q[i]] > jiffies}
<1>1. \A i \in 1 .. Len(q) : ticks[q[i]] \in Nat /\ jiffies <= ticks[q[i]]
  BY SleepFacts, WordAssumption DEF SleepInv, SleepTimes
<1>2. Len(q) \in Nat /\ jiffies \in Nat
  BY SleepFacts
<1>3. CASE S = {}
  <2>1. Due = Len(q)
    BY <1>3 DEF Due
  <2>2. QED
    BY <1>1, <1>2, <1>3, <2>1
<1>4. CASE S # {}
  <2>1. S \subseteq Nat /\ S # {}
    BY <1>4
  <2>2. \E i \in S : \A j \in S : i <= j
    <3> HIDE DEF S
    <3> QED BY <2>1, MinExists
  <2>3. PICK k \in S : Due = k - 1 /\ \A j \in S : k <= j
    BY <1>4, <2>2 DEF Due
  <2>4. k \in 1 .. Len(q) /\ ticks[q[k]] > jiffies /\ \A j \in 1 .. Len(q) : ticks[q[j]] > jiffies => k <= j
    BY <2>3
  <2>5. \A j \in 1 .. Len(q) : k <= j => ticks[q[k]] <= ticks[q[j]]
    BY <2>4 DEF SleepInv, SleepSorted, Sorted
  <2>6. ASSUME NEW i \in 1 .. Len(q)
        PROVE  IF i <= k - 1 THEN ticks[q[i]] = jiffies ELSE ticks[q[i]] > jiffies
    <3>1. CASE i <= k - 1
      BY <1>1, <1>2, <2>4, <3>1
    <3>2. CASE ~ (i <= k - 1)
      BY <1>1, <1>2, <2>4, <2>5, <3>2
    <3>3. QED
      BY <3>1, <3>2
  <2>7. QED
    BY <2>3, <2>6
<1>5. QED
  BY <1>3, <1>4

(* What a clock interrupt does to the sleepers: those still asleep after it *)
(* have a later wake-up time, those it wakes were due just now.             *)
LEMMA ClockSleepers ==
  ASSUME IInv, SleepInv, ClockInterrupt
  PROVE  \A t \in Slots :
            /\ state'[t] = "SLEEPING" => state[t] = "SLEEPING" /\ ticks[t] > jiffies /\ ticks'[t] = ticks[t]
            /\ state[t] = "SLEEPING" /\ state'[t] # "SLEEPING" => ticks[t] = jiffies
<1> DEFINE woken == {sleeping_queue[i] : i \in 1 .. Due}
<1> DEFINE st == [t \in Slots |-> IF t \in woken THEN "READY" ELSE state[t]]
<1> DEFINE tk == [ticks EXCEPT ![current] = DecU32(ticks[current])]
<1>1. Schedule(st, tk) \/ (state' = st /\ ticks' = tk)
  BY DEF ClockInterrupt
<1>2. Due \in 0 .. Len(sleeping_queue)
  BY SleepFacts, DueRange
<1>3. tk \in [Slots -> 0 .. WORD - 1] /\ \A t \in Slots : t # current => tk[t] = ticks[t]
  BY SleepFacts, DecRange
<1>4. \A t \in Slots : st[t] = IF t \in woken THEN "READY" ELSE state[t]
  OBVIOUS
<1>5. \A t \in Slots : t \in woken => ticks[t] = jiffies
  BY <1>2, SleepFacts, DueSplits
<1>6. \A t \in Slots : state[t] = "SLEEPING" /\ t \notin woken => ticks[t] > jiffies
  <2>1. SUFFICES ASSUME NEW t \in Slots, state[t] = "SLEEPING", t \notin woken
                 PROVE  ticks[t] > jiffies
    OBVIOUS
  <2>2. PICK i \in 1 .. Len(sleeping_queue) : sleeping_queue[i] = t
    BY <2>1 DEF IInv, QueuesMatchStates, SleepMatch, Asleep
  <2>3. ~ (i <= Due)
    BY <1>2, <2>1, <2>2, SleepFacts
  <2>4. QED
    BY <2>2, <2>3, DueSplits
<1>7. st \in [Slots -> TaskState] /\ st[current] # "SLEEPING"
  BY SleepFacts DEF IInv, TypeOK, TaskState
<1>8. \A t \in Slots : /\ state'[t] = "SLEEPING" => st[t] = "SLEEPING"
                       /\ st[t] = "SLEEPING" => state'[t] = "SLEEPING"
  <2>1. CASE state' = st
    BY <2>1
  <2>2. CASE Schedule(st, tk)
    <3> HIDE DEF st, tk
    <3>1. task_search(st) \in Candidates(st) \cup {IDLE}
      BY SearchResult
    <3>2. st[task_search(st)] # "SLEEPING" /\ task_search(st) \in Slots
      <4>1. st[IDLE] # "SLEEPING"
        BY <1>4, SlotFacts DEF IInv, IdleRunnable, Runnable
      <4>2. QED
        BY <3>1, <4>1, SlotFacts DEF Candidates
    <3>3. QED
      BY <1>7, <2>2, <3>2, SleepFacts DEF Schedule
  <2>3. QED
    BY <1>1, <2>1, <2>2
<1>9. \A t \in Slots : t # current => ticks'[t] = tk[t]
  <2>1. CASE ticks' = tk
    BY <2>1
  <2>2. CASE Schedule(st, tk)
    <3> HIDE DEF st, tk
    <3> QED
      BY <1>3, <2>2, SleepFacts, ScheduleTicks
  <2>3. QED
    BY <1>1, <2>1, <2>2
<1> HIDE DEF woken, st, tk
<1>10. QED
  BY <1>3, <1>4, <1>5, <1>6, <1>8, <1>9, SleepFacts

(* The clock interrupt keeps the sleepers in order and ahead of the time. *)
LEMMA ClockSleepInv ==
  ASSUME IInv, IInv', SleepInv, NoWrap, ClockInterrupt
  PROVE  SleepInv'
<1> DEFINE q == sleeping_queue
<1>1. jiffies' = jiffies + 1 /\ jiffies + 1 <= MaxJiffies
  <2>1. jiffies < MaxJiffies /\ jiffies' = U32(jiffies + 1)
    BY DEF ClockInterrupt
  <2>2. MaxJiffies \in Nat /\ MaxJiffies < WORD \div 2
    BY BoundAssumption DEF NoWrap
  <2>3. QED
    BY <2>1, <2>2, SleepFacts, HalfWord, WordAssumption DEF U32
<1>2. SleepTimes'
  BY <1>1, ClockSleepers, SleepFacts, WordAssumption DEF SleepTimes, SleepInv
<1>3. SleepSorted'
  <2>1. sleeping_queue' = SubSeq(q, Due + 1, Len(q))
    BY DEF ClockInterrupt
  <2>2. Due \in 0 .. Len(q) /\ Len(q) \in Nat /\ q \in Seq(Slots)
    BY SleepFacts, DueRange
  <2>3. Len(sleeping_queue') = Len(q) - Due /\ \A i \in 1 .. Len(q) - Due : sleeping_queue'[i] = q[Due + i]
    BY <2>1, <2>2
  <2>4. \A i \in 1 .. Len(q) - Due :
           sleeping_queue'[i] \in Slots /\ ticks'[sleeping_queue'[i]] = ticks[sleeping_queue'[i]]
    <3>1. \A i \in 1 .. Len(sleeping_queue') :
             sleeping_queue'[i] \in Slots /\ state'[sleeping_queue'[i]] = "SLEEPING"
      <4>1. sleeping_queue' \in Seq(Slots)
        BY DEF IInv, TypeOK
      <4>2. QED
        BY <4>1 DEF IInv, QueuesMatchStates, SleepMatch, Asleep
    <3>2. QED
      BY <2>3, <3>1, ClockSleepers
  <2>5. ASSUME NEW i \in 1 .. Len(q) - Due, NEW j \in 1 .. Len(q) - Due, i <= j
        PROVE  ticks'[sleeping_queue'[i]] <= ticks'[sleeping_queue'[j]]
    <3>1. Due + i \in 1 .. Len(q) /\ Due + j \in 1 .. Len(q) /\ Due + i <= Due + j
      BY <2>2, <2>5
    <3>2. ticks[q[Due + i]] <= ticks[q[Due + j]]
      BY <3>1 DEF SleepInv, SleepSorted, Sorted
    <3>3. QED
      BY <2>3, <2>4, <3>2
  <2>6. QED
    BY <2>3, <2>5 DEF SleepSorted, Sorted
<1>4. QED
  BY <1>1, <1>2, <1>3 DEF SleepInv

(* The order of the sleepers and the bound on their times are inductive. *)
LEMMA NextSleepInv ==
  ASSUME IInv, IInv', SleepInv, NoWrap, [Next]_vars
  PROVE  SleepInv'
<1>1. CASE UNCHANGED vars
  <2>1. UNCHANGED <<state, ticks, jiffies, sleeping_queue>>
    BY <1>1 DEF vars
  <2>2. QED
    BY <2>1 DEF SleepInv, SleepSorted, SleepTimes, Sorted
<1>2. CASE Next
  <2>1. Awake \/ (\E ms \in SleepMs : Sleep(ms)) \/ ClockInterrupt
    BY <1>2 DEF Next, Awake
  <2>2. QED
    BY <2>1, AwakeSleepInv, SleepSleepInv, ClockSleepInv
<1>3. QED
  BY <1>1, <1>2

(* At boot nobody sleeps. *)
LEMMA InitSleepInv == Init => SleepInv
  BY BoundAssumption DEF Init, SleepInv, SleepSorted, SleepTimes, Sorted

(* The sleeping queue stays sorted by wake-up time and no wake-up time      *)
(* passes, in every run of less than half the word.                         *)
THEOREM SleepInvariance == ASSUME NoWrap PROVE Spec => []SleepInv
  BY Invariance, InitSleepInv, NextSleepInv, PTL DEF Spec

(* task_wakeup, which stops at the first node that is not due, leaves no    *)
(* due sleeper behind, in every run of less than half the word.             *)
THEOREM NoSleeperLeftBehind == ASSUME NoWrap PROVE Spec => DueSleepersWoken
<1>1. ASSUME IInv, IInv', SleepInv, [Next]_vars
      PROVE  [jiffies' # jiffies =>
                \A t \in Slots : state'[t] = "SLEEPING" => ticks[t] > jiffies]_vars
  <2>1. CASE UNCHANGED vars
    BY <2>1
  <2>2. CASE Next
    <3>1. Awake \/ (\E ms \in SleepMs : Sleep(ms)) \/ ClockInterrupt
      BY <2>2 DEF Next, Awake
    <3>2. Awake => jiffies' = jiffies
      BY <1>1, SleepersKept
    <3>3. (\E ms \in SleepMs : Sleep(ms)) => jiffies' = jiffies
      BY DEF Sleep
    <3>4. QED
      BY <1>1, <3>1, <3>2, <3>3, ClockSleepers
  <2>3. QED
    BY <1>1, <2>1, <2>2
<1>2. QED
  BY <1>1, Invariance, SleepInvariance, PTL DEF Spec, DueSleepersWoken

(* A sleeper wakes exactly at the time it asked for, in every run of less   *)
(* than half the word.                                                      *)
THEOREM SleepersWakeOnTime == ASSUME NoWrap PROVE Spec => WakesOnTime
<1>1. ASSUME IInv, IInv', SleepInv, [Next]_vars
      PROVE  [\A t \in Slots : state[t] = "SLEEPING" /\ state'[t] # "SLEEPING"
                                  => ticks[t] = jiffies]_vars
  <2>1. CASE UNCHANGED vars
    BY <2>1
  <2>2. CASE Next
    <3>1. Awake \/ (\E ms \in SleepMs : Sleep(ms)) \/ ClockInterrupt
      BY <2>2 DEF Next, Awake
    <3>2. Awake => \A t \in Slots : state'[t] = "SLEEPING" <=> state[t] = "SLEEPING"
      BY <1>1, SleepersKept
    <3>3. ASSUME NEW ms \in SleepMs, Sleep(ms)
          PROVE  \A t \in Slots : state[t] = "SLEEPING" => state'[t] = "SLEEPING"
      <4>1. \A t \in Slots : Asleep(t) => Asleep(t)'
        <5>1. ~ Asleep(current)
          BY <1>1, SleepFacts DEF IInv, QueuesMatchStates, SleepMatch
        <5>2. NoRepeat(sleeping_queue) /\ ~ Member(current, sleeping_queue)
          BY <1>1, <5>1 DEF IInv, QueuesMatchStates, SleepOnce, NoRepeat, Member, Asleep
        <5>3. PICK tk \in [Slots -> 0 .. WORD - 1] :
                 sleeping_queue' = list_insert_sort(sleeping_queue, current, tk)
          <6>1. div_round_up(ms) \in 0 .. WORD - 1
            BY SleepAssumption, WordAssumption DEF div_round_up, U32, JIFFY
          <6>2. U32(jiffies + div_round_up(ms)) \in 0 .. WORD - 1
            BY <1>1, <6>1, U32Range DEF IInv, TypeOK
          <6>3. [ticks EXCEPT ![current] = U32(jiffies + div_round_up(ms))] \in [Slots -> 0 .. WORD - 1]
            BY <1>1, <6>2, SleepFacts
          <6>4. QED
            BY <3>3, <6>3 DEF Sleep
        <5>4. \A x \in Slots : Member(x, sleeping_queue) => Member(x, sleeping_queue')
          BY <1>1, <5>2, <5>3, SleepFacts, InsertSortElements
        <5>5. QED
          BY <5>4 DEF Member, Asleep
      <4>2. QED
        BY <1>1, <4>1 DEF IInv, QueuesMatchStates, SleepMatch
    <3>4. QED
      BY <1>1, <3>1, <3>2, <3>3, ClockSleepers
  <2>3. QED
    BY <1>1, <2>1, <2>2
<1>2. QED
  BY <1>1, Invariance, SleepInvariance, PTL DEF Spec, WakesOnTime
=============================================================================
