-------------------------- MODULE BlockDevProofs --------------------------
(***************************************************************************)
(* Proofs about the block device requests: the request lists, the bus and  *)
(* its lock, the interrupt, and the elevator.                              *)
(***************************************************************************)
EXTENDS BlockDev, TLAPS, SequenceTheorems, WellFoundedInduction

-----------------------------------------------------------------------------
(* The inductive invariant. *)

NoRepeat(s) == \A i, j \in 1 .. Len(s) : s[i] = s[j] => i = j

(* The bus: its lock, its queue, the task the interrupt wakes. *)
BusInv ==
    /\ NoRepeat(lock_waiters)
    /\ \A t \in Task : Contains(lock_waiters, t) => pc[t] = "lock"
    /\ \A t \in blocked : pc[t] \in {"queued", "io"}
    /\ \A t \in Task : pc[t] = "io" <=> holder = t
    /\ holder # NULL => active = holder
    /\ InterruptFindsWaiter
    /\ owed => waiter # NULL

(* A task in dev_request is in the list of its device, once, and in no other. *)
ListInv ==
    /\ \A d \in Dev : NoRepeat(request_list[d])
    /\ \A d \in Dev, t \in Task :
          Contains(request_list[d], t) <=> pc[t] # "out" /\ req[t].dev = d
    /\ \A t \in Task : pc[t] # "out" => req[t] \in Requests

Types == TypeOK /\ request_list \in [Dev -> Seq(Task)]

DInv == Types /\ BusInv /\ ListInv /\ OneServed /\ ListsSorted

-----------------------------------------------------------------------------
(* Facts about lists. *)

(* A nonempty set of naturals has a least element. *)
LEMMA MinExists ==
  ASSUME NEW S, S \subseteq Nat, S # {}
  PROVE  \E i \in S : \A j \in S : i <= j
<1> DEFINE R == OpToRel(<, Nat)
<1>1. IsWellFoundedOn(R, Nat)
  BY NatLessThanWellFounded
<1> HIDE DEF R
<1>2. PICK i \in S : \A j \in S : ~ (<<j, i>> \in R)
  BY <1>1, WFMin
<1>3. \A m, n \in Nat : <<m, n>> \in R <=> m < n
  <2>1. R = {ss \in Nat \X Nat : ss[1] < ss[2]}
    BY Zenon DEF R, OpToRel
  <2>2. QED
    BY <2>1
<1>4. ASSUME NEW j \in S PROVE i <= j
  <2>1. i \in Nat /\ j \in Nat
    OBVIOUS
  <2>2. ~ (j < i)
    BY <1>2, <1>3, <2>1
  <2>3. QED
    BY <2>1, <2>2
<1>5. QED
  BY <1>4

(* The place list_insert_sort finds: what is before it is smaller. *)
LEMMA InsertPlace ==
  ASSUME NEW q \in Seq(Task), NEW i \in Nat, NEW k, k = InsertAt(q, i),
         \A x \in 1 .. Len(q) : req[q[x]].idx \in Nat
  PROVE  /\ k \in 1 .. Len(q) + 1
         /\ \A x \in 1 .. Len(q) : x < k => req[q[x]].idx <= i
         /\ k <= Len(q) => i <= req[q[k]].idx
<1> DEFINE S == {x \in 1 .. Len(q) : req[q[x]].idx >= i}
<1>1. Len(q) \in Nat
  OBVIOUS
<1>2. CASE S = {}
  <2>1. k = Len(q) + 1
    BY <1>2 DEF InsertAt
  <2>2. \A x \in 1 .. Len(q) : req[q[x]].idx <= i
    BY <1>2
  <2>3. QED
    BY <1>1, <2>1, <2>2
<1>3. CASE S # {}
  <2>1. \E x \in S : \A y \in S : x <= y
    <3>1. S \subseteq Nat
      OBVIOUS
    <3> HIDE DEF S
    <3>2. QED
      BY <1>3, <3>1, MinExists
  <2>2. k \in S /\ \A y \in S : k <= y
    BY <1>3, <2>1 DEF InsertAt
  <2>3. k \in 1 .. Len(q) /\ i <= req[q[k]].idx
    BY <2>2
  <2>4. ASSUME NEW x \in 1 .. Len(q), x < k
        PROVE  req[q[x]].idx <= i
    <3>1. x \notin S
      BY <2>2, <2>3, <2>4
    <3>2. QED
      BY <3>1
  <2>5. QED
    BY <1>1, <2>3, <2>4
<1>4. QED
  BY <1>2, <1>3

(* The list after list_insert_sort, place by place. *)
LEMMA InsertForm ==
  ASSUME NEW q \in Seq(Task), NEW t \in Task, NEW i \in Nat, NEW k, k = InsertAt(q, i),
         k \in 1 .. Len(q) + 1, NEW r, r = InsertSorted(q, t, i)
  PROVE  /\ r \in Seq(Task)
         /\ Len(r) = Len(q) + 1
         /\ \A x \in 1 .. Len(r) : r[x] = IF x < k THEN q[x] ELSE IF x = k THEN t ELSE q[x - 1]
<1> DEFINE a == SubSeq(q, 1, k - 1)
<1> DEFINE b == SubSeq(q, k, Len(q))
<1> DEFINE ab == a \o <<t>>
<1>1. Len(q) \in Nat /\ k \in Nat /\ 1 <= k /\ k <= Len(q) + 1
  OBVIOUS
<1>2. a \in Seq(Task) /\ Len(a) = k - 1 /\ \A x \in 1 .. k - 1 : a[x] = q[x]
  <2>1. \A x \in 1 .. k - 1 : q[x] \in Task
    BY <1>1
  <2>2. k - 1 \in Int /\ 1 \in Int
    BY <1>1
  <2>3. /\ a \in Seq(Task) /\ Len(a) = (IF 1 <= k - 1 THEN k - 1 - 1 + 1 ELSE 0)
        /\ \A x \in 1 .. k - 1 - 1 + 1 : a[x] = q[1 + x - 1]
    BY <2>1, <2>2, SubSeqProperties
  <2> HIDE DEF a
  <2>4. QED
    BY <1>1, <2>3
<1>3. b \in Seq(Task) /\ Len(b) = Len(q) - k + 1 /\ \A x \in 1 .. Len(q) - k + 1 : b[x] = q[k + x - 1]
  <2>1. \A x \in k .. Len(q) : q[x] \in Task
    BY <1>1
  <2>2. k \in Int /\ Len(q) \in Int
    BY <1>1
  <2>3. /\ b \in Seq(Task) /\ Len(b) = (IF k <= Len(q) THEN Len(q) - k + 1 ELSE 0)
        /\ \A x \in 1 .. Len(q) - k + 1 : b[x] = q[k + x - 1]
    BY <2>1, <2>2, SubSeqProperties
  <2> HIDE DEF b
  <2>4. QED
    BY <1>1, <2>3
<1> HIDE DEF a, b
<1>4. ab \in Seq(Task) /\ Len(ab) = k /\ \A x \in 1 .. k : ab[x] = IF x < k THEN q[x] ELSE t
  <2>1. <<t>> \in Seq(Task) /\ Len(<<t>>) = 1 /\ <<t>>[1] = t
    OBVIOUS
  <2>2. /\ ab \in Seq(Task) /\ Len(ab) = Len(a) + 1
        /\ \A x \in 1 .. Len(a) + 1 : ab[x] = IF x <= Len(a) THEN a[x] ELSE <<t>>[x - Len(a)]
    BY <1>2, <2>1, ConcatProperties
  <2> HIDE DEF ab
  <2>3. QED
    BY <1>1, <1>2, <2>1, <2>2
<1> HIDE DEF ab
<1>5. r = ab \o b
  BY DEF InsertSorted, ab, a, b
<1>6. /\ r \in Seq(Task) /\ Len(r) = Len(ab) + Len(b)
      /\ \A x \in 1 .. Len(ab) + Len(b) : r[x] = IF x <= Len(ab) THEN ab[x] ELSE b[x - Len(ab)]
  <2>1. /\ ab \o b \in Seq(Task) /\ Len(ab \o b) = Len(ab) + Len(b)
        /\ \A x \in 1 .. Len(ab) + Len(b) :
              (ab \o b)[x] = IF x <= Len(ab) THEN ab[x] ELSE b[x - Len(ab)]
    <3>1. ab \in Seq(Task) /\ b \in Seq(Task)
      BY <1>3, <1>4
    <3>2. QED
      BY <3>1, ConcatProperties, Zenon
  <2>2. QED
    BY <1>5, <2>1, Zenon
<1>7. Len(r) = Len(q) + 1
  BY <1>1, <1>3, <1>4, <1>6
<1>8. ASSUME NEW x \in 1 .. Len(r)
      PROVE  r[x] = IF x < k THEN q[x] ELSE IF x = k THEN t ELSE q[x - 1]
  <2>1. CASE x <= k
    BY <1>1, <1>4, <1>6, <1>7, <2>1
  <2>2. CASE x > k
    <3>1. x - k \in 1 .. Len(q) - k + 1 /\ k + (x - k) - 1 = x - 1
      BY <1>1, <1>7, <2>2
    <3>2. r[x] = b[x - k]
      BY <1>1, <1>3, <1>4, <1>6, <1>7, <2>2
    <3>3. b[x - k] = q[x - 1]
      BY <1>3, <3>1
    <3>4. QED
      BY <1>1, <2>2, <3>2, <3>3
  <2>3. QED
    BY <1>1, <2>1, <2>2
<1>9. QED
  BY <1>6, <1>7, <1>8

(* It adds its request once and keeps the others. *)
LEMMA InsertElements ==
  ASSUME NEW q \in Seq(Task), NEW t \in Task, NEW i \in Nat, ~ Contains(q, t), NoRepeat(q),
         \A x \in 1 .. Len(q) : req[q[x]].idx \in Nat,
         NEW r, r = InsertSorted(q, t, i)
  PROVE  /\ \A u \in Task : Contains(r, u) <=> u = t \/ Contains(q, u)
         /\ NoRepeat(r)
<1>0. PICK k : k = InsertAt(q, i)
  OBVIOUS
<1>1. Len(q) \in Nat /\ k \in Nat /\ k \in 1 .. Len(q) + 1
  BY SMTT(30), <1>0, InsertPlace
<1>form. /\ r \in Seq(Task) /\ Len(r) = Len(q) + 1
      /\ \A x \in 1 .. Len(r) : r[x] = IF x < k THEN q[x] ELSE IF x = k THEN t ELSE q[x - 1]
  BY <1>0, <1>1, InsertForm
<1>2. Contains(r, t)
  <2>1. k \in 1 .. Len(r) /\ r[k] = t
    BY <1>1, <1>form
  <2>2. QED
    BY <2>1 DEF Contains
<1>3. ASSUME NEW x \in 1 .. Len(q)
      PROVE  Contains(r, q[x])
  <2>1. CASE x < k
    <3>1. x \in 1 .. Len(r) /\ r[x] = q[x]
      BY <1>1, <1>form, <2>1
    <3>2. QED
      BY <3>1 DEF Contains
  <2>2. CASE x >= k
    <3>1. x + 1 \in 1 .. Len(r) /\ ~ (x + 1 < k) /\ x + 1 # k /\ (x + 1) - 1 = x
      BY <1>1, <1>form, <2>2
    <3>2. r[x + 1] = q[x]
      BY <1>form, <3>1
    <3>3. QED
      BY <3>1, <3>2 DEF Contains
  <2>3. QED
    BY <1>1, <1>form, <2>1, <2>2
<1>4. ASSUME NEW x \in 1 .. Len(r)
      PROVE  \/ x < k /\ x \in 1 .. Len(q) /\ r[x] = q[x]
             \/ x = k /\ r[x] = t
             \/ x > k /\ x - 1 \in 1 .. Len(q) /\ r[x] = q[x - 1]
  BY <1>1, <1>form
<1>5. ASSUME NEW x \in 1 .. Len(r)
      PROVE  r[x] = t \/ Contains(q, r[x])
  <2>1. CASE x < k
    <3>1. x \in 1 .. Len(q) /\ r[x] = q[x]
      BY <1>1, <1>form, <1>4, <2>1
    <3>2. QED
      BY <3>1 DEF Contains
  <2>2. CASE x > k
    <3>1. x - 1 \in 1 .. Len(q) /\ r[x] = q[x - 1]
      BY <1>1, <1>form, <1>4, <2>2
    <3>2. QED
      BY <3>1 DEF Contains
  <2>3. QED
    BY <1>1, <1>form, <1>4, <2>1, <2>2
<1>6. ASSUME NEW x \in 1 .. Len(r), NEW y \in 1 .. Len(r), r[x] = r[y]
      PROVE  x = y
  <2>1. \A z \in 1 .. Len(q) : q[z] # t
    BY DEF Contains
  <2>2. \A w, z \in 1 .. Len(q) : q[w] = q[z] => w = z
    BY DEF NoRepeat
  <2>3. /\ (x < k => r[x] = q[x] /\ x \in 1 .. Len(q)) /\ (x = k => r[x] = t)
        /\ (x > k => r[x] = q[x - 1] /\ x - 1 \in 1 .. Len(q))
        /\ (y < k => r[y] = q[y] /\ y \in 1 .. Len(q)) /\ (y = k => r[y] = t)
        /\ (y > k => r[y] = q[y - 1] /\ y - 1 \in 1 .. Len(q))
        /\ x \in Int /\ y \in Int /\ k \in Int
    BY <1>1, <1>form, <1>4
  <2>4. CASE x < k
    BY <1>6, <2>1, <2>2, <2>3, <2>4
  <2>5. CASE x = k
    BY <1>6, <2>1, <2>3, <2>5
  <2>6. CASE x > k
    BY <1>6, <2>1, <2>2, <2>3, <2>6
  <2>7. QED
    BY <2>3, <2>4, <2>5, <2>6
<1>7. \A u \in Task : Contains(r, u) => u = t \/ Contains(q, u)
  BY <1>5 DEF Contains
<1>8. \A u \in Task : Contains(q, u) => Contains(r, u)
  BY <1>3 DEF Contains
<1>9. QED
  BY <1>2, <1>6, <1>7, <1>8 DEF NoRepeat

(* The place of a task in a list that holds it. *)
LEMMA PositionFound ==
  ASSUME NEW q, NEW t, Contains(q, t)
  PROVE  Position(q, t) \in 1 .. Len(q) /\ q[Position(q, t)] = t
  BY DEF Contains, Position

(* list_remove, place by place. *)
LEMMA WithoutForm ==
  ASSUME NEW q \in Seq(Task), NEW t \in Task, Contains(q, t), NEW r, r = Without(q, t),
         NEW k, k = Position(q, t)
  PROVE  /\ r \in Seq(Task)
         /\ Len(r) = Len(q) - 1
         /\ \A x \in 1 .. Len(r) : r[x] = IF x < k THEN q[x] ELSE q[x + 1]
<1>1. Len(q) \in Nat /\ k \in 1 .. Len(q) /\ k \in Nat /\ 1 <= k /\ k <= Len(q)
  BY PositionFound
<1>2. r = [x \in 1 .. Len(q) - 1 |-> IF x < k THEN q[x] ELSE q[x + 1]]
  BY DEF Without
<1>3. PICK n \in Nat : n = Len(q) - 1
  BY <1>1
<1>4. r \in [1 .. n -> Task]
  BY <1>1, <1>2, <1>3
<1>5. r \in Seq(Task)
  BY <1>4, SeqDef
<1>6. Len(r) = n
  BY <1>4, <1>5
<1>7. QED
  BY <1>2, <1>3, <1>5, <1>6

(* It takes out that task and no other. *)
LEMMA WithoutElements ==
  ASSUME NEW q \in Seq(Task), NEW t \in Task, Contains(q, t), NoRepeat(q),
         NEW r, r = Without(q, t)
  PROVE  /\ \A u \in Task : Contains(r, u) <=> u # t /\ Contains(q, u)
         /\ NoRepeat(r)
<1>0. PICK k : k = Position(q, t)
  OBVIOUS
<1>1. Len(q) \in Nat /\ k \in 1 .. Len(q) /\ q[k] = t
  BY <1>0, PositionFound
<1>form. /\ r \in Seq(Task) /\ Len(r) = Len(q) - 1
         /\ \A x \in 1 .. Len(r) : r[x] = IF x < k THEN q[x] ELSE q[x + 1]
  BY <1>0, WithoutForm
<1>2. \A w, z \in 1 .. Len(q) : q[w] = q[z] => w = z
  BY DEF NoRepeat
<1>3. ASSUME NEW x \in 1 .. Len(r)
      PROVE  \/ x < k /\ x \in 1 .. Len(q) /\ r[x] = q[x]
             \/ x >= k /\ x + 1 \in 1 .. Len(q) /\ r[x] = q[x + 1]
  BY <1>1, <1>form
<1>4. ASSUME NEW x \in 1 .. Len(r)
      PROVE  r[x] # t /\ Contains(q, r[x])
  <2>1. CASE x < k
    <3>1. x \in 1 .. Len(q) /\ r[x] = q[x] /\ x # k
      BY <1>1, <1>form, <1>3, <2>1
    <3>2. QED
      BY <1>1, <1>form, <1>2, <3>1 DEF Contains
  <2>2. CASE x >= k
    <3>1. x + 1 \in 1 .. Len(q) /\ r[x] = q[x + 1] /\ x + 1 # k
      BY <1>1, <1>form, <1>3, <2>2
    <3>2. QED
      BY <1>1, <1>form, <1>2, <3>1 DEF Contains
  <2>3. QED
    BY <1>1, <1>form, <2>1, <2>2
<1>5. ASSUME NEW x \in 1 .. Len(q), q[x] # t
      PROVE  Contains(r, q[x])
  <2>1. CASE x < k
    <3>1. x \in 1 .. Len(r) /\ r[x] = q[x]
      BY <1>1, <1>form, <2>1
    <3>2. QED
      BY <3>1 DEF Contains
  <2>2. CASE x > k
    <3>1. x - 1 \in 1 .. Len(r) /\ ~ (x - 1 < k) /\ (x - 1) + 1 = x
      BY <1>1, <1>form, <2>2
    <3>2. r[x - 1] = q[x]
      BY <1>form, <3>1
    <3>3. QED
      BY <3>1, <3>2 DEF Contains
  <2>3. QED
    BY <1>1, <1>form, <1>5, <2>1, <2>2
<1>6. ASSUME NEW x \in 1 .. Len(r), NEW y \in 1 .. Len(r), r[x] = r[y]
      PROVE  x = y
  BY <1>1, <1>form, <1>2, <1>3, <1>6
<1>7. \A u \in Task : Contains(r, u) => u # t /\ Contains(q, u)
  BY <1>4 DEF Contains
<1>8. \A u \in Task : u # t /\ Contains(q, u) => Contains(r, u)
  BY <1>5 DEF Contains
<1>9. QED
  BY <1>6, <1>7, <1>8 DEF NoRepeat

-----------------------------------------------------------------------------
(* One step after the other. *)

(* device_init and ata_bus_init establish the invariant. *)
LEMMA InitDInv == Init => DInv
<1> SUFFICES ASSUME Init PROVE DInv
  OBVIOUS
<1>1. Types
  <2>1. <<>> \in Seq(Task)
    OBVIOUS
  <2>2. request_list \in [Dev -> Seq(Task)] /\ \A d \in Dev : request_list[d] \in Seq(Task)
    BY <2>1 DEF Init
  <2>3. QED
    BY <2>1, <2>2 DEF Init, Types, TypeOK
<1>2. BusInv
  BY TaskAssumption DEF Init, BusInv, NoRepeat, Contains, InterruptFindsWaiter
<1>3. ListInv
  BY DEF Init, ListInv, NoRepeat, Contains
<1>4. OneServed /\ ListsSorted
  BY DEF Init, OneServed, ListsSorted
<1>5. QED
  BY <1>1, <1>2, <1>3, <1>4 DEF DInv

(* A task takes the bus or joins its queue. *)
LEMMA PioStartBus ==
  ASSUME Types, BusInv, NEW t \in Task, pc[t] \in {"out", "queued", "lock"}, Ready(t), PioStart(t)
  PROVE  /\ BusInv'
         /\ pc'[t] \in {"io", "lock"}
         /\ pc' = [pc EXCEPT ![t] = pc'[t]]
         /\ blocked' \subseteq Task /\ holder' \in Task \cup {NULL} /\ lock_waiters' \in Seq(Task)
         /\ waiter' \in Task \cup {NULL} /\ active' \in Task \cup {NULL} /\ owed' \in BOOLEAN
         /\ \A u \in Task : u # t => (u \in blocked' <=> u \in blocked)
<1> USE DEF Types, TypeOK
<1>1. CASE holder = NULL
  <2>1. /\ holder' = t /\ active' = t /\ owed' = TRUE /\ waiter' = t
        /\ blocked' = blocked \cup {t}
        /\ pc' = [pc EXCEPT ![t] = "io"]
        /\ lock_waiters' = lock_waiters
    BY <1>1 DEF PioStart
  <2>2. \A u \in Task : pc[u] # "io"
    BY <1>1, TaskAssumption DEF BusInv
  <2>3. BusInv'
    BY <2>1, <2>2, TaskAssumption DEF BusInv, Ready, InterruptFindsWaiter, NoRepeat, Contains
  <2>4. QED
    BY <2>1, <2>3
<1>2. CASE holder # NULL
  <2>1. /\ lock_waiters' = Append(lock_waiters, t)
        /\ pc' = [pc EXCEPT ![t] = "lock"]
        /\ UNCHANGED <<holder, active, owed, waiter, blocked>>
    BY <1>2 DEF PioStart
  <2>2. \A i \in 1 .. Len(lock_waiters) : lock_waiters[i] # t
    BY DEF Ready, Contains
  <2>3. NoRepeat(lock_waiters')
    <3>1. \A i, j \in 1 .. Len(lock_waiters) : lock_waiters[i] = lock_waiters[j] => i = j
      BY DEF BusInv, NoRepeat
    <3>2. /\ Len(lock_waiters') = Len(lock_waiters) + 1
          /\ \A i \in 1 .. Len(lock_waiters) : lock_waiters'[i] = lock_waiters[i]
          /\ lock_waiters'[Len(lock_waiters) + 1] = t
      BY <2>1
    <3>3. QED
      BY SMTT(30), <2>2, <3>1, <3>2 DEF NoRepeat
  <2>4. \A u \in Task : Contains(lock_waiters', u) => u = t \/ Contains(lock_waiters, u)
    BY <2>1 DEF Contains
  <2>5. BusInv'
    <3>1. \A u \in Task : Contains(lock_waiters', u) => pc'[u] = "lock"
      BY <2>1, <2>4 DEF BusInv
    <3>2. t \notin blocked
      BY DEF Ready
    <3>3. \A u \in blocked' : pc'[u] \in {"queued", "io"}
      BY <2>1, <3>2 DEF BusInv
    <3>4. \A u \in Task : pc'[u] = "io" <=> holder' = u
      BY <2>1 DEF BusInv
    <3>5. InterruptFindsWaiter'
      BY <2>1, <3>2 DEF BusInv, InterruptFindsWaiter
    <3>6. QED
      BY <2>1, <2>3, <3>1, <3>3, <3>4, <3>5 DEF BusInv
  <2>6. lock_waiters' \in Seq(Task)
    BY <2>1
  <2>7. QED
    BY <2>1, <2>5, <2>6
<1>3. QED
  BY <1>1, <1>2

(* A task that is outside dev_request is in no queue. *)
LEMMA OutIsReady ==
  ASSUME Types, BusInv, NEW t \in Task, pc[t] = "out"
  PROVE  Ready(t)
  BY DEF Types, TypeOK, BusInv, Ready

(* Lists and requests that a step leaves alone. *)
LEMMA ListFrame ==
  ASSUME Types, ListInv, ListsSorted, UNCHANGED <<request_list, req>>,
         \A u \in Task : pc'[u] = "out" <=> pc[u] = "out"
  PROVE  ListInv' /\ ListsSorted'
<1>1. ListInv'
  BY DEF ListInv, NoRepeat, Contains
<1>2. ListsSorted'
  BY DEF ListsSorted
<1>3. QED
  BY <1>1, <1>2

(* Who waits in line is all that OneServed looks at, besides the lists. *)
LEMMA ServedFrame ==
  ASSUME Types, OneServed, UNCHANGED request_list,
         \A u \in Task : InLine(u)' <=> InLine(u)
  PROVE  OneServed'
<1> SUFFICES ASSUME NEW d \in Dev, request_list[d] # <<>>
             PROVE  \E t \in Task :
                       /\ Contains(request_list[d], t) /\ ~ InLine(t)'
                       /\ \A u \in Task \ {t} : Contains(request_list[d], u) => InLine(u)'
  BY DEF OneServed, Contains
<1>1. PICK t \in Task :
         /\ Contains(request_list[d], t) /\ ~ InLine(t)
         /\ \A u \in Task \ {t} : Contains(request_list[d], u) => InLine(u)
  BY DEF OneServed
<1>2. QED
  BY <1>1

(* A task that is not in line is the one its device serves. *)
LEMMA ServedAlone ==
  ASSUME OneServed, NEW d \in Dev, NEW t \in Task, Contains(request_list[d], t), ~ InLine(t),
         request_list \in [Dev -> Seq(Task)]
  PROVE  \A u \in Task : u # t /\ Contains(request_list[d], u) => InLine(u)
<1>1. request_list[d] # <<>>
  BY DEF Contains
<1>2. QED
  BY <1>1 DEF OneServed

(* dev_request on an idle device keeps the invariant. *)
LEMMA RequestIdleDInv ==
  ASSUME NEW t \in Task, NEW d \in Dev, NEW i \in Lba, NEW n \in 1 .. MaxCount,
         DInv, RequestIdle(t, d, i, n)
  PROVE  DInv'
<1> DEFINE r == [dev |-> d, idx |-> i, left |-> n]
<1>1. /\ pc[t] = "out" /\ request_list[d] = <<>> /\ direction' = direction
      /\ req' = [req EXCEPT ![t] = r]
      /\ request_list' = [request_list EXCEPT ![d] = <<t>>]
      /\ PioStart(t)
  BY DEF RequestIdle
<1>2. Types /\ BusInv /\ ListInv /\ OneServed /\ ListsSorted
  BY DEF DInv
<1>3. /\ req \in [Task -> Requests \cup {NoReq}] /\ request_list \in [Dev -> Seq(Task)]
      /\ pc \in [Task -> {"out", "queued", "lock", "io", "done"}] /\ direction \in [Dev -> {"IN", "OUT"}]
  BY <1>2 DEF Types, TypeOK
<1>4. /\ BusInv'
      /\ pc'[t] \in {"io", "lock"} /\ pc' = [pc EXCEPT ![t] = pc'[t]]
      /\ blocked' \subseteq Task /\ holder' \in Task \cup {NULL} /\ lock_waiters' \in Seq(Task)
      /\ waiter' \in Task \cup {NULL} /\ active' \in Task \cup {NULL} /\ owed' \in BOOLEAN
      /\ \A u \in Task : u # t => (u \in blocked' <=> u \in blocked)
  <2>1. Ready(t)
    BY <1>1, <1>2, OutIsReady
  <2>2. QED
    BY <1>1, <1>2, <2>1, PioStartBus
<1>5. r \in Requests
  BY LbaAssumption DEF Requests
<1> HIDE DEF r
<1>6. Types'
  <2>1. <<t>> \in Seq(Task)
    OBVIOUS
  <2>2. request_list' \in [Dev -> Seq(Task)]
    BY <1>1, <1>3, <2>1
  <2>3. req' \in [Task -> Requests \cup {NoReq}]
    BY <1>1, <1>3, <1>5
  <2>4. pc' \in [Task -> {"out", "queued", "lock", "io", "done"}]
    BY <1>3, <1>4
  <2>5. QED
    BY <1>1, <1>3, <1>4, <2>2, <2>3, <2>4 DEF Types, TypeOK
<1>7. /\ request_list'[d] = <<t>>
      /\ \A e \in Dev : e # d => request_list'[e] = request_list[e]
      /\ req'[t] = r /\ \A u \in Task : u # t => req'[u] = req[u] /\ pc'[u] = pc[u]
  BY <1>1, <1>3, <1>4
<1>8. \A e \in Dev : ~ Contains(request_list[e], t)
  BY <1>1, <1>2 DEF ListInv
<1>9. \A u \in Task : Contains(<<t>>, u) <=> u = t
  BY DEF Contains
<1>10. ListInv'
  <2>1. NoRepeat(<<t>>)
    BY DEF NoRepeat
  <2>2. \A e \in Dev : NoRepeat(request_list'[e])
    BY <1>2, <1>7, <2>1 DEF ListInv
  <2>3. ASSUME NEW e \in Dev, NEW u \in Task
        PROVE  Contains(request_list'[e], u) <=> pc'[u] # "out" /\ req'[u].dev = e
    <3>1. r.dev = d
      BY DEF r
    <3>2. CASE u = t
      BY <1>4, <1>7, <1>8, <1>9, <3>1, <3>2
    <3>3. CASE u # t /\ e # d
      BY <1>2, <1>7, <3>3 DEF ListInv
    <3>4. CASE u # t /\ e = d
      <4>1. ~ Contains(request_list[d], u)
        BY <1>1 DEF Contains
      <4>2. QED
        BY <1>2, <1>7, <1>9, <3>4, <4>1 DEF ListInv
    <3>5. QED
      BY <3>2, <3>3, <3>4
  <2>4. \A u \in Task : pc'[u] # "out" => req'[u] \in Requests
    BY <1>2, <1>5, <1>7 DEF ListInv
  <2>5. QED
    BY <2>2, <2>3, <2>4 DEF ListInv
<1>11. \A u \in Task : u # t => (InLine(u)' <=> InLine(u))
  BY <1>4, <1>7 DEF InLine
<1>12. OneServed'
  <2>1. ASSUME NEW e \in Dev, request_list'[e] # <<>>
        PROVE  \E x \in Task :
                  /\ Contains(request_list'[e], x) /\ ~ InLine(x)'
                  /\ \A u \in Task \ {x} : Contains(request_list'[e], u) => InLine(u)'
    <3>1. CASE e = d
      BY <1>4, <1>7, <1>9, <3>1 DEF InLine
    <3>2. CASE e # d
      <4>1. PICK x \in Task :
               /\ Contains(request_list[e], x) /\ ~ InLine(x)
               /\ \A u \in Task \ {x} : Contains(request_list[e], u) => InLine(u)
        BY <1>2, <1>7, <2>1, <3>2 DEF OneServed
      <4>2. QED
        BY <1>7, <1>8, <1>11, <3>2, <4>1
    <3>3. QED
      BY <3>1, <3>2
  <2>2. QED
    BY <2>1 DEF OneServed
<1>13. ListsSorted'
  <2>1. ASSUME NEW e \in Dev, NEW x \in 1 .. Len(request_list'[e]), NEW y \in 1 .. Len(request_list'[e]),
               x <= y
        PROVE  req'[request_list'[e][x]].idx <= req'[request_list'[e][y]].idx
    <3>1. CASE e = d
      <4>1. request_list'[e] = <<t>> /\ Len(<<t>>) = 1 /\ <<t>>[1] = t
        BY <1>7, <3>1
      <4>2. x = 1 /\ y = 1
        <5>1. x \in 1 .. 1 /\ y \in 1 .. 1
          BY <4>1, Zenon
        <5>2. QED
          BY <5>1
      <4>3. req'[t].idx \in Nat
        BY <1>5, <1>7, LbaAssumption DEF Requests
      <4>4. req'[t].idx <= req'[t].idx
        BY <4>3
      <4>5. QED
        BY <4>1, <4>2, <4>4, Zenon
    <3>2. CASE e # d
      <4>1. /\ request_list[e][x] \in Task /\ request_list[e][x] # t
            /\ request_list[e][y] \in Task /\ request_list[e][y] # t
        BY <1>3, <1>7, <1>8, <3>2 DEF Contains
      <4>2. req[request_list[e][x]].idx <= req[request_list[e][y]].idx
        BY <1>2, <1>7, <2>1, <3>2 DEF ListsSorted
      <4>3. QED
        BY <1>7, <3>2, <4>1, <4>2
    <3>3. QED
      BY <3>1, <3>2
  <2>2. QED
    BY <2>1 DEF ListsSorted
<1>14. QED
  BY <1>4, <1>6, <1>10, <1>12, <1>13 DEF DInv

(* dev_request on a busy device inserts its request at its place. *)
LEMMA RequestBusyDInv ==
  ASSUME NEW t \in Task, NEW d \in Dev, NEW i \in Lba, NEW n \in 1 .. MaxCount,
         DInv, RequestBusy(t, d, i, n)
  PROVE  DInv'
<1> DEFINE r == [dev |-> d, idx |-> i, left |-> n]
<1> DEFINE q == request_list[d]
<1> DEFINE s == InsertSorted(q, t, i)
<1> DEFINE k == InsertAt(q, i)
<1>1. /\ pc[t] = "out" /\ q # <<>> /\ direction' = direction
      /\ req' = [req EXCEPT ![t] = r]
      /\ request_list' = [request_list EXCEPT ![d] = s]
      /\ blocked' = blocked \cup {t}
      /\ pc' = [pc EXCEPT ![t] = "queued"]
      /\ UNCHANGED <<holder, lock_waiters, waiter, active, owed>>
  BY DEF RequestBusy
<1>2. Types /\ BusInv /\ ListInv /\ OneServed /\ ListsSorted
  BY DEF DInv
<1>3. /\ req \in [Task -> Requests \cup {NoReq}] /\ request_list \in [Dev -> Seq(Task)]
      /\ pc \in [Task -> {"out", "queued", "lock", "io", "done"}] /\ direction \in [Dev -> {"IN", "OUT"}]
      /\ q \in Seq(Task) /\ Len(q) \in Nat
  BY <1>2 DEF Types, TypeOK
<1>4. r \in Requests /\ i \in Nat /\ r.dev = d /\ r.idx = i
  BY LbaAssumption DEF Requests
<1> HIDE DEF r
<1>5. \A e \in Dev : ~ Contains(request_list[e], t)
  BY <1>1, <1>2 DEF ListInv
<1>6. ASSUME NEW e \in Dev, NEW x \in 1 .. Len(request_list[e])
      PROVE  request_list[e][x] \in Task /\ request_list[e][x] # t /\ req[request_list[e][x]].idx \in Nat
  <2>1. request_list[e][x] \in Task /\ Contains(request_list[e], request_list[e][x])
    BY <1>3 DEF Contains
  <2>2. req[request_list[e][x]] \in Requests
    BY <1>2, <2>1 DEF ListInv
  <2>3. QED
    BY <1>5, <2>1, <2>2, LbaAssumption DEF Requests
<1>7. /\ k \in 1 .. Len(q) + 1
      /\ \A x \in 1 .. Len(q) : x < k => req[q[x]].idx <= i
      /\ k <= Len(q) => i <= req[q[k]].idx
  BY <1>3, <1>4, <1>6, InsertPlace
<1>8. /\ s \in Seq(Task) /\ Len(s) = Len(q) + 1
      /\ \A x \in 1 .. Len(s) : s[x] = IF x < k THEN q[x] ELSE IF x = k THEN t ELSE q[x - 1]
  BY <1>3, <1>4, <1>7, InsertForm
<1> HIDE DEF k, s, q
<1>9. /\ \A u \in Task : Contains(s, u) <=> u = t \/ Contains(q, u)
      /\ NoRepeat(s)
  <2>1. ~ Contains(q, t) /\ NoRepeat(q)
    BY <1>2, <1>5 DEF ListInv, q
  <2>2. QED
    BY <1>3, <1>4, <1>6, <2>1, InsertElements DEF s, q
<1>10. /\ request_list'[d] = s
       /\ \A e \in Dev : e # d => request_list'[e] = request_list[e]
       /\ req'[t] = r /\ pc'[t] = "queued" /\ \A u \in Task : u # t => req'[u] = req[u] /\ pc'[u] = pc[u]
  BY <1>1, <1>3
<1>11. Types'
  <2>1. request_list' \in [Dev -> Seq(Task)]
    BY <1>1, <1>3, <1>8
  <2>2. req' \in [Task -> Requests \cup {NoReq}]
    BY <1>1, <1>3, <1>4
  <2>3. pc' \in [Task -> {"out", "queued", "lock", "io", "done"}] /\ blocked' \subseteq Task
    BY <1>1, <1>2, <1>3 DEF Types, TypeOK
  <2>4. QED
    BY <1>1, <1>2, <2>1, <2>2, <2>3 DEF Types, TypeOK
<1>12. BusInv'
  <2>1. NoRepeat(lock_waiters')
    BY <1>1, <1>2 DEF BusInv
  <2>2. ~ Contains(lock_waiters, t)
    BY <1>1, <1>2 DEF BusInv
  <2>3. \A u \in Task : Contains(lock_waiters', u) => pc'[u] = "lock"
    BY <1>1, <1>2, <1>10, <2>2 DEF BusInv
  <2>4. \A u \in blocked' : pc'[u] \in {"queued", "io"}
    BY <1>1, <1>2, <1>10 DEF BusInv, Types, TypeOK
  <2>5. \A u \in Task : pc'[u] = "io" <=> holder' = u
    BY <1>1, <1>2, <1>10 DEF BusInv
  <2>6. InterruptFindsWaiter'
    BY <1>1, <1>2, <1>10 DEF BusInv, InterruptFindsWaiter
  <2>7. QED
    BY <1>1, <1>2, <2>1, <2>3, <2>4, <2>5, <2>6 DEF BusInv
<1>13. ListInv'
  <2>1. \A e \in Dev : NoRepeat(request_list'[e])
    BY <1>2, <1>9, <1>10 DEF ListInv
  <2>2. ASSUME NEW e \in Dev, NEW u \in Task
        PROVE  Contains(request_list'[e], u) <=> pc'[u] # "out" /\ req'[u].dev = e
    <3>1. CASE u = t
      BY <1>4, <1>5, <1>9, <1>10, <3>1
    <3>2. CASE u # t /\ e # d
      BY <1>2, <1>10, <3>2 DEF ListInv
    <3>3. CASE u # t /\ e = d
      BY <1>2, <1>9, <1>10, <3>3 DEF ListInv, q
    <3>4. QED
      BY <3>1, <3>2, <3>3
  <2>3. \A u \in Task : pc'[u] # "out" => req'[u] \in Requests
    BY <1>2, <1>4, <1>10 DEF ListInv
  <2>4. QED
    BY <2>1, <2>2, <2>3 DEF ListInv
<1>14. InLine(t)' /\ \A u \in Task : u # t => (InLine(u)' <=> InLine(u))
  BY <1>1, <1>10 DEF InLine
<1>15. OneServed'
  <2>1. ASSUME NEW e \in Dev, request_list'[e] # <<>>
        PROVE  \E x \in Task :
                  /\ Contains(request_list'[e], x) /\ ~ InLine(x)'
                  /\ \A u \in Task \ {x} : Contains(request_list'[e], u) => InLine(u)'
    <3>1. request_list[e] # <<>>
      BY <1>1, <1>10, <2>1 DEF q
    <3>2. PICK x \in Task :
             /\ Contains(request_list[e], x) /\ ~ InLine(x)
             /\ \A u \in Task \ {x} : Contains(request_list[e], u) => InLine(u)
      BY <1>2, <3>1 DEF OneServed
    <3>3. x # t
      BY <1>5, <3>2
    <3>4. \A u \in Task : Contains(request_list'[e], u) <=> Contains(request_list[e], u) \/ (e = d /\ u = t)
      BY <1>9, <1>10 DEF q
    <3>5. QED
      BY <1>14, <3>2, <3>3, <3>4
  <2>2. QED
    BY <2>1 DEF OneServed
<1>16. ListsSorted'
  <2>1. ASSUME NEW e \in Dev, NEW x \in 1 .. Len(request_list'[e]), NEW y \in 1 .. Len(request_list'[e]),
               x <= y
        PROVE  req'[request_list'[e][x]].idx <= req'[request_list'[e][y]].idx
    <3>1. CASE e # d
      BY SMTT(30), <1>2, <1>6, <1>10, <2>1, <3>1 DEF ListsSorted
    <3>2. CASE e = d
      <4>1. \A w, z \in 1 .. Len(q) : w <= z => req[q[w]].idx <= req[q[z]].idx
        BY <1>2 DEF ListsSorted, q
      <4>2. \A z \in 1 .. Len(q) : req'[q[z]] = req[q[z]] /\ req[q[z]].idx \in Nat
        BY <1>6, <1>10 DEF q
      <4>3. \A z \in 1 .. Len(q) : z >= k => i <= req[q[z]].idx
        BY SMTT(30), <1>3, <1>4, <1>7, <4>1, <4>2
      <4>4. req'[t].idx = i
        BY <1>4, <1>10
      <4>5. ASSUME NEW z \in 1 .. Len(s)
            PROVE  /\ z < k => z \in 1 .. Len(q) /\ req'[s[z]].idx = req[q[z]].idx
                   /\ z = k => req'[s[z]].idx = i
                   /\ z > k => z - 1 \in 1 .. Len(q) /\ z - 1 >= k /\ req'[s[z]].idx = req[q[z - 1]].idx
        BY SMTT(30), <1>3, <1>7, <1>8, <4>2, <4>4
      <4>6. x \in 1 .. Len(s) /\ y \in 1 .. Len(s) /\ x \in Int /\ y \in Int /\ k \in Int
        BY <1>7, <1>10, <3>2
      <4>7. CASE y < k
        <5>1. x < k
          BY <2>1, <4>6, <4>7
        <5>2. QED
          BY <1>10, <2>1, <3>2, <4>1, <4>5, <4>6, <4>7, <5>1
      <4>8. CASE x < k /\ y = k
        BY <1>7, <1>10, <3>2, <4>5, <4>6, <4>8
      <4>9. CASE x < k /\ y > k
        <5>1. x <= y - 1
          BY <4>6, <4>9
        <5>2. QED
          BY <1>10, <3>2, <4>1, <4>5, <4>6, <4>9, <5>1
      <4>10. CASE x = k /\ y = k
        BY <1>4, <1>10, <3>2, <4>5, <4>6, <4>10
      <4>11. CASE x = k /\ y > k
        BY <1>10, <3>2, <4>3, <4>5, <4>6, <4>11
      <4>12. CASE x > k /\ y > k
        <5>1. x - 1 <= y - 1
          BY <2>1, <4>6
        <5>2. QED
          BY <1>10, <3>2, <4>1, <4>5, <4>6, <4>12, <5>1
      <4>13. QED
        BY <2>1, <4>6, <4>7, <4>8, <4>9, <4>10, <4>11, <4>12
    <3>3. QED
      BY <3>1, <3>2
  <2>2. QED
    BY <2>1 DEF ListsSorted
<1>17. QED
  BY <1>11, <1>12, <1>13, <1>15, <1>16 DEF DInv

(* The turn of a request, or another try for the bus. *)
LEMMA StartIoDInv ==
  ASSUME NEW t \in Task, DInv, StartIo(t)
  PROVE  DInv'
<1>1. /\ Ready(t) /\ pc[t] \in {"queued", "lock"} /\ PioStart(t)
      /\ UNCHANGED <<request_list, direction, req>>
  BY DEF StartIo
<1>2. Types /\ BusInv /\ ListInv /\ OneServed /\ ListsSorted
  BY DEF DInv
<1>3. /\ BusInv'
      /\ pc'[t] \in {"io", "lock"} /\ pc' = [pc EXCEPT ![t] = pc'[t]]
      /\ blocked' \subseteq Task /\ holder' \in Task \cup {NULL} /\ lock_waiters' \in Seq(Task)
      /\ waiter' \in Task \cup {NULL} /\ active' \in Task \cup {NULL} /\ owed' \in BOOLEAN
      /\ \A u \in Task : u # t => (u \in blocked' <=> u \in blocked)
  BY <1>1, <1>2, PioStartBus
<1>4. pc \in [Task -> {"out", "queued", "lock", "io", "done"}]
  BY <1>2 DEF Types, TypeOK
<1>5. pc' \in [Task -> {"out", "queued", "lock", "io", "done"}]
  BY <1>3, <1>4
<1>6. Types'
  BY <1>1, <1>2, <1>3, <1>5 DEF Types, TypeOK
<1>7. \A u \in Task : u # t => pc'[u] = pc[u]
  BY <1>3, <1>4
<1>8. ListInv' /\ ListsSorted'
  BY <1>1, <1>2, <1>3, <1>5, <1>7, ListFrame
<1>9. \A u \in Task : InLine(u)' <=> InLine(u)
  BY <1>1, <1>3, <1>7 DEF InLine, Ready
<1>10. OneServed'
  BY <1>1, <1>2, <1>9, ServedFrame
<1>11. QED
  BY <1>3, <1>6, <1>8, <1>10 DEF DInv

(* The next sector of a request. *)
LEMMA NextSectorDInv ==
  ASSUME NEW t \in Task, DInv, NextSector(t)
  PROVE  DInv'
<1>1. /\ t \notin blocked /\ pc[t] = "io" /\ req[t].left > 1
      /\ req' = [req EXCEPT ![t].left = @ - 1]
      /\ owed' = TRUE /\ waiter' = t /\ blocked' = blocked \cup {t}
      /\ UNCHANGED <<request_list, direction, pc, holder, lock_waiters, active>>
  BY DEF NextSector, Ready
<1>2. Types /\ BusInv /\ ListInv /\ OneServed /\ ListsSorted
  BY DEF DInv
<1>3. req \in [Task -> Requests \cup {NoReq}] /\ req[t] \in Requests
  BY <1>1, <1>2 DEF Types, TypeOK, ListInv
<1>4. /\ req'[t].dev = req[t].dev /\ req'[t].idx = req[t].idx /\ req'[t] \in Requests
      /\ \A u \in Task : u # t => req'[u] = req[u]
  BY <1>1, <1>3, LbaAssumption DEF Requests
<1>5. Types'
  <2>1. req' \in [Task -> Requests \cup {NoReq}]
    BY <1>1, <1>3, <1>4
  <2>2. QED
    BY <1>1, <1>2, <2>1 DEF Types, TypeOK
<1>6. BusInv'
  BY <1>1, <1>2, TaskAssumption DEF BusInv, InterruptFindsWaiter, NoRepeat, Contains
<1>7. ListInv'
  BY <1>1, <1>2, <1>4 DEF ListInv
<1>8. ListsSorted'
  <2>1. \A u \in Task : req'[u].idx = req[u].idx
    BY <1>4
  <2>2. \A d \in Dev : \A x \in 1 .. Len(request_list[d]) : request_list[d][x] \in Task
    BY <1>2 DEF Types
  <2>3. QED
    BY <1>1, <1>2, <2>1, <2>2 DEF ListsSorted
<1>9. \A u \in Task : InLine(u)' <=> InLine(u)
  BY <1>1 DEF InLine
<1>10. OneServed'
  BY <1>1, <1>2, <1>9, ServedFrame
<1>11. QED
  BY <1>5, <1>6, <1>7, <1>8, <1>10 DEF DInv

(* The last sector, when the release of the bus yields. *)
LEMMA LastSectorYieldDInv ==
  ASSUME NEW t \in Task, DInv, LastSectorYield(t)
  PROVE  DInv'
<1>1. /\ t \notin blocked /\ pc[t] = "io" /\ lock_waiters # <<>>
      /\ holder' = NULL /\ lock_waiters' = Tail(lock_waiters)
      /\ req' = [req EXCEPT ![t].left = 0]
      /\ pc' = [pc EXCEPT ![t] = "done"]
      /\ UNCHANGED <<request_list, direction, blocked, waiter, active, owed>>
  BY DEF LastSectorYield, Ready
<1>2. Types /\ BusInv /\ ListInv /\ OneServed /\ ListsSorted
  BY DEF DInv
<1>3. /\ req \in [Task -> Requests \cup {NoReq}] /\ req[t] \in Requests
      /\ pc \in [Task -> {"out", "queued", "lock", "io", "done"}] /\ lock_waiters \in Seq(Task)
  BY <1>1, <1>2 DEF Types, TypeOK, ListInv
<1>4. /\ req'[t].dev = req[t].dev /\ req'[t].idx = req[t].idx /\ req'[t] \in Requests
      /\ \A u \in Task : u # t => req'[u] = req[u]
      /\ pc'[t] = "done" /\ \A u \in Task : u # t => pc'[u] = pc[u]
  BY <1>1, <1>3, LbaAssumption DEF Requests
<1>5. /\ lock_waiters' \in Seq(Task) /\ Len(lock_waiters') = Len(lock_waiters) - 1
      /\ \A x \in 1 .. Len(lock_waiters') : lock_waiters'[x] = lock_waiters[x + 1]
  BY <1>1, <1>3
<1>6. Types'
  <2>1. req' \in [Task -> Requests \cup {NoReq}]
    BY <1>1, <1>3, <1>4
  <2>2. pc' \in [Task -> {"out", "queued", "lock", "io", "done"}]
    BY <1>1, <1>3
  <2>3. QED
    BY <1>1, <1>2, <1>5, <2>1, <2>2 DEF Types, TypeOK
<1>7. BusInv'
  <2>1. NoRepeat(lock_waiters')
    BY <1>2, <1>3, <1>5 DEF BusInv, NoRepeat
  <2>2. \A u \in Task : Contains(lock_waiters', u) => Contains(lock_waiters, u)
    <3>1. \A x \in 1 .. Len(lock_waiters') : x + 1 \in 1 .. Len(lock_waiters)
      BY <1>3, <1>5
    <3>2. QED
      BY <1>5, <3>1 DEF Contains
  <2>3. \A u \in Task : Contains(lock_waiters', u) => pc'[u] = "lock"
    BY <1>1, <1>2, <1>4, <2>2 DEF BusInv
  <2>4. \A u \in blocked' : pc'[u] \in {"queued", "io"}
    BY <1>1, <1>2, <1>4 DEF BusInv, Types, TypeOK
  <2>5. \A u \in Task : pc'[u] # "io"
    BY <1>1, <1>2, <1>4 DEF BusInv
  <2>6. InterruptFindsWaiter'
    BY <1>1, <1>2, <1>4 DEF BusInv, InterruptFindsWaiter
  <2>7. QED
    BY <1>1, <1>2, <2>1, <2>3, <2>4, <2>5, <2>6, TaskAssumption DEF BusInv
<1>8. ListInv'
  <2>1. \A u \in Task : (pc'[u] = "out" <=> pc[u] = "out") /\ req'[u].dev = req[u].dev
    BY <1>1, <1>4
  <2>2. \A u \in Task : pc'[u] # "out" => req'[u] \in Requests
    BY <1>2, <1>4, <2>1 DEF ListInv
  <2>3. QED
    BY <1>1, <1>2, <2>1, <2>2 DEF ListInv
<1>9. ListsSorted'
  <2>1. \A u \in Task : req'[u].idx = req[u].idx
    BY <1>4
  <2>2. \A d \in Dev : \A x \in 1 .. Len(request_list[d]) : request_list[d][x] \in Task
    BY <1>2 DEF Types
  <2>3. QED
    BY <1>1, <1>2, <2>1, <2>2 DEF ListsSorted
<1>10. \A u \in Task : InLine(u)' <=> InLine(u)
  BY <1>1, <1>4 DEF InLine
<1>11. OneServed'
  BY <1>1, <1>2, <1>10, ServedFrame
<1>12. QED
  BY <1>6, <1>7, <1>8, <1>9, <1>11 DEF DInv

(* The interrupt, also when the drive ended in an error and it never comes. *)
LEMMA InterruptDInv ==
  ASSUME DInv, ata_handler \/ DriveError
  PROVE  DInv'
<1>1. Types /\ BusInv /\ ListInv /\ OneServed /\ ListsSorted
  BY DEF DInv
<1>2. UNCHANGED <<request_list, direction, req, pc, holder, lock_waiters, active>> /\ owed' = FALSE
  BY DEF ata_handler, DriveError
<1>3. CASE ata_handler
  <2>1. blocked' = blocked \ {waiter} /\ waiter' = NULL
    BY <1>3 DEF ata_handler
  <2>2. Types'
    BY <1>1, <1>2, <2>1 DEF Types, TypeOK
  <2>3. BusInv'
    BY <1>1, <1>2, <2>1, TaskAssumption DEF BusInv, InterruptFindsWaiter, Types, TypeOK
  <2>4. \A u \in Task : InLine(u)' <=> InLine(u)
    BY <1>1, <1>2, <2>1 DEF InLine, BusInv, InterruptFindsWaiter
  <2>5. QED
    BY <1>1, <1>2, <2>2, <2>3, <2>4, ServedFrame DEF DInv, ListInv, ListsSorted
<1>4. CASE DriveError
  <2>1. UNCHANGED <<blocked, waiter>>
    BY <1>4 DEF DriveError
  <2>2. Types' /\ BusInv'
    BY <1>1, <1>2, <2>1 DEF Types, TypeOK, BusInv, InterruptFindsWaiter
  <2>3. \A u \in Task : InLine(u)' <=> InLine(u)
    BY <1>2, <2>1 DEF InLine
  <2>4. QED
    BY <1>1, <1>2, <2>2, <2>3, ServedFrame DEF DInv, ListInv, ListsSorted
<1>5. QED
  BY <1>3, <1>4

(* The end of a request: who next_request chooses. *)
LEMMA Neighbour ==
  ASSUME DInv, NEW t \in Task, NEW d \in Dev, Contains(request_list[d], t),
         NEW q, q = request_list[d], NEW k, k = Position(q, t), NEW u, u = NextRequest(d, t)
  PROVE  /\ Len(q) = 1 => u = NULL
         /\ Len(q) # 1 =>
              \/ u = q[k + 1] /\ k + 1 \in 1 .. Len(q) /\ (direction[d] = "OUT" \/ k = 1)
              \/ u = q[k - 1] /\ k - 1 \in 1 .. Len(q) /\ (direction[d] = "IN" \/ k = Len(q))
<1>1. q \in Seq(Task) /\ Len(q) \in Nat /\ direction[d] \in {"IN", "OUT"}
  BY DEF DInv, Types, TypeOK
<1>2. k \in 1 .. Len(q) /\ q[k] = t
  BY PositionFound
<1>3. \A i, j \in 1 .. Len(q) : q[i] = q[j] => i = j
  BY DEF DInv, ListInv, NoRepeat
<1>4. (t = q[Len(q)] <=> k = Len(q)) /\ (t = q[1] <=> k = 1)
  <2>1. 1 \in 1 .. Len(q) /\ Len(q) \in 1 .. Len(q)
    BY <1>1, <1>2
  <2>2. QED
    BY <1>2, <1>3, <2>1
<1>5. NewDirection(d, t) = IF direction[d] = "OUT" /\ k = Len(q) THEN "IN"
                           ELSE IF direction[d] = "IN" /\ k = 1 THEN "OUT" ELSE direction[d]
  BY <1>4 DEF NewDirection
<1>6. u = IF Len(q) = 1 THEN NULL ELSE IF NewDirection(d, t) = "OUT" THEN q[k + 1] ELSE q[k - 1]
  BY DEF NextRequest
<1>7. ASSUME Len(q) # 1, NewDirection(d, t) = "OUT"
      PROVE  u = q[k + 1] /\ k + 1 \in 1 .. Len(q) /\ (direction[d] = "OUT" \/ k = 1)
  <2>1. u = q[k + 1]
    BY <1>6, <1>7
  <2>2. (direction[d] = "OUT" /\ k # Len(q)) \/ k = 1
    BY <1>1, <1>5, <1>7
  <2>3. k + 1 \in 1 .. Len(q)
    <3>1. PICK n \in Nat : n = Len(q)
      BY <1>1
    <3>2. k \in 1 .. n /\ n # 1 /\ (k # n \/ k = 1)
      BY <1>2, <1>7, <2>2, <3>1
    <3>3. k + 1 \in 1 .. n
      BY <3>2
    <3>4. QED
      BY <3>1, <3>3
  <2>4. QED
    BY <2>1, <2>2, <2>3
<1>8. ASSUME Len(q) # 1, NewDirection(d, t) # "OUT"
      PROVE  u = q[k - 1] /\ k - 1 \in 1 .. Len(q) /\ (direction[d] = "IN" \/ k = Len(q))
  <2>1. u = q[k - 1]
    BY <1>6, <1>8
  <2>2. (direction[d] = "IN" /\ k # 1) \/ k = Len(q)
    BY <1>1, <1>5, <1>8
  <2>3. k - 1 \in 1 .. Len(q)
    <3>1. PICK n \in Nat : n = Len(q)
      BY <1>1
    <3>2. k \in 1 .. n /\ n # 1 /\ (k # 1 \/ k = n)
      BY <1>2, <1>8, <2>2, <3>1
    <3>3. k - 1 \in 1 .. n
      BY <3>2
    <3>4. QED
      BY <3>1, <3>3
  <2>4. QED
    BY <2>1, <2>2, <2>3
<1>9. QED
  BY <1>6, <1>7, <1>8

(* Where t stops being served it leaves its list, and the task that is woken *)
(* waits in line in that list.                                               *)
LEMMA CompleteEffect ==
  ASSUME DInv, NEW t \in Task, pc[t] \in {"io", "done"}, t \notin blocked, Complete(t),
         NEW d, d = req[t].dev, NEW q, q = request_list[d], NEW u, u = NextRequest(d, t)
  PROVE  /\ d \in Dev /\ q \in Seq(Task) /\ Contains(q, t)
         /\ \A x \in Task : x # t /\ Contains(q, x) => InLine(x)
         /\ Len(q) = 1 => u = NULL
         /\ Len(q) # 1 => u \in Task /\ u # t /\ Contains(q, u)
         /\ \A x \in Task : x # t => (InLine(x)' <=> InLine(x) /\ x # u)
         /\ request_list'[d] = Without(q, t)
         /\ \A e \in Dev : e # d => request_list'[e] = request_list[e]
<1>1. Types /\ ListInv /\ OneServed
  BY DEF DInv
<1>2. d \in Dev
  BY <1>1 DEF ListInv, Requests
<1>3. q \in Seq(Task) /\ Contains(q, t)
  BY <1>1, <1>2 DEF Types, ListInv
<1>4. ~ InLine(t)
  BY DEF InLine
<1>5. \A x \in Task : x # t /\ Contains(q, x) => InLine(x)
  BY <1>1, <1>2, <1>3, <1>4, ServedAlone DEF Types
<1>6. Len(q) = 1 => u = NULL
  BY <1>2, <1>3, Neighbour
<1>7. Len(q) # 1 => u \in Task /\ u # t /\ Contains(q, u)
  <2>1. SUFFICES ASSUME Len(q) # 1 PROVE u \in Task /\ u # t /\ Contains(q, u)
    OBVIOUS
  <2>2. PICK k : k = Position(q, t)
    OBVIOUS
  <2>3. k \in 1 .. Len(q) /\ q[k] = t
    BY <1>3, <2>2, PositionFound
  <2>4. \/ u = q[k + 1] /\ k + 1 \in 1 .. Len(q)
        \/ u = q[k - 1] /\ k - 1 \in 1 .. Len(q)
    BY <1>2, <1>3, <2>1, <2>2, Neighbour
  <2>5. PICK j \in 1 .. Len(q) : u = q[j] /\ j # k
    BY <1>3, <2>3, <2>4
  <2>6. \A x, y \in 1 .. Len(q) : q[x] = q[y] => x = y
    BY <1>1, <1>2 DEF ListInv, NoRepeat
  <2>7. QED
    BY <1>3, <2>3, <2>5, <2>6 DEF Contains
<1>8. /\ request_list' = [request_list EXCEPT ![d] = Without(q, t)]
      /\ blocked' = blocked \ ({u} \ {NULL})
      /\ pc' = [pc EXCEPT ![t] = "out"]
  BY DEF Complete, Wakeup
<1>9. \A x \in Task : x # t => (InLine(x)' <=> InLine(x) /\ x # u)
  BY <1>1, <1>8, TaskAssumption DEF InLine, Types, TypeOK
<1>10. request_list'[d] = Without(q, t) /\ \A e \in Dev : e # d => request_list'[e] = request_list[e]
  BY <1>1, <1>2, <1>8 DEF Types
<1>11. QED
  BY <1>2, <1>3, <1>5, <1>6, <1>7, <1>9, <1>10

(* The end of a request keeps what is said of the lists. *)
LEMMA CompleteLists ==
  ASSUME DInv, NEW t \in Task, pc[t] \in {"io", "done"}, t \notin blocked, Complete(t)
  PROVE  /\ request_list' \in [Dev -> Seq(Task)] /\ direction' \in [Dev -> {"IN", "OUT"}]
         /\ req' \in [Task -> Requests \cup {NoReq}] /\ blocked' \subseteq Task
         /\ ListInv' /\ OneServed' /\ ListsSorted'
         /\ pc' = [pc EXCEPT ![t] = "out"]
         /\ \A x \in Task : x \in blocked' <=> x \in blocked /\ ~ (pc[x] = "queued" /\ x \notin blocked')
<1> DEFINE d == req[t].dev
<1> DEFINE q == request_list[d]
<1> DEFINE u == NextRequest(d, t)
<1> DEFINE r == Without(q, t)
<1>1. Types /\ ListInv /\ OneServed /\ ListsSorted
  BY DEF DInv
<1>2. /\ d \in Dev /\ q \in Seq(Task) /\ Contains(q, t)
      /\ \A x \in Task : x # t /\ Contains(q, x) => InLine(x)
      /\ Len(q) = 1 => u = NULL
      /\ Len(q) # 1 => u \in Task /\ u # t /\ Contains(q, u)
      /\ \A x \in Task : x # t => (InLine(x)' <=> InLine(x) /\ x # u)
      /\ request_list'[d] = r
      /\ \A e \in Dev : e # d => request_list'[e] = request_list[e]
  BY CompleteEffect
<1>3. /\ direction' = [direction EXCEPT ![d] = NewDirection(d, t)]
      /\ request_list' = [request_list EXCEPT ![d] = r]
      /\ blocked' = blocked \ ({u} \ {NULL})
      /\ req' = [req EXCEPT ![t] = NoReq]
      /\ pc' = [pc EXCEPT ![t] = "out"]
  BY DEF Complete, Wakeup
<1>4. NewDirection(d, t) \in {"IN", "OUT"}
  BY <1>1, <1>2 DEF NewDirection, Types, TypeOK
<1>5. NoRepeat(q)
  BY <1>1, <1>2 DEF ListInv
<1> HIDE DEF u, d, q, r
<1>6. \A x \in Task : Contains(r, x) <=> x # t /\ Contains(q, x)
  BY <1>2, <1>5, WithoutElements DEF r
<1>7. NoRepeat(r)
  BY <1>2, <1>5, WithoutElements DEF r
<1>8. PICK k : k = Position(q, t)
  OBVIOUS
<1>9. /\ r \in Seq(Task) /\ Len(r) = Len(q) - 1
      /\ \A x \in 1 .. Len(r) : r[x] = IF x < k THEN q[x] ELSE q[x + 1]
  BY <1>2, <1>8, WithoutForm DEF r
<1>10. Len(q) \in Nat /\ k \in 1 .. Len(q)
  BY <1>2, <1>8, PositionFound
<1>11. /\ request_list' \in [Dev -> Seq(Task)] /\ direction' \in [Dev -> {"IN", "OUT"}]
       /\ req' \in [Task -> Requests \cup {NoReq}] /\ blocked' \subseteq Task
  BY <1>1, <1>2, <1>3, <1>4, <1>9 DEF Types, TypeOK
<1>12. /\ pc'[t] = "out" /\ req'[t] = NoReq
       /\ \A x \in Task : x # t => pc'[x] = pc[x] /\ req'[x] = req[x]
  BY <1>1, <1>3 DEF Types, TypeOK
<1>13. ASSUME NEW e \in Dev, NEW x \in Task
       PROVE  Contains(request_list'[e], x) <=> x # t /\ Contains(request_list[e], x)
  <2>1. CASE e = d
    BY <1>2, <1>6, <2>1 DEF q
  <2>2. CASE e # d
    BY <1>1, <1>2, <2>2 DEF ListInv, d
  <2>3. QED
    BY <2>1, <2>2
<1>14. ListInv'
  <2>1. \A e \in Dev : NoRepeat(request_list'[e])
    BY <1>1, <1>2, <1>7 DEF ListInv
  <2>2. \A e \in Dev, x \in Task : Contains(request_list'[e], x) <=> pc'[x] # "out" /\ req'[x].dev = e
    BY <1>1, <1>12, <1>13 DEF ListInv
  <2>3. \A x \in Task : pc'[x] # "out" => req'[x] \in Requests
    BY <1>1, <1>12 DEF ListInv
  <2>4. QED
    BY <2>1, <2>2, <2>3 DEF ListInv
<1>15. OneServed'
  <2>1. ASSUME NEW e \in Dev, request_list'[e] # <<>>
        PROVE  \E x \in Task :
                  /\ Contains(request_list'[e], x) /\ ~ InLine(x)'
                  /\ \A y \in Task \ {x} : Contains(request_list'[e], y) => InLine(y)'
    <3>1. CASE e = d
      <4>1. Len(q) # 1
        <5>1. Len(r) # 0
          BY <1>2, <1>9, <2>1, <3>1
        <5>2. QED
          BY <1>9, <1>10, <5>1
      <4>2. PICK v \in Task : v = u /\ v # t /\ Contains(q, v)
        BY <1>2, <4>1
      <4>3. Contains(request_list'[e], v) /\ ~ InLine(v)'
        BY <1>2, <1>6, <3>1, <4>2
      <4>4. \A y \in Task \ {v} : Contains(request_list'[e], y) => InLine(y)'
        BY <1>2, <1>6, <3>1, <4>2
      <4>5. QED
        BY <4>3, <4>4
    <3>2. CASE e # d
      <4>1. PICK x \in Task :
               /\ Contains(request_list[e], x) /\ ~ InLine(x)
               /\ \A y \in Task \ {x} : Contains(request_list[e], y) => InLine(y)
        BY <1>1, <1>2, <2>1, <3>2 DEF OneServed
      <4>2. \A y \in Task : Contains(request_list[e], y) => y # t /\ y # u
        <5>1. \A y \in Task : Contains(request_list[e], y) => ~ Contains(q, y)
          BY <1>1, <1>2, <3>2 DEF ListInv, q
        <5>2. QED
          BY <1>2, <5>1, TaskAssumption
      <4>3. QED
        BY <1>2, <1>13, <4>1, <4>2
    <3>3. QED
      BY <3>1, <3>2
  <2>2. QED
    BY <2>1 DEF OneServed
<1>16. ListsSorted'
  <2>1. ASSUME NEW e \in Dev, NEW x \in 1 .. Len(request_list'[e]), NEW y \in 1 .. Len(request_list'[e]),
               x <= y
        PROVE  req'[request_list'[e][x]].idx <= req'[request_list'[e][y]].idx
    <3>1. /\ request_list'[e][x] \in Task /\ Contains(request_list'[e], request_list'[e][x])
          /\ request_list'[e][y] \in Task /\ Contains(request_list'[e], request_list'[e][y])
      BY <1>11 DEF Contains
    <3>2. /\ req'[request_list'[e][x]] = req[request_list'[e][x]]
          /\ req'[request_list'[e][y]] = req[request_list'[e][y]]
      BY <1>12, <1>13, <3>1
    <3>3. CASE e # d
      BY <1>1, <1>2, <2>1, <3>2, <3>3 DEF ListsSorted
    <3>4. CASE e = d
      <4>1. \A w, z \in 1 .. Len(q) : w <= z => req[q[w]].idx <= req[q[z]].idx
        BY <1>1, <1>2 DEF ListsSorted, q
      <4>2. PICK w \in 1 .. Len(q) : r[x] = q[w] /\ w = IF x < k THEN x ELSE x + 1
        BY <1>2, <1>9, <1>10, <3>4
      <4>3. PICK z \in 1 .. Len(q) : r[y] = q[z] /\ z = IF y < k THEN y ELSE y + 1
        BY <1>2, <1>9, <1>10, <3>4
      <4>4. w <= z
        BY <1>10, <2>1, <4>2, <4>3
      <4>5. QED
        BY SMTT(30), <1>2, <3>2, <3>4, <4>1, <4>2, <4>3, <4>4
    <3>5. QED
      BY <3>3, <3>4
  <2>2. QED
    BY <2>1 DEF ListsSorted
<1>17. \A x \in Task : x \in blocked' <=> x \in blocked /\ ~ (pc[x] = "queued" /\ x \notin blocked')
  <2>1. u = NULL \/ (u \in Task /\ pc[u] = "queued")
    BY <1>2 DEF InLine
  <2>2. QED
    BY <1>3, <2>1, TaskAssumption
<1>18. QED
  BY <1>3, <1>11, <1>14, <1>15, <1>16, <1>17

(* The last sector, and back from the yield. *)
LEMMA CompleteDInv ==
  ASSUME NEW t \in Task, DInv, LastSector(t) \/ Finish(t)
  PROVE  DInv'
<1>1. Types /\ BusInv
  BY DEF DInv
<1>2. /\ pc[t] \in {"io", "done"} /\ t \notin blocked /\ Complete(t)
      /\ UNCHANGED <<lock_waiters, waiter, active, owed>>
      /\ IF pc[t] = "io" THEN holder' = NULL ELSE holder' = holder
  <2>1. CASE LastSector(t)
    BY <2>1 DEF LastSector, Ready
  <2>2. CASE Finish(t)
    BY <1>1, <2>2 DEF Finish, BusInv
  <2>3. QED
    BY <2>1, <2>2
<1>3. /\ request_list' \in [Dev -> Seq(Task)] /\ direction' \in [Dev -> {"IN", "OUT"}]
      /\ req' \in [Task -> Requests \cup {NoReq}] /\ blocked' \subseteq Task
      /\ ListInv' /\ OneServed' /\ ListsSorted'
      /\ pc' = [pc EXCEPT ![t] = "out"]
      /\ \A x \in Task : x \in blocked' <=> x \in blocked /\ ~ (pc[x] = "queued" /\ x \notin blocked')
  BY <1>2, CompleteLists
<1>4. pc \in [Task -> {"out", "queued", "lock", "io", "done"}]
  BY <1>1 DEF Types, TypeOK
<1>5. Types'
  <2>1. pc' \in [Task -> {"out", "queued", "lock", "io", "done"}]
    BY <1>3, <1>4
  <2>2. \A d \in Dev : request_list'[d] \in Seq(Task)
    BY <1>3
  <2>3. holder' \in Task \cup {NULL}
    BY <1>1, <1>2 DEF Types, TypeOK
  <2>4. QED
    BY <1>1, <1>2, <1>3, <2>1, <2>2, <2>3 DEF Types, TypeOK
<1>6. pc'[t] = "out" /\ \A x \in Task : x # t => pc'[x] = pc[x]
  BY <1>3, <1>4
<1>7. BusInv'
  <2>1. \A x \in Task : Contains(lock_waiters', x) => pc'[x] = "lock"
    BY <1>1, <1>2, <1>6 DEF BusInv
  <2>2. \A x \in blocked' : pc'[x] \in {"queued", "io"}
    BY <1>1, <1>2, <1>3, <1>6 DEF BusInv
  <2>3. \A x \in Task : pc'[x] = "io" <=> holder' = x
    BY <1>1, <1>2, <1>6, TaskAssumption DEF BusInv
  <2>4. holder' # NULL => active' = holder'
    BY <1>1, <1>2 DEF BusInv
  <2>5. InterruptFindsWaiter'
    BY <1>1, <1>2, <1>3, <1>6 DEF BusInv, InterruptFindsWaiter
  <2>6. QED
    BY <1>1, <1>2, <2>1, <2>2, <2>3, <2>4, <2>5 DEF BusInv
<1>8. QED
  BY <1>3, <1>5, <1>7 DEF DInv

(* Steps of the rest of the kernel leave the disk alone. *)
LEMMA StutterDInv == ASSUME DInv, UNCHANGED vars PROVE DInv'
<1>1. Types' /\ BusInv' /\ ListInv'
  BY DEF DInv, vars, Types, TypeOK, BusInv, InterruptFindsWaiter, ListInv
<1>2. \A u \in Task : InLine(u)' <=> InLine(u)
  BY DEF InLine, vars
<1>3. OneServed' /\ ListsSorted'
  BY <1>2, ServedFrame DEF DInv, vars, ListsSorted
<1>4. QED
  BY <1>1, <1>3 DEF DInv

(* Every step keeps the invariant. *)
LEMMA NextDInv == DInv /\ [Next]_vars => DInv'
<1> SUFFICES ASSUME DInv, [Next]_vars PROVE DInv'
  OBVIOUS
<1>1. ASSUME NEW t \in Task, Ask(t) PROVE DInv'
  BY <1>1, RequestIdleDInv, RequestBusyDInv DEF Ask
<1>2. ASSUME NEW t \in Task, Go(t) PROVE DInv'
  BY <1>2, StartIoDInv, NextSectorDInv, LastSectorYieldDInv, CompleteDInv DEF Go
<1>3. CASE ata_handler \/ DriveError
  BY <1>3, InterruptDInv
<1>4. CASE UNCHANGED vars
  BY <1>4, StutterDInv
<1>5. QED
  BY <1>1, <1>2, <1>3, <1>4 DEF Next

-----------------------------------------------------------------------------
(* The theorems. *)

(* The invariant holds in every reachable state. *)
THEOREM DiskInvariance == Spec => []DInv
<1>1. Init => DInv
  BY InitDInv
<1>2. DInv /\ [Next]_vars => DInv'
  BY NextDInv
<1>3. QED
  BY <1>1, <1>2, PTL DEF Spec

(* Every variable of the block device model keeps its type. *)
THEOREM DiskTypes == Spec => []TypeOK
<1>1. DInv => TypeOK
  BY DEF DInv, Types
<1>2. QED
  BY <1>1, DiskInvariance, PTL

(* dev_request: of the requests of a device exactly one is being served. *)
THEOREM DiskServesOne == Spec => []OneServed
<1>1. DInv => OneServed
  BY DEF DInv
<1>2. QED
  BY <1>1, DiskInvariance, PTL

(* bus->lock: a task that moves data does so for its own command. *)
THEOREM DiskOwnCommand == Spec => []OwnCommand
<1>1. DInv => OwnCommand
  BY TaskAssumption DEF DInv, BusInv, OwnCommand
<1>2. QED
  BY <1>1, DiskInvariance, PTL

(* ata_handler wakes a task that is blocked, and the one that waits for it. *)
THEOREM DiskInterrupt == Spec => []InterruptFindsWaiter
<1>1. DInv => InterruptFindsWaiter
  BY DEF DInv, BusInv
<1>2. QED
  BY <1>1, DiskInvariance, PTL

(* list_insert_sort and list_remove keep the request lists in order. *)
THEOREM DiskSorted == Spec => []ListsSorted
<1>1. DInv => ListsSorted
  BY DEF DInv
<1>2. QED
  BY <1>1, DiskInvariance, PTL

(* A request leaves its list only when dev_request has finished with it. *)
LEMMA Leaves ==
  ASSUME DInv, Next, NEW d \in Dev, NEW t \in Task,
         Contains(request_list[d], t), ~ Contains(request_list'[d], t)
  PROVE  d = req[t].dev /\ (LastSector(t) \/ Finish(t))
<1>1. DInv'
  BY NextDInv
<1>2. /\ pc[t] # "out" /\ req[t].dev = d /\ req[t] \in Requests
      /\ pc \in [Task -> {"out", "queued", "lock", "io", "done"}]
      /\ req \in [Task -> Requests \cup {NoReq}]
  BY DEF DInv, ListInv, Types, TypeOK
<1>3. ~ (pc'[t] # "out" /\ req'[t].dev = d)
  BY <1>1 DEF DInv, ListInv
<1>4. ASSUME NEW v \in Task, Ask(v) PROVE FALSE
  <2>1. PICK e \in Dev, i \in Lba, n \in 1 .. MaxCount : RequestIdle(v, e, i, n) \/ RequestBusy(v, e, i, n)
    BY <1>4 DEF Ask
  <2>2. pc[v] = "out" /\ \E r : req' = [req EXCEPT ![v] = r]
    BY <2>1 DEF RequestIdle, RequestBusy
  <2>3. pc' = [pc EXCEPT ![v] = "io"] \/ pc' = [pc EXCEPT ![v] = "lock"] \/ pc' = [pc EXCEPT ![v] = "queued"]
    BY <2>1 DEF RequestIdle, RequestBusy, PioStart
  <2>4. pc'[t] = pc[t] /\ req'[t] = req[t]
    BY <1>2, <2>2, <2>3
  <2>5. QED
    BY <1>2, <1>3, <2>4
<1>5. ASSUME NEW v \in Task, StartIo(v) PROVE FALSE
  <2>1. pc' = [pc EXCEPT ![v] = "io"] \/ pc' = [pc EXCEPT ![v] = "lock"]
    BY <1>5 DEF StartIo, PioStart
  <2>2. req' = req
    BY <1>5 DEF StartIo
  <2>3. QED
    BY <1>2, <1>3, <2>1, <2>2
<1>6. ASSUME NEW v \in Task, NextSector(v) PROVE FALSE
  BY <1>2, <1>3, <1>6 DEF NextSector, Requests
<1>7. ASSUME NEW v \in Task, LastSectorYield(v) PROVE FALSE
  <2>1. pc' = [pc EXCEPT ![v] = "done"] /\ req' = [req EXCEPT ![v].left = 0]
    BY <1>7 DEF LastSectorYield
  <2>2. pc'[t] # "out"
    BY <1>2, <2>1
  <2>3. req'[t].dev = d
    BY <1>2, <2>1 DEF Requests
  <2>4. QED
    BY <1>3, <2>2, <2>3
<1>8. ASSUME NEW v \in Task, LastSector(v) \/ Finish(v) PROVE v = t
  <2>1. pc' = [pc EXCEPT ![v] = "out"] /\ req' = [req EXCEPT ![v] = NoReq]
    BY <1>8 DEF LastSector, Finish, Complete
  <2>2. QED
    BY <1>2, <1>3, <2>1
<1>9. ~ ata_handler /\ ~ DriveError
  BY <1>2, <1>3 DEF ata_handler, DriveError
<1>10. QED
  BY <1>2, <1>4, <1>5, <1>6, <1>7, <1>8, <1>9 DEF Next, Go

(* Of a sorted list, the neighbour of a request is the nearest one on its    *)
(* side, and beyond the last one there is none.                              *)
LEMMA NearestIsNeighbour ==
  ASSUME DInv, NEW d \in Dev, NEW q, q = request_list[d],
         NEW k \in 1 .. Len(q), NEW j \in 1 .. Len(q), NEW x \in 1 .. Len(q), x # k,
         \/ j = k + 1 /\ (direction[d] = "OUT" \/ k = 1)
         \/ j = k - 1 /\ (direction[d] = "IN" \/ k = Len(q))
  PROVE  /\ ~ (Ahead(d, q[k], q[x]) /\ Ahead(d, q[x], q[j]))
         /\ Ahead(d, q[j], q[k]) =>
              ~ Ahead(d, q[k], q[x]) /\ ~ (Ahead(d, q[j], q[x]) /\ Ahead(d, q[x], q[k]))
<1>1. q \in Seq(Task) /\ Len(q) \in Nat /\ direction[d] \in {"IN", "OUT"}
  BY DEF DInv, Types, TypeOK
<1>2. \A y, z \in 1 .. Len(q) : y <= z => req[q[y]].idx <= req[q[z]].idx
  BY DEF DInv, ListsSorted
<1>3. \A y \in 1 .. Len(q) : req[q[y]].idx \in Nat
  <2>1. ASSUME NEW y \in 1 .. Len(q) PROVE req[q[y]] \in Requests
    <3>1. q[y] \in Task /\ Contains(request_list[d], q[y])
      BY <1>1 DEF Contains
    <3>2. QED
      BY <3>1 DEF DInv, ListInv
  <2>2. QED
    BY <2>1, LbaAssumption DEF Requests
<1>4. PICK a, b, c \in Nat : a = req[q[k]].idx /\ b = req[q[j]].idx /\ c = req[q[x]].idx
  BY <1>3
<1>5. /\ k <= x => a <= c /\ (j = k + 1 => b <= c)
      /\ x <= k => c <= a /\ (j = k - 1 => c <= b)
      /\ j = k + 1 => a <= b
      /\ j = k - 1 => b <= a
  <2>1. k \in Int /\ x \in Int /\ j \in Int
    OBVIOUS
  <2>2. k <= x => a <= c /\ (j = k + 1 => b <= c)
    <3>1. k <= x /\ j = k + 1 => j <= x
      BY <2>1
    <3>2. QED
      BY <1>2, <1>4, <3>1
  <2>3. x <= k => c <= a /\ (j = k - 1 => c <= b)
    <3>1. x <= k /\ j = k - 1 => x <= j
      BY <2>1
    <3>2. QED
      BY <1>2, <1>4, <3>1
  <2>4. (j = k + 1 => a <= b) /\ (j = k - 1 => b <= a)
    <3>1. (j = k + 1 => k <= j) /\ (j = k - 1 => j <= k)
      BY <2>1
    <3>2. QED
      BY <1>2, <1>4, <3>1
  <2>5. QED
    BY <2>2, <2>3, <2>4
<1>6. (k <= x \/ x <= k) /\ (k = 1 => k <= x) /\ (k = Len(q) => x <= k)
  BY <1>1
<1>7. CASE direction[d] = "OUT"
  <2>1. /\ Ahead(d, q[k], q[x]) <=> a < c
        /\ Ahead(d, q[x], q[j]) <=> c < b
        /\ Ahead(d, q[j], q[k]) <=> b < a
        /\ Ahead(d, q[j], q[x]) <=> b < c
        /\ Ahead(d, q[x], q[k]) <=> c < a
    BY <1>4, <1>7 DEF Ahead
  <2>2. j = k + 1 \/ (j = k - 1 /\ x <= k)
    BY <1>6, <1>7
  <2>3. QED
    BY <1>5, <1>6, <2>1, <2>2
<1>8. CASE direction[d] = "IN"
  <2>1. /\ Ahead(d, q[k], q[x]) <=> c < a
        /\ Ahead(d, q[x], q[j]) <=> b < c
        /\ Ahead(d, q[j], q[k]) <=> a < b
        /\ Ahead(d, q[j], q[x]) <=> c < b
        /\ Ahead(d, q[x], q[k]) <=> a < c
    BY <1>4, <1>8 DEF Ahead
  <2>2. j = k - 1 \/ (j = k + 1 /\ k <= x)
    BY <1>6, <1>8
  <2>3. QED
    BY <1>5, <1>6, <2>1, <2>2
<1>9. QED
  BY <1>1, <1>7, <1>8

(* Every step of the model serves the requests in the order of the elevator. *)
LEMMA NextScans ==
  ASSUME DInv, Next
  PROVE  ScanStep
<1> SUFFICES ASSUME NEW d \in Dev, NEW t \in Task, NEW u \in Task, Follows(d, t, u),
                    NEW x \in Task, Contains(request_list'[d], x)
             PROVE  /\ ~ (Ahead(d, t, x) /\ Ahead(d, x, u))
                    /\ Ahead(d, u, t) => ~ Ahead(d, t, x) /\ ~ (Ahead(d, u, x) /\ Ahead(d, x, t))
  BY DEF ScanStep
<1>1. /\ Contains(request_list[d], t) /\ ~ Contains(request_list'[d], t)
      /\ InLine(u) /\ ~ InLine(u)' /\ Contains(request_list'[d], u)
  BY DEF Follows
<1>2. d = req[t].dev /\ (LastSector(t) \/ Finish(t))
  BY <1>1, Leaves
<1>3. pc[t] \in {"io", "done"} /\ t \notin blocked /\ Complete(t)
  <2>1. CASE LastSector(t)
    BY <2>1 DEF LastSector, Ready
  <2>2. CASE Finish(t)
    BY <2>2 DEF Finish, DInv, BusInv
  <2>3. QED
    BY <1>2, <2>1, <2>2
<1>4. PICK q : q = request_list[d]
  OBVIOUS
<1>5. PICK v : v = NextRequest(d, t)
  OBVIOUS
<1>6. /\ q \in Seq(Task) /\ Contains(q, t)
      /\ Len(q) = 1 => v = NULL
      /\ Len(q) # 1 => v \in Task /\ v # t /\ Contains(q, v)
      /\ \A y \in Task : y # t => (InLine(y)' <=> InLine(y) /\ y # v)
      /\ request_list'[d] = Without(q, t)
  BY <1>2, <1>3, <1>4, <1>5, CompleteEffect
<1>7. u = v /\ Len(q) # 1
  <2>1. u # t
    BY <1>1, <1>3 DEF InLine
  <2>2. QED
    BY <1>1, <1>6, <2>1, TaskAssumption
<1>8. x # t /\ Contains(q, x)
  <2>1. NoRepeat(q)
    BY <1>4 DEF DInv, ListInv
  <2>2. QED
    BY <1>6, <2>1, WithoutElements
<1>9. PICK k : k = Position(q, t)
  OBVIOUS
<1>10. k \in 1 .. Len(q) /\ q[k] = t
  BY <1>6, <1>9, PositionFound
<1>11. PICK y \in 1 .. Len(q) : q[y] = x /\ y # k
  BY <1>8, <1>10 DEF Contains
<1>12. \/ v = q[k + 1] /\ k + 1 \in 1 .. Len(q) /\ (direction[d] = "OUT" \/ k = 1)
       \/ v = q[k - 1] /\ k - 1 \in 1 .. Len(q) /\ (direction[d] = "IN" \/ k = Len(q))
  BY <1>4, <1>5, <1>6, <1>7, <1>9, Neighbour
<1>13. PICK j \in 1 .. Len(q) :
          /\ q[j] = u
          /\ \/ j = k + 1 /\ (direction[d] = "OUT" \/ k = 1)
             \/ j = k - 1 /\ (direction[d] = "IN" \/ k = Len(q))
  BY <1>7, <1>12
<1>14. QED
  BY <1>4, <1>10, <1>11, <1>13, NearestIsNeighbour

(* next_request: the elevator. *)
THEOREM DiskScans == Spec => Scan
<1>1. DInv /\ [Next]_vars => [ScanStep]_vars
  BY NextScans
<1>2. QED
  BY <1>1, DiskInvariance, PTL DEF Spec, Scan

=============================================================================
