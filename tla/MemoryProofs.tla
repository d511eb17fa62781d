---------------------------- MODULE MemoryProofs ----------------------------
(***************************************************************************)
(* Proofs about user memory: exact reference counts, private writable      *)
(* pages, separate address spaces, for any number of frames, pages and     *)
(* processes.                                                              *)
(***************************************************************************)
EXTENDS Memory, TLAPS, FiniteSetTheorems, WellFoundedInduction

-----------------------------------------------------------------------------
(* The invariant. *)

Pte == [frame : 0..FRAMES, write : BOOLEAN]

Memories == [memory_map : [0..FRAMES -> Nat],
             free_pages : Int,
             data       : [0..FRAMES -> 0..Junk],
             entries    : [0..FRAMES -> [1..ENTRIES -> Pte]],
             page_dir   : [Proc -> [Table -> 0..FRAMES]],
             paddr      : 0..FRAMES,
             tlb        : 0..FRAMES,
             halted     : {"no", "memory", "fault", "assert"},
             spoiled    : BOOLEAN]

Types ==
    /\ m \in Memories
    /\ alive \subseteq Proc
    /\ vmap \in [Proc -> SUBSET Page] /\ brk \in [Proc -> 0..HeapTop]
    /\ stores \in 0..MaxStores /\ wrote \in [Proc -> [Page -> 0..MaxStores]]

(* After these nothing is claimed; a step that fails an assert is not one. *)
Bad(x) == x.spoiled \/ x.halted \in {"memory", "fault"}

(* The entries of the processes A that lead to frame f; Mappings(f) is     *)
(* this set of the memory and the processes alive.                         *)
Users(x, A, f) == {r \in A \X Entry : Lead(x, r[1], r[2]) = f}

Writable(x, p, v) == Mapped(x, p, v) /\ pte(x, p, v).write

FreeOf(map) == {f \in Frame : map[f] = 0}

(* Counts are exact. *)
Counted(x, A) ==
    /\ \A f \in Frame : x.memory_map[f] = Cardinality(Users(x, A, f))
    /\ x.free_pages = Cardinality(FreeOf(x.memory_map))

(* A page table is in one place. *)
TablesPrivate(x, A) ==
    \A p, q \in A, i \in Table, e \in Entry :
        x.page_dir[p][i] # 0 /\ Lead(x, q, e) = x.page_dir[p][i] => q = p /\ e = 0 - i

(* A frame is at most once in an address space. *)
Once(x, A) ==
    \A p \in A, e, g \in Entry : Lead(x, p, e) # 0 /\ Lead(x, p, g) = Lead(x, p, e) => e = g

(* Only page tables have entries. *)
Plain(x, A) ==
    \A f \in Frame : (\A p \in A, i \in Table : x.page_dir[p][i] # f) => x.entries[f] = EmptyTable

(* The other processes have no memory. *)
Dirs(x, A) == \A p \in Proc \ A : x.page_dir[p] = NoTables

(* Copy-on-write. *)
WritesPrivate(x, A) ==
    \A p, q \in A, v, w \in Page :
        Writable(x, p, v) /\ Lead(x, q, w) = Lead(x, p, v) => q = p

Good(x, A) ==
    /\ x.halted = "no" /\ ~x.spoiled
    /\ Counted(x, A) /\ TablesPrivate(x, A) /\ Once(x, A)
    /\ Plain(x, A) /\ Dirs(x, A) /\ WritesPrivate(x, A)

(* The bitmap V of p marks the mapped pages, none beyond the heap size b. *)
Marked(x, p, V, b) ==
    /\ \A v \in Page : v \in V <=> Lead(x, p, v) # 0
    /\ \A v \in V : InStack(v) \/ v <= b

(* The words W that p stored are in its pages. *)
Kept(x, p, W) == \A v \in Page :
    W[v] # 0 => Lead(x, p, v) # 0 /\ x.data[Lead(x, p, v)] = W[v]

MInv ==
    /\ Types
    /\ \/ Bad(m)
       \/ /\ Good(m, alive)
          /\ \A p \in alive : Marked(m, p, vmap[p], brk[p]) /\ Kept(m, p, wrote[p])

-----------------------------------------------------------------------------
(* Numbers of pages and entries. *)

(* A page has a place in a page table and each place has one page. *)
LEMMA Indices ==
  /\ \A v \in Page : PDE_IDX(v) \in Table /\ PTE_IDX(v) \in 1..ENTRIES
  /\ \A v, w \in Page : PDE_IDX(v) = PDE_IDX(w) /\ PTE_IDX(v) = PTE_IDX(w) => v = w
  /\ \A i \in Table, k \in 1..ENTRIES : \E v \in Page : PDE_IDX(v) = i /\ PTE_IDX(v) = k
<1>0. ENTRIES \in Nat /\ ENTRIES > 0 /\ TABLES \in Nat /\ TABLES > 0
  BY MemoryAssumption
<1>1. \A a \in Nat : /\ a = ENTRIES * (a \div ENTRIES) + (a % ENTRIES)
                     /\ a % ENTRIES \in 0..(ENTRIES - 1)
                     /\ a \div ENTRIES \in Nat
  BY <1>0
<1>2. ASSUME NEW v \in Page
      PROVE  PDE_IDX(v) \in Table /\ PTE_IDX(v) \in 1..ENTRIES
  <2>1. v - 1 \in Nat /\ v - 1 < TABLES * ENTRIES
    BY <1>0 DEF Page
  <2>2. (v - 1) \div ENTRIES < TABLES
    <3> DEFINE d == (v - 1) \div ENTRIES
    <3>1. d \in Nat /\ ENTRIES * d <= v - 1
      BY <1>1, <2>1, <1>0
    <3> HIDE DEF d
    <3>2. ASSUME d >= TABLES PROVE FALSE
      <4>1. ENTRIES * d >= ENTRIES * TABLES
        BY <1>0, <3>1, <3>2
      <4>2. ENTRIES * TABLES = TABLES * ENTRIES /\ ENTRIES * TABLES \in Nat /\ ENTRIES * d \in Nat
        BY <1>0, <3>1
      <4> QED BY <4>1, <4>2, <3>1, <2>1
    <3>3. d < TABLES
      BY <3>1, <3>2, <1>0
    <3> QED BY <3>3 DEF d
  <2> QED BY <1>0, <1>1, <2>1, <2>2 DEF PDE_IDX, PTE_IDX, Table
<1>3. ASSUME NEW v \in Page, NEW w \in Page, PDE_IDX(v) = PDE_IDX(w), PTE_IDX(v) = PTE_IDX(w)
      PROVE  v = w
  <2>1. v - 1 \in Nat /\ w - 1 \in Nat /\ v \in Nat /\ w \in Nat
    BY <1>0 DEF Page
  <2>2. (v - 1) \div ENTRIES = (w - 1) \div ENTRIES /\ (v - 1) % ENTRIES = (w - 1) % ENTRIES
    BY <1>3, <2>1, <1>1 DEF PDE_IDX, PTE_IDX
  <2>3. v - 1 = w - 1
    BY <2>1, <2>2, <1>1
  <2> QED BY <2>3, <2>1
<1>4. ASSUME NEW i \in Table, NEW k \in 1..ENTRIES
      PROVE  \E v \in Page : PDE_IDX(v) = i /\ PTE_IDX(v) = k
  <2> DEFINE a == ENTRIES * (i - 1) + (k - 1)
             q == a \div ENTRIES
             r == a % ENTRIES
  <2>1. i \in Nat /\ i > 0 /\ i <= TABLES /\ k \in Nat /\ k > 0 /\ k <= ENTRIES
    BY <1>0 DEF Table
  <2>2. ENTRIES * (i - 1) \in Nat /\ a \in Nat
    BY <2>1, <1>0
  <2>3. a = ENTRIES * q + r /\ r \in 0..(ENTRIES - 1) /\ q \in Nat
    BY <2>2, <1>1
  <2>4. a + 1 \in Page
    <3>1. ENTRIES * (i - 1) + ENTRIES <= ENTRIES * TABLES
      <4>1. ENTRIES * (i - 1) + ENTRIES = ENTRIES * i
        BY <1>0, <2>1
      <4>2. ENTRIES * i <= ENTRIES * TABLES
        BY <1>0, <2>1
      <4> QED BY <4>1, <4>2
    <3>2. ENTRIES * TABLES = TABLES * ENTRIES /\ ENTRIES * TABLES \in Nat
      BY <1>0
    <3> QED BY <3>1, <3>2, <2>1, <2>2, <1>0 DEF Page
  <2>5. q = i - 1 /\ r = k - 1
    <3> HIDE DEF q, r
    <3>1. ENTRIES * q + r = ENTRIES * (i - 1) + (k - 1)
      BY <2>3
    <3>2. ASSUME q < i - 1 PROVE FALSE
      <4>1. ENTRIES * q + ENTRIES <= ENTRIES * (i - 1)
        <5>1. ENTRIES * q + ENTRIES = ENTRIES * (q + 1)
          BY <1>0, <2>3
        <5>2. ENTRIES * (q + 1) <= ENTRIES * (i - 1)
          BY <1>0, <2>1, <2>3, <3>2
        <5> QED BY <5>1, <5>2
      <4>2. ENTRIES * q \in Nat
        BY <1>0, <2>3
      <4> QED BY <3>1, <4>1, <4>2, <2>1, <2>2, <2>3, <1>0
    <3>3. ASSUME q > i - 1 PROVE FALSE
      <4>1. ENTRIES * (i - 1) + ENTRIES <= ENTRIES * q
        <5>1. ENTRIES * (i - 1) + ENTRIES = ENTRIES * i
          BY <1>0, <2>1
        <5>2. ENTRIES * i <= ENTRIES * q
          BY <1>0, <2>1, <2>3, <3>3
        <5> QED BY <5>1, <5>2
      <4>2. ENTRIES * q \in Nat
        BY <1>0, <2>3
      <4> QED BY <3>1, <4>1, <4>2, <2>1, <2>2, <2>3, <1>0
    <3>4. q = i - 1
      BY <3>2, <3>3, <2>1, <2>3
    <3> QED BY <3>1, <3>4, <2>1, <2>2, <2>3, <1>0
  <2>6. PDE_IDX(a + 1) = i /\ PTE_IDX(a + 1) = k
    <3>1. (a + 1) - 1 = a
      BY <2>2
    <3>2. PDE_IDX(a + 1) = q + 1 /\ PTE_IDX(a + 1) = r + 1
      BY <3>1 DEF PDE_IDX, PTE_IDX
    <3> QED BY <3>2, <2>5, <2>1
  <2> QED BY <2>4, <2>6
<1> QED BY <1>2, <1>3, <1>4

(* Entries are pages and, with a minus sign, page tables. *)
LEMMA Entries ==
  /\ Page \subseteq Entry
  /\ \A i \in Table : 0 - i \in Entry /\ 0 - i < 0 /\ 0 - (0 - i) = i
  /\ \A e \in Entry : e < 0 \/ e \in Page
  /\ \A e \in Entry : e < 0 => 0 - e \in Table /\ 0 - (0 - e) = e
  /\ \A v \in Page : ~(v < 0) /\ v # 0
  /\ \A v \in Page, i \in Table : v # 0 - i
  /\ IsFiniteSet(Entry)
<1>0. ENTRIES \in Nat /\ ENTRIES > 0 /\ TABLES \in Nat /\ TABLES > 0 /\ TABLES * ENTRIES \in Nat
  BY MemoryAssumption
<1> DEFINE n == TABLES * ENTRIES
<1>1. IsFiniteSet(Entry)
  <2>1. Entry \subseteq (0 - TABLES)..n
    BY DEF Entry
  <2>2. IsFiniteSet((0 - TABLES)..n)
    BY <1>0, FS_Interval
  <2> QED BY <2>1, <2>2, FS_Subset
<1>2. n \in Nat
  BY <1>0
<1> HIDE DEF n
<1>3. Page = 1..n /\ Entry = (0 - TABLES)..n \ {0}
  BY DEF Page, Entry, n
<1> QED BY <1>0, <1>1, <1>2, <1>3 DEF Table


-----------------------------------------------------------------------------
(* Sets and counts. *)

(* A nonempty set of naturals has a least element. *)
LEMMA MinExists ==
  ASSUME NEW S, S \subseteq Nat, S # {}
  PROVE  \E i \in S : \A j \in S : i <= j
<1> DEFINE R == OpToRel(<, Nat)
<1>1. IsWellFoundedOn(R, Nat)
  BY NatLessThanWellFounded
<1> HIDE DEF R
<1>2. PICK i \in S : \A j \in S : ~ (<<j, i>> \in R)
  BY <1>1, WFMin
<1>3. \A k, n \in Nat : <<k, n>> \in R <=> k < n
  <2>1. R = {ss \in Nat \X Nat : ss[1] < ss[2]}
    BY Zenon DEF R, OpToRel
  <2>2. QED
    BY <2>1
<1>4. ASSUME NEW j \in S PROVE i <= j
  <2>1. i \in Nat /\ j \in Nat
    OBVIOUS
  <2>2. ~ (j < i)
    BY <1>2, <1>3, <2>1
  <2>3. QED
    BY <2>1, <2>2
<1>5. QED
  BY <1>4

(* One element more. *)
LEMMA OneMore ==
  ASSUME NEW S, IsFiniteSet(S), NEW T, NEW z, z \notin S, \A r : r \in T <=> r \in S \/ r = z
  PROVE  /\ IsFiniteSet(T) /\ Cardinality(S) \in Nat
         /\ Cardinality(T) = Cardinality(S) + 1
<1>1. T = S \cup {z}
  OBVIOUS
<1> QED BY <1>1, FS_AddElement, FS_CardinalityType

(* Frames are numbered from 1 on. *)
LEMMA Frames ==
  /\ FRAMES \in Nat /\ Frame \subseteq 0..FRAMES /\ Frame \subseteq Nat
  /\ 0 \notin Frame /\ 0 \in 0..FRAMES
  /\ \A f \in 0..FRAMES : f # 0 => f \in Frame
BY MemoryAssumption DEF Frame

(* What Lead and Writable say of a page and of a page table. *)
LEMMA LeadIs ==
  ASSUME NEW x \in Memories, NEW p \in Proc
  PROVE  /\ \A e \in Entry : Lead(x, p, e) \in 0..FRAMES
         /\ \A i \in Table : x.page_dir[p][i] \in 0..FRAMES /\ Lead(x, p, 0 - i) = x.page_dir[p][i]
         /\ \A v \in Page :
              /\ pte(x, p, v) = x.entries[x.page_dir[p][PDE_IDX(v)]][PTE_IDX(v)]
              /\ pte(x, p, v) \in Pte
              /\ Lead(x, p, v) = IF x.page_dir[p][PDE_IDX(v)] = 0 THEN 0 ELSE pte(x, p, v).frame
              /\ Mapped(x, p, v) <=> Lead(x, p, v) # 0
              /\ Writable(x, p, v) <=> Lead(x, p, v) # 0 /\ pte(x, p, v).write
<1>1. \A i \in Table : x.page_dir[p][i] \in 0..FRAMES
  BY DEF Memories
<1>2. \A i \in Table : Lead(x, p, 0 - i) = x.page_dir[p][i]
  BY Entries, Zenon DEF Lead
<1>3. ASSUME NEW v \in Page
      PROVE  /\ pte(x, p, v) = x.entries[x.page_dir[p][PDE_IDX(v)]][PTE_IDX(v)]
             /\ pte(x, p, v) \in Pte
             /\ Lead(x, p, v) = IF x.page_dir[p][PDE_IDX(v)] = 0 THEN 0 ELSE pte(x, p, v).frame
             /\ Mapped(x, p, v) <=> Lead(x, p, v) # 0
             /\ Writable(x, p, v) <=> Lead(x, p, v) # 0 /\ pte(x, p, v).write
             /\ Lead(x, p, v) \in 0..FRAMES
  <2>1. PDE_IDX(v) \in Table /\ PTE_IDX(v) \in 1..ENTRIES /\ ~(v < 0)
    BY Indices, Entries
  <2>2. x.page_dir[p][PDE_IDX(v)] \in 0..FRAMES
    BY <1>1, <2>1
  <2>3. pte(x, p, v) \in Pte
    BY ZenonT(60), <2>1, <2>2 DEF pte, Memories
  <2>4. pte(x, p, v).frame \in 0..FRAMES
    BY <2>3 DEF Pte
  <2>5. 0 \in 0..FRAMES
    BY MemoryAssumption
  <2>6. Lead(x, p, v) = IF x.page_dir[p][PDE_IDX(v)] = 0 THEN 0 ELSE pte(x, p, v).frame
    BY <2>1 DEF Lead, Mapped
  <2>7. Mapped(x, p, v) <=> Lead(x, p, v) # 0
    BY <2>6 DEF Mapped
  <2> QED BY <2>3, <2>4, <2>5, <2>6, <2>7 DEF Writable, pte
<1>4. \A e \in Entry : Lead(x, p, e) \in 0..FRAMES
  <2> TAKE e \in Entry
  <2>1. CASE e \in Page
    BY <2>1, <1>3
  <2>2. CASE e < 0
    <3>1. 0 - e \in Table /\ 0 - (0 - e) = e
      BY <2>2, Entries
    <3> QED BY <3>1, <1>1, <1>2
  <2> QED BY <2>1, <2>2, Entries
<1> QED BY <1>1, <1>2, <1>3, <1>4

(* The entries that lead to a frame are finitely many. *)
LEMMA UsersFinite ==
  ASSUME NEW x, NEW A, A \subseteq Proc, NEW f
  PROVE  /\ IsFiniteSet(Users(x, A, f)) /\ Cardinality(Users(x, A, f)) \in Nat
         /\ \A r : r \in Users(x, A, f) <=> \E p \in A, e \in Entry : r = <<p, e>> /\ Lead(x, p, e) = f
<1>1. IsFiniteSet(A)
  BY FS_Subset, MemoryAssumption
<1>2. IsFiniteSet(A \X Entry)
  BY <1>1, Entries, FS_Product
<1>3. IsFiniteSet(Users(x, A, f))
  BY <1>2, FS_Subset DEF Users
<1>4. Cardinality(Users(x, A, f)) \in Nat
  BY <1>3, FS_CardinalityType
<1>5. ASSUME NEW r
      PROVE  r \in Users(x, A, f) <=> \E p \in A, e \in Entry : r = <<p, e>> /\ Lead(x, p, e) = f
  <2>1. ASSUME r \in Users(x, A, f)
        PROVE  \E p \in A, e \in Entry : r = <<p, e>> /\ Lead(x, p, e) = f
    <3>1. r \in A \X Entry /\ Lead(x, r[1], r[2]) = f
      BY <2>1 DEF Users
    <3>2. PICK p \in A, e \in Entry : r = <<p, e>>
      BY <3>1
    <3>3. r[1] = p /\ r[2] = e
      BY <3>2
    <3> QED BY <3>1, <3>2, <3>3
  <2>2. ASSUME NEW p \in A, NEW e \in Entry, r = <<p, e>>, Lead(x, p, e) = f
        PROVE  r \in Users(x, A, f)
    <3>1. r[1] = p /\ r[2] = e /\ r \in A \X Entry
      BY <2>2
    <3> QED BY <3>1, <2>2 DEF Users
  <2> QED BY <2>1, <2>2
<1> QED BY <1>3, <1>4, <1>5

(* The same entries, the same count. *)
LEMMA UsersSame ==
  ASSUME NEW x, NEW y, NEW A, A \subseteq Proc, NEW f,
         \A p \in A, e \in Entry : Lead(x, p, e) = f <=> Lead(y, p, e) = f
  PROVE  Users(y, A, f) = Users(x, A, f)
<1>1. \A r : r \in Users(y, A, f) <=> r \in Users(x, A, f)
  BY UsersFinite
<1> QED BY <1>1

(* One entry more, one count more. *)
LEMMA UsersPlus ==
  ASSUME NEW x, NEW y, NEW A, A \subseteq Proc, NEW f, NEW p \in A, NEW e \in Entry,
         Lead(x, p, e) # f, Lead(y, p, e) = f,
         \A q \in A, g \in Entry : ~(q = p /\ g = e) => (Lead(x, q, g) = f <=> Lead(y, q, g) = f)
  PROVE  Cardinality(Users(y, A, f)) = Cardinality(Users(x, A, f)) + 1
<1> DEFINE S == Users(x, A, f)
           T == Users(y, A, f)
           z == <<p, e>>
<1>1. IsFiniteSet(S)
  BY UsersFinite
<1>2. \A r : r \in S <=> \E q \in A, g \in Entry : r = <<q, g>> /\ Lead(x, q, g) = f
  BY UsersFinite
<1>3. \A r : r \in T <=> \E q \in A, g \in Entry : r = <<q, g>> /\ Lead(y, q, g) = f
  BY UsersFinite
<1> HIDE DEF S, T
<1>4. z \notin S
  <2> SUFFICES ASSUME z \in S PROVE FALSE
    OBVIOUS
  <2>1. PICK q \in A, g \in Entry : z = <<q, g>> /\ Lead(x, q, g) = f
    BY <1>2
  <2>2. q = p /\ g = e
    BY <2>1
  <2> QED BY <2>1, <2>2
<1>5. ASSUME NEW r PROVE r \in T <=> r \in S \/ r = z
  <2>1. ASSUME r \in T PROVE r \in S \/ r = z
    <3>1. PICK q \in A, g \in Entry : r = <<q, g>> /\ Lead(y, q, g) = f
      BY <2>1, <1>3
    <3>2. CASE q = p /\ g = e
      BY <3>1, <3>2
    <3>3. CASE ~(q = p /\ g = e)
      BY <3>1, <3>3, <1>2
    <3> QED BY <3>2, <3>3
  <2>2. ASSUME r \in S PROVE r \in T
    <3>1. PICK q \in A, g \in Entry : r = <<q, g>> /\ Lead(x, q, g) = f
      BY <2>2, <1>2
    <3>2. ~(q = p /\ g = e)
      BY <3>1
    <3> QED BY <3>1, <3>2, <1>3
  <2>3. z \in T
    BY <1>3
  <2> QED BY <2>1, <2>2, <2>3
<1>6. Cardinality(T) = Cardinality(S) + 1
  BY <1>1, <1>4, <1>5, OneMore
<1> QED BY <1>6 DEF S, T


(* An entry leads to a frame that is counted; a count of one is one entry. *)
LEMMA CountFacts ==
  ASSUME NEW x \in Memories, NEW A, A \subseteq Proc, Counted(x, A)
  PROVE  /\ \A p \in A, e \in Entry : Lead(x, p, e) # 0 =>
              Lead(x, p, e) \in Frame /\ x.memory_map[Lead(x, p, e)] > 0
         /\ \A p, q \in A, e, g \in Entry :
              /\ Lead(x, p, e) # 0 /\ Lead(x, q, g) = Lead(x, p, e)
              /\ x.memory_map[Lead(x, p, e)] = 1
              => q = p /\ g = e
<1>1. ASSUME NEW p \in A, NEW e \in Entry, Lead(x, p, e) # 0
      PROVE  /\ Lead(x, p, e) \in Frame /\ x.memory_map[Lead(x, p, e)] > 0
             /\ <<p, e>> \in Users(x, A, Lead(x, p, e))
  <2> DEFINE f == Lead(x, p, e)
  <2>1. f \in Frame
    BY <1>1, LeadIs, MemoryAssumption DEF Frame
  <2>2. <<p, e>> \in Users(x, A, f)
    BY UsersFinite
  <2>3. IsFiniteSet(Users(x, A, f)) /\ Cardinality(Users(x, A, f)) \in Nat
    BY UsersFinite
  <2>4. Cardinality(Users(x, A, f)) # 0
    BY <2>2, <2>3, FS_EmptySet
  <2>5. x.memory_map[f] = Cardinality(Users(x, A, f))
    BY <2>1 DEF Counted
  <2> QED BY <2>1, <2>2, <2>3, <2>4, <2>5
<1>2. ASSUME NEW p \in A, NEW q \in A, NEW e \in Entry, NEW g \in Entry,
             Lead(x, p, e) # 0, Lead(x, q, g) = Lead(x, p, e), x.memory_map[Lead(x, p, e)] = 1
      PROVE  q = p /\ g = e
  <2> DEFINE f == Lead(x, p, e)
  <2>1. f \in Frame /\ <<p, e>> \in Users(x, A, f) /\ <<q, g>> \in Users(x, A, f)
    BY <1>1, <1>2
  <2>2. IsFiniteSet(Users(x, A, f)) /\ Cardinality(Users(x, A, f)) = 1
    BY <2>1, <1>2, UsersFinite DEF Counted
  <2>3. \E z : Users(x, A, f) = {z}
    BY <2>2, FS_Singleton
  <2>4. <<p, e>> = <<q, g>>
    BY <2>1, <2>3
  <2> QED BY <2>4
<1>3. \A p \in A, e \in Entry : Lead(x, p, e) # 0 =>
        Lead(x, p, e) \in Frame /\ x.memory_map[Lead(x, p, e)] > 0
  BY <1>1
<1>4. \A p, q \in A, e, g \in Entry :
        /\ Lead(x, p, e) # 0 /\ Lead(x, q, g) = Lead(x, p, e)
        /\ x.memory_map[Lead(x, p, e)] = 1
        => q = p /\ g = e
  BY <1>2
<1> QED BY <1>3, <1>4

(* A frame that is taken is one less that is free. *)
LEMMA FreeCount ==
  ASSUME NEW h, NEW k, NEW n \in Frame, h[n] = 0, k[n] # 0,
         \A f \in Frame : f # n => (h[f] = 0 <=> k[f] = 0)
  PROVE  /\ Cardinality(FreeOf(k)) \in Nat
         /\ Cardinality(FreeOf(h)) = Cardinality(FreeOf(k)) + 1
<1> DEFINE S == FreeOf(k)
           T == FreeOf(h)
<1>1. IsFiniteSet(Frame)
  BY FS_Interval, MemoryAssumption DEF Frame
<1>2. IsFiniteSet(S)
  BY <1>1, FS_Subset DEF FreeOf
<1>3. n \notin S /\ \A r : r \in T <=> r \in S \/ r = n
  BY DEF FreeOf
<1> HIDE DEF S, T
<1>4. Cardinality(S) \in Nat /\ Cardinality(T) = Cardinality(S) + 1
  BY <1>2, <1>3, OneMore
<1> QED BY <1>4 DEF S, T

(* Equal free frames, equal counts. *)
LEMMA FreeSame ==
  ASSUME NEW h, NEW k, \A f \in Frame : h[f] = 0 <=> k[f] = 0
  PROVE  FreeOf(k) = FreeOf(h)
BY DEF FreeOf

-----------------------------------------------------------------------------
(* The functions of memory.c, field by field. *)

(* All but the counts and the result of alloc_page. *)
SameSpace(x, y) ==
    /\ y.data = x.data /\ y.entries = x.entries /\ y.page_dir = x.page_dir
    /\ y.tlb = x.tlb /\ y.spoiled = x.spoiled

(* A panic changes the reason of the halt only, and only the first does. *)
LEMMA PanicEffect ==
  ASSUME NEW x \in Memories, NEW why \in {"memory", "fault", "assert"}
  PROVE  /\ Panic(x, why) \in Memories
         /\ SameSpace(x, Panic(x, why))
         /\ Panic(x, why).memory_map = x.memory_map /\ Panic(x, why).free_pages = x.free_pages
         /\ Panic(x, why).paddr = x.paddr
         /\ Panic(x, why).halted = IF x.halted = "no" THEN why ELSE x.halted
         /\ Bad(x) => Bad(Panic(x, why))
BY DEF Panic, Memories, SameSpace, Bad

(* The same for an assert. *)
LEMMA AssertEffect ==
  ASSUME NEW x \in Memories, NEW ok \in BOOLEAN
  PROVE  /\ Assert_(x, ok) \in Memories
         /\ ok => Assert_(x, ok) = x
         /\ SameSpace(x, Assert_(x, ok))
         /\ Assert_(x, ok).memory_map = x.memory_map /\ Assert_(x, ok).free_pages = x.free_pages
         /\ Assert_(x, ok).paddr = x.paddr
         /\ Bad(x) => Bad(Assert_(x, ok))
<1>1. CASE ok
  BY <1>1 DEF Assert_, SameSpace
<1>2. CASE ~ok
  BY <1>2, PanicEffect DEF Assert_
<1> QED BY <1>1, <1>2

(* alloc_page takes a free frame or panics. *)
LEMMA AllocEffect ==
  ASSUME NEW x \in Memories
  PROVE  /\ alloc_page(x) \in Memories
         /\ SameSpace(x, alloc_page(x))
         /\ \A f \in 0..FRAMES : x.memory_map[f] > 0 => alloc_page(x).memory_map[f] = x.memory_map[f]
         /\ Bad(x) => Bad(alloc_page(x))
         /\ x.halted = "no" /\ x.free_pages = Cardinality(FreeOf(x.memory_map)) =>
              \/ Bad(alloc_page(x))
              \/ LET n == alloc_page(x).paddr IN
                 /\ n \in Frame /\ x.memory_map[n] = 0
                 /\ alloc_page(x).memory_map = [x.memory_map EXCEPT ![n] = 1]
                 /\ alloc_page(x).halted = "no"
                 /\ alloc_page(x).free_pages = Cardinality(FreeOf(alloc_page(x).memory_map))
<1> DEFINE y == alloc_page(x)
           free == {f \in Frame : x.memory_map[f] = 0}
           first == CHOOSE f \in free : \A g \in free : f <= g
           a == Assert_(x, x.free_pages > 0)
<1>0. FRAMES \in Nat /\ 0 \in 0..FRAMES /\ Frame \subseteq 0..FRAMES /\ Frame \subseteq Nat
  BY MemoryAssumption DEF Frame
<1>1. CASE free = {}
  <2> DEFINE b == [x EXCEPT !.paddr = 0]
  <2>1. b \in Memories /\ SameSpace(x, b) /\ b.halted = x.halted /\ b.memory_map = x.memory_map
    BY <1>0 DEF Memories, SameSpace
  <2>2. y = Panic(b, "memory")
    BY <1>1 DEF alloc_page
  <2> HIDE DEF y, b
  <2>3. /\ y \in Memories /\ SameSpace(b, y) /\ y.memory_map = b.memory_map
        /\ y.halted = IF b.halted = "no" THEN "memory" ELSE b.halted
    BY <2>1, <2>2, PanicEffect
  <2>4. SameSpace(x, y)
    BY <2>1, <2>3 DEF SameSpace
  <2>5. Bad(x) => Bad(y)
    BY <2>1, <2>3 DEF Bad, SameSpace
  <2>6. x.halted = "no" => Bad(y)
    BY <2>1, <2>3 DEF Bad
  <2> QED BY <2>1, <2>3, <2>4, <2>5, <2>6 DEF y
<1>2. CASE free # {}
  <2>1. \E f \in free : \A g \in free : f <= g
    BY <1>0, <1>2, MinExists
  <2>2. first \in free
    BY <2>1
  <2>3. y = [a EXCEPT !.memory_map[first] = 1, !.free_pages = @ - 1, !.paddr = first]
    BY <1>2 DEF alloc_page
  <2>4. first \in Frame /\ x.memory_map[first] = 0
    BY <2>2
  <2> HIDE DEF first, free, y
  <2>5. (x.free_pages > 0) \in BOOLEAN
    OBVIOUS
  <2>6. /\ a \in Memories /\ SameSpace(x, a) /\ a.memory_map = x.memory_map
        /\ a.free_pages = x.free_pages
        /\ Bad(x) => Bad(a)
        /\ x.free_pages > 0 => a = x
    BY <2>5, AssertEffect
  <2> HIDE DEF a
  <2>7. /\ y \in Memories /\ SameSpace(a, y) /\ y.memory_map = [a.memory_map EXCEPT ![first] = 1]
        /\ y.free_pages = a.free_pages - 1 /\ y.paddr = first /\ y.halted = a.halted
    <3>1. /\ a.memory_map \in [0..FRAMES -> Nat] /\ a.free_pages \in Int
      BY <2>6 DEF Memories
    <3>2. first \in 0..FRAMES
      BY <2>4, <1>0
    <3>3. /\ y.memory_map = [a.memory_map EXCEPT ![first] = 1]
          /\ y.free_pages = a.free_pages - 1 /\ y.paddr = first /\ y.halted = a.halted
          /\ SameSpace(a, y)
      BY <2>3, <2>6 DEF Memories, SameSpace
    <3>4. [a.memory_map EXCEPT ![first] = 1] \in [0..FRAMES -> Nat]
      BY <3>1, <3>2
    <3> DEFINE mm == [a.memory_map EXCEPT ![first] = 1]
               fp == a.free_pages - 1
    <3>5. y = [a EXCEPT !.memory_map = mm, !.free_pages = fp, !.paddr = first]
      BY <2>3
    <3>6. mm \in [0..FRAMES -> Nat] /\ fp \in Int
      BY <3>1, <3>4
    <3> HIDE DEF mm, fp
    <3>7. y \in Memories
      BY <2>6, <3>2, <3>5, <3>6 DEF Memories
    <3> QED BY <3>3, <3>7
  <2>8. SameSpace(x, y)
    BY <2>6, <2>7 DEF SameSpace
  <2>9. Bad(x) => Bad(y)
    BY <2>6, <2>7 DEF SameSpace, Bad
  <2>10. ASSUME x.halted = "no", x.free_pages = Cardinality(FreeOf(x.memory_map))
         PROVE  /\ y.memory_map = [x.memory_map EXCEPT ![first] = 1] /\ y.halted = "no"
                /\ y.free_pages = Cardinality(FreeOf(y.memory_map))
    <3>1. y.memory_map = [x.memory_map EXCEPT ![first] = 1]
      BY <2>6, <2>7
    <3>2. /\ x.memory_map \in [0..FRAMES -> Nat]
      BY DEF Memories
    <3>3. y.memory_map[first] # 0 /\ \A f \in Frame : f # first => y.memory_map[f] = x.memory_map[f]
      BY <3>1, <3>2, <2>4, <1>0
    <3>4. /\ Cardinality(FreeOf(y.memory_map)) \in Nat
          /\ x.free_pages = Cardinality(FreeOf(y.memory_map)) + 1
      BY <3>3, <2>4, <2>10, FreeCount
    <3>5. x.free_pages > 0
      BY <3>4
    <3> QED BY <3>1, <3>4, <3>5, <2>6, <2>7, <2>10
  <2>11. \A f \in 0..FRAMES : x.memory_map[f] > 0 => y.memory_map[f] = x.memory_map[f]
    <3>1. x.memory_map \in [0..FRAMES -> Nat]
      BY DEF Memories
    <3> QED BY <3>1, <2>4, <2>6, <2>7
  <2> QED BY <2>4, <2>7, <2>8, <2>9, <2>10, <2>11 DEF y
<1> QED BY <1>1, <1>2


(* free_page gives one reference back; the last one frees the frame. *)
LEMMA FreeEffect ==
  ASSUME NEW x \in Memories, NEW f \in Frame
  PROVE  LET y == free_page(x, f) IN
         /\ y \in Memories
         /\ Bad(x) => Bad(y)
         /\ x.memory_map[f] > 0 =>
              /\ y.memory_map = [x.memory_map EXCEPT ![f] = @ - 1]
              /\ y.page_dir = x.page_dir /\ y.halted = x.halted /\ y.spoiled = x.spoiled
              /\ \A g \in 0..FRAMES : g # f \/ x.memory_map[f] > 1 =>
                    y.data[g] = x.data[g] /\ y.entries[g] = x.entries[g]
              /\ x.memory_map[f] = 1 => y.entries[f] = EmptyTable
              /\ x.free_pages = Cardinality(FreeOf(x.memory_map)) =>
                   y.free_pages = Cardinality(FreeOf(y.memory_map))
<1> DEFINE y == free_page(x, f)
<1>0. /\ FRAMES \in Nat /\ f \in 0..FRAMES /\ Frame \subseteq 0..FRAMES /\ 0 \in 0..FRAMES
      /\ 0 \in 0..Junk /\ Junk \in 0..Junk
  BY MemoryAssumption DEF Frame, Junk
<1>1. /\ x.memory_map \in [0..FRAMES -> Nat] /\ x.data \in [0..FRAMES -> 0..Junk]
      /\ x.entries \in [0..FRAMES -> [1..ENTRIES -> Pte]] /\ x.free_pages \in Int
  BY DEF Memories
<1>2. x.memory_map[f] \in Nat
  BY <1>0, <1>1
<1>3. CASE x.memory_map[f] = 0
  <2>1. y = Panic(x, "assert")
    BY <1>3 DEF free_page
  <2> QED BY <1>3, <2>1, PanicEffect
<1>4. CASE x.memory_map[f] = 1
  <2> DEFINE mm == [x.memory_map EXCEPT ![f] = 0]
             fp == x.free_pages + 1
             dd == [x.data EXCEPT ![f] = Left(x, f)]
             ee == [x.entries EXCEPT ![f] = EmptyTable]
  <2>1. y = [x EXCEPT !.memory_map = mm, !.free_pages = fp, !.data = dd, !.entries = ee]
    BY <1>4 DEF free_page
  <2>2. EmptyTable \in [1..ENTRIES -> Pte] /\ Left(x, f) \in 0..Junk
    BY <1>0 DEF EmptyTable, Absent, Pte, Left
  <2>3. /\ mm \in [0..FRAMES -> Nat] /\ fp \in Int /\ dd \in [0..FRAMES -> 0..Junk]
        /\ ee \in [0..FRAMES -> [1..ENTRIES -> Pte]]
    BY SMTT(30), <1>0, <1>1, <2>2
  <2>4. mm = [x.memory_map EXCEPT ![f] = @ - 1]
    BY <1>1, <1>4
  <2>5. /\ mm[f] = 0 /\ \A g \in Frame : g # f => mm[g] = x.memory_map[g]
        /\ ee[f] = EmptyTable
        /\ \A g \in 0..FRAMES : g # f => dd[g] = x.data[g] /\ ee[g] = x.entries[g]
    BY <1>0, <1>1
  <2>6. x.free_pages = Cardinality(FreeOf(x.memory_map)) => fp = Cardinality(FreeOf(mm))
    <3> HIDE DEF mm
    <3>1. /\ Cardinality(FreeOf(x.memory_map)) \in Nat
          /\ Cardinality(FreeOf(mm)) = Cardinality(FreeOf(x.memory_map)) + 1
      BY <2>5, <1>4, FreeCount
    <3> QED BY <3>1
  <2> HIDE DEF mm, fp, dd, ee, y
  <2>7. y \in Memories
    BY <2>1, <2>3 DEF Memories
  <2>8. /\ y.memory_map = mm /\ y.free_pages = fp /\ y.data = dd /\ y.entries = ee
        /\ y.page_dir = x.page_dir /\ y.halted = x.halted /\ y.spoiled = x.spoiled
    BY <2>1 DEF Memories
  <2>9. Bad(x) => Bad(y)
    BY <2>8 DEF Bad
  <2> QED BY <1>4, <2>4, <2>5, <2>6, <2>7, <2>8, <2>9 DEF y
<1>5. CASE x.memory_map[f] > 1
  <2> DEFINE mm == [x.memory_map EXCEPT ![f] = @ - 1]
  <2>1. y = [x EXCEPT !.memory_map = mm]
    BY <1>2, <1>5 DEF free_page
  <2>2. mm \in [0..FRAMES -> Nat] /\ \A g \in Frame : mm[g] = 0 <=> x.memory_map[g] = 0
    BY <1>0, <1>1, <1>2, <1>5
  <2>3. FreeOf(mm) = FreeOf(x.memory_map)
    BY <2>2 DEF FreeOf
  <2> HIDE DEF mm, y
  <2>4. y \in Memories
    BY <2>1, <2>2 DEF Memories
  <2>5. /\ y.memory_map = mm /\ y.free_pages = x.free_pages /\ y.data = x.data /\ y.entries = x.entries
        /\ y.page_dir = x.page_dir /\ y.halted = x.halted /\ y.spoiled = x.spoiled
    BY <2>1 DEF Memories
  <2>6. Bad(x) => Bad(y)
    BY <2>5 DEF Bad
  <2> QED BY <1>5, <2>3, <2>4, <2>5, <2>6 DEF y, mm
<1> QED BY <1>2, <1>3, <1>4, <1>5

(* SetPte writes one page entry. *)
LEMMA SetPteEffect ==
  ASSUME NEW x \in Memories, NEW p \in Proc, NEW v \in Page, NEW e \in Pte
  PROVE  LET y == SetPte(x, p, v, e)
             i == PDE_IDX(v)
         IN
         /\ y \in Memories
         /\ Bad(x) => Bad(y)
         /\ y.memory_map = x.memory_map /\ y.free_pages = x.free_pages /\ y.data = x.data
         /\ y.page_dir = x.page_dir /\ y.paddr = x.paddr
         /\ y.halted = x.halted /\ y.spoiled = x.spoiled
         /\ \A f \in 0..FRAMES : f # x.page_dir[p][i] => y.entries[f] = x.entries[f]
         /\ /\ x.page_dir[p][i] # 0
            /\ \A q \in Proc, j \in Table : x.page_dir[q][j] = x.page_dir[p][i] => q = p /\ j = i
            => /\ Lead(y, p, v) = e.frame
               /\ Writable(y, p, v) <=> e.frame # 0 /\ e.write
               /\ \A q \in Proc, g \in Entry : ~(q = p /\ g = v) => Lead(y, q, g) = Lead(x, q, g)
               /\ \A q \in Proc, w \in Page : ~(q = p /\ w = v) => (Writable(y, q, w) <=> Writable(x, q, w))
<1> DEFINE y == SetPte(x, p, v, e)
           i == PDE_IDX(v)
           k == PTE_IDX(v)
           T == x.page_dir[p][i]
           ee == [x.entries EXCEPT ![T][k] = e]
<1>1. i \in Table /\ k \in 1..ENTRIES
  BY Indices
<1>2. T \in 0..FRAMES /\ x.entries \in [0..FRAMES -> [1..ENTRIES -> Pte]]
  BY <1>1, LeadIs DEF Memories
<1>3. y = [x EXCEPT !.entries = ee]
  BY DEF SetPte
<1>4. ee \in [0..FRAMES -> [1..ENTRIES -> Pte]]
  BY <1>1, <1>2
<1>5. /\ \A f \in 0..FRAMES : f # T => ee[f] = x.entries[f]
      /\ ee[T][k] = e
      /\ \A l \in 1..ENTRIES : l # k => ee[T][l] = x.entries[T][l]
  BY <1>1, <1>2
<1> HIDE DEF ee, y
<1>6. y \in Memories
  BY <1>3, <1>4 DEF Memories
<1>7. /\ y.entries = ee
      /\ y.memory_map = x.memory_map /\ y.free_pages = x.free_pages /\ y.data = x.data
      /\ y.page_dir = x.page_dir /\ y.paddr = x.paddr
      /\ y.halted = x.halted /\ y.spoiled = x.spoiled
  BY <1>3 DEF Memories
<1>8. Bad(x) => Bad(y)
  BY <1>7 DEF Bad
<1>9. ASSUME T # 0, \A q \in Proc, j \in Table : x.page_dir[q][j] = T => q = p /\ j = i
      PROVE  /\ Lead(y, p, v) = e.frame
             /\ Writable(y, p, v) <=> e.frame # 0 /\ e.write
             /\ \A q \in Proc, g \in Entry : ~(q = p /\ g = v) => Lead(y, q, g) = Lead(x, q, g)
             /\ \A q \in Proc, w \in Page : ~(q = p /\ w = v) => (Writable(y, q, w) <=> Writable(x, q, w))
  <2>1. pte(y, p, v) = e
    BY <1>6, <1>7, <1>5, <1>1, LeadIs
  <2>2. Lead(y, p, v) = e.frame
    BY <2>1, <1>6, <1>7, <1>9, LeadIs
  <2>3. Writable(y, p, v) <=> e.frame # 0 /\ e.write
    BY <2>1, <2>2, <1>6, LeadIs
  <2>4. ASSUME NEW q \in Proc, NEW w \in Page, ~(q = p /\ w = v)
        PROVE  /\ Lead(y, q, w) = Lead(x, q, w)
               /\ Writable(y, q, w) <=> Writable(x, q, w)
    <3> DEFINE j == PDE_IDX(w)
               l == PTE_IDX(w)
               D == x.page_dir[q][j]
    <3>1. j \in Table /\ l \in 1..ENTRIES /\ D \in 0..FRAMES
      BY Indices, LeadIs
    <3>2. pte(y, q, w) = y.entries[D][l] /\ pte(x, q, w) = x.entries[D][l]
      BY <1>6, <1>7, LeadIs
    <3>3. ee[D][l] = x.entries[D][l]
      <4>1. CASE D # T
        BY <4>1, <3>1, <1>5
      <4>2. CASE D = T
        <5>1. q = p /\ j = i
          BY <4>2, <3>1, <1>9
        <5>2. l # k
          BY <5>1, <2>4, Indices
        <5> QED BY <4>2, <5>2, <3>1, <1>5
      <4> QED BY <4>1, <4>2
    <3>4. pte(y, q, w) = pte(x, q, w)
      BY <3>2, <3>3, <1>7
    <3>5. Lead(y, q, w) = Lead(x, q, w)
      BY <3>4, <1>6, <1>7, LeadIs
    <3> QED BY <3>4, <3>5, <1>6, LeadIs
  <2>5. ASSUME NEW q \in Proc, NEW g \in Entry, g < 0
        PROVE  Lead(y, q, g) = Lead(x, q, g)
    <3>1. 0 - g \in Table /\ 0 - (0 - g) = g
      BY <2>5, Entries
    <3> QED BY <3>1, <1>6, <1>7, LeadIs
  <2>6. \A q \in Proc, g \in Entry : ~(q = p /\ g = v) => Lead(y, q, g) = Lead(x, q, g)
    BY <2>4, <2>5, Entries
  <2> QED BY <2>2, <2>3, <2>4, <2>6
<1>10. \A f \in 0..FRAMES : f # T => y.entries[f] = x.entries[f]
  BY <1>5, <1>7
<1> QED BY <1>6, <1>7, <1>8, <1>9, <1>10 DEF y

(* An entry that is made to lead to a frame nobody uses. *)
LEMMA Redirect ==
  ASSUME NEW x \in Memories, NEW y \in Memories, NEW A, A \subseteq Proc,
         NEW p \in A, NEW e \in Entry, NEW n \in Frame,
         \A q \in A, g \in Entry : Lead(x, q, g) # n,
         Lead(y, p, e) = n,
         \A q \in A, g \in Entry : ~(q = p /\ g = e) => Lead(y, q, g) = Lead(x, q, g),
         \A q \in A, w \in Page : ~(q = p /\ w = e) => (Writable(y, q, w) => Writable(x, q, w)),
         TablesPrivate(x, A), Once(x, A), WritesPrivate(x, A)
  PROVE  TablesPrivate(y, A) /\ Once(y, A) /\ WritesPrivate(y, A)
<1>1. ASSUME NEW q \in A, NEW r \in A, NEW i \in Table, NEW g \in Entry,
             y.page_dir[q][i] # 0, Lead(y, r, g) = y.page_dir[q][i]
      PROVE  r = q /\ g = 0 - i
  <2>1. 0 - i \in Entry /\ Lead(y, q, 0 - i) = y.page_dir[q][i] /\ Lead(x, q, 0 - i) = x.page_dir[q][i]
    BY Entries, LeadIs
  <2>2. CASE q = p /\ 0 - i = e
    BY <1>1, <2>1, <2>2
  <2>3. CASE ~(q = p /\ 0 - i = e)
    <3>1. Lead(y, q, 0 - i) = Lead(x, q, 0 - i)
      BY <2>1, <2>3
    <3>2. Lead(y, r, g) # n
      BY <1>1, <2>1, <3>1
    <3>3. Lead(x, r, g) = x.page_dir[q][i] /\ x.page_dir[q][i] # 0
      BY <1>1, <2>1, <3>1, <3>2
    <3> QED BY <3>3 DEF TablesPrivate
  <2> QED BY <2>2, <2>3
<1>2. ASSUME NEW q \in A, NEW g \in Entry, NEW h \in Entry,
             Lead(y, q, g) # 0, Lead(y, q, h) = Lead(y, q, g)
      PROVE  g = h
  <2>1. CASE q = p /\ (g = e \/ h = e)
    BY <1>2, <2>1
  <2>2. CASE ~(q = p /\ (g = e \/ h = e))
    <3>1. Lead(x, q, g) = Lead(y, q, g) /\ Lead(x, q, h) = Lead(y, q, h)
      BY <2>2
    <3> QED BY <1>2, <3>1 DEF Once
  <2> QED BY <2>1, <2>2
<1>3. ASSUME NEW q \in A, NEW r \in A, NEW v \in Page, NEW w \in Page,
             Writable(y, q, v), Lead(y, r, w) = Lead(y, q, v)
      PROVE  r = q
  <2>1. v \in Entry /\ w \in Entry
    BY Entries
  <2>2. CASE q = p /\ v = e
    BY <1>3, <2>1, <2>2
  <2>3. CASE r = p /\ w = e
    BY <1>3, <2>1, <2>3
  <2>4. CASE ~(q = p /\ v = e) /\ ~(r = p /\ w = e)
    <3>1. Lead(x, r, w) = Lead(x, q, v) /\ Writable(x, q, v)
      BY <1>3, <2>1, <2>4
    <3> QED BY <3>1 DEF WritesPrivate
  <2> QED BY <2>2, <2>3, <2>4
<1> QED BY <1>1, <1>2, <1>3 DEF TablesPrivate, Once, WritesPrivate

(* Entries that are dropped. *)
LEMMA Fewer ==
  ASSUME NEW x \in Memories, NEW y \in Memories, NEW A, A \subseteq Proc,
         \A q \in A, g \in Entry : Lead(y, q, g) = Lead(x, q, g) \/ Lead(y, q, g) = 0,
         \A q \in A, w \in Page : Writable(y, q, w) => Writable(x, q, w),
         TablesPrivate(x, A), Once(x, A), WritesPrivate(x, A)
  PROVE  TablesPrivate(y, A) /\ Once(y, A) /\ WritesPrivate(y, A)
<1>1. ASSUME NEW q \in A, NEW r \in A, NEW i \in Table, NEW g \in Entry,
             y.page_dir[q][i] # 0, Lead(y, r, g) = y.page_dir[q][i]
      PROVE  r = q /\ g = 0 - i
  <2>1. 0 - i \in Entry /\ Lead(y, q, 0 - i) = y.page_dir[q][i] /\ Lead(x, q, 0 - i) = x.page_dir[q][i]
    BY Entries, LeadIs
  <2>2. x.page_dir[q][i] # 0 /\ Lead(x, r, g) = x.page_dir[q][i]
    BY <1>1, <2>1
  <2> QED BY <2>2 DEF TablesPrivate
<1>2. ASSUME NEW q \in A, NEW g \in Entry, NEW h \in Entry,
             Lead(y, q, g) # 0, Lead(y, q, h) = Lead(y, q, g)
      PROVE  g = h
  BY <1>2 DEF Once
<1>3. ASSUME NEW q \in A, NEW r \in A, NEW v \in Page, NEW w \in Page,
             Writable(y, q, v), Lead(y, r, w) = Lead(y, q, v)
      PROVE  r = q
  <2>1. v \in Entry /\ w \in Entry /\ Writable(x, q, v) /\ Lead(y, q, v) # 0
    BY <1>3, Entries, LeadIs
  <2>2. Lead(x, r, w) = Lead(x, q, v)
    BY <1>3, <2>1
  <2> QED BY <2>1, <2>2 DEF WritesPrivate
<1> QED BY <1>1, <1>2, <1>3 DEF TablesPrivate, Once, WritesPrivate


(* The address space of q is its page directory and its page tables. *)
LEMMA LeadSame ==
  ASSUME NEW x \in Memories, NEW y \in Memories, NEW q \in Proc,
         y.page_dir[q] = x.page_dir[q],
         \A i \in Table : x.page_dir[q][i] # 0 => y.entries[x.page_dir[q][i]] = x.entries[x.page_dir[q][i]]
  PROVE  /\ \A e \in Entry : Lead(y, q, e) = Lead(x, q, e)
         /\ \A w \in Page : Writable(y, q, w) <=> Writable(x, q, w)
<1>1. ASSUME NEW w \in Page
      PROVE  Lead(y, q, w) = Lead(x, q, w) /\ (Writable(y, q, w) <=> Writable(x, q, w))
  <2> DEFINE i == PDE_IDX(w)
  <2>1. i \in Table
    BY Indices
  <2>2. CASE x.page_dir[q][i] = 0
    BY <2>2, LeadIs
  <2>3. CASE x.page_dir[q][i] # 0
    <3>1. pte(y, q, w) = pte(x, q, w)
      BY SMTT(30), <2>1, <2>3, LeadIs
    <3>2. Lead(y, q, w) = Lead(x, q, w)
      BY <3>1, LeadIs
    <3> QED BY <3>1, <3>2, LeadIs
  <2> QED BY <2>2, <2>3
<1>2. ASSUME NEW e \in Entry, e < 0
      PROVE  Lead(y, q, e) = Lead(x, q, e)
  <2>1. 0 - e \in Table /\ 0 - (0 - e) = e
    BY <1>2, Entries
  <2> QED BY <2>1, LeadIs
<1>3. \A e \in Entry : Lead(y, q, e) = Lead(x, q, e)
  BY <1>1, <1>2, Entries
<1> QED BY <1>1, <1>3

(* A page table is in one page directory, once, among all processes. *)
LEMMA TableAlone ==
  ASSUME NEW x \in Memories, NEW A, A \subseteq Proc, TablesPrivate(x, A), Dirs(x, A),
         NEW p \in A, NEW i \in Table, x.page_dir[p][i] # 0
  PROVE  \A q \in Proc, j \in Table : x.page_dir[q][j] = x.page_dir[p][i] => q = p /\ j = i
<1> SUFFICES ASSUME NEW q \in Proc, NEW j \in Table, x.page_dir[q][j] = x.page_dir[p][i]
             PROVE  q = p /\ j = i
  OBVIOUS
<1>1. q \in A
  BY DEF Dirs, NoTables
<1>2. 0 - j \in Entry /\ Lead(x, q, 0 - j) = x.page_dir[p][i]
  BY Entries, LeadIs
<1>3. q = p /\ 0 - j = 0 - i
  BY <1>1, <1>2 DEF TablesPrivate
<1>4. j = i
  BY <1>3, Entries
<1> QED BY <1>3, <1>4

(* A frame that is not counted is not led to, and has no entries. *)
LEMMA FreeUnused ==
  ASSUME NEW x \in Memories, NEW A, A \subseteq Proc, Counted(x, A), Plain(x, A),
         NEW n \in Frame, x.memory_map[n] = 0
  PROVE  /\ \A q \in A, e \in Entry : Lead(x, q, e) # n
         /\ x.entries[n] = EmptyTable
<1>0. n # 0
  BY MemoryAssumption DEF Frame
<1>1. ASSUME NEW q \in A, NEW e \in Entry, Lead(x, q, e) = n
      PROVE  FALSE
  BY <1>0, <1>1, CountFacts
<1>2. ASSUME NEW q \in A, NEW i \in Table PROVE x.page_dir[q][i] # n
  <2>1. 0 - i \in Entry /\ Lead(x, q, 0 - i) = x.page_dir[q][i]
    BY Entries, LeadIs
  <2> QED BY <1>1, <2>1
<1> QED BY <1>1, <1>2 DEF Plain

(* The pages of all processes are the same, and where they are. *)
SamePages(x, y) == \A q \in Proc, w \in Page :
    Lead(y, q, w) = Lead(x, q, w) /\ (Writable(y, q, w) <=> Writable(x, q, w))

(* get_pte may add a page table, which changes no page. *)
LEMMA GetPteEffect ==
  ASSUME NEW x \in Memories, NEW A, A \subseteq Proc, NEW p \in A, NEW v \in Page
  PROVE  LET y == get_pte(x, p, v) IN
         /\ y \in Memories
         /\ Bad(x) => Bad(y)
         /\ Good(x, A) => \/ Bad(y)
                          \/ /\ Good(y, A) /\ SamePages(x, y) /\ y.data = x.data
                             /\ y.page_dir[p][PDE_IDX(v)] # 0
<1> DEFINE y == get_pte(x, p, v)
           i == PDE_IDX(v)
           a == alloc_page(x)
           n == a.paddr
<1>0. i \in Table /\ p \in Proc /\ FRAMES \in Nat
  BY Indices, MemoryAssumption
<1>1. CASE x.page_dir[p][i] # 0
  <2>1. y = x
    BY <1>1 DEF get_pte
  <2> QED BY <1>1, <2>1 DEF SamePages
<1>2. CASE x.page_dir[p][i] = 0
  <2> DEFINE pd == [a.page_dir EXCEPT ![p][i] = n]
             sp == a.spoiled \/ a.data[n] # 0
  <2>1. y = [a EXCEPT !.page_dir = pd, !.spoiled = sp]
    BY <1>2 DEF get_pte
  <2>2. a \in Memories /\ SameSpace(x, a) /\ (Bad(x) => Bad(a))
    BY AllocEffect
  <2>3. n \in 0..FRAMES /\ a.page_dir \in [Proc -> [Table -> 0..FRAMES]] /\ a.spoiled \in BOOLEAN
    BY <2>2 DEF Memories
  <2>4. pd \in [Proc -> [Table -> 0..FRAMES]] /\ sp \in BOOLEAN
    BY <2>3, <1>0
  <2>5. /\ pd[p][i] = n
        /\ \A q \in Proc, j \in Table : ~(q = p /\ j = i) => pd[q][j] = a.page_dir[q][j]
        /\ \A q \in Proc : q # p => pd[q] = a.page_dir[q]
    BY <2>3, <1>0
  <2> HIDE DEF pd, a, y
  <2>6. y \in Memories
    BY <2>1, <2>2, <2>4 DEF Memories
  <2>7. /\ y.page_dir = pd /\ y.spoiled = sp /\ y.memory_map = a.memory_map
        /\ y.free_pages = a.free_pages /\ y.data = a.data /\ y.entries = a.entries
        /\ y.halted = a.halted
    BY <2>1, <2>2 DEF Memories
  <2>8. Bad(x) => Bad(y)
    BY <2>2, <2>7 DEF Bad, SameSpace
  <2>9. ASSUME Good(x, A), ~Bad(y)
        PROVE  Good(y, A) /\ SamePages(x, y) /\ y.data = x.data /\ y.page_dir[p][i] # 0
    <3>1. ~Bad(a) /\ ~y.spoiled
      BY <2>9, <2>7 DEF Bad
    <3>2. /\ n \in Frame /\ x.memory_map[n] = 0 /\ a.memory_map = [x.memory_map EXCEPT ![n] = 1]
          /\ a.halted = "no" /\ a.free_pages = Cardinality(FreeOf(a.memory_map))
      BY <3>1, <2>9, AllocEffect DEF Good, Counted, a
    <3>3. n # 0 /\ (\A q \in A, e \in Entry : Lead(x, q, e) # n) /\ x.entries[n] = EmptyTable
      BY <3>2, <2>9, FreeUnused, MemoryAssumption DEF Good, Frame
    <3>4. /\ y.data = x.data /\ y.entries = x.entries /\ y.page_dir[p][i] = n
          /\ \A q \in Proc, j \in Table : ~(q = p /\ j = i) => y.page_dir[q][j] = x.page_dir[q][j]
          /\ \A q \in Proc : q # p => y.page_dir[q] = x.page_dir[q]
      BY <2>2, <2>5, <2>7 DEF SameSpace
    <3>5. ASSUME NEW q \in Proc, NEW w \in Page
          PROVE  Lead(y, q, w) = Lead(x, q, w) /\ (Writable(y, q, w) <=> Writable(x, q, w))
      <4>1. PDE_IDX(w) \in Table /\ PTE_IDX(w) \in 1..ENTRIES
        BY Indices
      <4>2. CASE q = p /\ PDE_IDX(w) = i
        <5>0. pte(y, q, w) = EmptyTable[PTE_IDX(w)]
          BY <4>2, <3>3, <3>4, <2>6, LeadIs
        <5>1. pte(y, q, w).frame = 0
          BY <5>0, <4>1 DEF EmptyTable, Absent
        <5>2. Lead(x, q, w) = 0
          BY <4>2, <1>2, LeadIs
        <5>3. Lead(y, q, w) = 0
          BY <5>1, <2>6, LeadIs
        <5> QED BY <5>2, <5>3, <2>6, LeadIs
      <4>3. CASE ~(q = p /\ PDE_IDX(w) = i)
        <5>1. pte(y, q, w) = pte(x, q, w) /\ y.page_dir[q][PDE_IDX(w)] = x.page_dir[q][PDE_IDX(w)]
          BY <4>1, <4>3, <3>4, <2>6, LeadIs
        <5>2. Lead(y, q, w) = Lead(x, q, w)
          BY <5>1, <2>6, LeadIs
        <5> QED BY <5>1, <5>2, <2>6, LeadIs
      <4> QED BY <4>2, <4>3
    <3>6. SamePages(x, y)
      BY <3>5 DEF SamePages
    <3>7. 0 - i \in Entry /\ Lead(y, p, 0 - i) = n /\ Lead(x, p, 0 - i) = 0
      BY <1>0, <1>2, <3>4, <2>6, Entries, LeadIs
    <3>8. ASSUME NEW q \in A, NEW e \in Entry, ~(q = p /\ e = 0 - i)
          PROVE  Lead(y, q, e) = Lead(x, q, e)
      <4>1. CASE e \in Page
        BY <4>1, <3>5
      <4>2. CASE e < 0
        <5>1. 0 - e \in Table /\ 0 - (0 - e) = e
          BY <4>2, Entries
        <5>2. ~(q = p /\ 0 - e = i)
          BY <5>1, <3>8
        <5>3. y.page_dir[q][0 - e] = x.page_dir[q][0 - e]
          BY <5>1, <5>2, <3>4
        <5> QED BY <5>1, <5>3, <2>6, LeadIs
      <4> QED BY <4>1, <4>2, Entries
    <3>9. TablesPrivate(y, A) /\ Once(y, A) /\ WritesPrivate(y, A)
      <4>1. \A q \in A, w \in Page : Writable(y, q, w) => Writable(x, q, w)
        BY <3>5
      <4> QED BY <2>6, <2>9, <3>2, <3>3, <3>7, <3>8, <4>1, Redirect DEF Good
    <3>10. Counted(y, A)
      <4>1. ASSUME NEW f \in Frame
            PROVE  y.memory_map[f] = Cardinality(Users(y, A, f))
        <5>1. x.memory_map[f] = Cardinality(Users(x, A, f)) /\ f # 0
          BY <2>9, MemoryAssumption DEF Good, Counted, Frame
        <5>2. y.memory_map = [x.memory_map EXCEPT ![n] = 1] /\ x.memory_map \in [0..FRAMES -> Nat] /\ f \in 0..FRAMES
          BY <2>7, <3>2 DEF Memories, Frame
        <5>3. CASE f = n
          <6>1. Cardinality(Users(y, A, f)) = Cardinality(Users(x, A, f)) + 1
            BY <5>3, <3>3, <3>7, <3>8, UsersPlus
          <6>2. y.memory_map[f] = 1
            BY <5>2, <5>3
          <6> QED BY <6>1, <6>2, <5>1, <5>3, <3>2
        <5>4. CASE f # n
          <6>1. \A q \in A, e \in Entry : Lead(x, q, e) = f <=> Lead(y, q, e) = f
            BY <5>1, <5>4, <3>7, <3>8
          <6>2. Users(y, A, f) = Users(x, A, f)
            BY <6>1, UsersSame
          <6> QED BY <6>2, <5>1, <5>2, <5>4
        <5> QED BY <5>3, <5>4
      <4> QED BY <4>1, <2>7, <3>2 DEF Counted
    <3>11. Plain(y, A)
      <4>1. ASSUME NEW f \in Frame, \A q \in A, j \in Table : y.page_dir[q][j] # f
            PROVE  y.entries[f] = EmptyTable
        <5>1. ASSUME NEW q \in A, NEW j \in Table PROVE x.page_dir[q][j] # f
          <6>1. f # 0
            BY MemoryAssumption DEF Frame
          <6> QED BY <6>1, <4>1, <3>4, <1>2
        <5> QED BY <5>1, <2>9, <3>4 DEF Good, Plain
      <4> QED BY <4>1 DEF Plain
    <3>12. Dirs(y, A)
      BY <2>9, <3>4 DEF Good, Dirs
    <3>13. y.halted = "no" /\ ~y.spoiled
      BY <2>7, <3>1, <3>2
    <3> QED BY <3>3, <3>4, <3>6, <3>9, <3>10, <3>11, <3>12, <3>13 DEF Good
  <2> QED BY <2>6, <2>8, <2>9 DEF y
<1> QED BY <1>1, <1>2


(* With the same page tables entries lead to the same frames. *)
LEMMA SpaceLead ==
  ASSUME NEW x \in Memories, NEW y \in Memories, SameSpace(x, y)
  PROVE  /\ \A q \in Proc, e \in Entry : Lead(y, q, e) = Lead(x, q, e)
         /\ \A q \in Proc, w \in Page : Writable(y, q, w) <=> Writable(x, q, w)
<1>1. y.page_dir = x.page_dir /\ y.entries = x.entries
  BY DEF SameSpace
<1> QED BY <1>1, LeadSame

(* A page entry is made to lead to a new frame instead of where it led. *)
LEMMA PointTo ==
  ASSUME NEW x \in Memories, NEW y \in Memories, NEW A, A \subseteq Proc, Good(x, A),
         NEW p \in A, NEW v \in Page, NEW n \in Frame, x.memory_map[n] = 0,
         y.halted = "no", ~y.spoiled, y.free_pages = Cardinality(FreeOf(y.memory_map)),
         y.page_dir = x.page_dir,
         Lead(y, p, v) = n,
         \A q \in A, g \in Entry : ~(q = p /\ g = v) => Lead(y, q, g) = Lead(x, q, g),
         \A q \in A, w \in Page : ~(q = p /\ w = v) => (Writable(y, q, w) => Writable(x, q, w)),
         \A f \in Frame : y.memory_map[f] = IF f = n THEN 1
                                            ELSE IF f = Lead(x, p, v) THEN x.memory_map[f] - 1
                                            ELSE x.memory_map[f],
         \A f \in Frame : (\A q \in A, i \in Table : x.page_dir[q][i] # f) => y.entries[f] = EmptyTable
  PROVE  Good(y, A)
<1> DEFINE o == Lead(x, p, v)
<1>a. x.memory_map \in [0..FRAMES -> Nat]
  BY DEF Memories
<1>0. n # 0 /\ v \in Entry /\ x.memory_map \in [0..FRAMES -> Nat] /\ Frame \subseteq 0..FRAMES
  BY <1>a, Frames, Entries
<1>1. \A q \in A, g \in Entry : Lead(x, q, g) # n
  BY FreeUnused DEF Good
<1>2. TablesPrivate(y, A) /\ Once(y, A) /\ WritesPrivate(y, A)
  BY <1>0, <1>1, Redirect DEF Good
<1>3. Plain(y, A) /\ Dirs(y, A)
  BY DEF Good, Plain, Dirs
<1>4. ASSUME NEW f \in Frame
      PROVE  y.memory_map[f] = Cardinality(Users(y, A, f))
  <2>1. /\ x.memory_map[f] = Cardinality(Users(x, A, f)) /\ x.memory_map[f] \in Nat
        /\ Cardinality(Users(y, A, f)) \in Nat
    BY <1>0, UsersFinite DEF Good, Counted
  <2>2. CASE f = n
    <3>1. Cardinality(Users(y, A, f)) = Cardinality(Users(x, A, f)) + 1
      BY <2>2, <1>0, <1>1, UsersPlus
    <3> QED BY <3>1, <2>1, <2>2
  <2>3. CASE f # n /\ f = o
    <3>1. Lead(y, p, v) # f
      BY <2>3
    <3>2. \A q \in A, g \in Entry : ~(q = p /\ g = v) => (Lead(y, q, g) = f <=> Lead(x, q, g) = f)
      OBVIOUS
    <3>3. Cardinality(Users(x, A, f)) = Cardinality(Users(y, A, f)) + 1
      BY <2>3, <1>0, <3>1, <3>2, UsersPlus
    <3> QED BY <3>3, <2>1, <2>3
  <2>4. CASE f # n /\ f # o
    <3>1. \A q \in A, g \in Entry : Lead(x, q, g) = f <=> Lead(y, q, g) = f
      BY <2>4
    <3>2. Users(y, A, f) = Users(x, A, f)
      BY <3>1, UsersSame
    <3> QED BY <3>2, <2>1, <2>4
  <2> QED BY <2>2, <2>3, <2>4
<1> QED BY <1>2, <1>3, <1>4 DEF Good, Counted

(* link_page gives page v of p a new frame and changes no other page. *)
LEMMA LinkEffect ==
  ASSUME NEW x \in Memories, NEW A, A \subseteq Proc, NEW p \in A, NEW v \in Page
  PROVE  LET y == link_page(x, p, v) IN
         /\ y \in Memories
         /\ Bad(x) => Bad(y)
         /\ Good(x, A) /\ Lead(x, p, v) = 0 /\ v \notin vmap[p] =>
              \/ Bad(y)
              \/ /\ Good(y, A) /\ Lead(y, p, v) # 0 /\ y.data = x.data
                 /\ \A q \in A, w \in Page : ~(q = p /\ w = v) => Lead(y, q, w) = Lead(x, q, w)
<1> DEFINE y == get_pte(x, p, v)
           z == alloc_page(y)
           n == z.paddr
           e == [frame |-> n, write |-> TRUE]
           s == SetPte(z, p, v, e)
           i == PDE_IDX(v)
           l == link_page(x, p, v)
<1>0. p \in Proc /\ i \in Table /\ v \in Entry
  BY Indices, Entries
<1>1. y \in Memories /\ (Bad(x) => Bad(y))
  BY GetPteEffect
<1>2. Good(x, A) => \/ Bad(y)
                    \/ /\ Good(y, A) /\ SamePages(x, y) /\ y.data = x.data
                       /\ y.page_dir[p][i] # 0
  BY GetPteEffect
<1>3. l = IF Mapped(y, p, v) THEN Assert_(y, v \in vmap[p]) ELSE Assert_(s, v \notin vmap[p])
  BY DEF link_page
<1> HIDE DEF y, l
<1>4. z \in Memories /\ SameSpace(y, z) /\ (Bad(y) => Bad(z))
  BY <1>1, AllocEffect
<1>5. n \in 0..FRAMES /\ e \in Pte
  BY <1>4 DEF Memories, Pte
<1>6. e.frame = n /\ e.write
  OBVIOUS
<1> HIDE DEF z, e
<1>7. /\ s \in Memories /\ (Bad(z) => Bad(s))
      /\ s.memory_map = z.memory_map /\ s.free_pages = z.free_pages /\ s.data = z.data
      /\ s.page_dir = z.page_dir /\ s.halted = z.halted /\ s.spoiled = z.spoiled
      /\ \A f \in 0..FRAMES : f # z.page_dir[p][i] => s.entries[f] = z.entries[f]
  BY <1>0, <1>4, <1>5, SetPteEffect
<1>8. /\ z.page_dir[p][i] # 0
      /\ \A q \in Proc, j \in Table : z.page_dir[q][j] = z.page_dir[p][i] => q = p /\ j = i
      => /\ Lead(s, p, v) = e.frame
         /\ Writable(s, p, v) <=> e.frame # 0 /\ e.write
         /\ \A q \in Proc, g \in Entry : ~(q = p /\ g = v) => Lead(s, q, g) = Lead(z, q, g)
         /\ \A q \in Proc, w \in Page : ~(q = p /\ w = v) => (Writable(s, q, w) <=> Writable(z, q, w))
  BY <1>0, <1>4, <1>5, SetPteEffect
<1> HIDE DEF s
<1>9. (v \in vmap[p]) \in BOOLEAN /\ (v \notin vmap[p]) \in BOOLEAN
  OBVIOUS
<1>10. l \in Memories /\ (Bad(x) => Bad(l)) /\ (Bad(y) => Bad(l))
  <2>1. CASE Mapped(y, p, v)
    BY <2>1, <1>1, <1>3, <1>9, AssertEffect
  <2>2. CASE ~Mapped(y, p, v)
    BY <2>2, <1>1, <1>3, <1>4, <1>7, <1>9, AssertEffect
  <2> QED BY <2>1, <2>2
<1>11. ASSUME Good(x, A), Lead(x, p, v) = 0, v \notin vmap[p], ~Bad(l)
       PROVE  /\ Good(l, A) /\ Lead(l, p, v) # 0 /\ l.data = x.data
              /\ \A q \in A, w \in Page : ~(q = p /\ w = v) => Lead(l, q, w) = Lead(x, q, w)
  <2>1. Good(y, A) /\ SamePages(x, y) /\ y.data = x.data /\ y.page_dir[p][i] # 0
    BY <1>2, <1>10, <1>11
  <2>2. Lead(y, p, v) = 0 /\ ~Mapped(y, p, v)
    BY <2>1, <1>0, <1>1, <1>11, LeadIs DEF SamePages
  <2>3. l = s
    BY <2>2, <1>3, <1>7, <1>9, <1>11, AssertEffect
  <2>4. ~Bad(z)
    BY <2>3, <1>7, <1>11
  <2>5. /\ n \in Frame /\ y.memory_map[n] = 0 /\ z.memory_map = [y.memory_map EXCEPT ![n] = 1]
        /\ z.halted = "no" /\ z.free_pages = Cardinality(FreeOf(z.memory_map))
    BY <2>1, <2>4, <1>1, AllocEffect DEF Good, Counted, z
  <2>6. z.page_dir = y.page_dir /\ z.entries = y.entries /\ z.data = y.data /\ z.spoiled = y.spoiled
    BY <1>4 DEF SameSpace
  <2>7. \A q \in Proc, j \in Table : y.page_dir[q][j] = y.page_dir[p][i] => q = p /\ j = i
    BY <2>1, <1>0, <1>1, TableAlone DEF Good
  <2>8. /\ \A q \in Proc, g \in Entry : Lead(z, q, g) = Lead(y, q, g)
        /\ \A q \in Proc, w \in Page : Writable(z, q, w) <=> Writable(y, q, w)
    BY <1>1, <1>4, SpaceLead
  <2>9. /\ Lead(s, p, v) = n
        /\ \A q \in Proc, g \in Entry : ~(q = p /\ g = v) => Lead(s, q, g) = Lead(y, q, g)
        /\ \A q \in Proc, w \in Page : ~(q = p /\ w = v) => (Writable(s, q, w) <=> Writable(y, q, w))
    BY <1>6, <1>8, <2>1, <2>6, <2>7, <2>8
  <2>10. \A f \in Frame : s.memory_map[f] = IF f = n THEN 1
                                            ELSE IF f = Lead(y, p, v) THEN y.memory_map[f] - 1
                                            ELSE y.memory_map[f]
    <3>1. y.memory_map \in [0..FRAMES -> Nat]
      BY <1>1 DEF Memories
    <3> QED BY <3>1, <2>2, <2>5, <1>7, Frames
  <2>11. ASSUME NEW f \in Frame, \A q \in A, j \in Table : y.page_dir[q][j] # f
         PROVE  s.entries[f] = EmptyTable
    <3>1. f # y.page_dir[p][i] /\ f \in 0..FRAMES
      BY <2>11, <1>0, MemoryAssumption DEF Frame
    <3> QED BY <3>1, <2>1, <2>6, <2>11, <1>7 DEF Good, Plain
  <2>12. Good(s, A)
    <3>1. s.halted = "no" /\ ~s.spoiled /\ s.free_pages = Cardinality(FreeOf(s.memory_map))
      BY <1>7, <2>1, <2>5, <2>6 DEF Good
    <3>2. s.page_dir = y.page_dir
      BY <1>7, <2>6
    <3>3. \A q \in A, g \in Entry : ~(q = p /\ g = v) => Lead(s, q, g) = Lead(y, q, g)
      BY <2>9
    <3>4. \A q \in A, w \in Page : ~(q = p /\ w = v) => (Writable(s, q, w) => Writable(y, q, w))
      BY <2>9
    <3>5. \A f \in Frame : (\A q \in A, j \in Table : y.page_dir[q][j] # f) => s.entries[f] = EmptyTable
      BY <2>11
    <3>6. /\ y \in Memories /\ s \in Memories /\ Good(y, A) /\ n \in Frame /\ y.memory_map[n] = 0
          /\ Lead(s, p, v) = n
      BY <1>1, <1>7, <2>1, <2>5, <2>9
    <3> HIDE DEF n
    <3> QED BY <3>1, <3>2, <3>3, <3>4, <3>5, <3>6, <2>10, PointTo
  <2>13. n # 0
    BY <2>5, MemoryAssumption DEF Frame
  <2>14. \A q \in A, w \in Page : ~(q = p /\ w = v) => Lead(s, q, w) = Lead(x, q, w)
    BY <2>1, <2>9, Entries DEF SamePages
  <2> QED BY <1>7, <2>1, <2>3, <2>6, <2>9, <2>12, <2>13, <2>14
<1> QED BY <1>10, <1>11 DEF l


(* unlink_page takes page v from p and changes no other page. *)
LEMMA UnlinkEffect ==
  ASSUME NEW x \in Memories, NEW A, A \subseteq Proc, NEW p \in A, NEW v \in Page
  PROVE  LET y == unlink_page(x, p, v) IN
         /\ y \in Memories
         /\ Bad(x) => Bad(y)
         /\ Good(x, A) /\ (v \in vmap[p] <=> Lead(x, p, v) # 0) =>
              \/ Bad(y)
              \/ /\ Good(y, A) /\ Lead(y, p, v) = 0
                 /\ \A q \in A, w \in Page : ~(q = p /\ w = v) => Lead(y, q, w) = Lead(x, q, w)
                 /\ \A q \in A, w \in Page : Lead(y, q, w) # 0 =>
                      y.data[Lead(y, q, w)] = x.data[Lead(y, q, w)]
<1> DEFINE y == get_pte(x, p, v)
           f == pte(y, p, v).frame
           s == SetPte(y, p, v, Absent)
           z == free_page(s, f)
           i == PDE_IDX(v)
           l == unlink_page(x, p, v)
<1>0. p \in Proc /\ i \in Table /\ v \in Entry
  BY Indices, Entries
<1>1. y \in Memories /\ (Bad(x) => Bad(y))
  BY GetPteEffect
<1>2. Good(x, A) => \/ Bad(y)
                    \/ /\ Good(y, A) /\ SamePages(x, y) /\ y.data = x.data
                       /\ y.page_dir[p][i] # 0
  BY GetPteEffect
<1>3. l = IF ~Mapped(y, p, v) THEN Assert_(y, v \notin vmap[p]) ELSE Assert_(z, v \in vmap[p])
  BY DEF unlink_page
<1> HIDE DEF y, l
<1>4. Absent \in Pte /\ Absent.frame = 0 /\ ~Absent.write
  BY Frames DEF Absent, Pte
<1>5. /\ s \in Memories /\ (Bad(y) => Bad(s))
      /\ s.memory_map = y.memory_map /\ s.free_pages = y.free_pages /\ s.data = y.data
      /\ s.page_dir = y.page_dir /\ s.halted = y.halted /\ s.spoiled = y.spoiled
      /\ \A g \in 0..FRAMES : g # y.page_dir[p][i] => s.entries[g] = y.entries[g]
  BY <1>0, <1>1, <1>4, SetPteEffect
<1>6. /\ y.page_dir[p][i] # 0
      /\ \A q \in Proc, j \in Table : y.page_dir[q][j] = y.page_dir[p][i] => q = p /\ j = i
      => /\ Lead(s, p, v) = 0
         /\ ~Writable(s, p, v)
         /\ \A q \in Proc, g \in Entry : ~(q = p /\ g = v) => Lead(s, q, g) = Lead(y, q, g)
         /\ \A q \in Proc, w \in Page : ~(q = p /\ w = v) => (Writable(s, q, w) <=> Writable(y, q, w))
  BY <1>0, <1>1, <1>4, SetPteEffect
<1> HIDE DEF s
<1>7. ASSUME Mapped(y, p, v)
      PROVE  f \in Frame /\ f = Lead(y, p, v)
  BY <1>7, <1>0, <1>1, LeadIs, Frames
<1>8. Mapped(y, p, v) => z \in Memories /\ (Bad(s) => Bad(z))
  BY <1>5, <1>7, FreeEffect
<1>9. Mapped(y, p, v) /\ s.memory_map[f] > 0 =>
        /\ z.memory_map = [s.memory_map EXCEPT ![f] = @ - 1]
        /\ z.page_dir = s.page_dir /\ z.halted = s.halted /\ z.spoiled = s.spoiled
        /\ \A g \in 0..FRAMES : g # f \/ s.memory_map[f] > 1 =>
              z.data[g] = s.data[g] /\ z.entries[g] = s.entries[g]
        /\ s.memory_map[f] = 1 => z.entries[f] = EmptyTable
        /\ s.free_pages = Cardinality(FreeOf(s.memory_map)) =>
             z.free_pages = Cardinality(FreeOf(z.memory_map))
  BY <1>5, <1>7, FreeEffect
<1> HIDE DEF z
<1>10. (v \in vmap[p]) \in BOOLEAN /\ (v \notin vmap[p]) \in BOOLEAN
  OBVIOUS
<1>11. l \in Memories /\ (Bad(x) => Bad(l)) /\ (Bad(y) => Bad(l))
  <2>1. CASE ~Mapped(y, p, v)
    BY <2>1, <1>1, <1>3, <1>10, AssertEffect
  <2>2. CASE Mapped(y, p, v)
    BY <2>2, <1>1, <1>3, <1>5, <1>8, <1>10, AssertEffect
  <2> QED BY <2>1, <2>2
<1>12. ASSUME Good(x, A), v \in vmap[p] <=> Lead(x, p, v) # 0, ~Bad(l)
       PROVE  /\ Good(l, A) /\ Lead(l, p, v) = 0
              /\ \A q \in A, w \in Page : ~(q = p /\ w = v) => Lead(l, q, w) = Lead(x, q, w)
              /\ \A q \in A, w \in Page : Lead(l, q, w) # 0 =>
                   l.data[Lead(l, q, w)] = x.data[Lead(l, q, w)]
  <2>1. Good(y, A) /\ SamePages(x, y) /\ y.data = x.data /\ y.page_dir[p][i] # 0
    BY <1>2, <1>11, <1>12
  <2>2. /\ Lead(y, p, v) = Lead(x, p, v) /\ (Mapped(y, p, v) <=> Lead(x, p, v) # 0)
        /\ \A q \in A, w \in Page : Lead(y, q, w) = Lead(x, q, w)
    BY <2>1, <1>0, <1>1, LeadIs DEF SamePages
  <2>3. CASE ~Mapped(y, p, v)
    <3>1. l = y
      BY <2>2, <2>3, <1>1, <1>3, <1>10, <1>12, AssertEffect
    <3> QED BY <3>1, <2>1, <2>2, <2>3
  <2>4. CASE Mapped(y, p, v)
    <3>1. l = z /\ z \in Memories
      BY <2>2, <2>4, <1>3, <1>8, <1>10, <1>12, AssertEffect
    <3>2. f \in Frame /\ f = Lead(y, p, v) /\ f # 0
      BY <1>7, <2>4, Frames
    <3>3. y.memory_map[f] > 0
      BY <3>2, <2>1, <1>0, <1>1, CountFacts DEF Good
    <3>4. \A q \in Proc, j \in Table : y.page_dir[q][j] = y.page_dir[p][i] => q = p /\ j = i
      BY <2>1, <1>0, <1>1, TableAlone DEF Good
    <3>5. /\ Lead(s, p, v) = 0 /\ ~Writable(s, p, v)
          /\ \A q \in Proc, g \in Entry : ~(q = p /\ g = v) => Lead(s, q, g) = Lead(y, q, g)
          /\ \A q \in Proc, w \in Page : ~(q = p /\ w = v) => (Writable(s, q, w) <=> Writable(y, q, w))
      BY <3>4, <2>1, <1>6
    <3>6. /\ z.memory_map = [y.memory_map EXCEPT ![f] = @ - 1]
          /\ z.page_dir = y.page_dir /\ z.halted = "no" /\ ~z.spoiled
          /\ \A g \in 0..FRAMES : g # f \/ y.memory_map[f] > 1 =>
                z.data[g] = y.data[g] /\ z.entries[g] = s.entries[g]
          /\ y.memory_map[f] = 1 => z.entries[f] = EmptyTable
          /\ z.free_pages = Cardinality(FreeOf(z.memory_map))
      BY <3>3, <2>1, <2>4, <1>5, <1>9 DEF Good, Counted
    <3>7. \A q \in Proc, j \in Table : y.page_dir[q][j] # f
      <4> SUFFICES ASSUME NEW q \in Proc, NEW j \in Table, y.page_dir[q][j] = f PROVE FALSE
        OBVIOUS
      <4>1. q \in A
        BY <3>2, <2>1 DEF Good, Dirs, NoTables
      <4>2. v = 0 - j
        BY <4>1, <3>2, <2>1, <1>0 DEF Good, TablesPrivate
      <4> QED BY <4>2, Entries
    <3>8. /\ \A q \in Proc, e \in Entry : Lead(z, q, e) = Lead(s, q, e)
          /\ \A q \in Proc, w \in Page : Writable(z, q, w) <=> Writable(s, q, w)
      <4>1. ASSUME NEW q \in Proc
            PROVE  /\ z.page_dir[q] = s.page_dir[q]
                   /\ \A j \in Table : s.page_dir[q][j] # 0 =>
                        z.entries[s.page_dir[q][j]] = s.entries[s.page_dir[q][j]]
        <5>1. \A j \in Table : s.page_dir[q][j] # f /\ s.page_dir[q][j] \in 0..FRAMES
          BY <3>7, <1>5, LeadIs
        <5> QED BY <5>1, <3>6, <1>5
      <4> QED BY <4>1, <3>1, <1>5, LeadSame
    <3>9. /\ Lead(z, p, v) = 0 /\ ~Writable(z, p, v)
          /\ \A q \in A, g \in Entry : ~(q = p /\ g = v) => Lead(z, q, g) = Lead(y, q, g)
          /\ \A q \in A, w \in Page : Writable(z, q, w) => Writable(y, q, w)
      BY <3>5, <3>8, <1>0
    <3>10. TablesPrivate(z, A) /\ Once(z, A) /\ WritesPrivate(z, A)
      <4>1. \A q \in A, g \in Entry : Lead(z, q, g) = Lead(y, q, g) \/ Lead(z, q, g) = 0
        BY <3>9
      <4> QED BY <4>1, <3>1, <3>9, <2>1, <1>1, Fewer DEF Good
    <3>11. ASSUME NEW g \in Frame
           PROVE  z.memory_map[g] = Cardinality(Users(z, A, g))
      <4>1. y.memory_map \in [0..FRAMES -> Nat]
        BY <1>1 DEF Memories
      <4>2. /\ y.memory_map[g] = Cardinality(Users(y, A, g)) /\ y.memory_map[g] \in Nat
            /\ Cardinality(Users(z, A, g)) \in Nat /\ g # 0
        BY <4>1, <2>1, Frames, UsersFinite DEF Good, Counted
      <4>3. CASE g = f
        <5>1. \A q \in A, h \in Entry : ~(q = p /\ h = v) => (Lead(z, q, h) = g <=> Lead(y, q, h) = g)
          BY <3>9
        <5>2. Cardinality(Users(y, A, g)) = Cardinality(Users(z, A, g)) + 1
          BY <5>1, <4>2, <4>3, <3>2, <3>9, <1>0, UsersPlus
        <5>3. z.memory_map[g] = y.memory_map[g] - 1
          BY <4>1, <4>3, <3>2, <3>6, Frames
        <5> QED BY <5>2, <5>3, <4>2
      <4>4. CASE g # f
        <5>1. \A q \in A, h \in Entry : Lead(y, q, h) = g <=> Lead(z, q, h) = g
          BY <4>2, <4>4, <3>2, <3>9, <1>0
        <5>2. Users(z, A, g) = Users(y, A, g)
          BY <5>1, UsersSame
        <5>3. z.memory_map[g] = y.memory_map[g]
          BY <4>1, <4>4, <3>6, Frames
        <5> QED BY <5>2, <5>3, <4>2
      <4> QED BY <4>3, <4>4
    <3>12. Counted(z, A)
      BY <3>6, <3>11 DEF Counted
    <3>13. Plain(z, A)
      <4>1. ASSUME NEW g \in Frame, \A q \in A, j \in Table : z.page_dir[q][j] # g
            PROVE  z.entries[g] = EmptyTable
        <5>1. /\ y.entries[g] = EmptyTable /\ g # y.page_dir[p][i] /\ g \in 0..FRAMES
          BY <4>1, <3>6, <2>1, <1>0, Frames DEF Good, Plain
        <5>2. s.entries[g] = EmptyTable
          BY <5>1, <1>5
        <5>3. y.memory_map[f] \in Nat
          <6>1. y.memory_map \in [0..FRAMES -> Nat]
            BY <1>1 DEF Memories
          <6> QED BY <6>1, <3>2, Frames
        <5>4. g # f \/ y.memory_map[f] > 1 \/ y.memory_map[f] = 1
          BY <5>3, <3>3
        <5> QED BY <5>1, <5>2, <5>4, <3>6
      <4> QED BY <4>1 DEF Plain
    <3>14. Dirs(z, A)
      BY <3>6, <2>1 DEF Good, Dirs
    <3>15. Good(z, A)
      BY <3>6, <3>10, <3>12, <3>13, <3>14 DEF Good
    <3>16. ASSUME NEW q \in A, NEW w \in Page, Lead(z, q, w) # 0
           PROVE  z.data[Lead(z, q, w)] = x.data[Lead(z, q, w)]
      <4>1. w \in Entry /\ Lead(z, q, w) = Lead(y, q, w) /\ ~(q = p /\ w = v)
        BY <3>16, <3>9, Entries
      <4>2. Lead(z, q, w) \in 0..FRAMES
        BY <4>1, <3>1, LeadIs
      <4>3. Lead(z, q, w) # f \/ y.memory_map[f] > 1
        <5>1. ASSUME Lead(z, q, w) = f, y.memory_map[f] = 1 PROVE FALSE
          BY <5>1, <4>1, <3>2, <2>1, <1>0, <1>1, CountFacts DEF Good
        <5>2. y.memory_map[f] \in Nat
          <6>1. y.memory_map \in [0..FRAMES -> Nat]
            BY <1>1 DEF Memories
          <6> QED BY <6>1, <3>2, Frames
        <5> QED BY <5>1, <5>2, <3>3
      <4> QED BY <4>2, <4>3, <3>6, <2>1
    <3>17. \A q \in A, w \in Page : ~(q = p /\ w = v) => Lead(z, q, w) = Lead(x, q, w)
      BY <3>9, <2>2, Entries
    <3> QED BY <3>1, <3>9, <3>15, <3>16, <3>17
  <2> QED BY <2>3, <2>4
<1> QED BY <1>11, <1>12 DEF l


(* copy_page fills the new frame, unless it goes through a stale TLB entry. *)
LEMMA CopyPageEffect ==
  ASSUME NEW x \in Memories, NEW from \in 0..FRAMES, NEW keep \in BOOLEAN
  PROVE  LET y == copy_page(x, from, keep)
             n == y.paddr
         IN
         /\ y \in Memories
         /\ Bad(x) => Bad(y)
         /\ \A f \in 0..FRAMES : x.memory_map[f] > 0 => y.memory_map[f] = x.memory_map[f]
         /\ y.page_dir = x.page_dir
         /\ x.halted = "no" /\ x.free_pages = Cardinality(FreeOf(x.memory_map)) =>
              \/ Bad(y)
              \/ /\ n \in Frame /\ x.memory_map[n] = 0
                 /\ y.memory_map = [x.memory_map EXCEPT ![n] = 1]
                 /\ y.halted = "no" /\ y.free_pages = Cardinality(FreeOf(y.memory_map))
                 /\ y.data = [x.data EXCEPT ![n] = x.data[from]]
                 /\ y.entries = [x.entries EXCEPT ![n] = x.entries[from]]
<1> DEFINE y == copy_page(x, from, keep)
           a == alloc_page(x)
           to == IF keep /\ x.tlb # 0 THEN x.tlb ELSE a.paddr
           dd == [a.data EXCEPT ![to] = x.data[from]]
           ee == [a.entries EXCEPT ![to] = x.entries[from]]
           sp == a.spoiled \/ to # a.paddr
<1>1. y = [a EXCEPT !.data = dd, !.entries = ee, !.tlb = to, !.spoiled = sp]
  BY DEF copy_page
<1>2. /\ a \in Memories /\ SameSpace(x, a) /\ (Bad(x) => Bad(a))
      /\ \A f \in 0..FRAMES : x.memory_map[f] > 0 => a.memory_map[f] = x.memory_map[f]
  BY AllocEffect
<1> HIDE DEF a, y
<1>3. /\ x.data \in [0..FRAMES -> 0..Junk] /\ x.entries \in [0..FRAMES -> [1..ENTRIES -> Pte]]
      /\ x.tlb \in 0..FRAMES /\ a.paddr \in 0..FRAMES /\ a.spoiled \in BOOLEAN
  BY <1>2 DEF Memories
<1>4. a.data = x.data /\ a.entries = x.entries /\ a.spoiled = x.spoiled /\ a.page_dir = x.page_dir
  BY <1>2 DEF SameSpace
<1>5. to \in 0..FRAMES
  BY <1>3
<1> HIDE DEF to
<1>6. /\ dd \in [0..FRAMES -> 0..Junk] /\ ee \in [0..FRAMES -> [1..ENTRIES -> Pte]] /\ sp \in BOOLEAN
  BY <1>3, <1>4, <1>5
<1> HIDE DEF dd, ee, sp
<1>7. y \in Memories
  BY <1>1, <1>2, <1>5, <1>6 DEF Memories
<1>8. /\ y.memory_map = a.memory_map /\ y.free_pages = a.free_pages /\ y.data = dd /\ y.entries = ee
      /\ y.page_dir = a.page_dir /\ y.paddr = a.paddr /\ y.halted = a.halted /\ y.spoiled = sp
  BY <1>1, <1>2 DEF Memories
<1>9. Bad(x) => Bad(y)
  BY <1>2, <1>8 DEF Bad, sp
<1>10. ASSUME x.halted = "no", x.free_pages = Cardinality(FreeOf(x.memory_map)), ~Bad(y)
       PROVE  /\ y.paddr \in Frame /\ x.memory_map[y.paddr] = 0
              /\ y.memory_map = [x.memory_map EXCEPT ![y.paddr] = 1]
              /\ y.halted = "no" /\ y.free_pages = Cardinality(FreeOf(y.memory_map))
              /\ y.data = [x.data EXCEPT ![y.paddr] = x.data[from]]
              /\ y.entries = [x.entries EXCEPT ![y.paddr] = x.entries[from]]
  <2>1. ~Bad(a) /\ to = a.paddr
    BY <1>10, <1>8 DEF Bad, sp
  <2>2. /\ a.paddr \in Frame /\ x.memory_map[a.paddr] = 0
        /\ a.memory_map = [x.memory_map EXCEPT ![a.paddr] = 1]
        /\ a.halted = "no" /\ a.free_pages = Cardinality(FreeOf(a.memory_map))
    BY <2>1, <1>10, AllocEffect DEF a
  <2>3. dd = [x.data EXCEPT ![a.paddr] = x.data[from]] /\ ee = [x.entries EXCEPT ![a.paddr] = x.entries[from]]
    BY <2>1, <1>4 DEF dd, ee
  <2> QED BY <2>2, <2>3, <1>8
<1>11. y.page_dir = x.page_dir /\ \A f \in 0..FRAMES : x.memory_map[f] > 0 => y.memory_map[f] = x.memory_map[f]
  BY <1>2, <1>4, <1>8
<1> QED BY <1>7, <1>9, <1>10, <1>11 DEF y

(* Copy-on-write gives page v of p a frame of its own, with the same       *)
(* contents; the other pages and their contents do not change.             *)
LEMMA CowEffect ==
  ASSUME NEW x \in Memories, NEW A, A \subseteq Proc, NEW p \in A, NEW v \in Page, NEW keep \in BOOLEAN,
         x.memory_map[pte(x, p, v).frame] > 0
  PROVE  LET y == copy_on_write(x, p, v, keep) IN
         /\ y \in Memories
         /\ Bad(x) => Bad(y)
         /\ Good(x, A) /\ Lead(x, p, v) # 0 =>
              \/ Bad(y)
              \/ /\ Good(y, A)
                 /\ \A q \in A, w \in Page :
                      /\ Lead(y, q, w) # 0 <=> Lead(x, q, w) # 0
                      /\ Lead(x, q, w) # 0 => y.data[Lead(y, q, w)] = x.data[Lead(x, q, w)]
<1> DEFINE old == pte(x, p, v).frame
           i == PDE_IDX(v)
           e1 == [frame |-> old, write |-> TRUE]
           y1 == SetPte(x, p, v, e1)
           c == copy_page(x, old, keep)
           n == c.paddr
           e2 == [frame |-> n, write |-> TRUE]
           s == SetPte(c, p, v, e2)
           mm == [s.memory_map EXCEPT ![old] = @ - 1]
           y2 == [s EXCEPT !.memory_map = mm]
           l == copy_on_write(x, p, v, keep)
<1>0. p \in Proc /\ i \in Table /\ v \in Entry
  BY Indices, Entries
<1>1. old \in 0..FRAMES /\ e1 \in Pte
  <2>1. old \in 0..FRAMES
    BY <1>0, LeadIs DEF Pte
  <2> QED BY <2>1 DEF Pte
<1>2. e1.frame = old /\ e1.write /\ e2.frame = n /\ e2.write
  OBVIOUS
<1>3. l = IF x.memory_map[old] = 1 THEN y1 ELSE y2
  BY DEF copy_on_write
<1> HIDE DEF l
<1>4. /\ c \in Memories /\ (Bad(x) => Bad(c)) /\ c.page_dir = x.page_dir
      /\ c.memory_map[old] = x.memory_map[old]
      /\ x.halted = "no" /\ x.free_pages = Cardinality(FreeOf(x.memory_map)) =>
           \/ Bad(c)
           \/ /\ n \in Frame /\ x.memory_map[n] = 0
              /\ c.memory_map = [x.memory_map EXCEPT ![n] = 1]
              /\ c.halted = "no" /\ c.free_pages = Cardinality(FreeOf(c.memory_map))
              /\ c.data = [x.data EXCEPT ![n] = x.data[old]]
              /\ c.entries = [x.entries EXCEPT ![n] = x.entries[old]]
  BY <1>1, CopyPageEffect
<1> HIDE DEF c
<1>5. n \in 0..FRAMES /\ e2 \in Pte
  BY <1>4 DEF Memories, Pte
<1> HIDE DEF e1, e2
<1>6. /\ y1 \in Memories /\ (Bad(x) => Bad(y1))
      /\ y1.memory_map = x.memory_map /\ y1.free_pages = x.free_pages /\ y1.data = x.data
      /\ y1.page_dir = x.page_dir /\ y1.halted = x.halted /\ y1.spoiled = x.spoiled
      /\ \A g \in 0..FRAMES : g # x.page_dir[p][i] => y1.entries[g] = x.entries[g]
  BY <1>0, <1>1, SetPteEffect
<1>7. /\ x.page_dir[p][i] # 0
      /\ \A q \in Proc, j \in Table : x.page_dir[q][j] = x.page_dir[p][i] => q = p /\ j = i
      => /\ Lead(y1, p, v) = e1.frame
         /\ \A q \in Proc, g \in Entry : ~(q = p /\ g = v) => Lead(y1, q, g) = Lead(x, q, g)
         /\ \A q \in Proc, w \in Page : ~(q = p /\ w = v) => (Writable(y1, q, w) <=> Writable(x, q, w))
  BY <1>0, <1>1, SetPteEffect
<1>8. /\ s \in Memories /\ (Bad(c) => Bad(s))
      /\ s.memory_map = c.memory_map /\ s.free_pages = c.free_pages /\ s.data = c.data
      /\ s.page_dir = c.page_dir /\ s.halted = c.halted /\ s.spoiled = c.spoiled
      /\ \A g \in 0..FRAMES : g # c.page_dir[p][i] => s.entries[g] = c.entries[g]
  BY <1>0, <1>4, <1>5, SetPteEffect
<1>9. /\ c.page_dir[p][i] # 0
      /\ \A q \in Proc, j \in Table : c.page_dir[q][j] = c.page_dir[p][i] => q = p /\ j = i
      => /\ Lead(s, p, v) = e2.frame
         /\ \A q \in Proc, g \in Entry : ~(q = p /\ g = v) => Lead(s, q, g) = Lead(c, q, g)
         /\ \A q \in Proc, w \in Page : ~(q = p /\ w = v) => (Writable(s, q, w) <=> Writable(c, q, w))
  BY SMTT(30), <1>0, <1>4, <1>5, SetPteEffect
<1> HIDE DEF y1, s
<1>10. x.memory_map \in [0..FRAMES -> Nat] /\ s.memory_map \in [0..FRAMES -> Nat]
  BY <1>8 DEF Memories
<1>11. mm \in [0..FRAMES -> Nat]
  <2>1. s.memory_map[old] = x.memory_map[old] /\ x.memory_map[old] \in Nat
    BY <1>1, <1>4, <1>8, <1>10
  <2>2. s.memory_map[old] - 1 \in Nat
    BY <2>1
  <2> HIDE DEF old
  <2> QED BY <2>2, <1>10
<1> HIDE DEF mm
<1>12. y2 \in Memories
  BY <1>8, <1>11 DEF Memories
<1>13. /\ y2.memory_map = mm /\ y2.free_pages = s.free_pages /\ y2.data = s.data /\ y2.entries = s.entries
       /\ y2.page_dir = s.page_dir /\ y2.halted = s.halted /\ y2.spoiled = s.spoiled
  BY <1>8 DEF Memories
<1> HIDE DEF y2
<1>14. Bad(s) => Bad(y2)
  BY <1>13 DEF Bad
<1>15. l \in Memories /\ (Bad(x) => Bad(l))
  BY <1>3, <1>4, <1>6, <1>8, <1>12, <1>14
<1>16. ASSUME Good(x, A), Lead(x, p, v) # 0, ~Bad(l)
       PROVE  /\ Good(l, A)
              /\ \A q \in A, w \in Page :
                   /\ Lead(l, q, w) # 0 <=> Lead(x, q, w) # 0
                   /\ Lead(x, q, w) # 0 => l.data[Lead(l, q, w)] = x.data[Lead(x, q, w)]
  <2>1. x.page_dir[p][i] # 0 /\ Lead(x, p, v) = old /\ old \in Frame
    BY <1>0, <1>1, <1>16, LeadIs, Frames
  <2>2. \A q \in Proc, j \in Table : x.page_dir[q][j] = x.page_dir[p][i] => q = p /\ j = i
    BY <2>1, <1>0, <1>16, TableAlone DEF Good
  <2>3. CASE x.memory_map[old] = 1
    <3>1. l = y1
      BY <1>3, <2>3
    <3>2. /\ \A q \in Proc, g \in Entry : Lead(y1, q, g) = Lead(x, q, g)
          /\ \A q \in Proc, w \in Page : ~(q = p /\ w = v) => (Writable(y1, q, w) <=> Writable(x, q, w))
      BY <1>2, <1>7, <2>1, <2>2 DEF e1
    <3>3. TablesPrivate(y1, A) /\ Once(y1, A)
      <4>1. \A q \in A, j \in Table : y1.page_dir[q][j] = x.page_dir[q][j]
        BY <1>6
      <4> QED BY <3>2, <4>1, <1>16 DEF Good, TablesPrivate, Once
    <3>4. WritesPrivate(y1, A)
      <4>1. ASSUME NEW q \in A, NEW r \in A, NEW u \in Page, NEW w \in Page,
                   Writable(y1, q, u), Lead(y1, r, w) = Lead(y1, q, u)
            PROVE  r = q
        <5>1. u \in Entry /\ w \in Entry /\ Lead(x, r, w) = Lead(x, q, u)
          BY <4>1, <3>2, Entries
        <5>2. CASE q = p /\ u = v
          BY <5>1, <5>2, <2>1, <2>3, <1>0, <1>16, CountFacts DEF Good
        <5>3. CASE ~(q = p /\ u = v)
          BY <5>1, <5>3, <4>1, <3>2, <1>16 DEF Good, WritesPrivate
        <5> QED BY <5>2, <5>3
      <4> QED BY <4>1 DEF WritesPrivate
    <3>5. Counted(y1, A)
      <4>1. \A f \in Frame : Users(y1, A, f) = Users(x, A, f)
        BY <3>2, UsersSame
      <4> QED BY <4>1, <1>6, <1>16 DEF Good, Counted
    <3>6. Plain(y1, A) /\ Dirs(y1, A)
      <4>1. ASSUME NEW f \in Frame, \A q \in A, j \in Table : y1.page_dir[q][j] # f
            PROVE  y1.entries[f] = EmptyTable
        BY <4>1, <1>0, <1>6, <1>16, Frames DEF Good, Plain
      <4> QED BY <4>1, <1>6, <1>16 DEF Good, Plain, Dirs
    <3>7. Good(y1, A)
      BY <3>3, <3>4, <3>5, <3>6, <1>6, <1>16 DEF Good
    <3> QED BY <3>1, <3>2, <3>7, <1>6, Entries
  <2>4. CASE x.memory_map[old] # 1
    <3>1. l = y2 /\ ~Bad(c)
      BY <1>3, <2>4, <1>8, <1>14, <1>16
    <3>2. /\ n \in Frame /\ x.memory_map[n] = 0
          /\ c.memory_map = [x.memory_map EXCEPT ![n] = 1]
          /\ c.halted = "no" /\ c.free_pages = Cardinality(FreeOf(c.memory_map))
          /\ c.data = [x.data EXCEPT ![n] = x.data[old]]
          /\ c.entries = [x.entries EXCEPT ![n] = x.entries[old]]
      BY <3>1, <1>4, <1>16 DEF Good, Counted
    <3>3. /\ \A q \in A, g \in Entry : Lead(x, q, g) # n
          /\ x.entries[n] = EmptyTable /\ n # old /\ n # 0
      BY <3>2, <1>16, <2>1, FreeUnused, Frames DEF Good
    <3>4. x.entries[old] = EmptyTable
      <4>1. ASSUME NEW q \in A, NEW j \in Table, x.page_dir[q][j] = old PROVE FALSE
        <5>1. v = 0 - j
          BY <4>1, <2>1, <1>0, <1>16 DEF Good, TablesPrivate
        <5> QED BY <5>1, Entries
      <4> QED BY <4>1, <2>1, <1>16 DEF Good, Plain
    <3>5. c.entries = x.entries
      <4>1. x.entries \in [0..FRAMES -> [1..ENTRIES -> Pte]]
        BY DEF Memories
      <4> QED BY <4>1, <3>2, <3>3, <3>4
    <3>6. /\ \A q \in Proc, g \in Entry : Lead(c, q, g) = Lead(x, q, g)
          /\ \A q \in Proc, w \in Page : Writable(c, q, w) <=> Writable(x, q, w)
      BY <3>5, <1>4, LeadSame
    <3>7. /\ Lead(s, p, v) = n
          /\ \A q \in Proc, g \in Entry : ~(q = p /\ g = v) => Lead(s, q, g) = Lead(x, q, g)
          /\ \A q \in Proc, w \in Page : ~(q = p /\ w = v) => (Writable(s, q, w) <=> Writable(x, q, w))
      BY <3>6, <2>1, <2>2, <1>4, <1>9 DEF e2
    <3>8. /\ \A q \in Proc, g \in Entry : Lead(y2, q, g) = Lead(s, q, g)
          /\ \A q \in Proc, w \in Page : Writable(y2, q, w) <=> Writable(s, q, w)
      BY <1>8, <1>12, <1>13, LeadSame
    <3>9. /\ Lead(y2, p, v) = n
          /\ \A q \in A, g \in Entry : ~(q = p /\ g = v) => Lead(y2, q, g) = Lead(x, q, g)
          /\ \A q \in A, w \in Page : ~(q = p /\ w = v) => (Writable(y2, q, w) => Writable(x, q, w))
      BY <3>7, <3>8, <1>0
    <3>10. \A f \in Frame : y2.memory_map[f] = IF f = n THEN 1
                                               ELSE IF f = Lead(x, p, v) THEN x.memory_map[f] - 1
                                               ELSE x.memory_map[f]
      <4> HIDE DEF old, n
      <4>1. s.memory_map = [x.memory_map EXCEPT ![n] = 1] /\ y2.memory_map = mm
        BY <3>2, <1>8, <1>13
      <4>2. \A f \in Frame : s.memory_map[f] = IF f = n THEN 1 ELSE x.memory_map[f]
        BY <4>1, <1>10, Frames
      <4>3. \A f \in Frame : mm[f] = IF f = old THEN s.memory_map[f] - 1 ELSE s.memory_map[f]
        BY <1>10, Frames DEF mm
      <4> QED BY <4>1, <4>2, <4>3, <3>3, <2>1
    <3>11. y2.free_pages = Cardinality(FreeOf(y2.memory_map))
      <4>1. \A f \in Frame : y2.memory_map[f] = 0 <=> s.memory_map[f] = 0
        BY SMTT(30), <3>2, <3>10, <2>1, <2>4, <1>1, <1>8, <1>10, Frames
      <4>2. FreeOf(y2.memory_map) = FreeOf(s.memory_map)
        BY <4>1, FreeSame
      <4> QED BY <4>2, <3>2, <1>8, <1>13
    <3>12. ASSUME NEW f \in Frame, \A q \in A, j \in Table : x.page_dir[q][j] # f
           PROVE  y2.entries[f] = EmptyTable
      <4>1. f # c.page_dir[p][i] /\ f \in 0..FRAMES
        BY <3>12, <1>0, <1>4, Frames
      <4>2. x.entries[f] = EmptyTable
        BY <3>12, <1>16 DEF Good, Plain
      <4> QED BY <4>1, <4>2, <3>5, <1>8, <1>13
    <3>13. y2.page_dir = x.page_dir /\ y2.halted = "no" /\ ~y2.spoiled
      BY <3>1, <3>2, <1>4, <1>8, <1>13, <1>16 DEF Bad
    <3>14. Good(y2, A)
      <4>1. \A f \in Frame : (\A q \in A, j \in Table : x.page_dir[q][j] # f) => y2.entries[f] = EmptyTable
        BY <3>12
      <4>2. n \in Frame /\ x.memory_map[n] = 0 /\ y2 \in Memories
        BY <3>2, <1>12
      <4> HIDE DEF n
      <4> QED BY <4>1, <4>2, <3>9, <3>10, <3>11, <3>13, <1>16, PointTo
    <3>15. ASSUME NEW q \in A, NEW w \in Page
           PROVE  /\ Lead(y2, q, w) # 0 <=> Lead(x, q, w) # 0
                  /\ Lead(x, q, w) # 0 => y2.data[Lead(y2, q, w)] = x.data[Lead(x, q, w)]
      <4>1. w \in Entry /\ x.data \in [0..FRAMES -> 0..Junk] /\ Lead(x, q, w) \in 0..FRAMES
        BY Entries, LeadIs DEF Memories
      <4>2. y2.data = [x.data EXCEPT ![n] = x.data[old]]
        BY <3>2, <1>8, <1>13
      <4>3. CASE q = p /\ w = v
        <5> HIDE DEF old, n
        <5>1. Lead(y2, q, w) = n /\ Lead(x, q, w) = old
          BY <4>3, <3>9, <2>1
        <5>2. y2.data[n] = x.data[old]
          BY <4>1, <4>2, <1>5
        <5> QED BY <5>1, <5>2, <3>3, <2>1, Frames
      <4>4. CASE ~(q = p /\ w = v)
        <5>1. Lead(y2, q, w) = Lead(x, q, w) /\ Lead(x, q, w) # n
          BY <4>1, <4>4, <3>3, <3>9
        <5> QED BY <5>1, <4>1, <4>2
      <4> QED BY <4>3, <4>4
    <3> QED BY <3>1, <3>14, <3>15
  <2> QED BY <2>3, <2>4
<1> QED BY <1>15, <1>16 DEF l

-----------------------------------------------------------------------------
(* The address space of a child. *)

(* The entries of page table T that lead to frame f. *)
Uses(x, T, f) == {k \in 1..ENTRIES : x.entries[T][k].frame # 0 /\ x.entries[T][k].frame = f}

(* Sharing a page table adds its entries to the counts and makes it        *)
(* read-only.                                                              *)
LEMMA ShareEffect ==
  ASSUME NEW x \in Memories, NEW T \in 0..FRAMES
  PROVE  LET y == ShareTable(x, T) IN
         /\ y \in Memories
         /\ Bad(x) => Bad(y)
         /\ y.page_dir = x.page_dir
         /\ (\A k \in 1..ENTRIES : x.entries[T][k].frame # 0 =>
                /\ x.memory_map[x.entries[T][k].frame] > 0
                /\ x.memory_map[x.entries[T][k].frame] + Cardinality(Uses(x, T, x.entries[T][k].frame)) < MAX_REFS)
            => /\ y.data = x.data /\ y.halted = x.halted /\ y.spoiled = x.spoiled
               /\ y.free_pages = x.free_pages
               /\ \A f \in 0..FRAMES : y.memory_map[f] = x.memory_map[f] + Cardinality(Uses(x, T, f))
               /\ \A g \in 0..FRAMES : g # T => y.entries[g] = x.entries[g]
               /\ \A k \in 1..ENTRIES : /\ y.entries[T][k].frame = x.entries[T][k].frame
                                        /\ ~y.entries[T][k].write
<1> DEFINE shared == {k \in 1..ENTRIES : x.entries[T][k].frame # 0}
           refs == [f \in 0..FRAMES |->
                      x.memory_map[f] + Cardinality({k \in shared : x.entries[T][k].frame = f})]
           ro == [k \in 1..ENTRIES |-> [x.entries[T][k] EXCEPT !.write = FALSE]]
           ee == [x.entries EXCEPT ![T] = ro]
           u == [x EXCEPT !.memory_map = refs, !.entries = ee]
           ok == \A k \in shared : /\ x.memory_map[x.entries[T][k].frame] > 0
                                   /\ refs[x.entries[T][k].frame] < MAX_REFS
           y == ShareTable(x, T)
<1>1. y = Assert_(u, ok)
  BY DEF ShareTable
<1>2. /\ x.memory_map \in [0..FRAMES -> Nat] /\ x.entries \in [0..FRAMES -> [1..ENTRIES -> Pte]]
  BY DEF Memories
<1>3. IsFiniteSet(1..ENTRIES)
  BY FS_Interval, MemoryAssumption
<1>4. \A f : {k \in shared : x.entries[T][k].frame = f} = Uses(x, T, f)
  BY DEF Uses
<1>5. \A f : Cardinality(Uses(x, T, f)) \in Nat
  <2>1. \A f : Uses(x, T, f) \subseteq 1..ENTRIES
    BY DEF Uses
  <2> QED BY <2>1, <1>3, FS_Subset, FS_CardinalityType
<1>6. refs = [f \in 0..FRAMES |-> x.memory_map[f] + Cardinality(Uses(x, T, f))]
  BY <1>4
<1>7. refs \in [0..FRAMES -> Nat]
  <2>1. \A f \in 0..FRAMES : x.memory_map[f] \in Nat
    BY <1>2
  <2>2. \A f \in 0..FRAMES : x.memory_map[f] + Cardinality(Uses(x, T, f)) \in Nat
    BY <2>1, <1>5
  <2> HIDE DEF refs
  <2> QED BY <2>2, <1>6
<1>8. \A k \in 1..ENTRIES : x.entries[T][k] \in Pte
  BY <1>2
<1>9. ro \in [1..ENTRIES -> Pte] /\ \A k \in 1..ENTRIES : ro[k].frame = x.entries[T][k].frame /\ ~ro[k].write
  BY <1>8 DEF Pte
<1>10. \A f \in 0..FRAMES : refs[f] = x.memory_map[f] + Cardinality(Uses(x, T, f))
  BY <1>6
<1> HIDE DEF refs, ro
<1>11. ee \in [0..FRAMES -> [1..ENTRIES -> Pte]] /\ ee[T] = ro /\ \A g \in 0..FRAMES : g # T => ee[g] = x.entries[g]
  BY <1>2, <1>9
<1> HIDE DEF ee
<1>12. u \in Memories
  BY <1>7, <1>11 DEF Memories
<1>13. /\ u.memory_map = refs /\ u.entries = ee /\ u.free_pages = x.free_pages /\ u.data = x.data
       /\ u.page_dir = x.page_dir /\ u.halted = x.halted /\ u.spoiled = x.spoiled
  BY DEF Memories
<1>14. Bad(x) => Bad(u)
  BY <1>13 DEF Bad
<1>15. ok \in BOOLEAN
  OBVIOUS
<1> HIDE DEF u, y
<1>16. /\ y \in Memories /\ (Bad(u) => Bad(y)) /\ (ok => y = u) /\ y.page_dir = u.page_dir
  <2> HIDE DEF ok
  <2> QED BY <1>1, <1>12, <1>15, AssertEffect DEF SameSpace
<1>17. ASSUME \A k \in 1..ENTRIES : x.entries[T][k].frame # 0 =>
                /\ x.memory_map[x.entries[T][k].frame] > 0
                /\ x.memory_map[x.entries[T][k].frame] + Cardinality(Uses(x, T, x.entries[T][k].frame)) < MAX_REFS
       PROVE  ok
  <2>1. \A k \in 1..ENTRIES : x.entries[T][k].frame \in 0..FRAMES
    BY <1>8 DEF Pte
  <2> QED BY <2>1, <1>10, <1>17
<1>18. y.page_dir = x.page_dir
  BY <1>13, <1>16
<1>19. ASSUME ok
       PROVE  /\ y.data = x.data /\ y.halted = x.halted /\ y.spoiled = x.spoiled
              /\ y.free_pages = x.free_pages
              /\ \A f \in 0..FRAMES : y.memory_map[f] = x.memory_map[f] + Cardinality(Uses(x, T, f))
              /\ \A g \in 0..FRAMES : g # T => y.entries[g] = x.entries[g]
              /\ \A k \in 1..ENTRIES : /\ y.entries[T][k].frame = x.entries[T][k].frame
                                       /\ ~y.entries[T][k].write
  <2>1. y = u
    BY <1>16, <1>19
  <2> QED BY <2>1, <1>9, <1>10, <1>11, <1>13
<1> HIDE DEF ok
<1> QED BY <1>14, <1>16, <1>17, <1>18, <1>19 DEF y

(* A frame that is at most once in each address space has no more users    *)
(* than there are processes that use it.                                   *)
LEMMA OnceBound ==
  ASSUME NEW x, NEW A, A \subseteq Proc, Once(x, A), NEW f, f # 0, NEW B, B \subseteq Proc,
         \A q \in A, e \in Entry : Lead(x, q, e) = f => q \in B
  PROVE  Cardinality(Users(x, A, f)) <= Cardinality(B) /\ Cardinality(B) \in Nat
<1> DEFINE U == Users(x, A, f)
           who == [r \in U |-> r[1]]
<1>1. IsFiniteSet(B) /\ Cardinality(B) \in Nat
  BY FS_Subset, FS_CardinalityType, MemoryAssumption
<1>2. \A r \in U : \E q \in A, e \in Entry : r = <<q, e>> /\ Lead(x, q, e) = f
  BY UsersFinite
<1> HIDE DEF U
<1>3. who \in [U -> B]
  <2>1. ASSUME NEW r \in U PROVE r[1] \in B
    <3>1. PICK q \in A, e \in Entry : r = <<q, e>> /\ Lead(x, q, e) = f
      BY <1>2
    <3> QED BY <3>1
  <2> QED BY <2>1
<1>4. ASSUME NEW r \in U, NEW t \in U, who[r] = who[t] PROVE r = t
  <2>1. PICK q \in A, e \in Entry : r = <<q, e>> /\ Lead(x, q, e) = f
    BY <1>2
  <2>2. PICK o \in A, g \in Entry : t = <<o, g>> /\ Lead(x, o, g) = f
    BY <1>2
  <2>3. q = o
    BY <1>4, <2>1, <2>2
  <2>4. e = g
    BY <2>1, <2>2, <2>3 DEF Once
  <2> QED BY <2>1, <2>2, <2>3, <2>4
<1>5. who \in Injection(U, B)
  BY <1>3, <1>4 DEF Injection, IsInjective
<1>6. Cardinality(U) <= Cardinality(B)
  BY <1>1, <1>5, FS_Injection DEF ExistsInjection
<1> QED BY <1>1, <1>6 DEF U

(* Page table i of p, whose frames the child c does not have yet, is       *)
(* shared with c: c gets a new page table n with the same pages, none of   *)
(* them writable any more.                                                 *)
LEMMA ShareGood ==
  ASSUME NEW x \in Memories, NEW y \in Memories, NEW A, A \subseteq Proc, Good(x, A),
         NEW p \in A, NEW c \in A, p # c, NEW i \in Table, NEW n \in Frame, x.memory_map[n] = 0,
         x.page_dir[c][i] = 0,
         \A v \in Page : Lead(x, c, v) # 0 => Lead(x, c, v) = Lead(x, p, v),
         y.halted = "no", ~y.spoiled, y.free_pages = Cardinality(FreeOf(y.memory_map)),
         y.page_dir[c][i] = n,
         \A q \in Proc, j \in Table : ~(q = c /\ j = i) => y.page_dir[q][j] = x.page_dir[q][j],
         \A v \in Page : PDE_IDX(v) = i => Lead(y, c, v) = Lead(x, p, v),
         \A q \in A, v \in Page : ~(q = c /\ PDE_IDX(v) = i) => Lead(y, q, v) = Lead(x, q, v),
         \A q \in A, v \in Page : Writable(y, q, v) => Writable(x, q, v),
         \A v \in Page : PDE_IDX(v) = i => ~Writable(y, p, v),
         \A f \in Frame : y.memory_map[f] = IF f = n THEN 1
                                            ELSE IF \E v \in Page : PDE_IDX(v) = i /\ Lead(x, p, v) = f
                                                 THEN x.memory_map[f] + 1
                                            ELSE x.memory_map[f],
         \A f \in Frame : f # n /\ (\A q \in A, j \in Table : x.page_dir[q][j] # f) => y.entries[f] = EmptyTable
  PROVE  Good(y, A)
<1> DEFINE In(e) == e \in Page /\ PDE_IDX(e) = i
           t == 0 - i
<1>0. n # 0 /\ t \in Entry /\ t < 0 /\ ~(t \in Page) /\ Page \subseteq Entry
  BY Frames, Entries
<1>1. /\ \A q \in A, e \in Entry : Lead(x, q, e) # n
  BY FreeUnused DEF Good
<1>2. Lead(x, c, t) = 0 /\ Lead(y, c, t) = n
  BY LeadIs
<1>3. \A v \in Page : In(v) => Lead(x, c, v) = 0
  BY LeadIs
<1>4. ASSUME NEW q \in A, NEW e \in Entry, ~(q = c /\ (In(e) \/ e = t))
      PROVE  Lead(y, q, e) = Lead(x, q, e)
  <2>1. CASE e \in Page
    BY <2>1, <1>4
  <2>2. CASE e < 0
    <3> DEFINE j == 0 - e
    <3>1. j \in Table /\ 0 - j = e
      BY <2>2, Entries
    <3> HIDE DEF j
    <3>2. ~(q = c /\ j = i)
      BY <3>1, <1>4
    <3>3. y.page_dir[q][j] = x.page_dir[q][j]
      BY <3>1, <3>2
    <3> QED BY <3>1, <3>3, LeadIs
  <2> QED BY <2>1, <2>2, Entries
<1>5. \A v \in Page : In(v) => Lead(y, c, v) = Lead(x, p, v) /\ Lead(y, c, v) # n
  BY <1>0, <1>1
<1>6. \A e \in Entry : In(e) \/ e = t \/ (~In(e) /\ e # t)
  OBVIOUS
<1> HIDE DEF t
<1>7. TablesPrivate(y, A)
  <2> SUFFICES ASSUME NEW q \in A, NEW r \in A, NEW j \in Table, NEW g \in Entry,
                      y.page_dir[q][j] # 0, Lead(y, r, g) = y.page_dir[q][j]
               PROVE  r = q /\ g = 0 - j
    BY DEF TablesPrivate
  <2>1. CASE q = c /\ j = i
    <3>1. Lead(y, r, g) = n
      BY <2>1
    <3>2. ~(r = c /\ In(g))
      BY <3>1, <1>5
    <3>3. r = c /\ g = t
      BY <3>1, <3>2, <1>1, <1>4
    <3> QED BY <3>3, <2>1 DEF t
  <2>2. CASE ~(q = c /\ j = i)
    <3>1. x.page_dir[q][j] # 0 /\ Lead(y, r, g) = x.page_dir[q][j] /\ x.page_dir[q][j] # n
      <4>1. y.page_dir[q][j] = x.page_dir[q][j]
        BY <2>2
      <4>2. Lead(x, q, 0 - j) = x.page_dir[q][j] /\ 0 - j \in Entry
        BY LeadIs, Entries
      <4> QED BY <4>1, <4>2, <1>1
    <3>2. CASE r = c /\ In(g)
      <4>1. Lead(x, p, g) = x.page_dir[q][j]
        BY <3>1, <3>2, <1>5
      <4>2. g = 0 - j
        BY <4>1, <3>1 DEF Good, TablesPrivate
      <4> QED BY <4>2, <3>2, Entries
    <3>3. CASE r = c /\ g = t
      BY <3>1, <3>3, <1>2
    <3>4. CASE ~(r = c /\ (In(g) \/ g = t))
      <4>1. Lead(x, r, g) = x.page_dir[q][j]
        BY <3>1, <3>4, <1>4
      <4> QED BY <4>1, <3>1 DEF Good, TablesPrivate
    <3> QED BY <3>2, <3>3, <3>4
  <2> QED BY <2>1, <2>2
<1>8. Once(y, A)
  <2>1. ASSUME NEW e \in Entry, NEW g \in Entry, Lead(y, c, e) # 0, Lead(y, c, g) = Lead(y, c, e), In(e), ~In(g)
        PROVE  FALSE
    <3>1. Lead(y, c, e) = Lead(x, p, e) /\ Lead(y, c, e) # n
      BY <2>1, <1>5
    <3>2. g # t
      BY <2>1, <3>1, <1>2
    <3>3. Lead(x, c, g) = Lead(x, p, e) /\ Lead(x, p, e) # 0
      BY <2>1, <3>1, <3>2, <1>4
    <3>4. CASE g \in Page
      <4>1. Lead(x, p, g) = Lead(x, p, e)
        BY <3>3, <3>4
      <4>2. g = e
        BY <4>1, <3>3 DEF Good, Once
      <4> QED BY <4>2, <2>1
    <3>5. CASE g < 0
      <4> DEFINE j == 0 - g
      <4>1. j \in Table /\ 0 - j = g
        BY <3>5, Entries
      <4> HIDE DEF j
      <4>2. Lead(x, c, g) = x.page_dir[c][j]
        BY <4>1, LeadIs
      <4>3. x.page_dir[c][j] # 0 /\ Lead(x, p, e) = x.page_dir[c][j]
        BY <4>2, <3>3
      <4>4. p = c
        BY <4>1, <4>3 DEF Good, TablesPrivate
      <4> QED BY <4>4
    <3> QED BY <3>4, <3>5, Entries
  <2>2. ASSUME NEW q \in A, NEW e \in Entry, NEW g \in Entry, Lead(y, q, e) # 0, Lead(y, q, g) = Lead(y, q, e)
        PROVE  e = g
    <3>1. CASE q = c /\ In(e) /\ In(g)
      <4>1. Lead(x, p, e) # 0 /\ Lead(x, p, g) = Lead(x, p, e)
        BY <3>1, <2>2, <1>5
      <4> QED BY <4>1 DEF Good, Once
    <3>2. CASE q = c /\ In(e) /\ ~In(g)
      BY <3>2, <2>1, <2>2
    <3>3. CASE q = c /\ ~In(e) /\ In(g)
      BY <3>3, <2>1, <2>2
    <3>4. CASE q = c /\ ~In(e) /\ ~In(g)
      <4>1. CASE e = t
        BY <4>1, <3>4, <2>2, <1>1, <1>2, <1>4
      <4>2. CASE g = t
        <5>1. Lead(y, c, e) = n
          BY <4>2, <3>4, <2>2, <1>2
        <5>2. ASSUME e # t PROVE FALSE
          BY <5>1, <5>2, <3>4, <1>1, <1>4
        <5> QED BY <5>2, <4>2
      <4>3. CASE e # t /\ g # t
        <5>1. Lead(x, c, e) # 0 /\ Lead(x, c, g) = Lead(x, c, e)
          BY <4>3, <3>4, <2>2, <1>4
        <5> QED BY <5>1 DEF Good, Once
      <4> QED BY <4>1, <4>2, <4>3
    <3>5. CASE q # c
      <4>1. Lead(x, q, e) # 0 /\ Lead(x, q, g) = Lead(x, q, e)
        BY <3>5, <2>2, <1>4
      <4> QED BY <4>1 DEF Good, Once
    <3> QED BY <3>1, <3>2, <3>3, <3>4, <3>5
  <2> QED BY <2>2 DEF Once
<1>9. WritesPrivate(y, A)
  <2> SUFFICES ASSUME NEW q \in A, NEW r \in A, NEW u \in Page, NEW w \in Page,
                      Writable(y, q, u), Lead(y, r, w) = Lead(y, q, u)
               PROVE  r = q
    BY DEF WritesPrivate
  <2>1. Writable(x, q, u) /\ Lead(x, q, u) # 0
    BY LeadIs
  <2>2. ~(q = c /\ PDE_IDX(u) = i) /\ Lead(y, q, u) = Lead(x, q, u)
    BY <2>1, <1>3
  <2>3. CASE r = c /\ PDE_IDX(w) = i
    <3>1. Lead(x, p, w) = Lead(x, q, u)
      BY <2>2, <2>3
    <3>2. p = q
      BY <3>1, <2>1 DEF Good, WritesPrivate
    <3>3. w = u
      BY <3>1, <3>2, <2>1, <1>0 DEF Good, Once
    <3> QED BY <3>2, <3>3, <2>3
  <2>4. CASE ~(r = c /\ PDE_IDX(w) = i)
    <3>1. Lead(x, r, w) = Lead(x, q, u)
      BY <2>2, <2>4
    <3> QED BY <3>1, <2>1 DEF Good, WritesPrivate
  <2> QED BY <2>3, <2>4
<1>10. Plain(y, A)
  <2> SUFFICES ASSUME NEW f \in Frame, \A q \in A, j \in Table : y.page_dir[q][j] # f
               PROVE  y.entries[f] = EmptyTable
    BY DEF Plain
  <2>1. f # n /\ f # 0
    BY Frames
  <2>2. ASSUME NEW q \in A, NEW j \in Table PROVE x.page_dir[q][j] # f
    BY <2>1
  <2> QED BY <2>1, <2>2
<1>11. Dirs(y, A)
  <2> SUFFICES ASSUME NEW q \in Proc \ A PROVE y.page_dir[q] = NoTables
    BY DEF Dirs
  <2>1. x.page_dir[q] = NoTables /\ q # c
    BY DEF Good, Dirs
  <2>2. y.page_dir[q] \in [Table -> 0..FRAMES]
    BY DEF Memories
  <2>3. \A j \in Table : y.page_dir[q][j] = 0
    BY <2>1 DEF NoTables
  <2> QED BY <2>2, <2>3 DEF NoTables
<1>12. Counted(y, A)
  <2> SUFFICES ASSUME NEW f \in Frame PROVE y.memory_map[f] = Cardinality(Users(y, A, f))
    BY DEF Counted
  <2>0. f # 0 /\ x.memory_map[f] = Cardinality(Users(x, A, f))
    BY Frames DEF Good, Counted
  <2>1. CASE f = n
    <3>1. \A q \in A, g \in Entry : ~(q = c /\ g = t) => (Lead(x, q, g) = f <=> Lead(y, q, g) = f)
      BY <2>1, <1>1, <1>4, <1>5
    <3>2. Lead(x, c, t) # f /\ Lead(y, c, t) = f
      BY <2>0, <2>1, <1>2
    <3>3. Cardinality(Users(y, A, f)) = Cardinality(Users(x, A, f)) + 1
      BY <3>1, <3>2, <1>0, UsersPlus
    <3> QED BY <3>3, <2>0, <2>1
  <2>2. CASE f # n /\ \E v \in Page : PDE_IDX(v) = i /\ Lead(x, p, v) = f
    <3>1. PICK v \in Page : PDE_IDX(v) = i /\ Lead(x, p, v) = f
      BY <2>2
    <3>2. Lead(x, c, v) # f /\ Lead(y, c, v) = f /\ v \in Entry
      BY <3>1, <2>0, <1>0, <1>3
    <3>3. ASSUME NEW q \in A, NEW g \in Entry, ~(q = c /\ g = v)
          PROVE  Lead(x, q, g) = f <=> Lead(y, q, g) = f
      <4>1. CASE q = c /\ In(g)
        <5>1. Lead(x, c, g) = 0 /\ Lead(y, c, g) = Lead(x, p, g)
          BY <4>1, <1>3, <1>5
        <5>2. Lead(x, p, g) # f
          BY <3>1, <3>2, <3>3, <4>1, <2>0 DEF Good, Once
        <5> QED BY <5>1, <5>2, <4>1, <2>0
      <4>2. CASE q = c /\ g = t
        BY <4>2, <2>0, <2>2, <1>2
      <4>3. CASE ~(q = c /\ (In(g) \/ g = t))
        BY <4>3, <1>4
      <4> QED BY <4>1, <4>2, <4>3
    <3>4. Cardinality(Users(y, A, f)) = Cardinality(Users(x, A, f)) + 1
      BY <3>2, <3>3, UsersPlus
    <3> QED BY <3>4, <2>0, <2>2
  <2>3. CASE f # n /\ ~ \E v \in Page : PDE_IDX(v) = i /\ Lead(x, p, v) = f
    <3>1. ASSUME NEW q \in A, NEW g \in Entry
          PROVE  Lead(x, q, g) = f <=> Lead(y, q, g) = f
      <4>1. CASE q = c /\ In(g)
        BY <4>1, <2>0, <2>3, <1>3, <1>5
      <4>2. CASE q = c /\ g = t
        BY <4>2, <2>0, <2>3, <1>2
      <4>3. CASE ~(q = c /\ (In(g) \/ g = t))
        BY <4>3, <1>4
      <4> QED BY <4>1, <4>2, <4>3
    <3>2. Users(y, A, f) = Users(x, A, f)
      BY <3>1, UsersSame
    <3> QED BY <3>2, <2>0, <2>3
  <2> QED BY <2>1, <2>2, <2>3
<1> QED BY <1>7, <1>8, <1>9, <1>10, <1>11, <1>12 DEF Good

(* The child c does not have page table i yet, and no page that its parent *)
(* p has not.                                                              *)
Ahead(x, p, c, i) ==
    /\ x.page_dir[c][i] = 0
    /\ \A v \in Page : Lead(x, c, v) # 0 => Lead(x, c, v) = Lead(x, p, v)

(* From x to y the child c gets the pages of p in page table i.            *)
TableCopied(x, y, A, p, c, i) ==
    /\ \A q \in Proc, j \in Table : ~(q = c /\ j = i) => y.page_dir[q][j] = x.page_dir[q][j]
    /\ \A v \in Page : PDE_IDX(v) = i => Lead(y, c, v) = Lead(x, p, v)
    /\ \A q \in A, v \in Page : ~(q = c /\ PDE_IDX(v) = i) => Lead(y, q, v) = Lead(x, q, v)
    /\ \A f \in Frame : x.memory_map[f] > 0 => y.memory_map[f] > 0 /\ y.data[f] = x.data[f]

(* copy_pgdir, one page table: the child c gets the pages of the parent p. *)
LEMMA CopyTableEffect ==
  ASSUME NEW x \in Memories, NEW A, A \subseteq Proc, NEW p \in A, NEW c \in A, p # c,
         NEW keep \in BOOLEAN, NEW i \in Table
  PROVE  LET y == CopyTable(x, p, c, keep, i) IN
         /\ y \in Memories
         /\ Bad(x) => Bad(y)
         /\ Good(x, A) /\ Ahead(x, p, c, i) => Bad(y) \/ (Good(y, A) /\ TableCopied(x, y, A, p, c, i))
<1> DEFINE T == x.page_dir[p][i]
           s == ShareTable(x, T)
           k == copy_page(s, T, keep)
           n == k.paddr
           pd == [k.page_dir EXCEPT ![c][i] = n]
           z == [k EXCEPT !.page_dir = pd]
           y == CopyTable(x, p, c, keep, i)
<1>0. p \in Proc /\ c \in Proc
  OBVIOUS
<1>1. T \in 0..FRAMES
  BY <1>0, LeadIs
<1>2. y = IF T = 0 THEN x ELSE z
  BY DEF CopyTable
<1>3. /\ s \in Memories /\ (Bad(x) => Bad(s)) /\ s.page_dir = x.page_dir
  BY <1>1, ShareEffect
<1>4. /\ k \in Memories /\ (Bad(s) => Bad(k)) /\ k.page_dir = s.page_dir
  <2> HIDE DEF s
  <2> QED BY <1>1, <1>3, CopyPageEffect
<1>5. k.page_dir \in [Proc -> [Table -> 0..FRAMES]] /\ n \in 0..FRAMES
  <2> HIDE DEF k
  <2> QED BY <1>4 DEF Memories
<1> HIDE DEF y
<1>6. pd \in [Proc -> [Table -> 0..FRAMES]]
  <2> HIDE DEF n, k
  <2> QED BY <1>0, <1>5
<1>7. /\ pd[c][i] = n
      /\ \A q \in Proc, j \in Table : ~(q = c /\ j = i) => pd[q][j] = x.page_dir[q][j]
  <2>1. k.page_dir = x.page_dir
    BY <1>3, <1>4
  <2> HIDE DEF n, k
  <2> QED BY <2>1, <1>0, <1>5
<1>8. z \in Memories
  <2> HIDE DEF pd, k
  <2> QED BY <1>4, <1>6 DEF Memories
<1>9. /\ z.page_dir = pd /\ z.memory_map = k.memory_map /\ z.free_pages = k.free_pages
      /\ z.data = k.data /\ z.entries = k.entries /\ z.halted = k.halted /\ z.spoiled = k.spoiled
  <2> HIDE DEF pd, k
  <2> QED BY <1>4 DEF Memories
<1> HIDE DEF z, pd
<1>10. Bad(k) => Bad(z)
  BY <1>9 DEF Bad
<1>11. y \in Memories /\ (Bad(x) => Bad(y))
  BY <1>2, <1>3, <1>4, <1>8, <1>10
<1>12. ASSUME Good(x, A), x.page_dir[c][i] = 0, ~Bad(y),
              \A v \in Page : Lead(x, c, v) # 0 => Lead(x, c, v) = Lead(x, p, v)
       PROVE  /\ Good(y, A)
              /\ \A q \in Proc, j \in Table : ~(q = c /\ j = i) => y.page_dir[q][j] = x.page_dir[q][j]
              /\ \A v \in Page : PDE_IDX(v) = i => Lead(y, c, v) = Lead(x, p, v)
              /\ \A q \in A, v \in Page : ~(q = c /\ PDE_IDX(v) = i) => Lead(y, q, v) = Lead(x, q, v)
              /\ \A f \in Frame : x.memory_map[f] > 0 => y.memory_map[f] > 0 /\ y.data[f] = x.data[f]
  <2>1. CASE T = 0
    <3>1. y = x
      BY <1>2, <2>1
    <3>2. \A v \in Page : PDE_IDX(v) = i => Lead(x, c, v) = 0 /\ Lead(x, p, v) = 0
      BY <1>0, <1>12, <2>1, LeadIs
    <3> QED BY <3>1, <3>2, <1>12
  <2>2. CASE T # 0
    <3> DEFINE Here(f) == \E v \in Page : PDE_IDX(v) = i /\ Lead(x, p, v) = f
    <3>1. y = z /\ ~Bad(k)
      BY <1>2, <1>10, <1>12, <2>2
    <3>2. \A v \in Page : PDE_IDX(v) = i => Lead(x, p, v) = x.entries[T][PTE_IDX(v)].frame
      BY <1>0, <2>2, LeadIs
    <3>3. x.memory_map \in [0..FRAMES -> Nat] /\ x.entries \in [0..FRAMES -> [1..ENTRIES -> Pte]]
      BY DEF Memories
    <3>4. ASSUME NEW f \in 0..FRAMES
          PROVE  Cardinality(Uses(x, T, f)) = IF f # 0 /\ Here(f) THEN 1 ELSE 0
      <4>1. CASE f # 0 /\ Here(f)
        <5>1. PICK v \in Page : PDE_IDX(v) = i /\ Lead(x, p, v) = f
          BY <4>1
        <5>2. PTE_IDX(v) \in Uses(x, T, f)
          BY <5>1, <4>1, <3>2, Indices DEF Uses
        <5>3. ASSUME NEW l \in Uses(x, T, f) PROVE l = PTE_IDX(v)
          <6>1. l \in 1..ENTRIES /\ x.entries[T][l].frame = f
            BY DEF Uses
          <6>2. PICK w \in Page : PDE_IDX(w) = i /\ PTE_IDX(w) = l
            BY <6>1, Indices
          <6>3. Lead(x, p, w) = f
            BY <6>1, <6>2, <3>2
          <6>4. w = v
            BY <6>3, <5>1, <4>1, <1>12, Entries DEF Good, Once
          <6> QED BY <6>2, <6>4
        <5>4. Uses(x, T, f) = {PTE_IDX(v)}
          BY <5>2, <5>3
        <5> QED BY <5>4, <4>1, FS_Singleton
      <4>2. CASE ~(f # 0 /\ Here(f))
        <5>1. ASSUME NEW l \in Uses(x, T, f) PROVE FALSE
          <6>1. l \in 1..ENTRIES /\ x.entries[T][l].frame = f /\ f # 0
            BY DEF Uses
          <6>2. PICK w \in Page : PDE_IDX(w) = i /\ PTE_IDX(w) = l
            BY <6>1, Indices
          <6> QED BY <6>1, <6>2, <3>2, <4>2
        <5>2. Uses(x, T, f) = {}
          BY <5>1
        <5> QED BY <5>2, <4>2, FS_EmptySet
      <4> QED BY <4>1, <4>2
    <3>5. ASSUME NEW f \in 0..FRAMES, f # 0, Here(f)
          PROVE  x.memory_map[f] > 0 /\ x.memory_map[f] + 1 < MAX_REFS
      <4>1. PICK v \in Page : PDE_IDX(v) = i /\ Lead(x, p, v) = f
        BY <3>5
      <4>2. v \in Entry /\ f \in Frame
        BY <3>5, Entries, Frames
      <4>3. x.memory_map[f] > 0
        BY <4>1, <4>2, <3>5, <1>12, CountFacts DEF Good
      <4>4. ASSUME NEW e \in Entry, Lead(x, c, e) = f PROVE FALSE
        <5>1. CASE e \in Page
          <6>1. Lead(x, p, e) = f
            BY <5>1, <4>4, <3>5, <1>12
          <6>2. e = v
            BY <6>1, <4>1, <4>2, <3>5, <1>12 DEF Good, Once
          <6>3. Lead(x, c, v) = 0
            BY <4>1, <1>0, <1>12, LeadIs
          <6> QED BY <6>2, <6>3, <4>4, <3>5
        <5>2. CASE e < 0
          <6> DEFINE j == 0 - e
          <6>1. j \in Table /\ 0 - j = e
            BY <5>2, Entries
          <6> HIDE DEF j
          <6>2. x.page_dir[c][j] = f
            BY <6>1, <4>4, <1>0, LeadIs
          <6>3. p = c
            BY <6>1, <6>2, <4>1, <4>2, <3>5, <1>12 DEF Good, TablesPrivate
          <6> QED BY <6>3
        <5> QED BY <5>1, <5>2, Entries
      <4>5. \A q \in A, e \in Entry : Lead(x, q, e) = f => q \in Proc \ {c}
        BY <4>4
      <4>6. Cardinality(Users(x, A, f)) <= Cardinality(Proc \ {c}) /\ Cardinality(Proc \ {c}) \in Nat
        BY <4>5, <3>5, <1>12, OnceBound DEF Good
      <4>7. Cardinality(Proc \ {c}) = Cardinality(Proc) - 1 /\ Cardinality(Proc) \in Nat
        BY <1>0, MemoryAssumption, FS_RemoveElement, FS_CardinalityType
      <4>8. x.memory_map[f] = Cardinality(Users(x, A, f)) /\ x.memory_map[f] \in Nat
        BY <4>2, <3>3, <1>12 DEF Good, Counted
      <4> QED BY <4>3, <4>6, <4>7, <4>8, MemoryAssumption
    <3>6. ASSUME NEW l \in 1..ENTRIES, x.entries[T][l].frame # 0
          PROVE  /\ x.memory_map[x.entries[T][l].frame] > 0
                 /\ x.memory_map[x.entries[T][l].frame] + Cardinality(Uses(x, T, x.entries[T][l].frame)) < MAX_REFS
      <4> DEFINE f == x.entries[T][l].frame
      <4>1. f \in 0..FRAMES
        BY <3>3, <1>1 DEF Pte
      <4>2. PICK w \in Page : PDE_IDX(w) = i /\ PTE_IDX(w) = l
        BY Indices
      <4>3. Here(f)
        BY <4>2, <3>2
      <4> HIDE DEF f, Here
      <4>4. f # 0
        BY <3>6 DEF f
      <4>5. Cardinality(Uses(x, T, f)) = 1
        <5>1. Cardinality(Uses(x, T, f)) = IF f # 0 /\ Here(f) THEN 1 ELSE 0
          BY ONLY <4>1, <3>4, Zenon
        <5> QED BY ONLY <5>1, <4>3, <4>4
      <4>6. x.memory_map[f] > 0 /\ x.memory_map[f] + 1 < MAX_REFS
        BY ONLY <4>1, <4>3, <4>4, <3>5, Zenon
      <4> QED BY <4>5, <4>6 DEF f
    <3>7. /\ s.data = x.data /\ s.halted = x.halted /\ s.spoiled = x.spoiled
          /\ s.free_pages = x.free_pages
          /\ \A f \in 0..FRAMES : s.memory_map[f] = x.memory_map[f] + Cardinality(Uses(x, T, f))
          /\ \A g \in 0..FRAMES : g # T => s.entries[g] = x.entries[g]
          /\ \A l \in 1..ENTRIES : s.entries[T][l].frame = x.entries[T][l].frame /\ ~s.entries[T][l].write
      BY <3>6, <1>1, ShareEffect
    <3> HIDE DEF Here
    <3>8. \A f \in 0..FRAMES : s.memory_map[f] = IF f # 0 /\ Here(f) THEN x.memory_map[f] + 1 ELSE x.memory_map[f]
      <4> TAKE f \in 0..FRAMES
      <4> DEFINE k1 == Cardinality(Uses(x, T, f))
                 k2 == x.memory_map[f]
      <4>1. k1 = IF f # 0 /\ Here(f) THEN 1 ELSE 0
        BY <3>4
      <4>2. s.memory_map[f] = k2 + k1 /\ k2 \in Nat
        BY <3>7, <3>3
      <4> HIDE DEF k1, k2
      <4>3. s.memory_map[f] = IF f # 0 /\ Here(f) THEN k2 + 1 ELSE k2
        BY <4>1, <4>2
      <4> QED BY <4>3 DEF k2
    <3>9. \A f \in Frame : s.memory_map[f] = 0 <=> x.memory_map[f] = 0
      <4> TAKE f \in Frame
      <4> DEFINE k2 == x.memory_map[f]
      <4>1. f \in 0..FRAMES /\ f # 0
        BY Frames
      <4>2. k2 \in Nat
        BY <4>1, <3>3
      <4>3. s.memory_map[f] = IF Here(f) THEN k2 + 1 ELSE k2
        BY <4>1, <3>8
      <4>4. Here(f) => k2 > 0
        BY <4>1, <3>5
      <4> HIDE DEF k2
      <4>5. s.memory_map[f] = 0 <=> k2 = 0
        BY <4>2, <4>3, <4>4
      <4> QED BY <4>5 DEF k2
    <3>10. s.free_pages = Cardinality(FreeOf(s.memory_map)) /\ s.halted = "no"
      <4>1. FreeOf(s.memory_map) = FreeOf(x.memory_map)
        BY <3>9, FreeSame
      <4> QED BY <4>1, <3>7, <1>12 DEF Good, Counted
    <3> HIDE DEF s
    <3>11. /\ n \in Frame /\ s.memory_map[n] = 0
           /\ k.memory_map = [s.memory_map EXCEPT ![n] = 1]
           /\ k.halted = "no" /\ k.free_pages = Cardinality(FreeOf(k.memory_map))
           /\ k.data = [s.data EXCEPT ![n] = s.data[T]]
           /\ k.entries = [s.entries EXCEPT ![n] = s.entries[T]]
      BY <3>1, <3>10, <1>1, <1>3, CopyPageEffect
    <3> HIDE DEF k, n
    <3>12. n \in 0..FRAMES /\ n # 0 /\ x.memory_map[n] = 0
      BY <3>9, <3>11, Frames
    <3>13. /\ \A q \in A, e \in Entry : Lead(x, q, e) # n
           /\ \A q \in A, j \in Table : x.page_dir[q][j] # n
      <4>1. \A q \in A, e \in Entry : Lead(x, q, e) # n
        BY <3>11, <3>12, <1>12, FreeUnused DEF Good
      <4>2. ASSUME NEW q \in A, NEW j \in Table PROVE x.page_dir[q][j] # n
        BY <4>1, LeadIs, Entries
      <4> QED BY <4>1, <4>2
    <3>14. T # n
      BY <3>13
    <3>15. s.memory_map \in [0..FRAMES -> Nat] /\ s.entries \in [0..FRAMES -> [1..ENTRIES -> Pte]]
           /\ s.data \in [0..FRAMES -> 0..Junk]
      BY <1>3 DEF Memories
    <3> HIDE DEF T
    <3>16. /\ \A g \in 0..FRAMES : g # n => z.entries[g] = s.entries[g] /\ z.data[g] = s.data[g]
           /\ z.entries[n] = s.entries[T]
           /\ \A g \in 0..FRAMES : z.memory_map[g] = IF g = n THEN 1 ELSE s.memory_map[g]
      <4>1. z.data = [s.data EXCEPT ![n] = s.data[T]] /\ z.entries = [s.entries EXCEPT ![n] = s.entries[T]]
        BY <3>11, <1>9
      <4>2. z.memory_map = [s.memory_map EXCEPT ![n] = 1]
        BY <3>11, <1>9
      <4>3. \A g \in 0..FRAMES : g # n => z.entries[g] = s.entries[g] /\ z.data[g] = s.data[g]
        BY <4>1, <3>15
      <4>4. z.entries[n] = s.entries[T]
        BY <4>1, <3>12, <3>15
      <4>5. \A g \in 0..FRAMES : z.memory_map[g] = IF g = n THEN 1 ELSE s.memory_map[g]
        BY <4>2, <3>12, <3>15
      <4> QED BY <4>3, <4>4, <4>5
    <3>17. /\ z.entries[T] = s.entries[T]
           /\ \A g \in 0..FRAMES : g # n /\ g # T => z.entries[g] = x.entries[g]
      BY <3>16, <3>14, <3>7, <1>1
    <3>18. ASSUME NEW q \in A, NEW v \in Page, ~(q = c /\ PDE_IDX(v) = i)
           PROVE  /\ Lead(z, q, v) = Lead(x, q, v)
                  /\ Writable(z, q, v) => Writable(x, q, v) /\ x.page_dir[q][PDE_IDX(v)] # T
      <4> DEFINE D == x.page_dir[q][PDE_IDX(v)]
                 l == PTE_IDX(v)
      <4>1. PDE_IDX(v) \in Table /\ l \in 1..ENTRIES /\ q \in Proc
        BY Indices
      <4>2. D \in 0..FRAMES /\ z.page_dir[q][PDE_IDX(v)] = D /\ D # n
        BY <4>1, <3>13, <3>18, <1>7, <1>9, LeadIs
      <4>3. /\ pte(z, q, v) = z.entries[D][l] /\ pte(x, q, v) = x.entries[D][l]
            /\ Lead(x, q, v) = IF D = 0 THEN 0 ELSE x.entries[D][l].frame
            /\ Lead(z, q, v) = IF D = 0 THEN 0 ELSE z.entries[D][l].frame
            /\ Writable(x, q, v) <=> Lead(x, q, v) # 0 /\ x.entries[D][l].write
            /\ Writable(z, q, v) <=> Lead(z, q, v) # 0 /\ z.entries[D][l].write
        BY SMTT(30), <4>1, <4>2, <1>8, LeadIs
      <4> HIDE DEF D
      <4>4. CASE D = T
        BY <4>1, <4>3, <4>4, <3>7, <3>17
      <4>5. CASE D # T
        BY <4>2, <4>3, <4>5, <3>17 DEF D
      <4> QED BY <4>4, <4>5
    <3>19. ASSUME NEW v \in Page, PDE_IDX(v) = i
           PROVE  Lead(z, c, v) = Lead(x, p, v) /\ ~Writable(z, c, v) /\ ~Writable(z, p, v)
      <4> DEFINE l == PTE_IDX(v)
      <4>1. l \in 1..ENTRIES
        BY Indices
      <4>2. z.page_dir[c][i] = n
        BY <1>7, <1>9
      <4>3. Lead(z, c, v) = z.entries[n][l].frame /\ (Writable(z, c, v) => z.entries[n][l].write)
        BY <4>2, <3>12, <3>19, <1>0, <1>8, LeadIs
      <4>4. Lead(x, p, v) = x.entries[T][l].frame
        BY <3>2, <3>19
      <4>5. ~Writable(z, p, v)
        BY <3>18, <3>19 DEF T
      <4> QED BY <4>1, <4>3, <4>4, <4>5, <3>7, <3>16
    <3>20. /\ \A q \in A, v \in Page : ~(q = c /\ PDE_IDX(v) = i) => Lead(z, q, v) = Lead(x, q, v)
           /\ \A q \in A, v \in Page : Writable(z, q, v) => Writable(x, q, v)
           /\ \A v \in Page : PDE_IDX(v) = i => ~Writable(z, p, v)
           /\ \A v \in Page : PDE_IDX(v) = i => Lead(z, c, v) = Lead(x, p, v)
      BY <3>18, <3>19
    <3>21. \A f \in Frame : z.memory_map[f] = IF f = n THEN 1
                                              ELSE IF \E v \in Page : PDE_IDX(v) = i /\ Lead(x, p, v) = f
                                                   THEN x.memory_map[f] + 1
                                              ELSE x.memory_map[f]
      BY <3>8, <3>16, Frames DEF Here
    <3>22. ASSUME NEW f \in Frame, f # n, \A q \in A, j \in Table : x.page_dir[q][j] # f
           PROVE  z.entries[f] = EmptyTable
      <4>1. f # T /\ f \in 0..FRAMES
        BY <3>22, Frames DEF T
      <4>2. x.entries[f] = EmptyTable
        BY <3>22, <1>12 DEF Good, Plain
      <4> QED BY <4>1, <4>2, <3>17, <3>22
    <3>23. /\ z.page_dir[c][i] = n
           /\ \A q \in Proc, j \in Table : ~(q = c /\ j = i) => z.page_dir[q][j] = x.page_dir[q][j]
           /\ z.halted = "no" /\ ~z.spoiled /\ z.free_pages = Cardinality(FreeOf(z.memory_map))
      BY <1>7, <1>9, <1>12, <3>1, <3>11 DEF Bad
    <3>24. Good(z, A)
      BY <3>11, <3>12, <3>20, <3>21, <3>22, <3>23, <1>8, <1>12, ShareGood
    <3>25. \A f \in Frame : x.memory_map[f] > 0 => z.memory_map[f] > 0 /\ z.data[f] = x.data[f]
      <4> SUFFICES ASSUME NEW f \in Frame, x.memory_map[f] > 0 PROVE z.memory_map[f] > 0 /\ z.data[f] = x.data[f]
        OBVIOUS
      <4>1. f # n /\ f \in 0..FRAMES /\ x.memory_map[f] \in Nat
        BY <3>12, <3>3, Frames
      <4>2. z.memory_map[f] > 0
        BY <4>1, <3>8, <3>16
      <4> QED BY <4>1, <4>2, <3>7, <3>16
    <3> QED BY <3>1, <3>20, <3>23, <3>24, <3>25
  <2> QED BY <2>1, <2>2
<1>13. Good(x, A) /\ Ahead(x, p, c, i) => Bad(y) \/ (Good(y, A) /\ TableCopied(x, y, A, p, c, i))
  BY <1>12 DEF Ahead, TableCopied
<1> QED BY <1>11, <1>13 DEF y

(* All but the contents, the result of alloc_page and the TLB. *)
Alike(x, y) ==
    /\ y.memory_map = x.memory_map /\ y.free_pages = x.free_pages
    /\ y.entries = x.entries /\ y.page_dir = x.page_dir
    /\ y.halted = x.halted /\ y.spoiled = x.spoiled

(* Nothing that Good says depends on those. *)
LEMMA AlikeGood ==
  ASSUME NEW x \in Memories, NEW y \in Memories, Alike(x, y)
  PROVE  /\ \A q \in Proc, e \in Entry : Lead(y, q, e) = Lead(x, q, e)
         /\ \A q \in Proc, w \in Page : Writable(y, q, w) <=> Writable(x, q, w)
         /\ Bad(x) <=> Bad(y)
         /\ \A A : A \subseteq Proc /\ Good(x, A) => Good(y, A)
<1>1. /\ \A q \in Proc, e \in Entry : Lead(y, q, e) = Lead(x, q, e)
      /\ \A q \in Proc, w \in Page : Writable(y, q, w) <=> Writable(x, q, w)
  <2>1. y.page_dir = x.page_dir /\ y.entries = x.entries
    BY DEF Alike
  <2> QED BY <2>1, LeadSame
<1>2. Bad(x) <=> Bad(y)
  BY DEF Alike, Bad
<1>3. ASSUME NEW A, A \subseteq Proc, Good(x, A) PROVE Good(y, A)
  <2>1. Counted(y, A)
    <3>1. \A f : Users(y, A, f) = Users(x, A, f)
      BY <1>1, <1>3, UsersSame
    <3> QED BY <3>1, <1>3 DEF Good, Counted, Alike
  <2>2. TablesPrivate(y, A) /\ Once(y, A) /\ WritesPrivate(y, A)
    <3>1. \A q \in A, g \in Entry : Lead(y, q, g) = Lead(x, q, g) \/ Lead(y, q, g) = 0
      BY <1>1, <1>3
    <3>2. \A q \in A, w \in Page : Writable(y, q, w) => Writable(x, q, w)
      BY <1>1, <1>3
    <3> QED BY <3>1, <3>2, <1>3, Fewer DEF Good
  <2>3. Plain(y, A) /\ Dirs(y, A) /\ y.halted = "no" /\ ~y.spoiled
    BY <1>3 DEF Good, Plain, Dirs, Alike
  <2> QED BY <2>1, <2>2, <2>3 DEF Good
<1> QED BY <1>1, <1>2, <1>3

(* A process without page tables changes nothing. *)
LEMMA NoSpace ==
  ASSUME NEW x \in Memories, NEW A, A \subseteq Proc, NEW c \in Proc, x.page_dir[c] = NoTables,
         NEW B, B \subseteq Proc, \A q \in Proc : q # c => (q \in A <=> q \in B),
         Good(x, A)
  PROVE  Good(x, B)
<1>1. \A e \in Entry : Lead(x, c, e) = 0
  <2>1. \A j \in Table : x.page_dir[c][j] = 0
    BY DEF NoTables
  <2>2. ASSUME NEW e \in Entry, e < 0 PROVE Lead(x, c, e) = 0
    <3>1. 0 - e \in Table /\ 0 - (0 - e) = e
      BY <2>2, Entries
    <3> QED BY <2>1, <3>1, LeadIs
  <2>3. \A v \in Page : Lead(x, c, v) = 0
    BY <2>1, LeadIs, Indices
  <2> QED BY <2>2, <2>3, Entries
<1>2. \A w \in Page : ~Writable(x, c, w)
  BY <1>1, Entries, LeadIs
<1>3. Counted(x, B)
  <2>1. ASSUME NEW f \in Frame PROVE Users(x, B, f) = Users(x, A, f)
    <3>1. f # 0
      BY Frames
    <3>2. \A r : r \in Users(x, B, f) <=> \E q \in B, e \in Entry : r = <<q, e>> /\ Lead(x, q, e) = f
      BY UsersFinite
    <3>3. \A r : r \in Users(x, A, f) <=> \E q \in A, e \in Entry : r = <<q, e>> /\ Lead(x, q, e) = f
      BY UsersFinite
    <3>4. \A r : r \in Users(x, B, f) <=> r \in Users(x, A, f)
      BY <3>1, <3>2, <3>3, <1>1
    <3> QED BY <3>4
  <2> QED BY <2>1 DEF Good, Counted
<1>4. TablesPrivate(x, B)
  <2> SUFFICES ASSUME NEW q \in B, NEW r \in B, NEW i \in Table, NEW g \in Entry,
                      x.page_dir[q][i] # 0, Lead(x, r, g) = x.page_dir[q][i]
               PROVE  r = q /\ g = 0 - i
    BY DEF TablesPrivate
  <2>1. q # c /\ r # c
    BY <1>1 DEF NoTables
  <2> QED BY <2>1 DEF Good, TablesPrivate
<1>5. Once(x, B) /\ WritesPrivate(x, B)
  <2>1. ASSUME NEW q \in B, NEW e \in Entry, NEW g \in Entry, Lead(x, q, e) # 0, Lead(x, q, g) = Lead(x, q, e)
        PROVE  e = g
    <3>1. q # c
      BY <2>1, <1>1
    <3> QED BY <3>1, <2>1 DEF Good, Once
  <2>2. ASSUME NEW q \in B, NEW r \in B, NEW v \in Page, NEW w \in Page,
               Writable(x, q, v), Lead(x, r, w) = Lead(x, q, v)
        PROVE  r = q
    <3>1. Lead(x, q, v) # 0 /\ v \in Entry /\ w \in Entry
      BY <2>2, LeadIs, Entries
    <3>2. q # c /\ r # c
      BY <3>1, <2>2, <1>1
    <3> QED BY <3>2, <2>2 DEF Good, WritesPrivate
  <2> QED BY <2>1, <2>2 DEF Once, WritesPrivate
<1>6. Plain(x, B)
  <2> SUFFICES ASSUME NEW f \in Frame, \A q \in B, i \in Table : x.page_dir[q][i] # f
               PROVE  x.entries[f] = EmptyTable
    BY DEF Plain
  <2>1. ASSUME NEW q \in A, NEW i \in Table PROVE x.page_dir[q][i] # f
    BY Frames DEF NoTables
  <2> QED BY <2>1 DEF Good, Plain
<1>7. Dirs(x, B)
  BY DEF Good, Dirs
<1> QED BY <1>3, <1>4, <1>5, <1>6, <1>7 DEF Good

(* The child starts without page tables. *)
Emptied(x, c) == [x EXCEPT !.page_dir[c] = NoTables]

(* What the loop of copy_pgdir computes, one page table after the other.   *)
LEMMA CopiesDef ==
  ASSUME NEW x, NEW p, NEW c, NEW keep, NEW F, F = Copies(x, p, c, keep)
  PROVE  /\ F[0] = Emptied(x, c)
         /\ \A i \in 1..TABLES : F[i] = CopyTable(F[i - 1], p, c, keep, i)
<1> DEFINE G(s, i) == CopyTable(s, p, c, keep, i)
           x0 == Emptied(x, c)
           Is(g, n) == g = [i \in 0..n |-> IF i = 0 THEN x0 ELSE G(g[i - 1], i)]
           Not == {n \in 0..TABLES : ~ \E g : Is(g, n)}
<1>0. TABLES \in Nat
  BY MemoryAssumption
<1>3. Copies(x, p, c, keep) = CHOOSE g : Is(g, TABLES)
  BY Zenon DEF Copies, Emptied
<1> HIDE DEF G, x0
<1>1. ASSUME Not # {} PROVE FALSE
  <2>0. Not \subseteq Nat
    BY <1>0
  <2>1. PICK n \in Not : \A k \in Not : n <= k
    BY <1>1, <2>0, MinExists
  <2>2. CASE n = 0
    <3>1. Is([i \in 0..0 |-> x0], 0)
      OBVIOUS
    <3> QED BY <2>2, <3>1
  <2>3. CASE n # 0
    <3>1. n - 1 \in 0..TABLES /\ n - 1 \notin Not
      <4>1. n \in 0..TABLES
        OBVIOUS
      <4> HIDE DEF Not
      <4> QED BY <4>1, <2>1, <2>3, <1>0
    <3>2. PICK g : Is(g, n - 1)
      BY <3>1
    <3> DEFINE h == [i \in 0..n |-> IF i = n THEN G(g[n - 1], n) ELSE g[i]]
    <3>3. Is(h, n)
      <4>1. n \in Nat /\ n > 0
        BY <2>3, <1>0
      <4>2. \A i \in 0..n : h[i] = IF i = 0 THEN x0 ELSE G(h[i - 1], i)
        BY <3>2, <4>1
      <4> QED BY <4>2
    <3> QED BY <3>3
  <2> QED BY <2>2, <2>3
<1>2. \E g : Is(g, TABLES)
  BY <1>1, <1>0
<1>4. Is(Copies(x, p, c, keep), TABLES)
  BY <1>2, <1>3, Zenon
<1>5. Is(F, TABLES)
  BY <1>4
<1>6. F[0] = x0 /\ \A i \in 1..TABLES : F[i] = G(F[i - 1], i)
  BY <1>5, <1>0
<1> QED BY <1>6 DEF G, x0

(* From x to y the child c gets the pages of p. *)
SpaceCopied(x, y, A, p, c) ==
    /\ \A q \in A, v \in Page : Lead(y, q, v) = Lead(x, q, v)
    /\ \A v \in Page : Lead(y, c, v) = Lead(x, p, v)
    /\ \A f \in Frame : x.memory_map[f] > 0 => y.data[f] = x.data[f]

(* copy_pgdir gives the child c the pages of the parent p; nothing else    *)
(* moves and no contents change.                                           *)
LEMMA CopyEffect ==
  ASSUME NEW x \in Memories, NEW A, A \subseteq Proc, NEW p \in A, NEW c \in Proc, c \notin A, NEW keep \in BOOLEAN,
         NEW B, B = A \cup {c}
  PROVE  LET y == copy_pgdir(x, p, c, keep) IN
         /\ y \in Memories
         /\ Bad(x) => Bad(y)
         /\ Good(x, A) => Bad(y) \/ (Good(y, B) /\ SpaceCopied(x, y, A, p, c))
<1> DEFINE F == Copies(x, p, c, keep)
           y == copy_pgdir(x, p, c, keep)
           Fine(s, i) ==
             /\ Good(s, B)
             /\ \A q \in A, v \in Page : Lead(s, q, v) = Lead(x, q, v)
             /\ \A v \in Page : PDE_IDX(v) <= i => Lead(s, c, v) = Lead(x, p, v)
             /\ \A j \in Table : j > i => s.page_dir[c][j] = 0
             /\ \A f \in Frame : x.memory_map[f] > 0 => s.memory_map[f] > 0 /\ s.data[f] = x.data[f]
           Holds(i) ==
             /\ F[i] \in Memories
             /\ Bad(x) => Bad(F[i])
             /\ Good(x, A) => Bad(F[i]) \/ Fine(F[i], i)
<1>0. TABLES \in Nat /\ TABLES > 0 /\ B \subseteq Proc /\ p \in B /\ c \in B /\ p # c /\ p \in Proc /\ A \subseteq B
  BY MemoryAssumption
<1>1. /\ F[0] = Emptied(x, c)
      /\ \A i \in 1..TABLES : F[i] = CopyTable(F[i - 1], p, c, keep, i)
  <2>1. F = Copies(x, p, c, keep)
    OBVIOUS
  <2> HIDE DEF F
  <2> QED BY <2>1, CopiesDef
<1>2. y = [F[TABLES] EXCEPT !.tlb = 0]
  BY DEF copy_pgdir
<1> HIDE DEF F, y
<1>3. Holds(0)
  <2> DEFINE pd == [x.page_dir EXCEPT ![c] = NoTables]
  <2>1. x.page_dir \in [Proc -> [Table -> 0..FRAMES]]
    BY DEF Memories
  <2>2. pd \in [Proc -> [Table -> 0..FRAMES]]
    BY <2>1, MemoryAssumption DEF NoTables
  <2>3. F[0] = [x EXCEPT !.page_dir = pd]
    BY <1>1 DEF Emptied
  <2>4. x.page_dir[c] = NoTables => pd = x.page_dir
    BY <2>1
  <2> HIDE DEF pd
  <2>5. F[0] \in Memories
    BY <2>2, <2>3 DEF Memories
  <2>6. Bad(x) => Bad(F[0])
    BY <2>3 DEF Bad, Memories
  <2>7. ASSUME Good(x, A) PROVE Fine(F[0], 0)
    <3>1. x.page_dir[c] = NoTables
      BY <2>7 DEF Good, Dirs
    <3>2. F[0] = x
      BY <3>1, <2>3, <2>4 DEF Memories
    <3>3. Good(x, B)
      BY <3>1, <2>7, <1>0, NoSpace
    <3>4. \A v \in Page : PDE_IDX(v) > 0 /\ PDE_IDX(v) \in Nat
      BY Indices, <1>0 DEF Table
    <3>5. \A v \in Page : ~(PDE_IDX(v) <= 0)
      BY <3>4
    <3>6. \A j \in Table : x.page_dir[c][j] = 0
      BY <3>1 DEF NoTables
    <3> QED BY <3>2, <3>3, <3>5, <3>6
  <2> QED BY <2>5, <2>6, <2>7
<1>4. ASSUME NEW i \in 1..TABLES, Holds(i - 1) PROVE Holds(i)
  <2> DEFINE s == F[i - 1]
             z == F[i]
  <2>0. i \in Table
    BY DEF Table
  <2>1. s \in Memories /\ (Bad(x) => Bad(s)) /\ (Good(x, A) => Bad(s) \/ Fine(s, i - 1))
    BY <1>4
  <2>2. z = CopyTable(s, p, c, keep, i)
    BY <1>1
  <2> HIDE DEF s, z, Fine
  <2>3. z \in Memories /\ (Bad(s) => Bad(z))
    BY <2>0, <2>1, <2>2, <1>0, CopyTableEffect
  <2>4. ASSUME Fine(s, i - 1), ~Bad(z) PROVE Fine(z, i)
    <3>1. /\ Good(s, B)
          /\ \A q \in A, v \in Page : Lead(s, q, v) = Lead(x, q, v)
          /\ \A v \in Page : PDE_IDX(v) <= i - 1 => Lead(s, c, v) = Lead(x, p, v)
          /\ \A j \in Table : j > i - 1 => s.page_dir[c][j] = 0
          /\ \A f \in Frame : x.memory_map[f] > 0 => s.memory_map[f] > 0 /\ s.data[f] = x.data[f]
      BY <2>4 DEF Fine
    <3>2. s.page_dir[c][i] = 0 /\ i \in Nat
      BY <3>1, <2>0, <1>0 DEF Table
    <3>3. ASSUME NEW v \in Page, Lead(s, c, v) # 0 PROVE Lead(s, c, v) = Lead(s, p, v)
      <4>1. PDE_IDX(v) \in Table /\ PDE_IDX(v) \in Nat
        BY Indices, <1>0 DEF Table
      <4>2. s.page_dir[c][PDE_IDX(v)] # 0
        BY <3>3, <2>1, LeadIs
      <4>3. PDE_IDX(v) <= i - 1
        BY <4>1, <4>2, <3>1, <3>2
      <4> QED BY <4>3, <3>1
    <3>4. /\ Good(z, B)
          /\ \A q \in Proc, j \in Table : ~(q = c /\ j = i) => z.page_dir[q][j] = s.page_dir[q][j]
          /\ \A v \in Page : PDE_IDX(v) = i => Lead(z, c, v) = Lead(s, p, v)
          /\ \A q \in B, v \in Page : ~(q = c /\ PDE_IDX(v) = i) => Lead(z, q, v) = Lead(s, q, v)
          /\ \A f \in Frame : s.memory_map[f] > 0 => z.memory_map[f] > 0 /\ z.data[f] = s.data[f]
      <4>1. Ahead(s, p, c, i)
        BY <3>2, <3>3 DEF Ahead
      <4>2. Good(z, B) /\ TableCopied(s, z, B, p, c, i)
        BY <4>1, <3>1, <2>0, <2>1, <2>2, <2>4, <1>0, CopyTableEffect
      <4> QED BY <4>2 DEF TableCopied
    <3>5. \A q \in A, v \in Page : Lead(z, q, v) = Lead(x, q, v)
      BY <3>1, <3>4, <1>0
    <3>6. ASSUME NEW v \in Page, PDE_IDX(v) <= i PROVE Lead(z, c, v) = Lead(x, p, v)
      <4>1. PDE_IDX(v) \in Nat
        BY Indices, <1>0 DEF Table
      <4>2. CASE PDE_IDX(v) = i
        BY <4>2, <3>1, <3>4
      <4>3. CASE PDE_IDX(v) <= i - 1 /\ PDE_IDX(v) # i
        BY <4>3, <3>1, <3>4, <1>0
      <4> QED BY <4>1, <4>2, <4>3, <3>2, <3>6
    <3>7. ASSUME NEW j \in Table, j > i PROVE z.page_dir[c][j] = 0
      <4>1. j \in Nat
        BY <1>0 DEF Table
      <4>2. j > i - 1 /\ j # i
        BY <4>1, <3>2, <3>7
      <4> QED BY <4>2, <3>1, <3>4, <1>0
    <3> QED BY <3>1, <3>4, <3>5, <3>6, <3>7 DEF Fine
  <2> QED BY <2>1, <2>3, <2>4 DEF z
<1> HIDE DEF Holds
<1>5. Holds(TABLES)
  <2> DEFINE Not == {i \in 0..TABLES : ~Holds(i)}
  <2>1. ASSUME Not # {} PROVE FALSE
    <3>1. Not \subseteq Nat
      BY <1>0
    <3>2. PICK i \in Not : \A j \in Not : i <= j
      BY <2>1, <3>1, MinExists
    <3>3. i \in 0..TABLES /\ ~Holds(i)
      OBVIOUS
    <3>4. i # 0
      BY <3>3, <1>3
    <3>5. i \in 1..TABLES /\ i - 1 \in 0..TABLES /\ ~(i <= i - 1)
      BY <3>3, <3>4, <1>0
    <3>6. i - 1 \notin Not
      <4> HIDE DEF Not
      <4> QED BY <3>2, <3>5
    <3>7. Holds(i - 1)
      BY <3>5, <3>6
    <3> QED BY <3>3, <3>5, <3>7, <1>4
  <2>2. TABLES \in 0..TABLES
    BY <1>0
  <2> QED BY <2>1, <2>2
<1> DEFINE z == F[TABLES]
<1>6. z \in Memories /\ (Bad(x) => Bad(z)) /\ (Good(x, A) => Bad(z) \/ Fine(z, TABLES))
  BY <1>5 DEF Holds
<1>7. y = [z EXCEPT !.tlb = 0]
  BY <1>2
<1> HIDE DEF z
<1>8. y \in Memories /\ Alike(z, y) /\ y.data = z.data
  BY <1>6, <1>7, Frames DEF Memories, Alike
<1>9. /\ \A q \in Proc, e \in Entry : Lead(y, q, e) = Lead(z, q, e)
      /\ Bad(z) <=> Bad(y)
      /\ Good(z, B) => Good(y, B)
  BY <1>0, <1>6, <1>8, AlikeGood
<1>10. ASSUME Fine(z, TABLES)
       PROVE  /\ Good(y, B)
              /\ \A q \in A, v \in Page : Lead(y, q, v) = Lead(x, q, v)
              /\ \A v \in Page : Lead(y, c, v) = Lead(x, p, v)
              /\ \A f \in Frame : x.memory_map[f] > 0 => y.data[f] = x.data[f]
  <2>1. \A v \in Page : PDE_IDX(v) <= TABLES /\ v \in Entry
    BY Indices, Entries, <1>0 DEF Table
  <2>2. y.data = z.data
    BY <1>8
  <2> QED BY <2>1, <2>2, <1>0, <1>9, <1>10 DEF Fine
<1> HIDE DEF Fine
<1>11. Fine(z, TABLES) => Good(y, B) /\ SpaceCopied(x, y, A, p, c)
  BY <1>10 DEF SpaceCopied
<1> QED BY <1>6, <1>8, <1>9, <1>11 DEF y

-----------------------------------------------------------------------------
(* The heap. *)

(* The heap pages are the first pages. *)
LEMMA HeapPages == HeapTop \in Nat /\ 1..HeapTop \subseteq Page
<1>1. ENTRIES \in Nat /\ TABLES \in Nat /\ TABLES > 0
  BY MemoryAssumption
<1>2. HeapTop \in Nat /\ TABLES * ENTRIES = HeapTop + ENTRIES
  BY <1>1 DEF HeapTop
<1> QED BY <1>1, <1>2 DEF Page

(* What the loop of sys_brk computes, one page after the other. *)
LEMMA UnlinksDef ==
  ASSUME NEW x, NEW p, NEW n, NEW F, F = Unlinks(x, p, n)
  PROVE  /\ F[0] = x
         /\ \A v \in 1..HeapTop : F[v] = IF v \in (n + 1)..brk[p] THEN unlink_page(F[v - 1], p, v) ELSE F[v - 1]
<1> DEFINE G(s, v) == IF v \in (n + 1)..brk[p] THEN unlink_page(s, p, v) ELSE s
           Is(g, k) == g = [v \in 0..k |-> IF v = 0 THEN x ELSE G(g[v - 1], v)]
           Not == {k \in 0..HeapTop : ~ \E g : Is(g, k)}
<1>0. HeapTop \in Nat
  BY HeapPages
<1>3. F = CHOOSE g : Is(g, HeapTop)
  BY Zenon DEF Unlinks
<1> HIDE DEF G
<1>1. ASSUME Not # {} PROVE FALSE
  <2>0. Not \subseteq Nat
    BY <1>0
  <2>1. PICK k \in Not : \A j \in Not : k <= j
    BY <1>1, <2>0, MinExists
  <2>2. CASE k = 0
    <3>1. Is([v \in 0..0 |-> x], 0)
      OBVIOUS
    <3> QED BY <2>2, <3>1
  <2>3. CASE k # 0
    <3>1. k - 1 \in 0..HeapTop /\ k - 1 \notin Not
      <4>1. k \in 0..HeapTop
        OBVIOUS
      <4> HIDE DEF Not
      <4> QED BY <4>1, <2>1, <2>3, <1>0
    <3>2. PICK g : Is(g, k - 1)
      BY <3>1
    <3> DEFINE h == [v \in 0..k |-> IF v = k THEN G(g[k - 1], k) ELSE g[v]]
    <3>3. Is(h, k)
      <4>1. k \in Nat /\ k > 0
        BY <2>3, <1>0
      <4>2. \A v \in 0..k : h[v] = IF v = 0 THEN x ELSE G(h[v - 1], v)
        BY <3>2, <4>1
      <4> QED BY <4>2
    <3> QED BY <3>3
  <2> QED BY <2>2, <2>3
<1>2. \E g : Is(g, HeapTop)
  BY <1>1, <1>0
<1>4. Is(F, HeapTop)
  BY <1>2, <1>3, Zenon
<1>5. F[0] = x /\ \A v \in 1..HeapTop : F[v] = G(F[v - 1], v)
  BY <1>4, <1>0
<1> QED BY <1>5 DEF G

(* sys_brk drops the pages of p above n heap pages and no other.           *)
LEMMA UnlinksEffect ==
  ASSUME NEW x \in Memories, NEW A, A \subseteq Proc, NEW p \in A, NEW n \in Nat, brk[p] \in 0..HeapTop
  PROVE  LET y == Unlinks(x, p, n)[HeapTop]
             gone == (n + 1)..brk[p]
         IN
         /\ y \in Memories
         /\ Bad(x) => Bad(y)
         /\ Good(x, A) /\ (\A w \in Page : w \in vmap[p] <=> Lead(x, p, w) # 0) =>
              \/ Bad(y)
              \/ /\ Good(y, A)
                 /\ \A w \in gone : Lead(y, p, w) = 0
                 /\ \A q \in A, w \in Page : ~(q = p /\ w \in gone) => Lead(y, q, w) = Lead(x, q, w)
                 /\ \A q \in A, w \in Page : Lead(y, q, w) # 0 =>
                      y.data[Lead(y, q, w)] = x.data[Lead(y, q, w)]
<1> DEFINE F == Unlinks(x, p, n)
           gone == (n + 1)..brk[p]
           Pre == Good(x, A) /\ \A w \in Page : w \in vmap[p] <=> Lead(x, p, w) # 0
           Fine(s, v) ==
             /\ Good(s, A)
             /\ \A w \in gone : w <= v => Lead(s, p, w) = 0
             /\ \A q \in A, w \in Page : ~(q = p /\ w \in gone /\ w <= v) => Lead(s, q, w) = Lead(x, q, w)
             /\ \A q \in A, w \in Page : Lead(s, q, w) # 0 => s.data[Lead(s, q, w)] = x.data[Lead(s, q, w)]
           Holds(v) ==
             /\ F[v] \in Memories
             /\ Bad(x) => Bad(F[v])
             /\ Pre => Bad(F[v]) \/ Fine(F[v], v)
<1>0. HeapTop \in Nat /\ gone \subseteq 1..HeapTop /\ gone \subseteq Page /\ Page \subseteq Nat /\ p \in Proc
  <2>1. HeapTop \in Nat /\ gone \subseteq 1..HeapTop
    BY HeapPages
  <2>2. TABLES * ENTRIES \in Nat
    BY MemoryAssumption
  <2>3. Page \subseteq Nat
    BY <2>2 DEF Page
  <2> QED BY <2>1, <2>3, HeapPages
<1>1. /\ F[0] = x
      /\ \A v \in 1..HeapTop : F[v] = IF v \in gone THEN unlink_page(F[v - 1], p, v) ELSE F[v - 1]
  <2>1. F = Unlinks(x, p, n)
    OBVIOUS
  <2> HIDE DEF F
  <2> QED BY <2>1, UnlinksDef
<1> HIDE DEF F, gone
<1>2. Holds(0)
  <2>1. ASSUME NEW w \in Page PROVE ~(w <= 0)
    BY Entries, <1>0
  <2>2. \A w \in gone : ~(w <= 0)
    BY <2>1, <1>0
  <2> QED BY <1>1, <2>1, <2>2
<1>3. ASSUME NEW v \in 1..HeapTop, Holds(v - 1) PROVE Holds(v)
  <2> DEFINE s == F[v - 1]
             z == F[v]
  <2>0. v \in Page /\ v \in Nat /\ v > 0
    BY HeapPages, <1>0
  <2>1. s \in Memories /\ (Bad(x) => Bad(s)) /\ (Pre => Bad(s) \/ Fine(s, v - 1))
    BY <1>3
  <2>2. z = IF v \in gone THEN unlink_page(s, p, v) ELSE s
    BY <1>1
  <2> HIDE DEF s, z, Fine, Pre
  <2>3. z \in Memories /\ (Bad(s) => Bad(z))
    BY <2>0, <2>1, <2>2, UnlinkEffect
  <2>4. ASSUME Pre, Fine(s, v - 1), ~Bad(z) PROVE Fine(z, v)
    <3>1. /\ Good(s, A)
          /\ \A w \in gone : w <= v - 1 => Lead(s, p, w) = 0
          /\ \A q \in A, w \in Page : ~(q = p /\ w \in gone /\ w <= v - 1) => Lead(s, q, w) = Lead(x, q, w)
          /\ \A q \in A, w \in Page : Lead(s, q, w) # 0 => s.data[Lead(s, q, w)] = x.data[Lead(s, q, w)]
      BY <2>4 DEF Fine
    <3>2. \A w \in Page : (w <= v <=> w <= v - 1 \/ w = v)
      BY <2>0, <1>0
    <3>3. CASE v \in gone
      <4>1. ~(v <= v - 1)
        BY <2>0
      <4>2. Lead(s, p, v) = Lead(x, p, v)
        BY <3>1, <4>1, <2>0
      <4>3. v \in vmap[p] <=> Lead(s, p, v) # 0
        BY <4>2, <2>0, <2>4 DEF Pre
      <4>4. /\ Good(z, A) /\ Lead(z, p, v) = 0
            /\ \A q \in A, w \in Page : ~(q = p /\ w = v) => Lead(z, q, w) = Lead(s, q, w)
            /\ \A q \in A, w \in Page : Lead(z, q, w) # 0 => z.data[Lead(z, q, w)] = s.data[Lead(z, q, w)]
        BY <3>1, <3>3, <4>3, <2>0, <2>1, <2>2, <2>4, UnlinkEffect
      <4>5. \A w \in gone : w <= v => Lead(z, p, w) = 0
        BY <3>1, <3>2, <4>4, <1>0
      <4>6. ASSUME NEW q \in A, NEW w \in Page, ~(q = p /\ w \in gone /\ w <= v)
            PROVE  Lead(z, q, w) = Lead(x, q, w)
        BY <4>6, <3>1, <3>2, <3>3, <4>4
      <4>7. ASSUME NEW q \in A, NEW w \in Page, Lead(z, q, w) # 0
            PROVE  z.data[Lead(z, q, w)] = x.data[Lead(z, q, w)]
        <5>1. ~(q = p /\ w = v)
          BY <4>4, <4>7
        <5>2. Lead(z, q, w) = Lead(s, q, w)
          BY <5>1, <4>4
        <5> QED BY <5>2, <4>4, <4>7, <3>1
      <4> QED BY <4>4, <4>5, <4>6, <4>7 DEF Fine
    <3>4. CASE v \notin gone
      <4>1. z = s
        BY <2>2, <3>4
      <4>2. \A w \in gone : w <= v => w <= v - 1
        BY <3>2, <3>4, <1>0
      <4> QED BY <4>1, <4>2, <3>1, <3>2 DEF Fine
    <3> QED BY <3>3, <3>4
  <2> QED BY <2>1, <2>3, <2>4 DEF z
<1> HIDE DEF Holds
<1>4. Holds(HeapTop)
  <2> DEFINE Not == {v \in 0..HeapTop : ~Holds(v)}
  <2>1. ASSUME Not # {} PROVE FALSE
    <3>1. Not \subseteq Nat
      BY <1>0
    <3>2. PICK v \in Not : \A j \in Not : v <= j
      BY <2>1, <3>1, MinExists
    <3>3. v \in 0..HeapTop /\ ~Holds(v)
      OBVIOUS
    <3>4. v # 0
      BY <3>3, <1>2
    <3>5. v \in 1..HeapTop /\ v - 1 \in 0..HeapTop /\ ~(v <= v - 1)
      BY <3>3, <3>4, <1>0
    <3>6. v - 1 \notin Not
      <4> HIDE DEF Not
      <4> QED BY <3>2, <3>5
    <3>7. Holds(v - 1)
      BY <3>5, <3>6
    <3> QED BY <3>3, <3>5, <3>7, <1>3
  <2>2. HeapTop \in 0..HeapTop
    BY <1>0
  <2> QED BY <2>1, <2>2
<1> DEFINE y == F[HeapTop]
<1>5. y \in Memories /\ (Bad(x) => Bad(y)) /\ (Pre => Bad(y) \/ Fine(y, HeapTop))
  BY <1>4 DEF Holds
<1> HIDE DEF y
<1>6. ASSUME Fine(y, HeapTop)
      PROVE  /\ Good(y, A)
             /\ \A w \in gone : Lead(y, p, w) = 0
             /\ \A q \in A, w \in Page : ~(q = p /\ w \in gone) => Lead(y, q, w) = Lead(x, q, w)
             /\ \A q \in A, w \in Page : Lead(y, q, w) # 0 => y.data[Lead(y, q, w)] = x.data[Lead(y, q, w)]
  <2>1. \A w \in gone : w <= HeapTop
    BY <1>0
  <2> QED BY <2>1, <1>6
<1> HIDE DEF Fine
<1> QED BY <1>5, <1>6 DEF y, F, gone

-----------------------------------------------------------------------------
(* The end of an address space. *)

(* free_pgdir gives back each frame of p once; the others keep what they   *)
(* have.                                                                   *)
LEMMA ReleaseEffect ==
  ASSUME NEW x \in Memories, NEW A, A \subseteq Proc, NEW p \in A
  PROVE  LET y == free_pgdir(x, p) IN
         /\ y \in Memories
         /\ Bad(x) => Bad(y)
         /\ Good(x, A) =>
              /\ Good(y, A \ {p})
              /\ \A q \in A \ {p}, w \in Page :
                   /\ Lead(y, q, w) = Lead(x, q, w)
                   /\ Lead(x, q, w) # 0 => y.data[Lead(x, q, w)] = x.data[Lead(x, q, w)]
<1> DEFINE Own(f) == {e \in Entry : Lead(x, p, e) = f}
           refs == [f \in 0..FRAMES |-> IF f = 0 THEN 0 ELSE Cardinality(Own(f))]
           left == [f \in 0..FRAMES |-> IF refs[f] > x.memory_map[f] THEN 0 ELSE x.memory_map[f] - refs[f]]
           freed == {f \in Frame : x.memory_map[f] > 0 /\ left[f] = 0}
           fp == x.free_pages + Cardinality(freed)
           dd == [f \in 0..FRAMES |-> IF f \in freed THEN Left(x, f) ELSE x.data[f]]
           ee == [f \in 0..FRAMES |-> IF f \in freed THEN EmptyTable ELSE x.entries[f]]
           pd == [x.page_dir EXCEPT ![p] = NoTables]
           u == [x EXCEPT !.memory_map = left, !.free_pages = fp, !.data = dd, !.entries = ee, !.page_dir = pd]
           ok == \A f \in Frame : refs[f] <= x.memory_map[f]
           y == free_pgdir(x, p)
<1>0. p \in Proc
  OBVIOUS
<1>1. y = Assert_(u, ok)
  BY DEF free_pgdir, Release
<1>2. /\ x.memory_map \in [0..FRAMES -> Nat] /\ x.entries \in [0..FRAMES -> [1..ENTRIES -> Pte]]
      /\ x.data \in [0..FRAMES -> 0..Junk] /\ x.free_pages \in Int
      /\ x.page_dir \in [Proc -> [Table -> 0..FRAMES]]
  BY DEF Memories
<1>3. \A f : IsFiniteSet(Own(f)) /\ Cardinality(Own(f)) \in Nat
  <2>1. \A f : Own(f) \subseteq Entry
    OBVIOUS
  <2> QED BY <2>1, Entries, FS_Subset, FS_CardinalityType
<1>4. \A f \in 0..FRAMES : refs[f] \in Nat
  <2> HIDE DEF Own
  <2> QED BY <1>3
<1>5. \A f \in 0..FRAMES : refs[f] = IF f = 0 THEN 0 ELSE Cardinality(Own(f))
  OBVIOUS
<1> HIDE DEF refs, y, Own
<1>6. left \in [0..FRAMES -> Nat]
  <2>1. \A f \in 0..FRAMES : x.memory_map[f] \in Nat
    BY <1>2
  <2>2. \A f \in 0..FRAMES : (IF refs[f] > x.memory_map[f] THEN 0 ELSE x.memory_map[f] - refs[f]) \in Nat
    BY <2>1, <1>4
  <2> QED BY <2>2
<1>7. \A f \in 0..FRAMES : left[f] = IF refs[f] > x.memory_map[f] THEN 0 ELSE x.memory_map[f] - refs[f]
  OBVIOUS
<1>8. IsFiniteSet(freed) /\ Cardinality(freed) \in Nat /\ fp \in Int
  <2>1. IsFiniteSet(Frame)
    BY FS_Interval, MemoryAssumption DEF Frame
  <2>2. IsFiniteSet(freed)
    BY <2>1, FS_Subset
  <2> HIDE DEF freed
  <2>3. Cardinality(freed) \in Nat
    BY <2>2, FS_CardinalityType
  <2> QED BY <2>2, <2>3, <1>2
<1>9. dd \in [0..FRAMES -> 0..Junk] /\ ee \in [0..FRAMES -> [1..ENTRIES -> Pte]]
  <2>1. EmptyTable \in [1..ENTRIES -> Pte] /\ \A f \in 0..FRAMES : Left(x, f) \in 0..Junk
    BY Frames, MemoryAssumption DEF EmptyTable, Absent, Pte, Left, Junk
  <2> HIDE DEF freed
  <2>2. ee \in [0..FRAMES -> [1..ENTRIES -> Pte]]
    BY <2>1, <1>2
  <2>3. dd \in [0..FRAMES -> 0..Junk]
    BY <2>1, <1>2
  <2> QED BY <2>2, <2>3
<1>10. pd \in [Proc -> [Table -> 0..FRAMES]] /\ pd[p] = NoTables /\ \A q \in Proc : q # p => pd[q] = x.page_dir[q]
  BY <1>2, Frames DEF NoTables
<1>11. /\ \A f \in 0..FRAMES : f \notin freed => dd[f] = x.data[f] /\ ee[f] = x.entries[f]
       /\ \A f \in Frame : f \in freed => ee[f] = EmptyTable
  <2> HIDE DEF freed
  <2> QED BY Frames
<1>12. \A f : f \in freed <=> f \in Frame /\ x.memory_map[f] > 0 /\ left[f] = 0
  OBVIOUS
<1> HIDE DEF left, fp, dd, ee, pd
<1>13. u \in Memories
  BY <1>6, <1>8, <1>9, <1>10 DEF Memories
<1>14. /\ u.memory_map = left /\ u.free_pages = fp /\ u.data = dd /\ u.entries = ee /\ u.page_dir = pd
       /\ u.halted = x.halted /\ u.spoiled = x.spoiled
  BY DEF Memories
<1> HIDE DEF u
<1>15. Bad(x) => Bad(u)
  BY <1>14 DEF Bad
<1>16. y \in Memories /\ (Bad(u) => Bad(y)) /\ (ok => y = u)
  <2>1. ok \in BOOLEAN
    OBVIOUS
  <2> HIDE DEF ok
  <2> QED BY <2>1, <1>1, <1>13, AssertEffect
<1>17. ASSUME Good(x, A)
       PROVE  /\ Good(y, A \ {p})
              /\ \A q \in A \ {p}, w \in Page :
                   /\ Lead(y, q, w) = Lead(x, q, w)
                   /\ Lead(x, q, w) # 0 => y.data[Lead(x, q, w)] = x.data[Lead(x, q, w)]
  <2>1. ASSUME NEW f \in Frame
        PROVE  /\ x.memory_map[f] \in Nat
               /\ (\E e \in Entry : Lead(x, p, e) = f) => refs[f] = 1 /\ x.memory_map[f] > 0
               /\ (\A e \in Entry : Lead(x, p, e) # f) => refs[f] = 0
               /\ left[f] = x.memory_map[f] - refs[f] /\ refs[f] <= x.memory_map[f]
    <3>0. f # 0 /\ f \in 0..FRAMES /\ x.memory_map[f] \in Nat /\ refs[f] = Cardinality(Own(f))
      BY <1>2, <1>5, Frames
    <3>1. ASSUME NEW e \in Entry, Lead(x, p, e) = f PROVE refs[f] = 1 /\ x.memory_map[f] > 0
      <4>1. Own(f) = {e}
        BY <3>0, <3>1, <1>17 DEF Own, Good, Once
      <4>2. Cardinality({e}) = 1
        BY FS_Singleton
      <4>3. x.memory_map[f] > 0
        BY <3>0, <3>1, <1>17, CountFacts DEF Good
      <4> QED BY <4>1, <4>2, <4>3, <3>0
    <3>2. ASSUME \A e \in Entry : Lead(x, p, e) # f PROVE refs[f] = 0
      <4>1. Own(f) = {}
        BY <3>2 DEF Own
      <4> QED BY <4>1, <3>0, FS_EmptySet
    <3>3. refs[f] <= x.memory_map[f]
      BY <3>0, <3>1, <3>2
    <3>4. left[f] = x.memory_map[f] - refs[f]
      BY <3>0, <3>3, <1>4, <1>7
    <3> QED BY <3>0, <3>1, <3>2, <3>3, <3>4
  <2>2. ok /\ y = u
    BY <2>1, <1>16
  <2>3. ASSUME NEW q \in A, q # p, NEW e \in Entry, Lead(x, q, e) # 0
        PROVE  Lead(x, q, e) \in Frame /\ ((\A g \in Entry : Lead(x, p, g) # Lead(x, q, e)) => Lead(x, q, e) \notin freed)
    <3> DEFINE f == Lead(x, q, e)
    <3>1. f \in Frame /\ x.memory_map[f] > 0
      BY <2>3, <1>17, CountFacts DEF Good
    <3>2. ASSUME \A g \in Entry : Lead(x, p, g) # f PROVE f \notin freed
      <4> HIDE DEF f
      <4>1. refs[f] = 0 /\ left[f] = x.memory_map[f] - refs[f] /\ x.memory_map[f] \in Nat
        BY <3>1, <3>2, <2>1
      <4>2. left[f] # 0
        BY <4>1, <3>1
      <4> QED BY <4>2, <1>12
    <3> QED BY <3>1, <3>2
  <2>4. ASSUME NEW q \in A, q # p
        PROVE  /\ \A e \in Entry : Lead(u, q, e) = Lead(x, q, e)
               /\ \A w \in Page : Writable(u, q, w) <=> Writable(x, q, w)
    <3>1. u.page_dir[q] = x.page_dir[q] /\ q \in Proc
      BY <2>4, <1>10, <1>14
    <3>2. ASSUME NEW j \in Table, x.page_dir[q][j] # 0
          PROVE  u.entries[x.page_dir[q][j]] = x.entries[x.page_dir[q][j]]
      <4> DEFINE D == x.page_dir[q][j]
      <4>1. 0 - j \in Entry /\ Lead(x, q, 0 - j) = D
        BY Entries, LeadIs
      <4>2. \A g \in Entry : Lead(x, p, g) # D
        BY <2>4, <3>2, <1>17 DEF Good, TablesPrivate
      <4>3. D \in Frame /\ D \notin freed
        BY <4>1, <4>2, <3>2, <2>3, <2>4
      <4> QED BY <4>3, <1>11, <1>14, Frames
    <3> QED BY <3>1, <3>2, <1>13, LeadSame
  <2>5. (\A e \in Entry : Lead(u, p, e) = 0) /\ \A w \in Page : ~Writable(u, p, w)
    <3>1. \A j \in Table : u.page_dir[p][j] = 0
      BY <1>10, <1>14 DEF NoTables
    <3>2. ASSUME NEW e \in Entry, e < 0 PROVE Lead(u, p, e) = 0
      <4>1. 0 - e \in Table /\ 0 - (0 - e) = e
        BY <3>2, Entries
      <4> QED BY <3>1, <4>1, <1>0, <1>13, LeadIs
    <3>3. \A w \in Page : Lead(u, p, w) = 0
      BY <3>1, <1>0, <1>13, LeadIs, Indices
    <3>4. \A w \in Page : ~Writable(u, p, w)
      BY <3>3, <1>0, <1>13, LeadIs
    <3> QED BY <3>2, <3>3, <3>4, Entries
  <2>6. TablesPrivate(u, A) /\ Once(u, A) /\ WritesPrivate(u, A)
    <3>1. \A q \in A, g \in Entry : Lead(u, q, g) = Lead(x, q, g) \/ Lead(u, q, g) = 0
      BY <2>4, <2>5
    <3>2. \A q \in A, w \in Page : Writable(u, q, w) => Writable(x, q, w)
      BY <2>4, <2>5
    <3> QED BY <3>1, <3>2, <1>13, <1>17, Fewer DEF Good
  <2>7. ASSUME NEW f \in Frame PROVE left[f] = Cardinality(Users(u, A, f))
    <3>0. f # 0 /\ x.memory_map[f] = Cardinality(Users(x, A, f)) /\ Cardinality(Users(u, A, f)) \in Nat
      BY <1>17, Frames, UsersFinite DEF Good, Counted
    <3>1. CASE \E e \in Entry : Lead(x, p, e) = f
      <4>1. PICK e \in Entry : Lead(x, p, e) = f
        BY <3>1
      <4>2. ASSUME NEW q \in A, NEW g \in Entry, ~(q = p /\ g = e)
            PROVE  Lead(u, q, g) = f <=> Lead(x, q, g) = f
        <5>1. CASE q # p
          BY <5>1, <2>4
        <5>2. CASE q = p
          <6>1. Lead(x, p, g) # f
            BY <4>1, <4>2, <5>2, <3>0, <1>17 DEF Good, Once
          <6> QED BY <6>1, <5>2, <2>5, <3>0
        <5> QED BY <5>1, <5>2
      <4>3. Lead(u, p, e) # f
        BY <2>5, <3>0
      <4>4. Cardinality(Users(x, A, f)) = Cardinality(Users(u, A, f)) + 1
        BY <4>1, <4>2, <4>3, UsersPlus
      <4> QED BY <4>4, <3>0, <3>1, <2>1
    <3>2. CASE \A e \in Entry : Lead(x, p, e) # f
      <4>1. ASSUME NEW q \in A, NEW g \in Entry PROVE Lead(x, q, g) = f <=> Lead(u, q, g) = f
        <5>1. CASE q # p
          BY <5>1, <2>4
        <5>2. CASE q = p
          BY <5>2, <3>2, <2>5, <3>0
        <5> QED BY <5>1, <5>2
      <4>2. Users(u, A, f) = Users(x, A, f)
        BY <4>1, UsersSame
      <4>3. left[f] = x.memory_map[f]
        BY <3>2, <2>1
      <4> QED BY <4>2, <4>3, <3>0
    <3> QED BY <3>1, <3>2
  <2>8. fp = Cardinality(FreeOf(left))
    <3> DEFINE S == FreeOf(x.memory_map)
    <3>1. IsFiniteSet(S)
      <4>1. IsFiniteSet(Frame)
        BY FS_Interval, MemoryAssumption DEF Frame
      <4> QED BY <4>1, FS_Subset DEF FreeOf
    <3>2. S \cap freed = {}
      BY <1>12 DEF FreeOf
    <3>3. ASSUME NEW f \in Frame PROVE left[f] = 0 <=> x.memory_map[f] = 0 \/ f \in freed
      <4>1. x.memory_map[f] \in Nat /\ left[f] = x.memory_map[f] - refs[f] /\ refs[f] <= x.memory_map[f] /\ refs[f] \in Nat
        BY <2>1, <1>4, Frames
      <4>2. x.memory_map[f] = 0 => left[f] = 0
        BY <4>1
      <4>3. x.memory_map[f] = 0 \/ x.memory_map[f] > 0
        BY <4>1
      <4> QED BY <4>2, <4>3, <1>12
    <3>4. FreeOf(left) = S \cup freed
      BY <3>3, <1>12 DEF FreeOf
    <3> HIDE DEF S, freed
    <3>5. Cardinality(S \cup freed) = Cardinality(S) + Cardinality(freed) - Cardinality(S \cap freed)
      BY <3>1, <1>8, FS_Union
    <3>6. Cardinality({}) = 0
      BY FS_EmptySet
    <3>7. Cardinality(S) \in Nat
      BY <3>1, FS_CardinalityType
    <3>8. x.free_pages = Cardinality(S)
      BY <1>17 DEF S, Good, Counted
    <3>9. Cardinality(FreeOf(left)) = Cardinality(S) + Cardinality(freed)
      <4>1. Cardinality(S \cap freed) = 0
        BY <3>2, <3>6
      <4>2. Cardinality(freed) \in Nat
        BY <1>8
      <4> DEFINE a == Cardinality(S)
                 b == Cardinality(freed)
      <4>3. Cardinality(S \cup freed) = a + b - 0 /\ a \in Nat /\ b \in Nat
        BY <3>5, <3>7, <4>1, <4>2
      <4> HIDE DEF a, b
      <4>4. Cardinality(S \cup freed) = a + b
        BY <4>3
      <4> QED BY <4>4, <3>4 DEF a, b
    <3> QED BY <3>8, <3>9 DEF fp
  <2>9. Counted(u, A)
    BY <2>7, <2>8, <1>14 DEF Counted
  <2>10. Plain(u, A)
    <3> SUFFICES ASSUME NEW f \in Frame, \A q \in A, j \in Table : u.page_dir[q][j] # f
                 PROVE  u.entries[f] = EmptyTable
      BY DEF Plain
    <3>1. CASE f \in freed
      BY <3>1, <1>11, <1>14
    <3>2. CASE f \notin freed
      <4>1. ASSUME NEW q \in A, NEW j \in Table, x.page_dir[q][j] = f PROVE FALSE
        <5>1. q = p
          BY <4>1, <1>10, <1>14
        <5>2. 0 - j \in Entry /\ Lead(x, p, 0 - j) = f
          BY <5>1, <4>1, Entries, LeadIs
        <5>3. x.memory_map[f] > 0
          BY <5>2, <2>1
        <5>4. ASSUME NEW r \in A, NEW g \in Entry, Lead(u, r, g) = f PROVE FALSE
          <6>1. r # p
            BY <5>4, <2>5, Frames
          <6>2. Lead(x, r, g) = f
            BY <5>4, <6>1, <2>4
          <6>3. r = p
            BY <6>2, <5>1, <4>1, <1>17, Frames DEF Good, TablesPrivate
          <6> QED BY <6>1, <6>3
        <5>5. Users(u, A, f) = {}
          BY <5>4, UsersFinite
        <5>6. left[f] = 0
          BY <5>5, <2>7, FS_EmptySet
        <5> QED BY <5>3, <5>6, <3>2, <1>12
      <4>2. x.entries[f] = EmptyTable
        BY <4>1, <1>17 DEF Good, Plain
      <4> QED BY <4>2, <3>2, <1>11, <1>14, Frames
    <3> QED BY <3>1, <3>2
  <2>11. Dirs(u, A)
    BY <1>10, <1>14, <1>17 DEF Good, Dirs
  <2>12. Good(u, A)
    BY <2>6, <2>9, <2>10, <2>11, <1>14, <1>17 DEF Good
  <2>13. Good(u, A \ {p})
    <3>1. u.page_dir[p] = NoTables
      BY <1>10, <1>14
    <3>2. \A q \in Proc : q # p => (q \in A <=> q \in A \ {p})
      OBVIOUS
    <3> QED BY <3>1, <3>2, <2>12, <1>0, <1>13, NoSpace
  <2>14. ASSUME NEW q \in A \ {p}, NEW w \in Page, Lead(x, q, w) # 0
         PROVE  u.data[Lead(x, q, w)] = x.data[Lead(x, q, w)]
    <3> DEFINE f == Lead(x, q, w)
    <3>1. w \in Entry /\ f \in Frame /\ q \in A /\ q # p
      BY <2>14, <2>3, Entries
    <3>2. Lead(u, q, w) = f
      BY <3>1, <2>4
    <3> HIDE DEF f
    <3>3. <<q, w>> \in Users(u, A, f)
      BY <3>1, <3>2, UsersFinite
    <3>4. Cardinality(Users(u, A, f)) # 0
      BY <3>3, UsersFinite, FS_EmptySet
    <3>5. f \notin freed
      BY <3>1, <3>4, <2>7, <1>12
    <3>6. u.data[f] = x.data[f]
      BY <3>1, <3>5, <1>11, <1>14, Frames
    <3> QED BY <3>6 DEF f
  <2> QED BY <2>2, <2>4, <2>13, <2>14, Entries
<1> QED BY <1>15, <1>16, <1>17 DEF y

-----------------------------------------------------------------------------
(* The steps. *)

(* What has to be shown of the next state. *)
LEMMA NextInv ==
  ASSUME m' \in Memories, alive' \subseteq Proc,
         vmap' \in [Proc -> SUBSET Page], brk' \in [Proc -> 0..HeapTop],
         stores' \in 0..MaxStores, wrote' \in [Proc -> [Page -> 0..MaxStores]],
         \/ Bad(m')
         \/ /\ Good(m', alive')
            /\ \A p \in alive' : Marked(m', p, vmap'[p], brk'[p]) /\ Kept(m', p, wrote'[p])
  PROVE  MInv'
BY DEF MInv, Types

(* A switch of the address space and the end of a call. *)
LEMMA RunningDone ==
  ASSUME NEW x \in Memories, NEW p
  PROVE  /\ Done(x) \in Memories /\ Alike(x, Done(x)) /\ Done(x).data = x.data
         /\ m \in Memories =>
              /\ Running(p) \in Memories /\ Alike(m, Running(p))
              /\ Running(p).data = m.data
BY Frames DEF Done, Running, Alike, Memories

(* What a call of p starts from. *)
LEMMA Before ==
  ASSUME MInv, NEW p, CanRun(p)
  PROVE  /\ p \in alive /\ p \in Proc /\ alive \subseteq Proc /\ m \in Memories /\ m.halted = "no"
         /\ Running(p) \in Memories /\ Running(p).data = m.data /\ Running(p).halted = "no"
         /\ Running(p).memory_map = m.memory_map /\ Running(p).spoiled = m.spoiled
         /\ \A q \in Proc, e \in Entry : Lead(Running(p), q, e) = Lead(m, q, e)
         /\ \A q \in Proc, v \in Page : pte(Running(p), q, v) = pte(m, q, v)
         /\ Bad(m) => Bad(Running(p))
         /\ Good(m, alive) => Good(Running(p), alive)
<1>1. p \in alive /\ p \in Proc /\ alive \subseteq Proc /\ m \in Memories /\ m.halted = "no"
  BY DEF MInv, Types, CanRun
<1> DEFINE x == Running(p)
<1>2. x \in Memories /\ Alike(m, x) /\ x.data = m.data
  BY <1>1, RunningDone
<1> HIDE DEF x
<1>3. /\ \A q \in Proc, e \in Entry : Lead(x, q, e) = Lead(m, q, e)
      /\ Bad(m) => Bad(x)
      /\ Good(m, alive) => Good(x, alive)
  BY <1>1, <1>2, AlikeGood
<1>4. x.halted = "no" /\ x.memory_map = m.memory_map /\ x.spoiled = m.spoiled
  BY <1>1, <1>2 DEF Alike
<1>5. \A q \in Proc, v \in Page : pte(x, q, v) = pte(m, q, v)
  BY <1>2 DEF Alike, pte
<1> QED BY <1>1, <1>2, <1>3, <1>4, <1>5 DEF x

(* What a call leaves. *)
LEMMA After ==
  ASSUME NEW x \in Memories, NEW A, A \subseteq Proc
  PROVE  /\ Done(x) \in Memories /\ Done(x).data = x.data
         /\ \A q \in Proc, e \in Entry : Lead(Done(x), q, e) = Lead(x, q, e)
         /\ Bad(x) => Bad(Done(x))
         /\ Good(x, A) => Good(Done(x), A)
<1> DEFINE y == Done(x)
<1>1. y \in Memories /\ Alike(x, y) /\ y.data = x.data
  BY RunningDone
<1> HIDE DEF y
<1>2. /\ \A q \in Proc, e \in Entry : Lead(y, q, e) = Lead(x, q, e)
      /\ Bad(x) => Bad(y)
      /\ Good(x, A) => Good(y, A)
  BY <1>1, AlikeGood
<1> QED BY <1>1, <1>2 DEF y

(* A page that is allocated lazily, or a panic. *)
LEMMA FaultAbsentStep ==
  ASSUME MInv, NEW p \in Proc, NEW v \in Page, FaultAbsent(p, v)
  PROVE  MInv'
<1> DEFINE x == Running(p)
           y == link_page(x, p, v)
<1>0. CanRun(p) /\ ~Mapped(m, p, v)
  BY DEF FaultAbsent, Runs
<1>1. /\ p \in alive /\ alive \subseteq Proc /\ m \in Memories /\ m.halted = "no"
      /\ x \in Memories /\ x.data = m.data /\ x.halted = "no"
      /\ \A q \in Proc, e \in Entry : Lead(x, q, e) = Lead(m, q, e)
      /\ Bad(m) => Bad(x)
      /\ Good(m, alive) => Good(x, alive)
  BY <1>0, Before
<1>2. /\ vmap \in [Proc -> SUBSET Page] /\ brk \in [Proc -> 0..HeapTop]
      /\ stores \in 0..MaxStores /\ wrote \in [Proc -> [Page -> 0..MaxStores]]
  BY DEF MInv, Types
<1>3. alive' = alive /\ brk' = brk /\ stores' = stores /\ wrote' = wrote
  BY DEF FaultAbsent, family
<1>4. Lead(m, p, v) = 0 /\ v \in Entry
  BY <1>0, <1>1, LeadIs, Entries
<1> HIDE DEF x
<1>5. CASE v <= brk[p] \/ InStack(v)
  <2>1. m' = Done(y) /\ vmap' = [vmap EXCEPT ![p] = @ \cup {v}]
    BY <1>5 DEF FaultAbsent, x
  <2>2. vmap' \in [Proc -> SUBSET Page] /\ vmap'[p] = vmap[p] \cup {v} /\ \A q \in Proc : q # p => vmap'[q] = vmap[q]
    BY <2>1, <1>2
  <2>3. /\ y \in Memories /\ (Bad(x) => Bad(y))
        /\ Good(x, alive) /\ Lead(x, p, v) = 0 /\ v \notin vmap[p] =>
              \/ Bad(y)
              \/ /\ Good(y, alive) /\ Lead(y, p, v) # 0 /\ y.data = x.data
                 /\ \A q \in alive, w \in Page : ~(q = p /\ w = v) => Lead(y, q, w) = Lead(x, q, w)
    BY <1>1, LinkEffect
  <2> HIDE DEF y
  <2>4. /\ m' \in Memories /\ m'.data = y.data
        /\ \A q \in Proc, e \in Entry : Lead(m', q, e) = Lead(y, q, e)
        /\ Bad(y) => Bad(m')
        /\ Good(y, alive) => Good(m', alive)
    BY <2>1, <2>3, <1>1, After
  <2>5. ASSUME ~Bad(m')
        PROVE  /\ Good(m', alive)
               /\ \A q \in alive : Marked(m', q, vmap'[q], brk[q]) /\ Kept(m', q, wrote[q])
    <3>1. /\ Good(m, alive)
          /\ \A q \in alive : Marked(m, q, vmap[q], brk[q]) /\ Kept(m, q, wrote[q])
      BY <2>3, <2>4, <2>5, <1>1 DEF MInv
    <3>2. v \notin vmap[p] /\ Lead(x, p, v) = 0
      BY <3>1, <1>1, <1>4 DEF Marked
    <3>3. /\ Good(y, alive) /\ Lead(y, p, v) # 0 /\ y.data = x.data
          /\ \A q \in alive, w \in Page : ~(q = p /\ w = v) => Lead(y, q, w) = Lead(x, q, w)
      BY <2>3, <2>4, <2>5, <3>1, <3>2, <1>1
    <3>4. /\ Lead(m', p, v) # 0 /\ m'.data = m.data
          /\ \A q \in alive, w \in Page : ~(q = p /\ w = v) => Lead(m', q, w) = Lead(m, q, w)
      BY <3>3, <2>4, <1>1, <1>4, Entries
    <3>5. ASSUME NEW q \in alive PROVE Marked(m', q, vmap'[q], brk[q])
      <4>1. Marked(m, q, vmap[q], brk[q])
        BY <3>1
      <4>2. CASE q = p
        BY <4>1, <4>2, <3>4, <2>2, <1>5 DEF Marked
      <4>3. CASE q # p
        BY <4>1, <4>3, <3>4, <2>2, <1>1 DEF Marked
      <4> QED BY <4>2, <4>3
    <3>6. ASSUME NEW q \in alive PROVE Kept(m', q, wrote[q])
      <4>1. Kept(m, q, wrote[q])
        BY <3>1
      <4>2. q = p => wrote[q][v] = 0
        BY <4>1, <1>4 DEF Kept
      <4> QED BY <4>1, <4>2, <3>4 DEF Kept
    <3> QED BY <3>3, <3>5, <3>6, <2>4
  <2> QED BY <2>2, <2>4, <2>5, <1>1, <1>2, <1>3, NextInv
<1>6. CASE ~(v <= brk[p] \/ InStack(v))
  <2>1. m' = Panic(x, "fault") /\ vmap' = vmap
    BY <1>6 DEF FaultAbsent, x
  <2>2. m' \in Memories /\ m'.halted = "fault"
    BY <2>1, <1>1, PanicEffect
  <2>3. Bad(m')
    BY <2>2 DEF Bad
  <2> QED BY <2>1, <2>2, <2>3, <1>1, <1>2, <1>3, NextInv
<1> QED BY <1>5, <1>6

(* Copy-on-write. *)
LEMMA FaultReadOnlyStep ==
  ASSUME MInv, NEW p \in Proc, NEW v \in Page, NEW keep \in BOOLEAN, FaultReadOnly(p, v, keep)
  PROVE  MInv'
<1> DEFINE x == Running(p)
           y == copy_on_write(x, p, v, keep)
           f == pte(m, p, v).frame
<1>0. CanRun(p) /\ Mapped(m, p, v)
  BY DEF FaultReadOnly, Runs
<1>1. /\ p \in alive /\ alive \subseteq Proc /\ m \in Memories /\ m.halted = "no"
      /\ x \in Memories /\ x.data = m.data /\ x.halted = "no" /\ x.memory_map = m.memory_map
      /\ pte(x, p, v) = pte(m, p, v) /\ x.spoiled = m.spoiled
      /\ \A q \in Proc, e \in Entry : Lead(x, q, e) = Lead(m, q, e)
      /\ Bad(m) => Bad(x)
      /\ Good(m, alive) => Good(x, alive)
  BY <1>0, Before
<1>2. /\ vmap \in [Proc -> SUBSET Page] /\ brk \in [Proc -> 0..HeapTop]
      /\ stores \in 0..MaxStores /\ wrote \in [Proc -> [Page -> 0..MaxStores]]
  BY DEF MInv, Types
<1>3. alive' = alive /\ vmap' = vmap /\ brk' = brk /\ stores' = stores /\ wrote' = wrote
  BY DEF FaultReadOnly, family
<1>4. Lead(m, p, v) # 0 /\ v \in Entry /\ f \in 0..FRAMES /\ Lead(m, p, v) = f
  <2>1. pte(m, p, v) \in Pte
    BY <1>1, LeadIs
  <2>2. f \in 0..FRAMES
    BY <2>1 DEF Pte
  <2> QED BY <2>2, <1>0, <1>1, LeadIs, Entries DEF Mapped
<1> HIDE DEF x
<1>5. m.memory_map[f] \in Nat
  BY <1>1, <1>4 DEF Memories
<1>6. CASE m.memory_map[f] = 0
  <2>1. m' = Panic(x, "assert")
    BY <1>6 DEF FaultReadOnly, x
  <2>2. ~Good(m, alive)
    BY <1>1, <1>4, <1>6, CountFacts DEF Good
  <2>3. Bad(m)
    BY <2>2 DEF MInv
  <2>4. m' \in Memories /\ Bad(m')
    BY <2>1, <2>3, <1>1, PanicEffect
  <2> QED BY <2>4, <1>1, <1>2, <1>3, NextInv
<1>7. CASE m.memory_map[f] # 0
  <2>1. m' = Done(y)
    BY <1>7 DEF FaultReadOnly, x
  <2>2. x.memory_map[pte(x, p, v).frame] > 0
    BY <1>1, <1>5, <1>7
  <2>3. /\ y \in Memories /\ (Bad(x) => Bad(y))
        /\ Good(x, alive) /\ Lead(x, p, v) # 0 =>
              \/ Bad(y)
              \/ /\ Good(y, alive)
                 /\ \A q \in alive, w \in Page :
                      /\ Lead(y, q, w) # 0 <=> Lead(x, q, w) # 0
                      /\ Lead(x, q, w) # 0 => y.data[Lead(y, q, w)] = x.data[Lead(x, q, w)]
    BY <2>2, <1>1, CowEffect
  <2> HIDE DEF y
  <2>4. /\ m' \in Memories /\ m'.data = y.data
        /\ \A q \in Proc, e \in Entry : Lead(m', q, e) = Lead(y, q, e)
        /\ Bad(y) => Bad(m')
        /\ Good(y, alive) => Good(m', alive)
    BY <2>1, <2>3, <1>1, After
  <2>5. ASSUME ~Bad(m')
        PROVE  /\ Good(m', alive)
               /\ \A q \in alive : Marked(m', q, vmap[q], brk[q]) /\ Kept(m', q, wrote[q])
    <3>1. /\ Good(m, alive)
          /\ \A q \in alive : Marked(m, q, vmap[q], brk[q]) /\ Kept(m, q, wrote[q])
      BY <2>3, <2>4, <2>5, <1>1 DEF MInv
    <3>2. /\ Good(y, alive)
          /\ \A q \in alive, w \in Page :
               /\ Lead(y, q, w) # 0 <=> Lead(x, q, w) # 0
               /\ Lead(x, q, w) # 0 => y.data[Lead(y, q, w)] = x.data[Lead(x, q, w)]
      BY <2>3, <2>4, <2>5, <3>1, <1>1, <1>4
    <3>3. \A q \in alive, w \in Page :
               /\ Lead(m', q, w) # 0 <=> Lead(m, q, w) # 0
               /\ Lead(m, q, w) # 0 => m'.data[Lead(m', q, w)] = m.data[Lead(m, q, w)]
      <4>1. \A q \in alive, w \in Page : Lead(m', q, w) = Lead(y, q, w) /\ Lead(x, q, w) = Lead(m, q, w)
        BY <2>4, <1>1, Entries
      <4> QED BY <4>1, <3>2, <2>4, <1>1
    <3>4. ASSUME NEW q \in alive PROVE Marked(m', q, vmap[q], brk[q]) /\ Kept(m', q, wrote[q])
      <4>1. Marked(m, q, vmap[q], brk[q]) /\ Kept(m, q, wrote[q])
        BY <3>1
      <4>2. Marked(m', q, vmap[q], brk[q])
        BY <4>1, <3>3 DEF Marked
      <4>3. Kept(m', q, wrote[q])
        BY <4>1, <3>3 DEF Kept
      <4> QED BY <4>2, <4>3
    <3> QED BY <3>2, <3>4, <2>4
  <2> QED BY <2>4, <2>5, <1>1, <1>2, <1>3, NextInv
<1> QED BY <1>6, <1>7

(* A word stored in a writable page is seen in that page of p only. *)
LEMMA WriteEffect ==
  ASSUME NEW x \in Memories, NEW y \in Memories, NEW A, A \subseteq Proc, Good(x, A), Alike(x, y),
         NEW p \in A, NEW v \in Page, Writable(x, p, v), NEW k \in 0..MaxStores,
         y.data[Lead(x, p, v)] = k,
         \A g \in 0..FRAMES : g # Lead(x, p, v) => y.data[g] = x.data[g],
         NEW q \in A, NEW W, NEW U, Kept(x, q, W), q = p => U[v] = k,
         \A w \in Page : ~(q = p /\ w = v) => U[w] = W[w]
  PROVE  Kept(y, q, U)
<1> DEFINE f == Lead(x, p, v)
<1>1. \A e \in Entry : Lead(y, q, e) = Lead(x, q, e)
  BY AlikeGood
<1>2. f # 0 /\ f \in 0..FRAMES /\ v \in Entry /\ p \in Proc
  BY LeadIs, Entries
<1>4. y.data[f] = k /\ \A g \in 0..FRAMES : g # f => y.data[g] = x.data[g]
  OBVIOUS
<1>5. ASSUME NEW w \in Page, U[w] # 0
      PROVE  Lead(y, q, w) # 0 /\ y.data[Lead(y, q, w)] = U[w]
  <2>1. w \in Entry /\ Lead(y, q, w) = Lead(x, q, w) /\ Lead(x, q, w) \in 0..FRAMES
    BY <1>1, Entries, LeadIs
  <2>2. CASE q = p /\ w = v
    BY <2>1, <2>2, <1>2, <1>4
  <2>3. CASE ~(q = p /\ w = v)
    <3>1. Lead(x, q, w) # 0 /\ x.data[Lead(x, q, w)] = W[w] /\ U[w] = W[w]
      BY <2>3, <1>5 DEF Kept
    <3>2. Lead(x, q, w) # f
      <4>1. ASSUME Lead(x, q, w) = f PROVE FALSE
        <5>1. q = p
          BY <4>1 DEF Good, WritesPrivate
        <5>2. w = v
          BY <4>1, <5>1, <2>1, <1>2 DEF Good, Once
        <5> QED BY <5>1, <5>2, <2>3
      <4> QED BY <4>1
    <3> QED BY <2>1, <3>1, <3>2, <1>4
  <2> QED BY <2>2, <2>3
<1> QED BY <1>5 DEF Kept

(* A store of the process. *)
LEMMA StoreStep ==
  ASSUME MInv, NEW p \in Proc, NEW v \in Page, Store(p, v)
  PROVE  MInv'
<1> DEFINE x == Running(p)
           f == pte(m, p, v).frame
           k == stores + 1
           dd == [x.data EXCEPT ![f] = k]
<1>0. CanRun(p) /\ Mapped(m, p, v) /\ pte(m, p, v).write /\ stores < MaxStores
  BY DEF Store, Runs
<1>1. /\ p \in alive /\ alive \subseteq Proc /\ m \in Memories
      /\ x \in Memories /\ x.data = m.data /\ Alike(m, x)
  BY <1>0, Before, RunningDone
<1>2. /\ vmap \in [Proc -> SUBSET Page] /\ brk \in [Proc -> 0..HeapTop]
      /\ stores \in 0..MaxStores /\ wrote \in [Proc -> [Page -> 0..MaxStores]]
  BY DEF MInv, Types
<1>3. /\ alive' = alive /\ vmap' = vmap /\ brk' = brk /\ stores' = k
      /\ wrote' = [wrote EXCEPT ![p][v] = k]
      /\ m' = [x EXCEPT !.data = dd]
  BY DEF Store, family
<1>4. k \in 0..MaxStores /\ k \in 0..Junk
  BY <1>0, <1>2, MemoryAssumption DEF Junk
<1> HIDE DEF k
<1>5. wrote' \in [Proc -> [Page -> 0..MaxStores]]
  BY <1>2, <1>3, <1>4
<1>6. f \in 0..FRAMES /\ Lead(m, p, v) = f /\ Writable(m, p, v)
  <2>1. pte(m, p, v) \in Pte
    BY <1>1, LeadIs
  <2>2. f \in 0..FRAMES
    BY <2>1 DEF Pte
  <2> QED BY <2>2, <1>0, <1>1, LeadIs DEF Mapped, Writable
<1> HIDE DEF f, x
<1>7. dd \in [0..FRAMES -> 0..Junk]
  <2>1. x.data \in [0..FRAMES -> 0..Junk]
    BY <1>1 DEF Memories
  <2> QED BY <2>1, <1>4
<1>8. dd = [m.data EXCEPT ![Lead(m, p, v)] = k]
  BY <1>1, <1>6
<1> HIDE DEF dd
<1>9. m' \in Memories /\ Alike(x, m') /\ m'.data = dd
  BY <1>1, <1>3, <1>7 DEF Memories, Alike
<1>10. Alike(m, m')
  BY <1>1, <1>9 DEF Alike
<1>11. Bad(m) => Bad(m')
  BY <1>10 DEF Alike, Bad
<1>12. ASSUME ~Bad(m')
       PROVE  /\ Good(m', alive)
              /\ \A q \in alive : Marked(m', q, vmap[q], brk[q]) /\ Kept(m', q, wrote'[q])
  <2>1. /\ Good(m, alive)
        /\ \A q \in alive : Marked(m, q, vmap[q], brk[q]) /\ Kept(m, q, wrote[q])
    BY <1>11, <1>12 DEF MInv
  <2>2. m'.data = [m.data EXCEPT ![Lead(m, p, v)] = k] /\ wrote' = [wrote EXCEPT ![p][v] = k]
    BY <1>3, <1>8, <1>9
  <2>3. Good(m', alive) /\ \A q \in Proc, e \in Entry : Lead(m', q, e) = Lead(m, q, e)
    BY <2>1, <1>1, <1>9, <1>10, AlikeGood
  <2>4. ASSUME NEW q \in alive PROVE Marked(m', q, vmap[q], brk[q])
    BY <2>1, <2>3, <1>1, Entries DEF Marked
  <2>5. ASSUME NEW q \in alive PROVE Kept(m', q, wrote'[q])
    <3>1. /\ Kept(m, q, wrote[q]) /\ (q = p => wrote'[q][v] = k)
          /\ \A w \in Page : ~(q = p /\ w = v) => wrote'[q][w] = wrote[q][w]
      BY <2>1, <2>2, <1>1, <1>2
    <3>2. /\ m'.data[Lead(m, p, v)] = k
          /\ \A g \in 0..FRAMES : g # Lead(m, p, v) => m'.data[g] = m.data[g]
      <4>1. m.data \in [0..FRAMES -> 0..Junk] /\ Lead(m, p, v) \in 0..FRAMES
        BY <1>1, <1>6 DEF Memories
      <4> QED BY <4>1, <2>2
    <3> QED BY <3>1, <3>2, <2>1, <1>1, <1>4, <1>6, <1>9, <1>10, WriteEffect
  <2> QED BY <2>3, <2>4, <2>5
<1> QED BY <1>1, <1>2, <1>3, <1>4, <1>5, <1>9, <1>12, NextInv

(* A store of the kernel for the process. *)
LEMMA KernelStoreStep ==
  ASSUME MInv, NEW p \in Proc, NEW v \in Page, KernelStore(p, v)
  PROVE  MInv'
<1> DEFINE x == Running(p)
           f == pte(m, p, v).frame
           k == stores + 1
           dd == [x.data EXCEPT ![f] = k]
           sp == x.spoiled \/ ~pte(m, p, v).write
<1>0. CanRun(p) /\ stores < MaxStores
  BY DEF KernelStore, Runs
<1>1. /\ p \in alive /\ alive \subseteq Proc /\ m \in Memories /\ m.halted = "no"
      /\ x \in Memories /\ x.data = m.data /\ Alike(m, x) /\ x.halted = "no"
  BY <1>0, Before, RunningDone
<1>2. /\ vmap \in [Proc -> SUBSET Page] /\ brk \in [Proc -> 0..HeapTop]
      /\ stores \in 0..MaxStores /\ wrote \in [Proc -> [Page -> 0..MaxStores]]
  BY DEF MInv, Types
<1>3. alive' = alive /\ vmap' = vmap /\ brk' = brk /\ stores' = k
  BY DEF KernelStore
<1>4. k \in 0..MaxStores /\ k \in 0..Junk
  BY <1>0, <1>2, MemoryAssumption DEF Junk
<1>5. CASE Mapped(m, p, v)
  <2>1. /\ wrote' = [wrote EXCEPT ![p][v] = k]
        /\ m' = [x EXCEPT !.data = dd, !.spoiled = sp]
    BY <1>5 DEF KernelStore
  <2> HIDE DEF k
  <2>2. wrote' \in [Proc -> [Page -> 0..MaxStores]]
    BY <1>2, <1>4, <2>1
  <2>3. pte(m, p, v) \in Pte
    BY <1>1, LeadIs
  <2>4. f \in 0..FRAMES /\ pte(m, p, v).write \in BOOLEAN
    BY <2>3 DEF Pte
  <2>5. Lead(m, p, v) = f /\ (Writable(m, p, v) <=> pte(m, p, v).write)
    BY <1>1, <1>5, LeadIs DEF Mapped, Writable
  <2> HIDE DEF f, x
  <2>6. dd \in [0..FRAMES -> 0..Junk] /\ sp \in BOOLEAN
    <3>1. x.data \in [0..FRAMES -> 0..Junk]
      BY <1>1 DEF Memories
    <3> QED BY <3>1, <1>4
  <2>7. dd = [m.data EXCEPT ![Lead(m, p, v)] = k]
    BY <1>1, <2>5
  <2>8. sp <=> m.spoiled \/ ~Writable(m, p, v)
    BY <1>1, <2>5 DEF Alike
  <2> HIDE DEF dd, sp
  <2>9. /\ m' \in Memories /\ m'.data = dd /\ m'.spoiled = sp
        /\ m'.memory_map = x.memory_map /\ m'.free_pages = x.free_pages
        /\ m'.entries = x.entries /\ m'.page_dir = x.page_dir /\ m'.halted = x.halted
    BY <1>1, <2>1, <2>6 DEF Memories
  <2>10. Bad(m) => Bad(m')
    BY <1>1, <2>8, <2>9 DEF Alike, Bad
  <2>11. ASSUME ~Bad(m')
         PROVE  /\ Good(m', alive)
                /\ \A q \in alive : Marked(m', q, vmap[q], brk[q]) /\ Kept(m', q, wrote'[q])
    <3>1. /\ Good(m, alive)
          /\ \A q \in alive : Marked(m, q, vmap[q], brk[q]) /\ Kept(m, q, wrote[q])
      BY <2>10, <2>11 DEF MInv
    <3>2. ~sp /\ Writable(m, p, v) /\ m.spoiled = FALSE /\ sp = FALSE
      BY <2>6, <2>8, <2>9, <2>11, <1>1 DEF Bad, Memories
    <3>3. Alike(m, m')
      BY <3>2, <2>9, <1>1 DEF Alike
    <3>4. m'.data = [m.data EXCEPT ![Lead(m, p, v)] = k] /\ wrote' = [wrote EXCEPT ![p][v] = k]
      BY <2>1, <2>7, <2>9
    <3>5. Good(m', alive) /\ \A q \in Proc, e \in Entry : Lead(m', q, e) = Lead(m, q, e)
      BY <3>1, <3>3, <2>9, <1>1, AlikeGood
    <3>6. ASSUME NEW q \in alive PROVE Marked(m', q, vmap[q], brk[q])
      BY <3>1, <3>5, <1>1, Entries DEF Marked
    <3>7. ASSUME NEW q \in alive PROVE Kept(m', q, wrote'[q])
      <4>1. /\ Kept(m, q, wrote[q]) /\ (q = p => wrote'[q][v] = k)
            /\ \A w \in Page : ~(q = p /\ w = v) => wrote'[q][w] = wrote[q][w]
        BY <3>1, <3>4, <1>1, <1>2
      <4>2. /\ m'.data[Lead(m, p, v)] = k
            /\ \A g \in 0..FRAMES : g # Lead(m, p, v) => m'.data[g] = m.data[g]
        <5>1. m.data \in [0..FRAMES -> 0..Junk] /\ Lead(m, p, v) \in 0..FRAMES
          BY <1>1, <2>4, <2>5 DEF Memories
        <5> QED BY <5>1, <3>4
      <4> QED BY <4>1, <4>2, <3>1, <3>2, <3>3, <1>1, <1>4, <2>9, WriteEffect
    <3> QED BY <3>5, <3>6, <3>7
  <2> QED BY <1>1, <1>2, <1>3, <1>4, <2>2, <2>9, <2>11, NextInv
<1>6. CASE ~Mapped(m, p, v)
  <2>1. m' = Panic(x, "fault") /\ wrote' = wrote
    BY <1>6 DEF KernelStore
  <2> HIDE DEF x, k
  <2>2. m' \in Memories /\ m'.halted = "fault"
    BY <2>1, <1>1, PanicEffect
  <2>3. Bad(m')
    BY <2>2 DEF Bad
  <2> QED BY <2>1, <2>2, <2>3, <1>1, <1>2, <1>3, <1>4, NextInv
<1> QED BY <1>5, <1>6

(* sys_brk. *)
LEMMA BrkStep ==
  ASSUME MInv, NEW p \in Proc, NEW n \in 0..HeapTop, Brk(p, n)
  PROVE  MInv'
<1> DEFINE x == Running(p)
           y == Unlinks(x, p, n)[HeapTop]
           gone == (n + 1)..brk[p]
<1>0. CanRun(p)
  BY DEF Brk, Runs
<1>1. /\ p \in alive /\ alive \subseteq Proc /\ m \in Memories
      /\ x \in Memories /\ x.data = m.data
      /\ \A q \in Proc, e \in Entry : Lead(x, q, e) = Lead(m, q, e)
      /\ Bad(m) => Bad(x)
      /\ Good(m, alive) => Good(x, alive)
  BY <1>0, Before
<1>2. /\ vmap \in [Proc -> SUBSET Page] /\ brk \in [Proc -> 0..HeapTop]
      /\ stores \in 0..MaxStores /\ wrote \in [Proc -> [Page -> 0..MaxStores]]
  BY DEF MInv, Types
<1>3. /\ alive' = alive /\ stores' = stores /\ m' = Done(y)
      /\ brk' = [brk EXCEPT ![p] = IF n > @ /\ n - @ > m.free_pages THEN @ ELSE n]
      /\ vmap' = [vmap EXCEPT ![p] = @ \ gone]
      /\ wrote' = [wrote EXCEPT ![p] = [v \in Page |-> IF v \in gone THEN 0 ELSE @[v]]]
  BY DEF Brk, family
<1>4. HeapTop \in Nat /\ n \in Nat /\ brk[p] \in 0..HeapTop /\ brk[p] \in Nat /\ n <= HeapTop
  BY <1>2, HeapPages
<1>5. /\ brk' \in [Proc -> 0..HeapTop] /\ (brk'[p] = n \/ (brk'[p] = brk[p] /\ n > brk[p]))
      /\ \A q \in Proc : q # p => brk'[q] = brk[q]
  BY <1>2, <1>3, <1>4
<1>6. /\ y \in Memories /\ (Bad(x) => Bad(y))
      /\ Good(x, alive) /\ (\A w \in Page : w \in vmap[p] <=> Lead(x, p, w) # 0) =>
           \/ Bad(y)
           \/ /\ Good(y, alive)
              /\ \A w \in gone : Lead(y, p, w) = 0
              /\ \A q \in alive, w \in Page : ~(q = p /\ w \in gone) => Lead(y, q, w) = Lead(x, q, w)
              /\ \A q \in alive, w \in Page : Lead(y, q, w) # 0 =>
                   y.data[Lead(y, q, w)] = x.data[Lead(y, q, w)]
  <2> HIDE DEF x
  <2> QED BY <1>1, <1>4, UnlinksEffect
<1> HIDE DEF x, y
<1>7. \A w \in gone : n < w /\ w <= brk[p] /\ w \in Page
  <2>1. \A w \in gone : n < w /\ w <= brk[p] /\ w \in 1..HeapTop
    BY <1>4
  <2> QED BY <2>1, HeapPages
<1>8. \A w \in Page : w \notin gone => w <= n \/ w > brk[p]
  <2>1. TABLES * ENTRIES \in Nat
    BY MemoryAssumption
  <2>2. \A w \in Page : w \in Nat
    BY <2>1 DEF Page
  <2> QED BY <2>2, <1>4
<1> HIDE DEF gone
<1>9. /\ vmap' \in [Proc -> SUBSET Page] /\ vmap'[p] = vmap[p] \ gone
      /\ \A q \in Proc : q # p => vmap'[q] = vmap[q]
  BY <1>2, <1>3
<1>10. /\ wrote' \in [Proc -> [Page -> 0..MaxStores]]
       /\ \A w \in Page : wrote'[p][w] = IF w \in gone THEN 0 ELSE wrote[p][w]
       /\ \A q \in Proc : q # p => wrote'[q] = wrote[q]
  <2> DEFINE ww == [v \in Page |-> IF v \in gone THEN 0 ELSE wrote[p][v]]
  <2>1. ww \in [Page -> 0..MaxStores]
    BY <1>2, MemoryAssumption
  <2>2. wrote' = [wrote EXCEPT ![p] = ww]
    BY <1>3
  <2>3. \A w \in Page : ww[w] = IF w \in gone THEN 0 ELSE wrote[p][w]
    OBVIOUS
  <2> HIDE DEF ww
  <2> QED BY <2>1, <2>2, <2>3, <1>2
<1>11. /\ m' \in Memories /\ m'.data = y.data
       /\ \A q \in Proc, e \in Entry : Lead(m', q, e) = Lead(y, q, e)
       /\ Bad(y) => Bad(m')
       /\ Good(y, alive) => Good(m', alive)
  BY <1>3, <1>6, <1>1, After
<1>12. ASSUME ~Bad(m')
       PROVE  /\ Good(m', alive)
              /\ \A q \in alive : Marked(m', q, vmap'[q], brk'[q]) /\ Kept(m', q, wrote'[q])
  <2>1. /\ Good(m, alive)
        /\ \A q \in alive : Marked(m, q, vmap[q], brk[q]) /\ Kept(m, q, wrote[q])
    BY <1>6, <1>11, <1>12, <1>1 DEF MInv
  <2>2. \A w \in Page : w \in vmap[p] <=> Lead(x, p, w) # 0
    BY <2>1, <1>1, Entries DEF Marked
  <2>3. /\ Good(y, alive)
        /\ \A w \in gone : Lead(y, p, w) = 0
        /\ \A q \in alive, w \in Page : ~(q = p /\ w \in gone) => Lead(y, q, w) = Lead(x, q, w)
        /\ \A q \in alive, w \in Page : Lead(y, q, w) # 0 =>
             y.data[Lead(y, q, w)] = x.data[Lead(y, q, w)]
    BY <2>1, <2>2, <1>1, <1>6, <1>11, <1>12
  <2>4. \A q \in alive, w \in Page : Lead(m', q, w) = Lead(y, q, w) /\ Lead(x, q, w) = Lead(m, q, w)
    BY <1>1, <1>11, Entries
  <2>5. /\ \A w \in gone : Lead(m', p, w) = 0
        /\ \A q \in alive, w \in Page : ~(q = p /\ w \in gone) => Lead(m', q, w) = Lead(m, q, w)
        /\ \A q \in alive, w \in Page : Lead(m', q, w) # 0 =>
             m'.data[Lead(m', q, w)] = m.data[Lead(m', q, w)]
    BY <2>3, <2>4, <1>1, <1>7, <1>11
  <2>6. ASSUME NEW q \in alive PROVE Marked(m', q, vmap'[q], brk'[q])
    <3>1. Marked(m, q, vmap[q], brk[q]) /\ q \in Proc
      BY <2>1, <1>1
    <3>2. CASE q = p
      <4>1. ASSUME NEW w \in Page PROVE w \in vmap'[q] <=> Lead(m', q, w) # 0
        BY <3>1, <3>2, <2>5, <1>1, <1>9 DEF Marked
      <4>2. ASSUME NEW w \in vmap'[q] PROVE InStack(w) \/ w <= brk'[q]
        <5>1. w \in Page /\ w \in vmap[p] /\ w \notin gone
          BY <3>2, <1>2, <1>9
        <5>2. CASE w <= brk[p]
          <6>1. w <= n /\ w \in Nat
            <7>1. TABLES * ENTRIES \in Nat
              BY MemoryAssumption
            <7>2. w \in Nat
              BY <5>1, <7>1 DEF Page
            <7> QED BY <7>2, <5>1, <5>2, <1>4, <1>8
          <6> QED BY <6>1, <5>2, <3>2, <1>5
        <5>3. CASE InStack(w)
          BY <5>3
        <5> QED BY <5>1, <5>2, <5>3, <3>1, <3>2 DEF Marked
      <4> QED BY <4>1, <4>2 DEF Marked
    <3>3. CASE q # p
      BY <3>1, <3>3, <2>5, <1>5, <1>9 DEF Marked
    <3> QED BY <3>2, <3>3
  <2>7. ASSUME NEW q \in alive PROVE Kept(m', q, wrote'[q])
    <3>1. Kept(m, q, wrote[q]) /\ q \in Proc
      BY <2>1, <1>1
    <3>2. ASSUME NEW w \in Page, wrote'[q][w] # 0
          PROVE  Lead(m', q, w) # 0 /\ m'.data[Lead(m', q, w)] = wrote'[q][w]
      <4>1. ~(q = p /\ w \in gone) /\ wrote'[q][w] = wrote[q][w]
        BY <3>1, <3>2, <1>10
      <4>2. Lead(m, q, w) # 0 /\ m.data[Lead(m, q, w)] = wrote[q][w]
        BY <4>1, <3>1, <3>2 DEF Kept
      <4>3. Lead(m', q, w) = Lead(m, q, w)
        BY <4>1, <2>5
      <4> QED BY <4>1, <4>2, <4>3, <2>5
    <3> QED BY <3>2 DEF Kept
  <2> QED BY <2>3, <2>6, <2>7, <1>11
<1> QED BY <1>1, <1>2, <1>3, <1>5, <1>9, <1>10, <1>11, <1>12, NextInv

(* sys_fork. *)
LEMMA ForkStep ==
  ASSUME MInv, NEW p \in Proc, NEW c \in Proc, NEW keep \in BOOLEAN, Fork(p, c, keep)
  PROVE  MInv'
<1> DEFINE x == Running(p)
           y == copy_pgdir(x, p, c, keep)
           B == alive \cup {c}
<1>0. CanRun(p) /\ c \in Proc \ alive
  BY DEF Fork, Runs
<1>1. /\ p \in alive /\ alive \subseteq Proc /\ m \in Memories
      /\ x \in Memories /\ x.data = m.data /\ x.memory_map = m.memory_map
      /\ \A q \in Proc, e \in Entry : Lead(x, q, e) = Lead(m, q, e)
      /\ Bad(m) => Bad(x)
      /\ Good(m, alive) => Good(x, alive)
  BY <1>0, Before
<1>2. /\ vmap \in [Proc -> SUBSET Page] /\ brk \in [Proc -> 0..HeapTop]
      /\ stores \in 0..MaxStores /\ wrote \in [Proc -> [Page -> 0..MaxStores]]
  BY DEF MInv, Types
<1>3. /\ alive' = B /\ stores' = stores /\ m' = Done(y)
      /\ brk' = [brk EXCEPT ![c] = brk[p]]
      /\ vmap' = [vmap EXCEPT ![c] = vmap[p]]
      /\ wrote' = [wrote EXCEPT ![c] = wrote[p]]
  BY DEF Fork
<1>4. /\ vmap' \in [Proc -> SUBSET Page] /\ brk' \in [Proc -> 0..HeapTop]
      /\ wrote' \in [Proc -> [Page -> 0..MaxStores]]
  BY <1>2, <1>3
<1>5. /\ vmap'[c] = vmap[p] /\ brk'[c] = brk[p] /\ wrote'[c] = wrote[p]
      /\ \A q \in alive : vmap'[q] = vmap[q] /\ brk'[q] = brk[q] /\ wrote'[q] = wrote[q]
  BY <1>0, <1>1, <1>2, <1>3
<1>6. /\ y \in Memories /\ (Bad(x) => Bad(y))
      /\ Good(x, alive) =>
           \/ Bad(y)
           \/ /\ Good(y, B)
              /\ \A q \in alive, v \in Page : Lead(y, q, v) = Lead(x, q, v)
              /\ \A v \in Page : Lead(y, c, v) = Lead(x, p, v)
              /\ \A f \in Frame : x.memory_map[f] > 0 => y.data[f] = x.data[f]
  <2> HIDE DEF x
  <2>1. x \in Memories /\ alive \subseteq Proc /\ p \in alive /\ c \in Proc /\ c \notin alive
    BY <1>0, <1>1
  <2> HIDE DEF B
  <2>2. B = alive \cup {c}
    BY DEF B
  <2>3. y \in Memories /\ (Bad(x) => Bad(y))
    BY <2>1, <2>2, CopyEffect
  <2>4. Good(x, alive) => Bad(y) \/ (Good(y, B) /\ SpaceCopied(x, y, alive, p, c))
    BY <2>1, <2>2, CopyEffect
  <2> QED BY <2>3, <2>4 DEF SpaceCopied
<1> HIDE DEF x, y
<1>7. B \subseteq Proc
  BY <1>1
<1>8. /\ m' \in Memories /\ m'.data = y.data
      /\ \A q \in Proc, e \in Entry : Lead(m', q, e) = Lead(y, q, e)
      /\ Bad(y) => Bad(m')
      /\ Good(y, B) => Good(m', B)
  BY <1>3, <1>6, <1>7, After
<1>9. ASSUME ~Bad(m')
      PROVE  /\ Good(m', B)
             /\ \A q \in B : Marked(m', q, vmap'[q], brk'[q]) /\ Kept(m', q, wrote'[q])
  <2>1. /\ Good(m, alive)
        /\ \A q \in alive : Marked(m, q, vmap[q], brk[q]) /\ Kept(m, q, wrote[q])
    BY <1>6, <1>8, <1>9, <1>1 DEF MInv
  <2>2. /\ Good(y, B)
        /\ \A q \in alive, v \in Page : Lead(y, q, v) = Lead(x, q, v)
        /\ \A v \in Page : Lead(y, c, v) = Lead(x, p, v)
        /\ \A f \in Frame : x.memory_map[f] > 0 => y.data[f] = x.data[f]
    BY <2>1, <1>1, <1>6, <1>8, <1>9
  <2>3. /\ \A q \in alive, v \in Page : Lead(m', q, v) = Lead(m, q, v)
        /\ \A v \in Page : Lead(m', c, v) = Lead(m, p, v)
    BY <2>2, <1>0, <1>1, <1>8, Entries
  <2>4. ASSUME NEW q \in alive, NEW v \in Page, Lead(m, q, v) # 0
        PROVE  m'.data[Lead(m, q, v)] = m.data[Lead(m, q, v)]
    <3>1. Lead(m, q, v) \in Frame /\ m.memory_map[Lead(m, q, v)] > 0
      BY <2>1, <2>4, <1>1, Entries, CountFacts DEF Good
    <3> QED BY <3>1, <2>2, <1>1, <1>8
  <2>5. ASSUME NEW q \in alive
        PROVE  Marked(m', q, vmap'[q], brk'[q]) /\ Kept(m', q, wrote'[q])
    <3>1. Marked(m, q, vmap[q], brk[q]) /\ Kept(m, q, wrote[q])
      BY <2>1
    <3>2. Marked(m', q, vmap'[q], brk'[q])
      BY <3>1, <2>3, <1>5 DEF Marked
    <3>3. Kept(m', q, wrote'[q])
      BY <3>1, <2>3, <2>4, <1>5 DEF Kept
    <3> QED BY <3>2, <3>3
  <2>6. Marked(m', c, vmap'[c], brk'[c]) /\ Kept(m', c, wrote'[c])
    <3>1. Marked(m, p, vmap[p], brk[p]) /\ Kept(m, p, wrote[p])
      BY <2>1, <1>1
    <3>2. Marked(m', c, vmap'[c], brk'[c])
      BY <3>1, <2>3, <1>5 DEF Marked
    <3>3. Kept(m', c, wrote'[c])
      BY <3>1, <2>3, <2>4, <1>1, <1>5 DEF Kept
    <3> QED BY <3>2, <3>3
  <2> QED BY <2>2, <2>5, <2>6, <1>8
<1> QED BY <1>2, <1>3, <1>4, <1>7, <1>8, <1>9, NextInv

(* sys_exit. *)
LEMMA ExitStep ==
  ASSUME MInv, NEW p \in Proc, Exit(p)
  PROVE  MInv'
<1> DEFINE x == Running(p)
           y == free_pgdir(x, p)
           B == alive \ {p}
<1>0. CanRun(p)
  BY DEF Exit
<1>1. /\ p \in alive /\ alive \subseteq Proc /\ m \in Memories
      /\ x \in Memories /\ x.data = m.data
      /\ \A q \in Proc, e \in Entry : Lead(x, q, e) = Lead(m, q, e)
      /\ Bad(m) => Bad(x)
      /\ Good(m, alive) => Good(x, alive)
  BY <1>0, Before
<1>2. /\ vmap \in [Proc -> SUBSET Page] /\ brk \in [Proc -> 0..HeapTop]
      /\ stores \in 0..MaxStores /\ wrote \in [Proc -> [Page -> 0..MaxStores]]
  BY DEF MInv, Types
<1>3. /\ alive' = B /\ stores' = stores /\ m' = [y EXCEPT !.tlb = 0]
      /\ brk' = [brk EXCEPT ![p] = 0]
      /\ vmap' = [vmap EXCEPT ![p] = {}]
      /\ wrote' = [wrote EXCEPT ![p] = [v \in Page |-> 0]]
  BY DEF Exit
<1>4. /\ vmap' \in [Proc -> SUBSET Page] /\ brk' \in [Proc -> 0..HeapTop]
      /\ wrote' \in [Proc -> [Page -> 0..MaxStores]]
  <2>1. 0 \in 0..HeapTop /\ [v \in Page |-> 0] \in [Page -> 0..MaxStores]
    BY HeapPages, MemoryAssumption
  <2> QED BY <2>1, <1>2, <1>3
<1>5. \A q \in B : vmap'[q] = vmap[q] /\ brk'[q] = brk[q] /\ wrote'[q] = wrote[q]
  BY <1>1, <1>2, <1>3
<1>6. /\ y \in Memories /\ (Bad(x) => Bad(y))
      /\ Good(x, alive) =>
           /\ Good(y, B)
           /\ \A q \in B, w \in Page :
                /\ Lead(y, q, w) = Lead(x, q, w)
                /\ Lead(x, q, w) # 0 => y.data[Lead(x, q, w)] = x.data[Lead(x, q, w)]
  <2> HIDE DEF x
  <2> QED BY <1>1, ReleaseEffect
<1> HIDE DEF x, y
<1>7. B \subseteq Proc
  BY <1>1
<1>8. m' \in Memories /\ Alike(y, m') /\ m'.data = y.data
  BY <1>3, <1>6, Frames DEF Memories, Alike
<1>9. /\ \A q \in Proc, e \in Entry : Lead(m', q, e) = Lead(y, q, e)
      /\ Bad(y) => Bad(m')
      /\ Good(y, B) => Good(m', B)
  BY <1>6, <1>7, <1>8, AlikeGood
<1>10. ASSUME ~Bad(m')
       PROVE  /\ Good(m', B)
              /\ \A q \in B : Marked(m', q, vmap'[q], brk'[q]) /\ Kept(m', q, wrote'[q])
  <2>1. /\ Good(m, alive)
        /\ \A q \in alive : Marked(m, q, vmap[q], brk[q]) /\ Kept(m, q, wrote[q])
    BY <1>6, <1>9, <1>10, <1>1 DEF MInv
  <2>2. \A q \in B, w \in Page :
          /\ Lead(m', q, w) = Lead(m, q, w)
          /\ Lead(m, q, w) # 0 => m'.data[Lead(m, q, w)] = m.data[Lead(m, q, w)]
    BY <2>1, <1>1, <1>6, <1>7, <1>8, <1>9, Entries
  <2>3. ASSUME NEW q \in B
        PROVE  Marked(m', q, vmap'[q], brk'[q]) /\ Kept(m', q, wrote'[q])
    <3>1. Marked(m, q, vmap[q], brk[q]) /\ Kept(m, q, wrote[q])
      BY <2>1
    <3>2. Marked(m', q, vmap'[q], brk'[q])
      BY <3>1, <2>2, <1>5 DEF Marked
    <3>3. Kept(m', q, wrote'[q])
      BY <3>1, <2>2, <1>5 DEF Kept
    <3> QED BY <3>2, <3>3
  <2> QED BY <2>1, <2>3, <1>1, <1>6, <1>9
<1> QED BY <1>2, <1>3, <1>4, <1>7, <1>8, <1>10, NextInv

(* The empty memory that the first process starts with. *)
LEMMA InitInv == Init => MInv
<1> SUFFICES ASSUME Init PROVE MInv
  OBVIOUS
<1>1. PICK p \in Proc : alive = {p}
  BY DEF Init
<1>2. /\ m.memory_map = [f \in 0..FRAMES |-> IF f = 0 THEN 1 ELSE 0]
      /\ m.free_pages = FRAMES
      /\ m.data = [f \in 0..FRAMES |-> 0]
      /\ m.entries = [f \in 0..FRAMES |-> EmptyTable]
      /\ m.page_dir = [q \in Proc |-> NoTables]
      /\ m.paddr = 0 /\ m.tlb = 0 /\ m.halted = "no" /\ m.spoiled = FALSE
  BY DEF Init
<1>3. /\ EmptyTable \in [1..ENTRIES -> Pte] /\ NoTables \in [Table -> 0..FRAMES] /\ 0 \in 0..Junk
      /\ 0 \in 0..HeapTop /\ 0 \in 0..MaxStores
  BY Frames, HeapPages, MemoryAssumption DEF EmptyTable, Absent, Pte, NoTables, Junk
<1>4. m \in Memories
  <2> DEFINE mm == [f \in 0..FRAMES |-> IF f = 0 THEN 1 ELSE 0]
             dd == [f \in 0..FRAMES |-> 0]
             ee == [f \in 0..FRAMES |-> EmptyTable]
             pd == [q \in Proc |-> NoTables]
  <2>1. /\ mm \in [0..FRAMES -> Nat] /\ dd \in [0..FRAMES -> 0..Junk]
        /\ ee \in [0..FRAMES -> [1..ENTRIES -> Pte]] /\ pd \in [Proc -> [Table -> 0..FRAMES]]
        /\ FRAMES \in Int /\ 0 \in 0..FRAMES
    BY <1>3, Frames
  <2>2. m = [memory_map |-> mm, free_pages |-> FRAMES, data |-> dd, entries |-> ee, page_dir |-> pd,
             paddr |-> 0, tlb |-> 0, halted |-> "no", spoiled |-> FALSE]
    BY DEF Init
  <2> HIDE DEF mm, dd, ee, pd
  <2> QED BY <2>1, <2>2 DEF Memories
<1>5. Types
  BY <1>1, <1>3, <1>4 DEF Types, Init
<1>6. \A q \in Proc, j \in Table : m.page_dir[q][j] = 0
  BY <1>2 DEF NoTables
<1>7. \A q \in Proc, e \in Entry : Lead(m, q, e) = 0
  <2>1. ASSUME NEW q \in Proc, NEW e \in Entry, e < 0 PROVE Lead(m, q, e) = 0
    <3>1. 0 - e \in Table /\ 0 - (0 - e) = e
      BY <2>1, Entries
    <3> QED BY <3>1, <1>4, <1>6, LeadIs
  <2>2. \A q \in Proc, v \in Page : Lead(m, q, v) = 0
    BY <1>4, <1>6, LeadIs, Indices
  <2> QED BY <2>1, <2>2, Entries
<1>8. \A q \in Proc, v \in Page : ~Writable(m, q, v)
  BY <1>4, <1>7, LeadIs, Entries
<1>9. Counted(m, alive)
  <2>1. ASSUME NEW f \in Frame PROVE m.memory_map[f] = Cardinality(Users(m, alive, f))
    <3>1. f # 0 /\ f \in 0..FRAMES
      BY Frames
    <3>2. Users(m, alive, f) = {}
      BY <3>1, <1>1, <1>7, UsersFinite
    <3> QED BY <3>1, <3>2, <1>2, FS_EmptySet
  <2>2. FreeOf(m.memory_map) = 1..FRAMES
    BY <1>2, Frames DEF FreeOf, Frame
  <2>3. Cardinality(1..FRAMES) = FRAMES
    BY Frames, FS_Interval
  <2> QED BY <2>1, <2>2, <2>3, <1>2 DEF Counted
<1>10. Good(m, alive)
  <2>1. alive \subseteq Proc
    BY <1>1
  <2>2. TablesPrivate(m, alive) /\ Once(m, alive) /\ WritesPrivate(m, alive)
    BY <2>1, <1>6, <1>7, <1>8 DEF TablesPrivate, Once, WritesPrivate
  <2>3. Plain(m, alive) /\ Dirs(m, alive)
    BY <1>2, Frames DEF Plain, Dirs
  <2> QED BY <2>2, <2>3, <1>2, <1>9 DEF Good
<1>11. vmap = [q \in Proc |-> {}] /\ wrote = [q \in Proc |-> [v \in Page |-> 0]]
  BY DEF Init
<1>12. Marked(m, p, vmap[p], brk[p]) /\ Kept(m, p, wrote[p])
  BY <1>7, <1>11, Entries DEF Marked, Kept
<1> QED BY <1>1, <1>5, <1>10, <1>12 DEF MInv

-----------------------------------------------------------------------------
(* The theorems. *)

(* The invariant: until a page table is made in a used frame, a copy goes  *)
(* through a stale TLB entry, the kernel writes to a shared page, or a     *)
(* panic for lack of memory or for a fault, counts are exact, page tables  *)
(* are private, a frame is at most once in an address space, and bitmaps   *)
(* and contents are those of the process.                                  *)
THEOREM MemoryInvariance == Spec => []MInv
<1>1. MInv /\ [Next]_vars => MInv'
  <2> SUFFICES ASSUME MInv, [Next]_vars PROVE MInv'
    OBVIOUS
  <2>1. CASE Next
    <3>1. PICK p \in Proc :
            \/ \E v \in Page : FaultAbsent(p, v) \/ Store(p, v) \/ KernelStore(p, v)
            \/ \E v \in Page, keep \in BOOLEAN : FaultReadOnly(p, v, keep)
            \/ \E n \in 0..HeapTop : Brk(p, n)
            \/ \E c \in Proc, keep \in BOOLEAN : Fork(p, c, keep)
            \/ Exit(p)
      BY <2>1, Zenon DEF Next
    <3>2. ASSUME NEW v \in Page, FaultAbsent(p, v) \/ Store(p, v) \/ KernelStore(p, v) PROVE MInv'
      BY <3>2, FaultAbsentStep, StoreStep, KernelStoreStep
    <3>3. ASSUME NEW v \in Page, NEW keep \in BOOLEAN, FaultReadOnly(p, v, keep) PROVE MInv'
      BY <3>3, FaultReadOnlyStep
    <3>4. ASSUME NEW n \in 0..HeapTop, Brk(p, n) PROVE MInv'
      BY <3>4, BrkStep
    <3>5. ASSUME NEW c \in Proc, NEW keep \in BOOLEAN, Fork(p, c, keep) PROVE MInv'
      BY <3>5, ForkStep
    <3>6. ASSUME Exit(p) PROVE MInv'
      BY <3>6, ExitStep
    <3> QED BY <3>1, <3>2, <3>3, <3>4, <3>5, <3>6
  <2>2. CASE UNCHANGED vars
    <3>1. m' = m /\ alive' = alive /\ vmap' = vmap /\ brk' = brk /\ stores' = stores /\ wrote' = wrote
      BY <2>2 DEF vars
    <3> QED BY <3>1, NextInv DEF MInv, Types
  <2> QED BY <2>1, <2>2
<1> QED BY <1>1, InitInv, PTL DEF Spec

(* What the invariant says while nothing went wrong. *)
LEMMA WhenSound ==
  ASSUME MInv, Sound
  PROVE  /\ m \in Memories /\ alive \subseteq Proc /\ vmap \in [Proc -> SUBSET Page]
         /\ Good(m, alive) /\ \A f : Mappings(f) = Users(m, alive, f)
         /\ \A p \in alive : Marked(m, p, vmap[p], brk[p]) /\ Kept(m, p, wrote[p])
<1>1. ~Bad(m)
  BY DEF Sound, Bad
<1>2. \A f : Mappings(f) = Users(m, alive, f)
  BY DEF Mappings, Users
<1> QED BY <1>1, <1>2 DEF MInv, Types

(* The reference count of a frame is the number of page entries and page   *)
(* directory entries that lead to it, and free_pages counts the others,    *)
(* over every sequence of faults, brk, fork and exit (alloc_page,          *)
(* free_page, copy_pgdir, free_pgdir).                                     *)
THEOREM ReferenceCounts == Spec => []RefsMatch
<1>1. ASSUME MInv PROVE RefsMatch
  <2> SUFFICES ASSUME Sound
               PROVE  /\ \A f \in Frame : m.memory_map[f] = Cardinality(Mappings(f))
                      /\ m.free_pages = Cardinality({f \in Frame : m.memory_map[f] = 0})
    BY DEF RefsMatch
  <2>1. Counted(m, alive) /\ \A f : Mappings(f) = Users(m, alive, f)
    BY <1>1, WhenSound DEF Good
  <2> QED BY <2>1 DEF Counted, FreeOf
<1> QED BY <1>1, MemoryInvariance, PTL

(* Copy-on-write: a page that can be written has one user (copy_pgdir,     *)
(* page_fault_handler).                                                    *)
THEOREM PrivateWrites == Spec => []WritableIsPrivate
<1>1. ASSUME MInv PROVE WritableIsPrivate
  <2> SUFFICES ASSUME Sound, NEW p \in alive, NEW v \in Page, Mapped(m, p, v), pte(m, p, v).write
               PROVE  Cardinality(Mappings(pte(m, p, v).frame)) = 1
    BY DEF WritableIsPrivate
  <2>1. /\ m \in Memories /\ alive \subseteq Proc /\ Good(m, alive)
        /\ \A f : Mappings(f) = Users(m, alive, f)
    BY <1>1, WhenSound
  <2> DEFINE f == pte(m, p, v).frame
  <2>2. f = Lead(m, p, v) /\ f # 0 /\ v \in Entry /\ Writable(m, p, v)
    BY <2>1, LeadIs, Entries DEF Mapped
  <2> HIDE DEF f
  <2>3. ASSUME NEW q \in alive, NEW e \in Entry, Lead(m, q, e) = f PROVE q = p /\ e = v
    <3>1. CASE e \in Page
      <4>1. q = p
        BY <3>1, <2>1, <2>2, <2>3 DEF Good, WritesPrivate
      <4> QED BY <4>1, <2>1, <2>2, <2>3 DEF Good, Once
    <3>2. CASE e < 0
      <4> DEFINE j == 0 - e
      <4>1. j \in Table /\ 0 - j = e
        BY <3>2, Entries
      <4> HIDE DEF j
      <4>2. m.page_dir[q][j] = f
        BY <4>1, <2>1, <2>3, LeadIs
      <4>3. v = 0 - j
        BY <4>1, <4>2, <2>1, <2>2 DEF Good, TablesPrivate
      <4> QED BY <4>1, <4>3, Entries
    <3> QED BY <3>1, <3>2, Entries
  <2>4. Users(m, alive, f) = {<<p, v>>}
    BY <2>1, <2>2, <2>3, UsersFinite
  <2>5. Cardinality({<<p, v>>}) = 1
    BY FS_Singleton
  <2> QED BY <2>1, <2>4, <2>5 DEF f
<1> QED BY <1>1, MemoryInvariance, PTL

(* A process reads in each page the word that it stored there last, or its *)
(* parent before the fork, whatever the others do.                         *)
THEOREM SeparateSpaces == Spec => []Separate
<1>1. ASSUME MInv PROVE Separate
  <2> SUFFICES ASSUME Sound, NEW p \in alive, NEW v \in Page, wrote[p][v] # 0
               PROVE  Mapped(m, p, v) /\ m.data[pte(m, p, v).frame] = wrote[p][v]
    BY DEF Separate, OwnData
  <2>1. m \in Memories /\ p \in Proc /\ Kept(m, p, wrote[p])
    BY <1>1, WhenSound
  <2>2. Lead(m, p, v) # 0 /\ m.data[Lead(m, p, v)] = wrote[p][v]
    BY <2>1 DEF Kept
  <2> QED BY <2>1, <2>2, LeadIs
<1> QED BY <1>1, MemoryInvariance, PTL

(* The bitmap of a process marks its mapped pages and none of them lies in *)
(* the heap beyond brk, so no assert of link_page, unlink_page, free_page  *)
(* or copy_pgdir fails.                                                    *)
THEOREM ExactBitmaps == Spec => []BitmapExact
<1>1. ASSUME MInv PROVE BitmapExact
  <2> SUFFICES ASSUME ~m.spoiled
               PROVE  /\ m.halted # "assert"
                      /\ m.halted = "no" => \A p \in alive :
                            /\ vmap[p] = {v \in Page : Mapped(m, p, v)}
                            /\ \A v \in vmap[p] : InStack(v) \/ v <= brk[p]
    BY DEF BitmapExact
  <2>1. m.halted # "assert"
    BY <1>1 DEF MInv, Bad, Good
  <2>2. ASSUME m.halted = "no", NEW p \in alive
        PROVE  /\ vmap[p] = {v \in Page : Mapped(m, p, v)}
               /\ \A v \in vmap[p] : InStack(v) \/ v <= brk[p]
    <3>1. Sound
      BY <2>2 DEF Sound
    <3>2. m \in Memories /\ p \in Proc /\ vmap[p] \subseteq Page /\ Marked(m, p, vmap[p], brk[p])
      BY <1>1, <3>1, WhenSound
    <3>3. \A v \in Page : Mapped(m, p, v) <=> Lead(m, p, v) # 0
      BY <3>2, LeadIs
    <3> QED BY <3>2, <3>3 DEF Marked
  <2> QED BY <2>1, <2>2
<1> QED BY <1>1, MemoryInvariance, PTL

(* No reference count reaches the limit that copy_pgdir asserts, because a *)
(* frame is at most once in an address space and there are fewer processes *)
(* than that (the counts are u8).                                          *)
CountsFit == Sound => \A f \in Frame : m.memory_map[f] < MAX_REFS

(* The counts of the frames fit. *)
THEOREM CountsBounded == Spec => []CountsFit
<1>1. ASSUME MInv PROVE CountsFit
  <2> SUFFICES ASSUME Sound, NEW f \in Frame PROVE m.memory_map[f] < MAX_REFS
    BY DEF CountsFit
  <2>1. m \in Memories /\ alive \subseteq Proc /\ Good(m, alive)
    BY <1>1, WhenSound
  <2>2. f # 0 /\ m.memory_map[f] = Cardinality(Users(m, alive, f)) /\ Cardinality(Users(m, alive, f)) \in Nat
    BY <2>1, Frames, UsersFinite DEF Good, Counted
  <2>3. Cardinality(Users(m, alive, f)) <= Cardinality(Proc) /\ Cardinality(Proc) \in Nat
    BY <2>1, <2>2, OnceBound DEF Good
  <2> QED BY <2>2, <2>3, MemoryAssumption
<1> QED BY <1>1, MemoryInvariance, PTL

=============================================================================
