---------------------------- MODULE BufferProofs ----------------------------
(***************************************************************************)
(* Proofs about the buffer cache: reference counts and the free list, one  *)
(* buffer per block, and that no modification is lost.                     *)
(***************************************************************************)
EXTENDS Buffer, TLAPS, SequenceTheorems, FiniteSetTheorems, WellFoundedInduction

-----------------------------------------------------------------------------
(* The inductive invariant. *)

(* A suspended task transfers a buffer and a block. *)
Transferring(t) == pc[t] \in Reading \cup Writing

Types ==
    /\ TypeOK
    /\ \A t \in Task : Transferring(t) => io[t].buf \in Buf /\ io[t].block \in Block

(* The buffers in use have blocks, the others no references. *)
UsedInv ==
    ~halted => /\ \A b \in 1..buff_cnt : buf[b].block \in Block
               /\ \A b \in Buf : b > buff_cnt => buf[b].count = 0

(* References are finite in number and point to buffers that are read. *)
RefsInv ==
    ~halted => /\ \A b \in Buf : IsFiniteSet(Refs(b))
               /\ \A t \in Task, b \in Buf : held[t][b] > 0 => buf[b].valid
               /\ \A t \in Task : pc[t] \in Reading => buf[io[t].buf].block = io[t].block

(* Dirty buffers are valid, clean ones equal the disk. *)
CleanInv ==
    \A b \in 1..buff_cnt :
        /\ buf[b].dirty => buf[b].valid
        /\ buf[b].valid /\ ~buf[b].dirty => buf[b].data = disk[buf[b].block]

(* A read is of a clean buffer and has the data of the disk at its end. *)
ReadInv ==
    \A t \in Task : pc[t] \in Reading =>
        /\ io[t].buf \in 1..buff_cnt
        /\ ~buf[io[t].buf].dirty
        /\ pc[t] = "read_done" => buf[io[t].buf].data = disk[io[t].block]

(* A write is of a dirty buffer, to its block, and beside no other transfer *)
(* of the buffer; at its end the data is on the disk.                       *)
WriteInv ==
    \A t \in Task : pc[t] \in Writing =>
        /\ io[t].buf \in 1..buff_cnt
        /\ buf[io[t].buf].dirty
        /\ buf[io[t].buf].block = io[t].block
        /\ \A u \in Task : u # t /\ Transferring(u) => io[u].buf # io[t].buf
        /\ pc[t] \in {"write_done", "release_done"} => buf[io[t].buf].data = disk[io[t].block]

(* What a block reads as is what was written last, buffer by buffer. *)
LatestInv ==
    \A k \in Block :
        /\ \A b \in 1..buff_cnt : buf[b].block = k /\ buf[b].valid => buf[b].data = latest[k]
        /\ (\A b \in 1..buff_cnt : buf[b].block = k => ~buf[b].valid) => disk[k] = latest[k]

DataInv == ~halted /\ ~raced => CleanInv /\ ReadInv /\ WriteInv /\ LatestInv

BInv == Types /\ UsedInv /\ OneBufferPerBlock /\ RefsInv /\ RefsCounted /\ DataInv

-----------------------------------------------------------------------------
(* Facts about lists. *)

(* A nonempty set of naturals has a least element. *)
LEMMA MinExists ==
  ASSUME NEW S, S \subseteq Nat, S # {}
  PROVE  Min(S) \in S
<1> DEFINE R == OpToRel(<, Nat)
<1>1. IsWellFoundedOn(R, Nat)
  BY NatLessThanWellFounded
<1> HIDE DEF R
<1>2. PICK i \in S : \A j \in S : ~ (<<j, i>> \in R)
  BY <1>1, WFMin
<1>3. \A m, n \in Nat : <<m, n>> \in R <=> m < n
  <2>1. R = {ss \in Nat \X Nat : ss[1] < ss[2]}
    BY Zenon DEF R, OpToRel
  <2>2. QED
    BY <2>1
<1>4. ASSUME NEW j \in S PROVE i <= j
  <2>1. i \in Nat /\ j \in Nat
    OBVIOUS
  <2>2. ~ (j < i)
    BY <1>2, <1>3, <2>1
  <2>3. QED
    BY <2>1, <2>2
<1>5. \E x \in S : \A y \in S : x <= y
  BY <1>4
<1>6. QED
  BY <1>5 DEF Min

(* Members and places of a list of buffers. *)
LEMMA ListForm ==
  ASSUME NEW q \in Seq(Buf)
  PROVE  /\ Len(q) \in Nat
         /\ \A x : x \in ToSet(q) <=> \E i \in 1 .. Len(q) : q[i] = x
         /\ ToSet(q) \subseteq Buf
         /\ IsInjective(q) <=> \A i, j \in 1 .. Len(q) : q[i] = q[j] => i = j
<1>1. Len(q) \in Nat /\ DOMAIN q = 1 .. Len(q) /\ \A i \in 1 .. Len(q) : q[i] \in Buf
  OBVIOUS
<1>2. QED
  BY <1>1 DEF ToSet, IsInjective

(* list_push puts a new buffer in front. *)
LEMMA PushElements ==
  ASSUME NEW q \in Seq(Buf), IsInjective(q), NEW b \in Buf, b \notin ToSet(q),
         NEW r, r = <<b>> \o q
  PROVE  r \in Seq(Buf) /\ IsInjective(r) /\ ToSet(r) = ToSet(q) \cup {b}
<1>1. /\ Len(q) \in Nat
      /\ \A x : x \in ToSet(q) <=> \E i \in 1 .. Len(q) : q[i] = x
      /\ \A i, j \in 1 .. Len(q) : q[i] = q[j] => i = j
  BY ListForm
<1>2. <<b>> \in Seq(Buf) /\ Len(<<b>>) = 1 /\ <<b>>[1] = b
  OBVIOUS
<1>3. /\ r \in Seq(Buf) /\ Len(r) = 1 + Len(q)
      /\ \A i \in 1 .. 1 + Len(q) : r[i] = IF i <= 1 THEN <<b>>[i] ELSE q[i - 1]
  BY <1>2, ConcatProperties
<1>4. r[1] = b /\ \A i \in 1 .. Len(r) : i # 1 => i - 1 \in 1 .. Len(q) /\ r[i] = q[i - 1]
  BY <1>1, <1>2, <1>3
<1>5. \A i \in 1 .. Len(q) : i + 1 \in 1 .. Len(r) /\ r[i + 1] = q[i]
  BY <1>1, <1>3
<1>6. \A x : x \in ToSet(r) <=> \E i \in 1 .. Len(r) : r[i] = x
  BY <1>3, ListForm
<1>7. IsInjective(r)
  <2>1. ASSUME NEW i \in 1 .. Len(r), NEW j \in 1 .. Len(r), r[i] = r[j] PROVE i = j
    <3>1. CASE i = 1 \/ j = 1
      BY <1>1, <1>4, <2>1, <3>1
    <3>2. CASE i # 1 /\ j # 1
      <4>1. PICK x \in 1 .. Len(q) : x = i - 1 /\ r[i] = q[x]
        BY <1>4, <3>2
      <4>2. PICK y \in 1 .. Len(q) : y = j - 1 /\ r[j] = q[y]
        BY <1>4, <3>2
      <4>3. x = y
        BY <1>1, <2>1, <4>1, <4>2
      <4>4. QED
        BY <1>1, <1>3, <4>1, <4>2, <4>3
    <3>3. QED
      BY <3>1, <3>2
  <2>2. QED
    BY <1>3, <2>1, ListForm
<1>8. ToSet(r) = ToSet(q) \cup {b}
  <2>1. 1 \in 1 .. Len(r)
    BY <1>1, <1>3
  <2>2. \A x \in ToSet(r) : x \in ToSet(q) \cup {b}
    BY <1>1, <1>4, <1>6
  <2>3. \A x \in ToSet(q) \cup {b} : x \in ToSet(r)
    BY <1>1, <1>4, <1>5, <1>6, <2>1
  <2>4. QED
    BY <2>2, <2>3
<1>9. QED
  BY <1>3, <1>7, <1>8

(* list_popback takes the last buffer of a list. *)
LEMMA PopElements ==
  ASSUME NEW q \in Seq(Buf), IsInjective(q), q # <<>>,
         NEW r, r = Front(q), NEW b, b = Last(q)
  PROVE  /\ r \in Seq(Buf) /\ IsInjective(r)
         /\ b \in ToSet(q) /\ ToSet(r) = ToSet(q) \ {b}
<1>1. /\ Len(q) \in Nat
      /\ \A x : x \in ToSet(q) <=> \E i \in 1 .. Len(q) : q[i] = x
      /\ \A i, j \in 1 .. Len(q) : q[i] = q[j] => i = j
  BY ListForm
<1>2. Len(q) \in 1 .. Len(q) /\ b = q[Len(q)] /\ \A i \in 1 .. Len(q) : q[i] \in Buf
  BY <1>1, EmptySeq DEF Last
<1>3. PICK n \in Nat : n = Len(q) - 1
  BY <1>1, <1>2
<1>4. r \in Seq(Buf) /\ Len(r) = n /\ \A i \in 1 .. n : r[i] = q[i]
  <2>1. \A i \in 1 .. n : q[i] \in Buf
    BY <1>1, <1>2, <1>3
  <2>2. 1 \in Int /\ n \in Int /\ r = SubSeq(q, 1, n)
    BY <1>3 DEF Front
  <2>3. /\ r \in Seq(Buf) /\ Len(r) = (IF 1 <= n THEN n - 1 + 1 ELSE 0)
        /\ \A i \in 1 .. n - 1 + 1 : r[i] = q[1 + i - 1]
    BY <2>1, <2>2, SubSeqProperties
  <2>4. QED
    BY <1>3, <2>3
<1>5. \A x : x \in ToSet(r) <=> \E i \in 1 .. n : r[i] = x
  BY <1>4, ListForm
<1>6. IsInjective(r)
  <2>1. \A i, j \in 1 .. Len(r) : r[i] = r[j] => i = j
    BY <1>1, <1>3, <1>4
  <2>2. QED
    BY <1>4, <2>1, ListForm
<1>7. \A x \in ToSet(r) : x \in ToSet(q) \ {b}
  BY <1>1, <1>2, <1>3, <1>4, <1>5
<1>8. \A x \in ToSet(q) \ {b} : x \in ToSet(r)
  BY <1>1, <1>2, <1>3, <1>4, <1>5
<1>9. QED
  BY <1>1, <1>2, <1>4, <1>6, <1>7, <1>8

(* list_remove takes out one buffer and no other. *)
LEMMA WithoutElements ==
  ASSUME NEW q \in Seq(Buf), IsInjective(q), NEW b, NEW r, r = Without(q, b)
  PROVE  r \in Seq(Buf) /\ IsInjective(r) /\ ToSet(r) = ToSet(q) \ {b}
<1>1. /\ Len(q) \in Nat
      /\ \A x : x \in ToSet(q) <=> \E i \in 1 .. Len(q) : q[i] = x
      /\ \A i, j \in 1 .. Len(q) : q[i] = q[j] => i = j
  BY ListForm
<1>2. CASE ~Contains(q, b)
  BY <1>1, <1>2 DEF Without, Contains
<1>3. CASE Contains(q, b)
  <2>0. PICK k \in 1 .. Len(q) : k = CHOOSE i \in DOMAIN q : q[i] = b
    BY <1>3 DEF Contains
  <2>1. q[k] = b
    BY <1>3, <2>0 DEF Contains
  <2>2. PICK n \in Nat : n = Len(q) - 1
    BY <1>1, <2>0
  <2>3. r = [x \in 1 .. n |-> IF x < k THEN q[x] ELSE q[x + 1]]
    BY <1>3, <2>0, <2>2 DEF Without
  <2>4. \A x \in 1 .. n : x \in 1 .. Len(q) /\ x + 1 \in 1 .. Len(q)
    BY <1>1, <2>2
  <2>5. r \in [1 .. n -> Buf]
    BY <2>3, <2>4
  <2>6. r \in Seq(Buf)
    BY <2>5, SeqDef
  <2>7. Len(r) = n
    BY <2>5, <2>6
  <2>8. \A x : x \in ToSet(r) <=> \E i \in 1 .. n : r[i] = x
    BY <2>6, <2>7, ListForm
  <2>9. ASSUME NEW x \in 1 .. n
        PROVE  \/ x < k /\ r[x] = q[x] /\ x # k
               \/ x >= k /\ r[x] = q[x + 1] /\ x + 1 # k
    <3>1. x \in Nat /\ k \in Nat
      BY <1>1, <2>0
    <3>2. r[x] = IF x < k THEN q[x] ELSE q[x + 1]
      BY <2>3
    <3>3. QED
      BY <3>1, <3>2
  <2>10. IsInjective(r)
    <3>1. ASSUME NEW x \in 1 .. n, NEW y \in 1 .. n, r[x] = r[y] PROVE x = y
      <4>1. PICK u \in 1 .. Len(q) : r[x] = q[u] /\ u = IF x < k THEN x ELSE x + 1
        BY <2>3, <2>4
      <4>2. PICK v \in 1 .. Len(q) : r[y] = q[v] /\ v = IF y < k THEN y ELSE y + 1
        BY <2>3, <2>4
      <4>3. u = v
        BY <1>1, <3>1, <4>1, <4>2
      <4>4. x \in Nat /\ y \in Nat /\ k \in Nat
        BY <1>1, <2>0
      <4>5. QED
        BY <4>1, <4>2, <4>3, <4>4
    <3>2. QED
      BY <2>6, <2>7, <3>1, ListForm
  <2>11. ASSUME NEW x \in 1 .. n PROVE r[x] \in ToSet(q) /\ r[x] # b
    <3>1. CASE x < k
      BY <1>1, <2>0, <2>1, <2>4, <2>9, <3>1
    <3>2. CASE x >= k
      BY <1>1, <2>0, <2>1, <2>4, <2>9, <3>2
    <3>3. QED
      BY <2>0, <3>1, <3>2
  <2>12. ASSUME NEW i \in 1 .. Len(q), q[i] # b PROVE q[i] \in ToSet(r)
    <3>1. CASE i < k
      BY <2>0, <2>2, <2>3, <2>8, <3>1
    <3>2. CASE i > k
      <4>1. PICK x \in 1 .. n : i = x + 1
        BY <1>1, <2>0, <2>2, <3>2
      <4>2. r[x] = q[i]
        BY <2>0, <2>3, <3>2, <4>1
      <4>3. QED
        BY <2>8, <4>2
    <3>3. QED
      BY <2>0, <2>1, <2>12, <3>1, <3>2
  <2>13. \A x \in ToSet(r) : x \in ToSet(q) \ {b}
    BY <2>8, <2>11
  <2>14. \A x \in ToSet(q) \ {b} : x \in ToSet(r)
    BY <1>1, <2>12
  <2>15. QED
    BY <2>6, <2>10, <2>13, <2>14
<1>4. QED
  BY <1>2, <1>3

(* get_from_hash_table finds a buffer of the block if there is one. *)
LEMMA FoundInTable ==
  ASSUME hash_table \in Seq(Buf), NEW k
  PROVE  /\ Cached(k) # {} => Found(k) \in ToSet(hash_table) /\ buf[Found(k)].block = k
         /\ Cached(k) = {} => \A b \in ToSet(hash_table) : buf[b].block # k
<1>1. DOMAIN hash_table \subseteq Nat
  OBVIOUS
<1>2. Cached(k) # {} => Min(Cached(k)) \in Cached(k)
  BY <1>1, MinExists DEF Cached
<1>3. QED
  BY <1>2 DEF Cached, Found, ToSet

-----------------------------------------------------------------------------
(* Facts about references. *)

Asks(p, i, t, b) == p[t] \in Reading /\ i[t].buf = b

RefsOf(p, i, h, b) == UNION {{t} \X ((IF Asks(p, i, t, b) THEN 0 ELSE 1)..h[t][b]) : t \in Task}

(* The references to a buffer, task by task. *)
LEMMA RefsMember ==
  ASSUME NEW p, NEW i, NEW h, NEW b
  PROVE  \A x : x \in RefsOf(p, i, h, b) <=>
             \E t \in Task : \E n \in (IF Asks(p, i, t, b) THEN 0 ELSE 1)..h[t][b] : x = <<t, n>>
<1> DEFINE I(t) == (IF Asks(p, i, t, b) THEN 0 ELSE 1)..h[t][b]
<1>1. RefsOf(p, i, h, b) = UNION {{t} \X I(t) : t \in Task}
  BY DEF RefsOf
<1> HIDE DEF I
<1>2. ASSUME NEW x PROVE x \in RefsOf(p, i, h, b) <=> \E t \in Task : \E n \in I(t) : x = <<t, n>>
  <2>1. x \in RefsOf(p, i, h, b) <=> \E t \in Task : x \in {t} \X I(t)
    BY <1>1
  <2>2. \A t \in Task : x \in {t} \X I(t) <=> \E n \in I(t) : x = <<t, n>>
    OBVIOUS
  <2>3. QED
    BY <2>1, <2>2
<1>3. QED
  BY <1>2 DEF I

(* Nothing changes for a buffer whose references nobody touches. *)
LEMMA RefsSame ==
  ASSUME NEW p, NEW i, NEW h, NEW q, NEW j, NEW g, NEW b,
         \A u \in Task : g[u][b] = h[u][b] /\ (Asks(q, j, u, b) <=> Asks(p, i, u, b))
  PROVE  RefsOf(q, j, g, b) = RefsOf(p, i, h, b)
<1>1. \A x : x \in RefsOf(q, j, g, b) <=> x \in RefsOf(p, i, h, b)
  BY RefsMember
<1>2. QED
  BY <1>1

(* A task that asks for a buffer, or gets one more reference, adds one. *)
Grows(p, i, h, q, j, g, b, t) ==
    /\ h[t][b] \in Nat
    /\ \A u \in Task : u # t => g[u][b] = h[u][b] /\ (Asks(q, j, u, b) <=> Asks(p, i, u, b))
    /\ \/ g[t][b] = h[t][b] + 1 /\ (Asks(q, j, t, b) <=> Asks(p, i, t, b))
       \/ g[t][b] = h[t][b] /\ Asks(q, j, t, b) /\ ~Asks(p, i, t, b)

(* One reference more, and which one. *)
LEMMA RefsGrow ==
  ASSUME NEW p, NEW i, NEW h, NEW q, NEW j, NEW g, NEW b, NEW t \in Task,
         Grows(p, i, h, q, j, g, b, t)
  PROVE  \E x : x \notin RefsOf(p, i, h, b) /\ RefsOf(q, j, g, b) = RefsOf(p, i, h, b) \cup {x}
<1> DEFINE I(u) == (IF Asks(p, i, u, b) THEN 0 ELSE 1)..h[u][b]
           J(u) == (IF Asks(q, j, u, b) THEN 0 ELSE 1)..g[u][b]
<1>0. /\ h[t][b] \in Nat
      /\ \A u \in Task : u # t => g[u][b] = h[u][b] /\ (Asks(q, j, u, b) <=> Asks(p, i, u, b))
      /\ \/ g[t][b] = h[t][b] + 1 /\ (Asks(q, j, t, b) <=> Asks(p, i, t, b))
         \/ g[t][b] = h[t][b] /\ Asks(q, j, t, b) /\ ~Asks(p, i, t, b)
  BY DEF Grows
<1>1. \A u \in Task : u # t => J(u) = I(u)
  BY <1>0
<1>2. \E m : m \notin I(t) /\ J(t) = I(t) \cup {m}
  <2>1. CASE g[t][b] = h[t][b] + 1 /\ (Asks(q, j, t, b) <=> Asks(p, i, t, b))
    <3>1. \A a \in {0, 1}, z \in Nat : z + 1 \notin a..z /\ a..(z + 1) = a..z \cup {z + 1}
      OBVIOUS
    <3>2. QED
      BY <1>0, <2>1, <3>1
  <2>2. CASE g[t][b] = h[t][b] /\ Asks(q, j, t, b) /\ ~Asks(p, i, t, b)
    <3>1. \A z \in Nat : 0 \notin 1..z /\ 0..z = 1..z \cup {0}
      OBVIOUS
    <3>2. QED
      BY <1>0, <2>2, <3>1
  <2>3. QED
    BY <1>0, <2>1, <2>2
<1>3. PICK m : m \notin I(t) /\ J(t) = I(t) \cup {m}
  BY <1>2
<1>4. \A x : x \in RefsOf(p, i, h, b) <=> \E u \in Task : \E n \in I(u) : x = <<u, n>>
  BY RefsMember
<1>5. \A x : x \in RefsOf(q, j, g, b) <=> \E u \in Task : \E n \in J(u) : x = <<u, n>>
  BY RefsMember
<1> HIDE DEF I, J
<1>6. <<t, m>> \notin RefsOf(p, i, h, b)
  BY <1>3, <1>4
<1>7. \A x : x \in RefsOf(q, j, g, b) <=> x \in RefsOf(p, i, h, b) \/ x = <<t, m>>
  BY <1>1, <1>3, <1>4, <1>5
<1>8. QED
  BY <1>6, <1>7

(* One element more. *)
LEMMA OneMore ==
  ASSUME NEW S, NEW T, \E x : x \notin S /\ T = S \cup {x}
  PROVE  /\ IsFiniteSet(S) <=> IsFiniteSet(T)
         /\ IsFiniteSet(S) => /\ Cardinality(S) \in Nat
                              /\ Cardinality(T) = Cardinality(S) + 1
<1>1. PICK x : x \notin S /\ T = S \cup {x}
  OBVIOUS
<1>2. S = T \ {x}
  BY <1>1
<1>3. IsFiniteSet(T) => IsFiniteSet(S)
  BY <1>2, FS_RemoveElement
<1>4. IsFiniteSet(S) => /\ IsFiniteSet(T) /\ Cardinality(S) \in Nat
                        /\ Cardinality(T) = Cardinality(S) + 1
  BY <1>1, FS_AddElement, FS_CardinalityType
<1>5. QED
  BY <1>3, <1>4

(* A buffer with count 0 is neither held nor read. *)
LEMMA NoRefs ==
  ASSUME NEW p, NEW i, NEW h, NEW b, IsFiniteSet(RefsOf(p, i, h, b)),
         Cardinality(RefsOf(p, i, h, b)) = 0,
         \A t \in Task : h[t][b] \in Nat
  PROVE  \A t \in Task : h[t][b] = 0 /\ ~Asks(p, i, t, b)
<1>1. RefsOf(p, i, h, b) = {}
  BY FS_EmptySet
<1>2. \A t \in Task : \A n \in (IF Asks(p, i, t, b) THEN 0 ELSE 1)..h[t][b] : FALSE
  <2>1. ASSUME NEW t \in Task, NEW n \in (IF Asks(p, i, t, b) THEN 0 ELSE 1)..h[t][b] PROVE FALSE
    <3>1. <<t, n>> \in RefsOf(p, i, h, b)
      BY RefsMember
    <3>2. QED
      BY <1>1, <3>1
  <2>2. QED
    BY <2>1
<1>3. ASSUME NEW t \in Task PROVE h[t][b] = 0 /\ ~Asks(p, i, t, b)
  <2>1. h[t][b] \notin (IF Asks(p, i, t, b) THEN 0 ELSE 1)..h[t][b]
    BY <1>2
  <2>2. QED
    BY <2>1
<1>4. QED
  BY <1>3

-----------------------------------------------------------------------------
(* The steps of bread. *)

BufferRec == [block : Block \cup {0}, count : Nat, dirty : BOOLEAN, valid : BOOLEAN, data : 0..MaxVersion]

(* The initial state. *)
LEMMA InitBInv == Init => BInv
<1> SUFFICES ASSUME Init PROVE BInv
  OBVIOUS
<1>0. NBUF \in Nat /\ MaxVersion \in Nat /\ 0 \in 0..MaxVersion
  BY BufferAssumption
<1>1. Types
  <2>1. TypeOK
    <3>1. buf \in [Buf -> BufferRec]
      BY <1>0 DEF Init, BufferRec
    <3>2. io \in [Task -> [buf : Buf \cup {0}, block : Block \cup {0}]]
      BY DEF Init, NoIo
    <3>3. pc \in [Task -> {"out", "wait"} \cup Reading \cup Writing]
      BY DEF Init
    <3>4. held \in [Task -> [Buf -> Nat]]
      BY DEF Init
    <3>5. /\ buff_cnt \in 0..NBUF /\ version \in 0..MaxVersion
          /\ halted \in BOOLEAN /\ raced \in BOOLEAN
      <4>1. buff_cnt = 0 /\ version = 0 /\ 0 \in 0..NBUF
        BY <1>0 DEF Init
      <4>2. halted \in BOOLEAN /\ raced \in BOOLEAN
        BY Zenon DEF Init
      <4>3. QED
        BY <1>0, <4>1, <4>2
    <3>6. hash_table \in Seq(Buf) /\ free_list \in Seq(Buf) /\ wait_list \in Seq(Task)
      BY DEF Init
    <3>7. disk \in [Block -> 0..MaxVersion] /\ latest \in [Block -> 0..MaxVersion]
      BY <1>0 DEF Init
    <3>8. QED
      BY <3>1, <3>2, <3>3, <3>4, <3>5, <3>6, <3>7 DEF TypeOK, BufferRec
  <2>2. QED
    BY <2>1 DEF Types, Init, Transferring, Reading, Writing
<1>2. 1..buff_cnt = {} /\ ToSet(hash_table) = {} /\ ToSet(free_list) = {}
      /\ IsInjective(hash_table) /\ IsInjective(free_list)
  <2>1. 1..buff_cnt = {}
    BY DEF Init
  <2>2. DOMAIN hash_table = {} /\ DOMAIN free_list = {}
    BY DEF Init
  <2>3. QED
    BY <2>1, <2>2 DEF ToSet, IsInjective
<1>3. UsedInv /\ OneBufferPerBlock
  <2>1. \A b \in Buf : buf[b].count = 0
    BY DEF Init
  <2>2. QED
    BY <1>2, <2>1 DEF UsedInv, OneBufferPerBlock
<1>4. ASSUME NEW b \in Buf PROVE Refs(b) = {}
  <2>1. ASSUME NEW x PROVE x \notin RefsOf(pc, io, held, b)
    <3>1. \A t \in Task : ~Asks(pc, io, t, b) /\ held[t][b] = 0
      BY DEF Init, Asks, Reading
    <3>2. \A n : n \notin 1..0
      OBVIOUS
    <3>3. QED
      BY <3>1, <3>2, RefsMember
  <2>2. QED
    BY <2>1 DEF RefsOf, Refs, Asks
<1>5. RefsInv
  <2>1. \A b \in Buf : IsFiniteSet(Refs(b))
    BY <1>4, FS_EmptySet
  <2>2. \A t \in Task, b \in Buf : ~ (held[t][b] > 0)
    BY DEF Init
  <2>3. \A t \in Task : pc[t] \notin Reading
    BY DEF Init, Reading
  <2>4. QED
    BY <2>1, <2>2, <2>3 DEF RefsInv
<1>6. RefsCounted
  <2>1. \A b \in Buf : buf[b].count = Cardinality(Refs(b))
    BY <1>4, FS_EmptySet DEF Init
  <2>2. QED
    BY <1>2, <2>1 DEF RefsCounted
<1>7. DataInv
  <2>1. \A t \in Task : pc[t] \notin Reading /\ pc[t] \notin Writing
    BY DEF Init, Reading, Writing
  <2>2. LatestInv
    BY <1>2 DEF LatestInv, Init
  <2>3. QED
    BY <1>2, <2>1, <2>2 DEF DataInv, CleanInv, ReadInv, WriteInv
<1>8. QED
  BY <1>1, <1>3, <1>5, <1>6, <1>7 DEF BInv

(* A buffer that somebody has or reads is in use, and not on the free list. *)
LEMMA InUse ==
  ASSUME Types, UsedInv, RefsInv, RefsCounted, ~halted, NEW b \in Buf
  PROVE  /\ buf[b].count = 0 => \A t \in Task : held[t][b] = 0 /\ ~Asks(pc, io, t, b)
         /\ buf[b].count # 0 => b \in 1..buff_cnt
<1>1. Refs(b) = RefsOf(pc, io, held, b)
  BY DEF Refs, RefsOf, Asks
<1>2. IsFiniteSet(Refs(b)) /\ buf[b].count = Cardinality(Refs(b))
  BY DEF RefsInv, RefsCounted
<1>3. \A t \in Task : held[t][b] \in Nat
  BY DEF Types, TypeOK
<1>4. buff_cnt \in Nat /\ b \in Nat /\ 1 <= b
  BY BufferAssumption DEF Types, TypeOK, Buf
<1>5. buf[b].count # 0 => b \in 1..buff_cnt
  BY <1>4 DEF UsedInv
<1>6. buf[b].count = 0 => \A t \in Task : held[t][b] = 0 /\ ~Asks(pc, io, t, b)
  BY <1>1, <1>2, <1>3, NoRefs
<1>7. QED
  BY <1>5, <1>6

(* What bread changes once it has its buffer. *)
LEMMA GotPoints ==
  ASSUME Types, NEW t \in Task, NEW b \in Buf, NEW k \in Block, NEW f \in BufferRec, Got(t, b, k, f)
  PROVE  /\ buf'[b] = f /\ \A a \in Buf : a # b => buf'[a] = buf[a]
         /\ \A u \in Task : u # t => pc'[u] = pc[u] /\ io'[u] = io[u]
         /\ \A u \in Task, a \in Buf : u # t \/ a # b => held'[u][a] = held[u][a]
         /\ f.valid => pc' = pc /\ io' = io /\ held'[t][b] = held[t][b] + 1
         /\ ~f.valid => /\ pc'[t] = "read" /\ io'[t].buf = b /\ io'[t].block = k
                        /\ held' = held
<1>1. /\ buf \in [Buf -> BufferRec]
      /\ pc \in [Task -> {"out", "wait"} \cup Reading \cup Writing]
      /\ io \in [Task -> [buf : Buf \cup {0}, block : Block \cup {0}]]
      /\ held \in [Task -> [Buf -> Nat]]
  BY DEF Types, TypeOK, BufferRec
<1>2. buf'[b] = f /\ \A a \in Buf : a # b => buf'[a] = buf[a]
  BY <1>1 DEF Got
<1>3. CASE f.valid
  BY <1>1, <1>2, <1>3 DEF Got
<1>4. CASE ~f.valid
  BY <1>1, <1>2, <1>4 DEF Got
<1>5. QED
  BY <1>3, <1>4

(* Its types. *)
LEMMA GotTypes ==
  ASSUME Types, NEW t \in Task, NEW b \in Buf, NEW k \in Block, NEW f \in BufferRec, Got(t, b, k, f)
  PROVE  /\ buf' \in [Buf -> BufferRec]
         /\ pc' \in [Task -> {"out", "wait"} \cup Reading \cup Writing]
         /\ io' \in [Task -> [buf : Buf \cup {0}, block : Block \cup {0}]]
         /\ held' \in [Task -> [Buf -> Nat]]
         /\ \A u \in Task : Transferring(u)' => io'[u].buf \in Buf /\ io'[u].block \in Block
<1>1. /\ buf \in [Buf -> BufferRec]
      /\ pc \in [Task -> {"out", "wait"} \cup Reading \cup Writing]
      /\ io \in [Task -> [buf : Buf \cup {0}, block : Block \cup {0}]]
      /\ held \in [Task -> [Buf -> Nat]]
      /\ \A u \in Task : Transferring(u) => io[u].buf \in Buf /\ io[u].block \in Block
  BY DEF Types, TypeOK, BufferRec
<1>2. buf' \in [Buf -> BufferRec]
  BY <1>1 DEF Got
<1>3. CASE f.valid
  BY <1>1, <1>2, <1>3 DEF Got, Transferring
<1>4. CASE ~f.valid
  <2>1. pc' = [pc EXCEPT ![t] = "read"] /\ io' = [io EXCEPT ![t] = [buf |-> b, block |-> k]] /\ held' = held
    BY <1>4 DEF Got
  <2>2. pc' \in [Task -> {"out", "wait"} \cup Reading \cup Writing]
    BY <1>1, <2>1 DEF Reading
  <2>3. io' \in [Task -> [buf : Buf \cup {0}, block : Block \cup {0}]]
    BY <1>1, <2>1
  <2>4. \A u \in Task : Transferring(u)' => io'[u].buf \in Buf /\ io'[u].block \in Block
    BY <1>1, <2>1 DEF Transferring
  <2>5. QED
    BY <1>1, <1>2, <2>1, <2>2, <2>3, <2>4
<1>5. QED
  BY <1>3, <1>4

(* One more reference: bread of a cached block, or of a new one. *)
LEMMA GotRefs ==
  ASSUME Types, UsedInv, RefsInv, RefsCounted, ~halted,
         NEW t \in Task, pc[t] = "out", NEW b \in Buf, NEW k \in Block, NEW f \in BufferRec, Got(t, b, k, f),
         f.count = buf[b].count + 1, f.block = k,
         \/ buf[b].block = k /\ f.valid = buf[b].valid
         \/ buf[b].count = 0 /\ ~f.valid
  PROVE  /\ RefsInv'
         /\ \A a \in Buf : buf'[a].count = Cardinality(Refs(a)')
<1>1. /\ buf'[b] = f /\ \A a \in Buf : a # b => buf'[a] = buf[a]
      /\ \A u \in Task : u # t => pc'[u] = pc[u] /\ io'[u] = io[u]
      /\ \A u \in Task, a \in Buf : u # t \/ a # b => held'[u][a] = held[u][a]
      /\ f.valid => pc' = pc /\ io' = io /\ held'[t][b] = held[t][b] + 1
      /\ ~f.valid => /\ pc'[t] = "read" /\ io'[t].buf = b /\ io'[t].block = k
                     /\ held' = held
  BY GotPoints
<1>2. /\ buf[b].count = 0 => \A u \in Task : held[u][b] = 0 /\ ~Asks(pc, io, u, b)
      /\ held[t][b] \in Nat
  BY InUse DEF Types, TypeOK
<1>3. ~Asks(pc, io, t, b) /\ \A a \in Buf : ~Asks(pc, io, t, a)
  BY DEF Asks, Reading
<1>4. \A a \in Buf : Refs(a) = RefsOf(pc, io, held, a) /\ Refs(a)' = RefsOf(pc', io', held', a)
  BY DEF Refs, RefsOf, Asks
<1>5. ASSUME NEW a \in Buf, a # b PROVE Refs(a)' = Refs(a)
  <2>1. \A u \in Task : held'[u][a] = held[u][a] /\ (Asks(pc', io', u, a) <=> Asks(pc, io, u, a))
    <3>1. ~Asks(pc', io', t, a)
      BY <1>1, <1>3, <1>5 DEF Asks
    <3>2. QED
      BY <1>1, <1>3, <1>5, <3>1 DEF Asks
  <2>2. QED
    BY <1>4, <2>1, RefsSame
<1>6. \E x : x \notin Refs(b) /\ Refs(b)' = Refs(b) \cup {x}
  <2>1. \A u \in Task : u # t => held'[u][b] = held[u][b] /\ (Asks(pc', io', u, b) <=> Asks(pc, io, u, b))
    BY <1>1 DEF Asks
  <2>2. \/ held'[t][b] = held[t][b] + 1 /\ (Asks(pc', io', t, b) <=> Asks(pc, io, t, b))
        \/ held'[t][b] = held[t][b] /\ Asks(pc', io', t, b) /\ ~Asks(pc, io, t, b)
    <3>1. CASE f.valid
      BY <1>1, <3>1
    <3>2. CASE ~f.valid
      BY <1>1, <1>3, <3>2 DEF Asks, Reading
    <3>3. QED
      BY <3>1, <3>2
  <2>3. \E x : x \notin RefsOf(pc, io, held, b) /\ RefsOf(pc', io', held', b) = RefsOf(pc, io, held, b) \cup {x}
    <3>1. Grows(pc, io, held, pc', io', held', b, t)
      BY <1>2, <2>1, <2>2 DEF Grows
    <3>2. QED
      BY <3>1, RefsGrow
  <2>4. QED
    BY <1>4, <2>3
<1>7. \A a \in Buf : IsFiniteSet(Refs(a)) /\ buf[a].count = Cardinality(Refs(a))
  BY DEF RefsInv, RefsCounted
<1>8. \A a \in Buf : IsFiniteSet(Refs(a)') /\ buf'[a].count = Cardinality(Refs(a)')
  <2>1. IsFiniteSet(Refs(b)') /\ Cardinality(Refs(b)') = Cardinality(Refs(b)) + 1
    BY <1>6, <1>7, OneMore
  <2>2. QED
    BY <1>1, <1>5, <1>7, <2>1
<1>9. ASSUME NEW u \in Task, NEW a \in Buf, held'[u][a] > 0 PROVE buf'[a].valid
  <2>1. held[u][a] > 0 => buf[a].valid
    BY DEF RefsInv
  <2>2. CASE a # b
    BY <1>1, <1>9, <2>1, <2>2
  <2>3. CASE a = b /\ ~f.valid
    <3>1. held[u][b] > 0
      BY <1>1, <1>9, <2>3
    <3>2. QED
      BY <1>2, <2>1, <2>3, <3>1
  <2>4. QED
    BY <1>1, <2>2, <2>3
<1>10. ASSUME NEW u \in Task, pc'[u] \in Reading PROVE buf'[io'[u].buf].block = io'[u].block
  <2>1. CASE u = t
    BY <1>1, <1>10, <2>1 DEF Reading
  <2>2. CASE u # t
    <3>1. pc[u] \in Reading /\ io'[u] = io[u] /\ io[u].buf \in Buf /\ buf[io[u].buf].block = io[u].block
      BY <1>1, <1>10, <2>2 DEF RefsInv, Types, Transferring
    <3>2. CASE io[u].buf # b
      BY <1>1, <3>1, <3>2
    <3>3. CASE io[u].buf = b
      <4>1. buf[b].block = k
        BY <1>2, <3>1, <3>3 DEF Asks
      <4>2. QED
        BY <1>1, <3>1, <3>3, <4>1
    <3>4. QED
      BY <3>2, <3>3
  <2>3. QED
    BY <2>1, <2>2
<1>11. RefsInv'
  BY <1>8, <1>9, <1>10 DEF RefsInv
<1>12. QED
  BY <1>8, <1>11

(* The buffers in use afterwards have different blocks. *)
LEMMA GotUsed ==
  ASSUME Types, UsedInv, OneBufferPerBlock, ~halted,
         NEW t \in Task, NEW b \in Buf, NEW k \in Block, NEW f \in BufferRec, Got(t, b, k, f), f.block = k,
         buff_cnt' \in Nat, \A a : a \in 1..buff_cnt' <=> a \in 1..buff_cnt \/ a = b,
         \/ b \in 1..buff_cnt /\ buf[b].block = k
         \/ \A a \in 1..buff_cnt : buf[a].block # k
  PROVE  /\ UsedInv'
         /\ \A a, c \in 1..buff_cnt' : buf'[a].block = buf'[c].block => a = c
<1>1. buf'[b] = f /\ \A a \in Buf : a # b => buf'[a] = buf[a]
  BY GotPoints
<1>2. 1..buff_cnt \subseteq Buf /\ buff_cnt \in Nat
  BY BufferAssumption DEF Types, TypeOK, Buf
<1>3. /\ \A a \in 1..buff_cnt : buf[a].block \in Block
      /\ \A a \in Buf : a > buff_cnt => buf[a].count = 0
      /\ \A a, c \in 1..buff_cnt : buf[a].block = buf[c].block => a = c
  BY DEF UsedInv, OneBufferPerBlock
<1>4. \A a \in 1..buff_cnt' : buf'[a].block \in Block
  BY <1>1, <1>2, <1>3
<1>5. ASSUME NEW a \in Buf, a > buff_cnt' PROVE buf'[a].count = 0
  <2>1. a \in Nat /\ a >= 1
    BY BufferAssumption DEF Buf
  <2>2. a \notin 1..buff_cnt'
    BY <1>5, <2>1
  <2>3. a \notin 1..buff_cnt /\ a # b
    BY <2>2
  <2>4. a > buff_cnt
    BY <1>2, <2>1, <2>3
  <2>5. QED
    BY <1>1, <1>3, <2>3, <2>4
<1>6. ASSUME NEW a \in 1..buff_cnt', NEW c \in 1..buff_cnt', buf'[a].block = buf'[c].block PROVE a = c
  <2>1. (a \in 1..buff_cnt \/ a = b) /\ (c \in 1..buff_cnt \/ c = b)
    OBVIOUS
  <2>2. QED
    BY <1>1, <1>2, <1>3, <1>6, <2>1
<1>7. QED
  BY <1>4, <1>5, <1>6 DEF UsedInv

(* The contents of the blocks are where they were. *)
LEMMA GotData ==
  ASSUME BInv, ~halted, NEW t \in Task, pc[t] = "out",
         NEW b \in Buf, NEW k \in Block, NEW f \in BufferRec, Got(t, b, k, f), f.block = k,
         disk' = disk, latest' = latest, raced' = raced,
         buff_cnt' \in Nat, \A a : a \in 1..buff_cnt' <=> a \in 1..buff_cnt \/ a = b,
         \/ /\ b \in 1..buff_cnt /\ buf[b].block = k
            /\ f.valid = buf[b].valid /\ f.dirty = buf[b].dirty /\ f.data = buf[b].data
         \/ /\ buf[b].count = 0 /\ ~f.valid /\ ~f.dirty
            /\ b \in 1..buff_cnt => ~buf[b].dirty
            /\ \A a \in 1..buff_cnt : buf[a].block # k
  PROVE  DataInv'
<1> SUFFICES ASSUME ~raced PROVE (CleanInv /\ ReadInv /\ WriteInv /\ LatestInv)'
  BY DEF DataInv
<1> DEFINE Hit == /\ b \in 1..buff_cnt /\ buf[b].block = k
                  /\ f.valid = buf[b].valid /\ f.dirty = buf[b].dirty /\ f.data = buf[b].data
           Fresh == /\ buf[b].count = 0 /\ ~f.valid /\ ~f.dirty
                    /\ b \in 1..buff_cnt => ~buf[b].dirty
                    /\ \A a \in 1..buff_cnt : buf[a].block # k
<1>1. /\ buf'[b] = f /\ \A a \in Buf : a # b => buf'[a] = buf[a]
      /\ \A u \in Task : u # t => pc'[u] = pc[u] /\ io'[u] = io[u]
      /\ f.valid => pc' = pc
      /\ ~f.valid => /\ pc'[t] = "read" /\ io'[t].buf = b /\ io'[t].block = k
  BY GotPoints DEF BInv
<1>2. CleanInv /\ ReadInv /\ WriteInv /\ LatestInv
  BY DEF BInv, DataInv
<1>3. 1..buff_cnt \subseteq Buf /\ \A u \in Task : Transferring(u) => io[u].buf \in Buf
  BY SMTT(30), BufferAssumption DEF BInv, Types, TypeOK, Buf
<1>4. buf[b].count = 0 => \A u \in Task : ~Asks(pc, io, u, b)
  BY InUse DEF BInv
<1>5. Hit \/ Fresh
  OBVIOUS
<1>6. ~f.dirty \/ f.valid
  BY <1>2, <1>5 DEF CleanInv
<1>7. ASSUME NEW u \in Task, pc[u] \in Writing, ~f.valid PROVE io[u].buf # b
  BY <1>2, <1>5, <1>6, <1>7 DEF WriteInv, CleanInv
<1> HIDE DEF Hit, Fresh
<1>8. CleanInv'
  BY <1>1, <1>2, <1>3, <1>5, <1>6 DEF CleanInv, Hit, Fresh
<1>9. ReadInv'
  <2>1. ASSUME NEW u \in Task, pc'[u] \in Reading
        PROVE  /\ io'[u].buf \in 1..buff_cnt' /\ ~buf'[io'[u].buf].dirty
               /\ pc'[u] = "read_done" => buf'[io'[u].buf].data = disk'[io'[u].block]
    <3>1. CASE u = t
      BY <1>1, <1>6, <2>1, <3>1 DEF Reading
    <3>2. CASE u # t
      <4>1. /\ pc[u] \in Reading /\ io'[u] = io[u] /\ io[u].buf \in 1..buff_cnt /\ io[u].buf \in Buf
            /\ ~buf[io[u].buf].dirty
            /\ pc[u] = "read_done" => buf[io[u].buf].data = disk[io[u].block]
        BY <1>1, <1>2, <1>3, <2>1, <3>2 DEF ReadInv
      <4>2. io[u].buf = b => Hit
        BY <1>4, <1>5, <4>1 DEF Fresh, Asks
      <4>3. QED
        BY <1>1, <3>2, <4>1, <4>2 DEF Hit
    <3>3. QED
      BY <3>1, <3>2
  <2>2. QED
    BY <2>1 DEF ReadInv
<1>10. WriteInv'
  <2>1. ASSUME NEW u \in Task, pc'[u] \in Writing
        PROVE  /\ io'[u].buf \in 1..buff_cnt' /\ buf'[io'[u].buf].dirty
               /\ buf'[io'[u].buf].block = io'[u].block
               /\ pc'[u] \in {"write_done", "release_done"} => buf'[io'[u].buf].data = disk'[io'[u].block]
               /\ \A v \in Task : v # u /\ Transferring(v)' => io'[v].buf # io'[u].buf
    <3>1. u # t
      BY <1>1, <2>1 DEF Writing
    <3>2. /\ pc[u] \in Writing /\ io'[u] = io[u] /\ io[u].buf \in 1..buff_cnt /\ io[u].buf \in Buf
          /\ buf[io[u].buf].dirty /\ buf[io[u].buf].block = io[u].block
          /\ pc[u] \in {"write_done", "release_done"} => buf[io[u].buf].data = disk[io[u].block]
          /\ \A v \in Task : v # u /\ Transferring(v) => io[v].buf # io[u].buf
      BY <1>1, <1>2, <1>3, <2>1, <3>1 DEF WriteInv
    <3>3. io[u].buf = b => Hit
      BY <1>5, <3>2 DEF Fresh
    <3>4. ASSUME NEW v \in Task, v # u, Transferring(v)' PROVE io'[v].buf # io'[u].buf
      <4>1. CASE v = t
        BY <1>1, <1>7, <3>2, <3>4, <4>1 DEF Transferring, Reading, Writing
      <4>2. CASE v # t
        BY <1>1, <3>2, <3>4, <4>2 DEF Transferring
      <4>3. QED
        BY <4>1, <4>2
    <3>5. QED
      BY <1>1, <3>1, <3>2, <3>3, <3>4 DEF Hit
  <2>2. QED
    BY <2>1 DEF WriteInv
<1>11. LatestInv'
  <2>1. ASSUME NEW m \in Block
        PROVE  /\ \A a \in 1..buff_cnt' : buf'[a].block = m /\ buf'[a].valid => buf'[a].data = latest'[m]
               /\ (\A a \in 1..buff_cnt' : buf'[a].block = m => ~buf'[a].valid) => disk'[m] = latest'[m]
    <3>1. /\ \A a \in 1..buff_cnt : buf[a].block = m /\ buf[a].valid => buf[a].data = latest[m]
          /\ (\A a \in 1..buff_cnt : buf[a].block = m => ~buf[a].valid) => disk[m] = latest[m]
      BY <1>2 DEF LatestInv
    <3>2. CASE Hit
      BY <1>1, <1>3, <3>1, <3>2 DEF Hit
    <3>3. CASE Fresh
      <4>1. \A a \in 1..buff_cnt' : buf'[a].block = m /\ buf'[a].valid => buf'[a].data = latest'[m]
        BY <1>1, <1>3, <3>1, <3>3 DEF Fresh
      <4>2. ASSUME \A a \in 1..buff_cnt' : buf'[a].block = m => ~buf'[a].valid PROVE disk[m] = latest[m]
        <5>1. \A a \in 1..buff_cnt : a # b /\ buf[a].block = m => ~buf[a].valid
          BY <1>1, <1>3, <4>2
        <5>2. CASE b \in 1..buff_cnt /\ buf[b].block = m /\ buf[b].valid
          BY <1>2, <3>1, <3>3, <5>2 DEF CleanInv, Fresh
        <5>3. QED
          BY <3>1, <5>1, <5>2
      <4>3. QED
        BY <4>1, <4>2
    <3>4. QED
      BY <1>5, <3>2, <3>3
  <2>2. QED
    BY <2>1 DEF LatestInv
<1>12. QED
  BY <1>8, <1>9, <1>10, <1>11

(* bread with a buffer, however it was found. *)
LEMMA GotBInv ==
  ASSUME BInv, ~halted, halted' = FALSE, NEW t \in Task, pc[t] = "out",
         NEW b \in Buf, NEW k \in Block, NEW f \in BufferRec, Got(t, b, k, f),
         f.count = buf[b].count + 1, f.block = k,
         UNCHANGED <<wait_list, disk, history>>,
         free_list' \in Seq(Buf), IsInjective(free_list'), ToSet(free_list') = ToSet(free_list) \ {b},
         hash_table' \in Seq(Buf), IsInjective(hash_table'), ToSet(hash_table') = ToSet(hash_table) \cup {b},
         buff_cnt' \in 0..NBUF, \A a : a \in 1..buff_cnt' <=> a \in 1..buff_cnt \/ a = b,
         \/ /\ b \in 1..buff_cnt /\ buf[b].block = k
            /\ f.valid = buf[b].valid /\ f.dirty = buf[b].dirty /\ f.data = buf[b].data
         \/ /\ buf[b].count = 0 /\ ~f.valid /\ ~f.dirty
            /\ b \in 1..buff_cnt => ~buf[b].dirty
            /\ \A a \in 1..buff_cnt : buf[a].block # k
  PROVE  BInv'
<1>0. /\ Types /\ UsedInv /\ OneBufferPerBlock /\ RefsInv /\ RefsCounted
      /\ buff_cnt' \in Nat /\ disk' = disk /\ latest' = latest /\ raced' = raced /\ version' = version
  BY BufferAssumption DEF BInv, history
<1>1. Types'
  <2>1. /\ buf' \in [Buf -> BufferRec]
        /\ pc' \in [Task -> {"out", "wait"} \cup Reading \cup Writing]
        /\ io' \in [Task -> [buf : Buf \cup {0}, block : Block \cup {0}]]
        /\ held' \in [Task -> [Buf -> Nat]]
        /\ \A u \in Task : Transferring(u)' => io'[u].buf \in Buf /\ io'[u].block \in Block
    BY <1>0, GotTypes
  <2>2. /\ version \in 0..MaxVersion /\ wait_list \in Seq(Task)
        /\ disk \in [Block -> 0..MaxVersion] /\ latest \in [Block -> 0..MaxVersion]
        /\ raced \in BOOLEAN
    BY <1>0 DEF Types, TypeOK
  <2>3. halted' \in BOOLEAN /\ raced' \in BOOLEAN
    BY <1>0, <2>2, Zenon
  <2>4. TypeOK'
    BY <1>0, <2>1, <2>2, <2>3 DEF TypeOK, BufferRec
  <2>5. QED
    BY <2>1, <2>4 DEF Types
<1>2. /\ UsedInv'
      /\ \A a, c \in 1..buff_cnt' : buf'[a].block = buf'[c].block => a = c
  BY <1>0, GotUsed
<1>3. OneBufferPerBlock'
  <2>1. ToSet(hash_table) = 1..buff_cnt
    BY <1>0 DEF OneBufferPerBlock
  <2>2. ToSet(hash_table') = 1..buff_cnt'
    BY <2>1
  <2>3. QED
    BY <1>2, <2>2 DEF OneBufferPerBlock
<1>4. RefsInv' /\ \A a \in Buf : buf'[a].count = Cardinality(Refs(a)')
  BY <1>0, GotRefs
<1>5. RefsCounted'
  <2>1. buf'[b] = f /\ \A a \in Buf : a # b => buf'[a] = buf[a]
    BY <1>0, GotPoints
  <2>2. ToSet(free_list) = {a \in 1..buff_cnt : buf[a].count = 0}
    BY <1>0 DEF RefsCounted
  <2>3. 1..buff_cnt \subseteq Buf /\ buf[b].count \in Nat
    BY <1>0, BufferAssumption DEF Types, TypeOK, Buf
  <2>4. f.count # 0
    BY <2>3
  <2>5. \A a : a \in ToSet(free_list') <=> a \in 1..buff_cnt' /\ buf'[a].count = 0
    BY <2>1, <2>2, <2>3, <2>4
  <2>6. ToSet(free_list') = {a \in 1..buff_cnt' : buf'[a].count = 0}
    BY <2>5
  <2>7. QED
    BY <1>4, <2>6 DEF RefsCounted
<1>6. DataInv'
  BY <1>0, GotData
<1>7. QED
  BY <1>1, <1>2, <1>3, <1>4, <1>5, <1>6 DEF BInv

(* bread of a cached block. *)
LEMMA BreadHitBInv ==
  ASSUME BInv, NEW t \in Task, NEW k \in Block, BreadHit(t, k)
  PROVE  BInv'
<1>1. PICK b : b = Found(k)
  OBVIOUS
<1>2. PICK f : f = [buf[b] EXCEPT !.count = @ + 1]
  OBVIOUS
<1>3. /\ ~halted /\ halted' = halted /\ pc[t] = "out" /\ Cached(k) # {} /\ Got(t, b, k, f)
      /\ free_list' = Without(free_list, b) /\ UNCHANGED <<buff_cnt, hash_table, wait_list, disk, history>>
  BY <1>1, <1>2 DEF BreadHit, CanCall
<1>4. /\ hash_table \in Seq(Buf) /\ free_list \in Seq(Buf) /\ IsInjective(hash_table) /\ IsInjective(free_list)
      /\ ToSet(hash_table) = 1..buff_cnt /\ buff_cnt \in 0..NBUF /\ buff_cnt \in Nat
      /\ halted \in BOOLEAN
  BY <1>3, BufferAssumption DEF BInv, Types, TypeOK, OneBufferPerBlock, RefsCounted
<1>5. b \in 1..buff_cnt /\ b \in Buf /\ buf[b].block = k
  <2>1. b \in ToSet(hash_table) /\ buf[b].block = k
    BY <1>1, <1>3, <1>4, FoundInTable
  <2>2. QED
    BY <1>4, <2>1, BufferAssumption DEF Buf
<1>6. buf[b] \in BufferRec
  BY <1>5 DEF BInv, Types, TypeOK, BufferRec
<1>7. /\ f \in BufferRec /\ f.count = buf[b].count + 1 /\ f.block = k
      /\ f.valid = buf[b].valid /\ f.dirty = buf[b].dirty /\ f.data = buf[b].data
  BY <1>2, <1>5, <1>6 DEF BufferRec
<1>8. free_list' \in Seq(Buf) /\ IsInjective(free_list') /\ ToSet(free_list') = ToSet(free_list) \ {b}
  <2>1. PICK r : r = free_list'
    OBVIOUS
  <2>2. QED
    BY <1>3, <1>4, <2>1, WithoutElements
<1>9. /\ hash_table' \in Seq(Buf) /\ IsInjective(hash_table') /\ ToSet(hash_table') = ToSet(hash_table) \cup {b}
      /\ buff_cnt' \in 0..NBUF /\ \A a : a \in 1..buff_cnt' <=> a \in 1..buff_cnt \/ a = b
  BY <1>3, <1>4, <1>5
<1>10. halted' = FALSE
  BY <1>3, <1>4, Zenon
<1>11. QED
  BY <1>3, <1>5, <1>7, <1>8, <1>9, <1>10, GotBInv

(* bread of another block, into a buffer never used before. *)
LEMMA BreadNewBInv ==
  ASSUME BInv, NEW t \in Task, NEW k \in Block, BreadNew(t, k)
  PROVE  BInv'
<1>1. PICK b : b = buff_cnt + 1
  OBVIOUS
<1>2. PICK f : f = [block |-> k, count |-> 1, dirty |-> FALSE, valid |-> FALSE, data |-> buf[b].data]
  OBVIOUS
<1>3. /\ ~halted /\ halted' = halted /\ pc[t] = "out" /\ Cached(k) = {} /\ Got(t, b, k, f)
      /\ buff_cnt < NBUF /\ buff_cnt' = b /\ hash_table' = <<b>> \o hash_table
      /\ UNCHANGED <<free_list, wait_list, disk, history>>
  BY <1>1, <1>2 DEF BreadNew, CanCall
<1>4. /\ hash_table \in Seq(Buf) /\ free_list \in Seq(Buf) /\ IsInjective(hash_table) /\ IsInjective(free_list)
      /\ ToSet(hash_table) = 1..buff_cnt /\ buff_cnt \in Nat
      /\ ToSet(free_list) \subseteq 1..buff_cnt
      /\ halted \in BOOLEAN /\ NBUF \in Nat
  BY <1>3, BufferAssumption DEF BInv, Types, TypeOK, OneBufferPerBlock, RefsCounted
<1>5. b \in Buf /\ b \notin 1..buff_cnt /\ b > buff_cnt
  BY <1>1, <1>3, <1>4 DEF Buf
<1>6. buf[b] \in BufferRec /\ buf[b].count = 0
  BY <1>3, <1>5 DEF BInv, Types, TypeOK, BufferRec, UsedInv
<1>7. /\ f \in BufferRec /\ f.count = buf[b].count + 1 /\ f.block = k
      /\ ~f.valid /\ ~f.dirty
  BY <1>2, <1>6 DEF BufferRec
<1>8. free_list' \in Seq(Buf) /\ IsInjective(free_list') /\ ToSet(free_list') = ToSet(free_list) \ {b}
  BY <1>3, <1>4, <1>5
<1>9. hash_table' \in Seq(Buf) /\ IsInjective(hash_table') /\ ToSet(hash_table') = ToSet(hash_table) \cup {b}
  <2>1. PICK r : r = hash_table'
    OBVIOUS
  <2>2. QED
    BY <1>3, <1>4, <1>5, <2>1, PushElements
<1>10. buff_cnt' \in 0..NBUF /\ \A a : a \in 1..buff_cnt' <=> a \in 1..buff_cnt \/ a = b
  BY <1>1, <1>3, <1>4
<1>11. \A a \in 1..buff_cnt : buf[a].block # k
  BY <1>3, <1>4, FoundInTable
<1>12. halted' = FALSE
  BY <1>3, <1>4, Zenon
<1>13. QED
  BY <1>3, <1>5, <1>6, <1>7, <1>8, <1>9, <1>10, <1>11, <1>12, GotBInv

(* When the kernel stops, only types are left to say. *)
LEMMA HaltedBInv ==
  ASSUME Types', halted'
  PROVE  BInv'
  BY DEF BInv, UsedInv, OneBufferPerBlock, RefsInv, RefsCounted, DataInv

(* bread of another block, into the buffer released longest ago. *)
LEMMA BreadReuseBInv ==
  ASSUME BInv, NEW t \in Task, NEW k \in Block, BreadReuse(t, k)
  PROVE  BInv'
<1>1. PICK b : b = Last(free_list)
  OBVIOUS
<1>2. PICK f : f = Reused(b, k)
  OBVIOUS
<1>3. /\ ~halted /\ pc[t] = "out" /\ Cached(k) = {} /\ free_list # <<>>
      /\ free_list' = Front(free_list) /\ halted' = buf[b].dirty
      /\ UNCHANGED <<buff_cnt, wait_list, disk, history>>
  BY <1>1 DEF BreadReuse, CanCall
<1>4. /\ hash_table \in Seq(Buf) /\ free_list \in Seq(Buf) /\ IsInjective(hash_table) /\ IsInjective(free_list)
      /\ ToSet(hash_table) = 1..buff_cnt /\ buff_cnt \in 0..NBUF /\ buff_cnt \in Nat
      /\ ToSet(free_list) = {a \in 1..buff_cnt : buf[a].count = 0}
  BY SMTT(30), <1>3, BufferAssumption DEF BInv, Types, TypeOK, OneBufferPerBlock, RefsCounted
<1>5. /\ free_list' \in Seq(Buf) /\ IsInjective(free_list') /\ ToSet(free_list') = ToSet(free_list) \ {b}
      /\ b \in ToSet(free_list)
  <2>1. PICK r : r = free_list'
    OBVIOUS
  <2>2. QED
    BY <1>1, <1>3, <1>4, <2>1, PopElements
<1>6. b \in 1..buff_cnt /\ b \in Buf /\ buf[b].count = 0
  BY <1>4, <1>5, BufferAssumption DEF Buf
<1>7. buf[b] \in BufferRec
  BY <1>6 DEF BInv, Types, TypeOK, BufferRec
<1>8. PICK r : r = Without(hash_table, b)
  OBVIOUS
<1>9. r \in Seq(Buf) /\ IsInjective(r) /\ ToSet(r) = ToSet(hash_table) \ {b}
  BY <1>4, <1>8, WithoutElements
<1>10. CASE buf[b].dirty
  <2>1. /\ buf' = [buf EXCEPT ![b].valid = FALSE] /\ hash_table' = r
        /\ UNCHANGED <<held, pc, io>>
    BY <1>1, <1>8, <1>10 DEF BreadReuse
  <2>2. buf' \in [Buf -> BufferRec]
    BY <1>6, <1>7, <2>1 DEF BInv, Types, TypeOK, BufferRec
  <2>3. halted' \in BOOLEAN
    BY <1>3, <1>7, Zenon DEF BufferRec
  <2>4. TypeOK'
    BY <1>3, <1>4, <1>5, <1>9, <2>1, <2>2, <2>3 DEF BInv, Types, TypeOK, BufferRec, history
  <2>5. Types'
    BY <2>1, <2>4 DEF BInv, Types, Transferring
  <2>6. QED
    BY <1>3, <1>10, <2>5, HaltedBInv
<1>11. CASE ~buf[b].dirty
  <2>1. Got(t, b, k, f) /\ hash_table' = <<b>> \o r
    BY <1>1, <1>2, <1>8, <1>11 DEF BreadReuse
  <2>2. /\ f \in BufferRec /\ f.count = buf[b].count + 1 /\ f.block = k
        /\ ~f.valid /\ ~f.dirty
    <3>1. f = [block |-> k, count |-> 1, dirty |-> buf[b].dirty, valid |-> FALSE, data |-> buf[b].data]
      BY <1>2, <1>7 DEF BufferRec, Reused
    <3>2. buf[b].dirty \in BOOLEAN /\ buf[b].data \in 0..MaxVersion
      BY <1>7 DEF BufferRec
    <3>3. f \in BufferRec
      BY <3>1, <3>2 DEF BufferRec
    <3>4. QED
      BY <1>6, <1>11, <3>1, <3>3
  <2>3. hash_table' \in Seq(Buf) /\ IsInjective(hash_table') /\ ToSet(hash_table') = ToSet(hash_table) \cup {b}
    <3>1. PICK s : s = hash_table'
      OBVIOUS
    <3>2. s \in Seq(Buf) /\ IsInjective(s) /\ ToSet(s) = ToSet(r) \cup {b}
      BY <1>6, <1>9, <2>1, <3>1, PushElements
    <3>3. QED
      BY <1>9, <3>1, <3>2
  <2>4. buff_cnt' \in 0..NBUF /\ \A a : a \in 1..buff_cnt' <=> a \in 1..buff_cnt \/ a = b
    BY <1>3, <1>4, <1>6
  <2>5. \A a \in 1..buff_cnt : buf[a].block # k
    BY <1>3, <1>4, FoundInTable
  <2>6. halted' = FALSE
    <3>1. buf[b].dirty \in BOOLEAN
      BY <1>7 DEF BufferRec
    <3>2. QED
      BY <1>3, <1>11, <3>1, Zenon
  <2>7. QED
    BY <1>3, <1>5, <1>6, <1>11, <2>1, <2>2, <2>3, <2>4, <2>5, <2>6, GotBInv
<1>12. QED
  BY <1>10, <1>11

-----------------------------------------------------------------------------
(* The other steps. *)

(* The lists and the buffers they hold. *)
LEMMA ListsFrame ==
  ASSUME BInv, ~halted, UNCHANGED <<hash_table, buff_cnt>>,
         \A a \in Buf : buf'[a].block = buf[a].block,
         \A a \in Buf : a > buff_cnt => buf'[a].count = buf[a].count
  PROVE  UsedInv' /\ OneBufferPerBlock'
<1>1. 1..buff_cnt \subseteq Buf
  BY BufferAssumption DEF BInv, Types, TypeOK, Buf
<1>2. QED
  BY <1>1 DEF BInv, UsedInv, OneBufferPerBlock

(* Steps that neither give nor take a reference. *)
LEMMA RefsFrame ==
  ASSUME BInv, ~halted, UNCHANGED <<free_list, buff_cnt, held>>,
         \A u \in Task, a \in Buf : Asks(pc', io', u, a) <=> Asks(pc, io, u, a),
         \A u \in Task : pc'[u] \in Reading => pc[u] \in Reading /\ io'[u] = io[u],
         \A a \in Buf : /\ buf'[a].block = buf[a].block /\ buf'[a].count = buf[a].count
                        /\ buf[a].valid => buf'[a].valid
  PROVE  RefsInv' /\ RefsCounted'
<1>1. ASSUME NEW a \in Buf PROVE Refs(a)' = Refs(a)
  <2>1. Refs(a) = RefsOf(pc, io, held, a) /\ Refs(a)' = RefsOf(pc', io', held', a)
    BY DEF Refs, RefsOf, Asks
  <2>2. \A u \in Task : held'[u][a] = held[u][a] /\ (Asks(pc', io', u, a) <=> Asks(pc, io, u, a))
    OBVIOUS
  <2>3. QED
    BY <2>1, <2>2, RefsSame
<1>2. 1..buff_cnt \subseteq Buf /\ \A u \in Task : pc[u] \in Reading => io[u].buf \in Buf
  BY BufferAssumption DEF BInv, Types, TypeOK, Buf, Transferring
<1>3. RefsInv'
  <2>1. \A a \in Buf : IsFiniteSet(Refs(a)')
    BY <1>1 DEF BInv, RefsInv
  <2>2. \A u \in Task, a \in Buf : held'[u][a] > 0 => buf'[a].valid
    BY DEF BInv, RefsInv
  <2>3. \A u \in Task : pc'[u] \in Reading => buf'[io'[u].buf].block = io'[u].block
    BY <1>2 DEF BInv, RefsInv
  <2>4. QED
    BY <2>1, <2>2, <2>3 DEF RefsInv
<1>4. RefsCounted'
  <2>1. \A a \in Buf : buf'[a].count = Cardinality(Refs(a)')
    BY <1>1 DEF BInv, RefsCounted
  <2>2. ToSet(free_list') = {a \in 1..buff_cnt' : buf'[a].count = 0} /\ IsInjective(free_list')
    BY <1>2 DEF BInv, RefsCounted
  <2>3. QED
    BY <2>1, <2>2 DEF RefsCounted
<1>5. QED
  BY <1>3, <1>4

(* bread without a buffer: the task waits. *)
LEMMA BreadWaitBInv ==
  ASSUME BInv, NEW t \in Task, NEW k \in Block, BreadWait(t, k)
  PROVE  BInv'
<1>1. /\ ~halted /\ halted' = halted /\ pc[t] = "out"
      /\ wait_list' = Append(wait_list, t)
      /\ pc' = [pc EXCEPT ![t] = "wait"]
      /\ UNCHANGED <<buf, buff_cnt, hash_table, free_list, disk, io, held, halted, version, latest, raced>>
  BY DEF BreadWait, CanCall, history
<1>2. Types
  BY DEF BInv
<1>3. pc \in [Task -> {"out", "wait"} \cup Reading \cup Writing] /\ wait_list \in Seq(Task)
  BY <1>2 DEF Types, TypeOK
<1>4. pc' \in [Task -> {"out", "wait"} \cup Reading \cup Writing]
  BY <1>1, <1>3
<1>5. pc'[t] = "wait" /\ \A u \in Task : u # t => pc'[u] = pc[u]
  BY <1>1, <1>3
<1>6. \A u \in Task : /\ pc'[u] \in Reading <=> pc[u] \in Reading
                      /\ pc'[u] \in Writing <=> pc[u] \in Writing
                      /\ pc'[u] \in Reading \cup Writing => pc'[u] = pc[u]
  BY <1>1, <1>5 DEF Reading, Writing
<1>7. Types'
  <2>1. wait_list' \in Seq(Task)
    BY <1>1, <1>3
  <2>2. TypeOK'
    BY <1>1, <1>2, <1>4, <2>1 DEF Types, TypeOK
  <2>3. QED
    BY <1>1, <1>2, <1>6, <2>2 DEF Types, Transferring
<1>8. UsedInv' /\ OneBufferPerBlock'
  BY <1>1, ListsFrame
<1>9. RefsInv' /\ RefsCounted'
  BY <1>1, <1>6, RefsFrame DEF Asks
<1>10. DataInv'
  BY <1>1, <1>6 DEF BInv, DataInv, CleanInv, ReadInv, WriteInv, LatestInv, Transferring
<1>11. QED
  BY <1>7, <1>8, <1>9, <1>10 DEF BInv

(* What a record keeps when one step only counts. *)
SameContents(a) ==
    /\ buf'[a].block = buf[a].block /\ buf'[a].valid = buf[a].valid
    /\ buf'[a].dirty = buf[a].dirty /\ buf'[a].data = buf[a].data

(* The contents when a step starts and ends no transfer. *)
LEMMA DataFrame ==
  ASSUME BInv, ~halted, UNCHANGED <<buff_cnt, disk, latest, raced, pc, io>>,
         \A a \in Buf : SameContents(a)
  PROVE  DataInv'
<1> SUFFICES ASSUME ~raced PROVE (CleanInv /\ ReadInv /\ WriteInv /\ LatestInv)'
  BY DEF DataInv
<1>1. CleanInv /\ ReadInv /\ WriteInv /\ LatestInv
  BY DEF BInv, DataInv
<1>2. 1..buff_cnt \subseteq Buf
  BY BufferAssumption DEF BInv, Types, TypeOK, Buf
<1>3. CleanInv'
  BY <1>1, <1>2 DEF CleanInv, SameContents
<1>4. ReadInv'
  BY <1>1, <1>2 DEF ReadInv, SameContents
<1>5. WriteInv'
  BY <1>1, <1>2 DEF WriteInv, SameContents, Transferring
<1>6. LatestInv'
  BY <1>1, <1>2 DEF LatestInv, SameContents
<1>7. QED
  BY <1>3, <1>4, <1>5, <1>6

(* The contents when bwrite asks the device. *)
LEMMA StartWriteData ==
  ASSUME BInv, ~halted, NEW t \in Task, pc[t] = "out", NEW b \in 1..buff_cnt, buf[b].dirty,
         NEW w \in {"write", "release"}, pc' = [pc EXCEPT ![t] = w],
         io' = [io EXCEPT ![t] = [buf |-> b, block |-> buf[b].block]],
         raced' = (raced \/ Transfers(b) # {}),
         UNCHANGED <<buff_cnt, disk, latest>>,
         \A a \in Buf : SameContents(a)
  PROVE  DataInv'
<1> SUFFICES ASSUME ~raced, Transfers(b) = {} PROVE (CleanInv /\ ReadInv /\ WriteInv /\ LatestInv)'
  BY DEF DataInv
<1>1. CleanInv /\ ReadInv /\ WriteInv /\ LatestInv
  BY DEF BInv, DataInv
<1>2. 1..buff_cnt \subseteq Buf
  BY BufferAssumption DEF BInv, Types, TypeOK, Buf
<1>3. /\ pc'[t] = w /\ io'[t].buf = b /\ io'[t].block = buf[b].block
      /\ \A u \in Task : u # t => pc'[u] = pc[u] /\ io'[u] = io[u]
  BY DEF BInv, Types, TypeOK
<1>4. \A u \in Task : Transferring(u) => io[u].buf # b
  BY DEF Transfers, Transferring
<1>5. CleanInv'
  BY <1>1, <1>2 DEF CleanInv, SameContents
<1>6. ReadInv'
  <2>1. pc'[t] \notin Reading
    BY <1>3 DEF Reading
  <2>2. QED
    BY <1>1, <1>2, <1>3, <2>1 DEF ReadInv, SameContents
<1>7. WriteInv'
  <2>1. ASSUME NEW u \in Task, pc'[u] \in Writing
        PROVE  /\ io'[u].buf \in 1..buff_cnt' /\ buf'[io'[u].buf].dirty
               /\ buf'[io'[u].buf].block = io'[u].block
               /\ pc'[u] \in {"write_done", "release_done"} => buf'[io'[u].buf].data = disk'[io'[u].block]
               /\ \A v \in Task : v # u /\ Transferring(v)' => io'[v].buf # io'[u].buf
    <3>1. CASE u = t
      <4>1. \A v \in Task : v # u /\ Transferring(v)' => io'[v].buf # b
        BY <1>3, <1>4, <3>1 DEF Transferring
      <4>2. QED
        BY <1>2, <1>3, <3>1, <4>1 DEF SameContents
    <3>2. CASE u # t
      <4>1. pc[u] \in Writing /\ io'[u] = io[u] /\ io[u].buf # b /\ io[u].buf \in Buf
        BY <1>1, <1>2, <1>3, <1>4, <2>1, <3>2 DEF Transferring, WriteInv
      <4>2. \A v \in Task : v # u /\ Transferring(v)' => io'[v].buf # io'[u].buf
        BY <1>1, <1>3, <4>1 DEF Transferring, WriteInv
      <4>3. QED
        BY <1>1, <1>3, <3>2, <4>1, <4>2 DEF WriteInv, SameContents
    <3>3. QED
      BY <3>1, <3>2
  <2>2. QED
    BY <2>1 DEF WriteInv
<1>8. LatestInv'
  BY <1>1, <1>2 DEF LatestInv, SameContents
<1>9. QED
  BY <1>5, <1>6, <1>7, <1>8

(* The contents when a transfer has ended and the flags say so. *)
LEMMA ReturnData ==
  ASSUME BInv, ~halted, NEW t \in Task, pc[t] \in {"read_done", "write_done", "release_done"},
         NEW b, b = io[t].buf,
         buf'[b].block = buf[b].block, buf'[b].data = buf[b].data, ~buf'[b].dirty, buf'[b].valid,
         \A a \in Buf : a # b => buf'[a] = buf[a],
         pc'[t] = "out", \A u \in Task : u # t => pc'[u] = pc[u] /\ io'[u] = io[u],
         UNCHANGED <<buff_cnt, disk, latest, raced>>
  PROVE  DataInv'
<1> SUFFICES ASSUME ~raced PROVE (CleanInv /\ ReadInv /\ WriteInv /\ LatestInv)'
  BY DEF DataInv
<1>1. CleanInv /\ ReadInv /\ WriteInv /\ LatestInv
  BY DEF BInv, DataInv
<1>2. 1..buff_cnt \subseteq Buf
  BY BufferAssumption DEF BInv, Types, TypeOK, Buf
<1>3. /\ b \in 1..buff_cnt /\ b \in Buf /\ io[t].block = buf[b].block /\ buf[b].data = disk[buf[b].block]
      /\ buf[b].block \in Block
  <2>1. pc[t] \in Reading \/ pc[t] \in Writing
    BY DEF Reading, Writing
  <2>2. CASE pc[t] \in Reading
    <3>1. pc[t] = "read_done"
      BY <2>2 DEF Reading
    <3>2. QED
      BY <1>1, <1>2, <2>2, <3>1 DEF ReadInv, BInv, RefsInv, UsedInv
  <2>3. CASE pc[t] \in Writing
    <3>1. pc[t] \in {"write_done", "release_done"}
      BY <2>3 DEF Writing
    <3>2. QED
      BY <1>1, <1>2, <2>3, <3>1 DEF WriteInv, BInv, UsedInv
  <2>4. QED
    BY <2>1, <2>2, <2>3
<1>4. pc'[t] \notin Reading /\ pc'[t] \notin Writing
  BY DEF Reading, Writing
<1>5. CleanInv'
  BY <1>1, <1>2, <1>3 DEF CleanInv
<1>6. ReadInv'
  BY <1>1, <1>2, <1>3, <1>4 DEF ReadInv
<1>7. WriteInv'
  <2>1. ASSUME NEW u \in Task, pc'[u] \in Writing
        PROVE  /\ io'[u].buf \in 1..buff_cnt' /\ buf'[io'[u].buf].dirty
               /\ buf'[io'[u].buf].block = io'[u].block
               /\ pc'[u] \in {"write_done", "release_done"} => buf'[io'[u].buf].data = disk'[io'[u].block]
               /\ \A v \in Task : v # u /\ Transferring(v)' => io'[v].buf # io'[u].buf
    <3>1. u # t /\ pc[u] \in Writing /\ io'[u] = io[u] /\ pc'[u] = pc[u]
      BY <1>4, <2>1
    <3>2. Transferring(t)
      BY DEF Transferring, Reading, Writing
    <3>3. io[u].buf # b /\ io[u].buf \in Buf
      BY <1>1, <1>2, <3>1, <3>2 DEF WriteInv
    <3>4. \A v \in Task : v # u /\ Transferring(v)' => io'[v].buf # io'[u].buf
      BY <1>1, <1>4, <3>1 DEF Transferring, WriteInv
    <3>5. QED
      BY <1>1, <3>1, <3>3, <3>4 DEF WriteInv
  <2>2. QED
    BY <2>1 DEF WriteInv
<1>8. LatestInv'
  <2>1. ASSUME NEW m \in Block
        PROVE  /\ \A a \in 1..buff_cnt' : buf'[a].block = m /\ buf'[a].valid => buf'[a].data = latest'[m]
               /\ (\A a \in 1..buff_cnt' : buf'[a].block = m => ~buf'[a].valid) => disk'[m] = latest'[m]
    <3>1. /\ \A a \in 1..buff_cnt : buf[a].block = m /\ buf[a].valid => buf[a].data = latest[m]
          /\ (\A a \in 1..buff_cnt : buf[a].block = m => ~buf[a].valid) => disk[m] = latest[m]
      BY <1>1 DEF LatestInv
    <3>2. CASE m # buf[b].block
      BY <1>2, <1>3, <3>1, <3>2
    <3>3. CASE m = buf[b].block
      <4>1. \A a \in 1..buff_cnt : buf[a].block = m => a = b
        BY <1>3, <3>3 DEF BInv, OneBufferPerBlock
      <4>2. buf[b].data = latest[m]
        BY <1>3, <3>1, <3>3, <4>1
      <4>3. QED
        BY <1>2, <1>3, <3>3, <4>1, <4>2
    <3>4. QED
      BY <3>2, <3>3
  <2>2. QED
    BY <2>1 DEF LatestInv
<1>9. QED
  BY <1>5, <1>6, <1>7, <1>8

(* The flags at the end of a transfer. *)
LEMMA FlagPoints ==
  ASSUME Types, NEW b \in Buf, buf' = [buf EXCEPT ![b].dirty = FALSE, ![b].valid = TRUE]
  PROVE  /\ buf' \in [Buf -> BufferRec]
         /\ buf'[b].block = buf[b].block /\ buf'[b].data = buf[b].data /\ buf'[b].count = buf[b].count
         /\ ~buf'[b].dirty /\ buf'[b].valid
         /\ \A a \in Buf : a # b => buf'[a] = buf[a]
<1>1. buf \in [Buf -> BufferRec]
  BY DEF Types, TypeOK, BufferRec
<1>2. PICK r : r = buf[b]
  OBVIOUS
<1>3. r \in BufferRec
  BY <1>1, <1>2
<1>4. PICK f : f = [r EXCEPT !.dirty = FALSE, !.valid = TRUE]
  OBVIOUS
<1>5. f = [block |-> r.block, count |-> r.count, dirty |-> FALSE, valid |-> TRUE, data |-> r.data]
  BY <1>3, <1>4 DEF BufferRec
<1>6. f \in BufferRec
  BY <1>3, <1>5 DEF BufferRec
<1>7. buf' = [buf EXCEPT ![b] = f]
  BY <1>1, <1>2, <1>4
<1>8. buf' \in [Buf -> BufferRec] /\ buf'[b] = f /\ \A a \in Buf : a # b => buf'[a] = buf[a]
  BY <1>1, <1>6, <1>7
<1>9. f.block = r.block /\ f.count = r.count /\ f.data = r.data /\ ~f.dirty /\ f.valid
  BY <1>5
<1>10. QED
  BY <1>2, <1>8, <1>9

(* The device fills a buffer. *)
LEMMA FillPoints ==
  ASSUME Types, NEW b \in Buf, NEW d \in 0..MaxVersion, buf' = [buf EXCEPT ![b].data = d]
  PROVE  /\ buf' \in [Buf -> BufferRec]
         /\ buf'[b].block = buf[b].block /\ buf'[b].data = d /\ buf'[b].count = buf[b].count
         /\ buf'[b].valid = buf[b].valid /\ buf'[b].dirty = buf[b].dirty
         /\ \A a \in Buf : a # b => buf'[a] = buf[a]
<1>1. buf \in [Buf -> BufferRec]
  BY DEF Types, TypeOK, BufferRec
<1>2. PICK r : r = buf[b]
  OBVIOUS
<1>3. r \in BufferRec
  BY <1>1, <1>2
<1>4. PICK f : f = [r EXCEPT !.data = d]
  OBVIOUS
<1>5. f = [block |-> r.block, count |-> r.count, dirty |-> r.dirty, valid |-> r.valid, data |-> d]
  BY <1>3, <1>4 DEF BufferRec
<1>6. f \in BufferRec
  BY <1>3, <1>5 DEF BufferRec
<1>7. buf' = [buf EXCEPT ![b] = f]
  BY <1>1, <1>2, <1>4
<1>8. buf' \in [Buf -> BufferRec] /\ buf'[b] = f /\ \A a \in Buf : a # b => buf'[a] = buf[a]
  BY <1>1, <1>6, <1>7
<1>9. f.block = r.block /\ f.count = r.count /\ f.data = d /\ f.dirty = r.dirty /\ f.valid = r.valid
  BY <1>5
<1>10. QED
  BY <1>2, <1>8, <1>9

(* A task modifies a buffer. *)
LEMMA ModifyPoints ==
  ASSUME Types, NEW b \in Buf, NEW d \in 0..MaxVersion, buf' = [buf EXCEPT ![b].data = d, ![b].dirty = TRUE]
  PROVE  /\ buf' \in [Buf -> BufferRec]
         /\ buf'[b].block = buf[b].block /\ buf'[b].data = d /\ buf'[b].count = buf[b].count
         /\ buf'[b].valid = buf[b].valid /\ buf'[b].dirty = TRUE
         /\ \A a \in Buf : a # b => buf'[a] = buf[a]
<1>1. buf \in [Buf -> BufferRec]
  BY DEF Types, TypeOK, BufferRec
<1>2. PICK r : r = buf[b]
  OBVIOUS
<1>3. r \in BufferRec
  BY <1>1, <1>2
<1>4. PICK f : f = [r EXCEPT !.data = d, !.dirty = TRUE]
  OBVIOUS
<1>5. f = [block |-> r.block, count |-> r.count, dirty |-> TRUE, valid |-> r.valid, data |-> d]
  BY <1>3, <1>4 DEF BufferRec
<1>6. f \in BufferRec
  BY <1>3, <1>5 DEF BufferRec
<1>7. buf' = [buf EXCEPT ![b] = f]
  BY <1>1, <1>2, <1>4
<1>8. buf' \in [Buf -> BufferRec] /\ buf'[b] = f /\ \A a \in Buf : a # b => buf'[a] = buf[a]
  BY <1>1, <1>6, <1>7
<1>9. f.block = r.block /\ f.count = r.count /\ f.data = d /\ f.dirty = TRUE /\ f.valid = r.valid
  BY <1>5
<1>10. QED
  BY <1>2, <1>8, <1>9

(* A change of a count. *)
LEMMA CountPoints ==
  ASSUME Types, NEW b \in Buf, NEW c \in Nat, buf' = [buf EXCEPT ![b].count = c]
  PROVE  /\ buf' \in [Buf -> BufferRec] /\ buf'[b].count = c
         /\ \A a \in Buf : SameContents(a)
         /\ \A a \in Buf : a # b => buf'[a] = buf[a]
<1>1. buf \in [Buf -> BufferRec]
  BY DEF Types, TypeOK, BufferRec
<1>2. PICK r : r = buf[b]
  OBVIOUS
<1>3. r \in BufferRec
  BY <1>1, <1>2
<1>4. PICK f : f = [block |-> r.block, count |-> c, dirty |-> r.dirty, valid |-> r.valid, data |-> r.data]
  OBVIOUS
<1>5. f \in BufferRec
  BY <1>3, <1>4 DEF BufferRec
<1>6. buf' = [buf EXCEPT ![b] = f]
  <2>1. f = [r EXCEPT !.count = c]
    BY <1>3, <1>4 DEF BufferRec
  <2>2. QED
    BY <1>1, <1>2, <2>1
<1>7. buf' \in [Buf -> BufferRec] /\ buf'[b] = f /\ \A a \in Buf : a # b => buf'[a] = buf[a]
  BY <1>1, <1>5, <1>6
<1>8. f.block = r.block /\ f.count = c /\ f.data = r.data /\ f.dirty = r.dirty /\ f.valid = r.valid
  BY <1>4
<1>9. \A a \in Buf : SameContents(a)
  BY <1>2, <1>7, <1>8 DEF SameContents
<1>10. QED
  BY <1>7, <1>8, <1>9

(* bwrite and brelse return from the device. *)
LEMMA WrittenBInv ==
  ASSUME BInv, ~halted, NEW t \in Task, pc[t] \in {"write_done", "release_done"},
         buf' = Written(io[t].buf),
         pc' = [pc EXCEPT ![t] = "out"], io' = [io EXCEPT ![t] = NoIo],
         halted' \in BOOLEAN, wait_list' \in Seq(Task),
         UNCHANGED <<buff_cnt, hash_table, free_list, disk, held, version, latest, raced>>
  PROVE  BInv'
<1>1. PICK b : b = io[t].buf
  OBVIOUS
<1>2. Types
  BY DEF BInv
<1>3. b \in Buf
  BY <1>1, <1>2 DEF Types, Transferring, Writing
<1>4. /\ buf' \in [Buf -> BufferRec]
      /\ buf'[b].block = buf[b].block /\ buf'[b].data = buf[b].data /\ buf'[b].count = buf[b].count
      /\ ~buf'[b].dirty /\ buf'[b].valid
      /\ \A a \in Buf : a # b => buf'[a] = buf[a]
  BY <1>1, <1>2, <1>3, FlagPoints DEF Written
<1>5. /\ pc \in [Task -> {"out", "wait"} \cup Reading \cup Writing]
      /\ io \in [Task -> [buf : Buf \cup {0}, block : Block \cup {0}]]
  BY <1>2 DEF Types, TypeOK
<1>6. /\ pc'[t] = "out" /\ \A u \in Task : u # t => pc'[u] = pc[u] /\ io'[u] = io[u]
      /\ pc' \in [Task -> {"out", "wait"} \cup Reading \cup Writing]
      /\ io' \in [Task -> [buf : Buf \cup {0}, block : Block \cup {0}]]
  BY <1>5 DEF NoIo
<1>7. Types'
  <2>1. TypeOK'
    BY <1>2, <1>4, <1>6 DEF Types, TypeOK, BufferRec
  <2>2. QED
    BY <1>2, <1>6, <2>1 DEF Types, Transferring, Reading, Writing
<1>8. UsedInv' /\ OneBufferPerBlock'
  BY <1>4, ListsFrame
<1>9. RefsInv' /\ RefsCounted'
  <2>1. pc[t] \notin Reading /\ pc'[t] \notin Reading
    BY <1>6 DEF Reading
  <2>2. \A u \in Task, a \in Buf : Asks(pc', io', u, a) <=> Asks(pc, io, u, a)
    BY <1>6, <2>1 DEF Asks
  <2>3. \A u \in Task : pc'[u] \in Reading => pc[u] \in Reading /\ io'[u] = io[u]
    BY <1>6, <2>1
  <2>4. \A a \in Buf : /\ buf'[a].block = buf[a].block /\ buf'[a].count = buf[a].count
                       /\ buf[a].valid => buf'[a].valid
    BY <1>4
  <2>5. QED
    BY <2>2, <2>3, <2>4, RefsFrame
<1>10. DataInv'
  BY <1>1, <1>4, <1>6, ReturnData
<1>11. QED
  BY <1>7, <1>8, <1>9, <1>10 DEF BInv

(* The end of bwrite. *)
LEMMA BwriteReturnBInv ==
  ASSUME BInv, NEW t \in Task, BwriteReturn(t)
  PROVE  BInv'
  BY WrittenBInv DEF BwriteReturn, history, BInv, Types, TypeOK

(* The end of brelse takes at most the first waiter. *)
LEMMA WakeTypes ==
  ASSUME Types, Wake
  PROVE  halted' \in BOOLEAN /\ wait_list' \in Seq(Task)
<1>1. wait_list \in Seq(Task)
  BY DEF Types, TypeOK
<1>2. halted' \in BOOLEAN
  BY DEF Wake
<1>3. wait_list' \in Seq(Task)
  BY <1>1 DEF Wake
<1>4. QED
  BY <1>2, <1>3

(* The end of the write that brelse asked for. *)
LEMMA BrelseReturnBInv ==
  ASSUME BInv, NEW t \in Task, BrelseReturn(t)
  PROVE  BInv'
<1>1. Types /\ Wake
  BY DEF BrelseReturn, BInv
<1>2. halted' \in BOOLEAN /\ wait_list' \in Seq(Task)
  BY <1>1, WakeTypes
<1>3. QED
  BY <1>2, WrittenBInv DEF BrelseReturn, history

(* The end of bread: the reference asked for becomes one that is held. *)
LEMMA BreadReturnBInv ==
  ASSUME BInv, NEW t \in Task, BreadReturn(t)
  PROVE  BInv'
<1>1. PICK b : b = io[t].buf
  OBVIOUS
<1>2. /\ ~halted /\ halted' = halted /\ pc[t] = "read_done"
      /\ buf' = [buf EXCEPT ![b].dirty = FALSE, ![b].valid = TRUE]
      /\ held' = [held EXCEPT ![t][b] = @ + 1]
      /\ pc' = [pc EXCEPT ![t] = "out"] /\ io' = [io EXCEPT ![t] = NoIo]
      /\ UNCHANGED <<buff_cnt, hash_table, free_list, wait_list, disk, version, latest, raced>>
  BY <1>1 DEF BreadReturn, history
<1>3. Types /\ UsedInv /\ RefsInv /\ RefsCounted
  BY DEF BInv
<1>4. b \in Buf
  BY <1>1, <1>2, <1>3 DEF Types, Transferring, Reading
<1>5. /\ buf' \in [Buf -> BufferRec]
      /\ buf'[b].block = buf[b].block /\ buf'[b].data = buf[b].data /\ buf'[b].count = buf[b].count
      /\ ~buf'[b].dirty /\ buf'[b].valid
      /\ \A a \in Buf : a # b => buf'[a] = buf[a]
  BY <1>2, <1>3, <1>4, FlagPoints
<1>6. /\ pc \in [Task -> {"out", "wait"} \cup Reading \cup Writing]
      /\ io \in [Task -> [buf : Buf \cup {0}, block : Block \cup {0}]]
      /\ held \in [Task -> [Buf -> Nat]]
  BY <1>3 DEF Types, TypeOK
<1>7. /\ pc'[t] = "out" /\ \A u \in Task : u # t => pc'[u] = pc[u] /\ io'[u] = io[u]
      /\ pc' \in [Task -> {"out", "wait"} \cup Reading \cup Writing]
      /\ io' \in [Task -> [buf : Buf \cup {0}, block : Block \cup {0}]]
  BY <1>2, <1>6 DEF NoIo
<1>8. /\ held' \in [Task -> [Buf -> Nat]] /\ held'[t][b] = held[t][b] + 1
      /\ \A u \in Task, a \in Buf : u # t \/ a # b => held'[u][a] = held[u][a]
  BY <1>2, <1>4, <1>6
<1>9. Types'
  <2>1. TypeOK'
    BY <1>2, <1>3, <1>5, <1>7, <1>8 DEF Types, TypeOK, BufferRec
  <2>2. QED
    BY <1>3, <1>7, <2>1 DEF Types, Transferring, Reading, Writing
<1>10. UsedInv' /\ OneBufferPerBlock'
  BY <1>2, <1>5, ListsFrame
<1>11. \A a \in Buf : Refs(a) = RefsOf(pc, io, held, a) /\ Refs(a)' = RefsOf(pc', io', held', a)
  BY DEF Refs, RefsOf, Asks
<1>12. pc'[t] \notin Reading /\ \A u \in Task, a \in Buf : u # t => (Asks(pc', io', u, a) <=> Asks(pc, io, u, a))
  BY <1>7 DEF Asks, Reading
<1>13. ASSUME NEW a \in Buf, a # b PROVE Refs(a)' = Refs(a)
  <2>1. ~Asks(pc', io', t, a) /\ ~Asks(pc, io, t, a)
    BY <1>1, <1>12, <1>13 DEF Asks
  <2>2. \A u \in Task : held'[u][a] = held[u][a] /\ (Asks(pc', io', u, a) <=> Asks(pc, io, u, a))
    BY <1>8, <1>12, <1>13, <2>1
  <2>3. QED
    BY <1>11, <2>2, RefsSame
<1>14. /\ IsFiniteSet(Refs(b)) <=> IsFiniteSet(Refs(b)')
       /\ IsFiniteSet(Refs(b)) => Cardinality(Refs(b)') = Cardinality(Refs(b))
  <2>1. PICK M : M = RefsOf(pc', io', held, b)
    OBVIOUS
  <2>2. Asks(pc, io, t, b) /\ ~Asks(pc', io', t, b) /\ held[t][b] \in Nat
    BY <1>1, <1>2, <1>4, <1>6, <1>12 DEF Asks, Reading
  <2>3. \E x : x \notin M /\ Refs(b) = M \cup {x}
    <3>1. \A u \in Task : u # t => held[u][b] = held[u][b] /\ (Asks(pc, io, u, b) <=> Asks(pc', io', u, b))
      BY <1>4, <1>12
    <3>2. \E x : x \notin RefsOf(pc', io', held, b)
                 /\ RefsOf(pc, io, held, b) = RefsOf(pc', io', held, b) \cup {x}
      <4>1. Grows(pc', io', held, pc, io, held, b, t)
        BY <2>2, <3>1 DEF Grows
      <4>2. QED
        BY <4>1, RefsGrow
    <3>3. QED
      BY <1>4, <1>11, <2>1, <3>2
  <2>4. \E x : x \notin M /\ Refs(b)' = M \cup {x}
    <3>1. Grows(pc', io', held, pc', io', held', b, t)
      BY <1>4, <1>8, <2>2 DEF Grows
    <3>2. \E x : x \notin RefsOf(pc', io', held, b)
                 /\ RefsOf(pc', io', held', b) = RefsOf(pc', io', held, b) \cup {x}
      BY <3>1, RefsGrow
    <3>3. QED
      BY <1>4, <1>11, <2>1, <3>2
  <2>5. QED
    BY <2>3, <2>4, OneMore
<1>15. \A a \in Buf : IsFiniteSet(Refs(a)) /\ buf[a].count = Cardinality(Refs(a))
  BY <1>2, <1>3 DEF RefsInv, RefsCounted
<1>16. \A a \in Buf : IsFiniteSet(Refs(a)') /\ buf'[a].count = Cardinality(Refs(a)')
  BY <1>5, <1>13, <1>14, <1>15
<1>17. RefsInv'
  <2>1. \A u \in Task, a \in Buf : held'[u][a] > 0 => buf'[a].valid
    <3>1. \A u \in Task, a \in Buf : held[u][a] > 0 => buf[a].valid
      BY <1>2, <1>3 DEF RefsInv
    <3>2. QED
      BY <1>5, <1>8, <3>1
  <2>2. \A u \in Task : pc'[u] \in Reading => buf'[io'[u].buf].block = io'[u].block
    <3>1. \A u \in Task : pc'[u] \in Reading =>
              pc[u] \in Reading /\ io'[u] = io[u] /\ io[u].buf \in Buf /\ buf[io[u].buf].block = io[u].block
      BY <1>2, <1>3, <1>7, <1>12 DEF RefsInv, Types, Transferring
    <3>2. QED
      BY <1>5, <3>1
  <2>3. QED
    BY <1>16, <2>1, <2>2 DEF RefsInv
<1>18. RefsCounted'
  <2>1. 1..buff_cnt \subseteq Buf
    BY <1>3, BufferAssumption DEF Types, TypeOK, Buf
  <2>2. \A a \in Buf : buf'[a].count = buf[a].count
    BY <1>5
  <2>3. ToSet(free_list) = {a \in 1..buff_cnt : buf[a].count = 0} /\ IsInjective(free_list)
    BY <1>2, <1>3 DEF RefsCounted
  <2>4. ToSet(free_list') = {a \in 1..buff_cnt' : buf'[a].count = 0} /\ IsInjective(free_list')
    BY <1>2, <2>1, <2>2, <2>3
  <2>5. QED
    BY <1>16, <2>4 DEF RefsCounted
<1>19. DataInv'
  BY ZenonT(60), <1>1, <1>2, <1>5, <1>7, ReturnData
<1>20. QED
  BY <1>9, <1>10, <1>17, <1>18, <1>19 DEF BInv

(* A buffer that a task holds is in use and read. *)
LEMMA HeldInUse ==
  ASSUME BInv, ~halted, NEW t \in Task, NEW b \in Buf, held[t][b] > 0
  PROVE  b \in 1..buff_cnt /\ buf[b].valid /\ buf[b].block \in Block
<1>1. held[t][b] # 0
  BY DEF BInv, Types, TypeOK
<1>2. b \in 1..buff_cnt
  BY <1>1, InUse DEF BInv
<1>3. QED
  BY <1>2 DEF BInv, RefsInv, UsedInv

(* A task modifies a buffer that it holds. *)
LEMMA ModifyBInv ==
  ASSUME BInv, NEW t \in Task, NEW b \in Buf, Modify(t, b)
  PROVE  BInv'
<1>1. PICK d : d = version + 1
  OBVIOUS
<1>2. /\ ~halted /\ halted' = halted /\ held[t][b] > 0 /\ version < MaxVersion
      /\ version' = d /\ latest' = [latest EXCEPT ![buf[b].block] = d]
      /\ raced' = (raced \/ Transfers(b) # {})
      /\ buf' = [buf EXCEPT ![b].data = d, ![b].dirty = TRUE]
      /\ UNCHANGED <<buff_cnt, hash_table, free_list, wait_list, disk, pc, io, held>>
  BY <1>1 DEF Modify, CanCall
<1>3. Types
  BY DEF BInv
<1>4. d \in 0..MaxVersion
  <2>1. version \in 0..MaxVersion
    BY <1>3 DEF Types, TypeOK
  <2>2. QED
    BY <1>1, <1>2, <2>1, BufferAssumption
<1>5. b \in 1..buff_cnt /\ buf[b].valid /\ buf[b].block \in Block
  BY <1>2, HeldInUse
<1>6. /\ buf' \in [Buf -> BufferRec]
      /\ buf'[b].block = buf[b].block /\ buf'[b].data = d /\ buf'[b].count = buf[b].count
      /\ buf'[b].valid = buf[b].valid /\ buf'[b].dirty = TRUE
      /\ \A a \in Buf : a # b => buf'[a] = buf[a]
  BY <1>2, <1>3, <1>4, ModifyPoints
<1>7. Types'
  <2>1. latest' \in [Block -> 0..MaxVersion]
    BY <1>2, <1>3, <1>4 DEF Types, TypeOK
  <2>2. raced' \in BOOLEAN
    BY <1>2
  <2>3. TypeOK'
    BY <1>2, <1>3, <1>4, <1>6, <2>1, <2>2 DEF Types, TypeOK, BufferRec
  <2>4. QED
    BY <1>2, <1>3, <2>3 DEF Types, Transferring
<1>8. \A a \in Buf : /\ buf'[a].block = buf[a].block /\ buf'[a].count = buf[a].count
                     /\ buf'[a].valid = buf[a].valid
  BY <1>6
<1>9. UsedInv' /\ OneBufferPerBlock'
  BY <1>2, <1>8, ListsFrame
<1>10. RefsInv' /\ RefsCounted'
  <2>1. \A u \in Task, a \in Buf : Asks(pc', io', u, a) <=> Asks(pc, io, u, a)
    BY <1>2
  <2>2. QED
    BY <1>2, <1>8, <2>1, RefsFrame
<1>11. DataInv'
  <2> SUFFICES ASSUME ~raced, Transfers(b) = {} PROVE (CleanInv /\ ReadInv /\ WriteInv /\ LatestInv)'
    BY <1>2 DEF DataInv
  <2>1. CleanInv /\ ReadInv /\ WriteInv /\ LatestInv
    BY <1>2 DEF BInv, DataInv
  <2>2. 1..buff_cnt \subseteq Buf
    BY <1>3, BufferAssumption DEF Types, TypeOK, Buf
  <2>3. \A u \in Task : Transferring(u) => io[u].buf # b
    BY DEF Transfers, Transferring
  <2>4. \A u \in Task : pc[u] \in Reading \/ pc[u] \in Writing => Transferring(u) /\ io[u].buf \in Buf
    BY <1>3 DEF Types, Transferring
  <2>5. CleanInv'
    BY <1>2, <1>5, <1>6, <2>1, <2>2 DEF CleanInv
  <2>6. ReadInv'
    BY <1>2, <1>6, <2>1, <2>3, <2>4 DEF ReadInv
  <2>7. WriteInv'
    BY <1>2, <1>6, <2>1, <2>3, <2>4 DEF WriteInv, Transferring
  <2>8. LatestInv'
    <3>1. ASSUME NEW m \in Block
          PROVE  /\ \A a \in 1..buff_cnt' : buf'[a].block = m /\ buf'[a].valid => buf'[a].data = latest'[m]
                 /\ (\A a \in 1..buff_cnt' : buf'[a].block = m => ~buf'[a].valid) => disk'[m] = latest'[m]
      <4>1. latest'[m] = IF m = buf[b].block THEN d ELSE latest[m]
        BY <1>2, <1>3 DEF Types, TypeOK
      <4>2. \A a \in 1..buff_cnt : buf[a].block = buf[b].block => a = b
        BY <1>2, <1>5 DEF BInv, OneBufferPerBlock
      <4>3. /\ \A a \in 1..buff_cnt : buf[a].block = m /\ buf[a].valid => buf[a].data = latest[m]
            /\ (\A a \in 1..buff_cnt : buf[a].block = m => ~buf[a].valid) => disk[m] = latest[m]
        BY <2>1 DEF LatestInv
      <4>4. CASE m = buf[b].block
        BY <1>2, <1>5, <1>6, <2>2, <4>1, <4>2, <4>4
      <4>5. CASE m # buf[b].block
        <5>1. \A a \in 1..buff_cnt : buf'[a].block = m => a # b /\ buf'[a] = buf[a]
          BY <1>6, <2>2, <4>5
        <5>2. \A a \in 1..buff_cnt : buf[a].block = m => buf'[a] = buf[a]
          BY <1>6, <2>2, <4>5
        <5>3. QED
          BY <1>2, <4>1, <4>3, <4>5, <5>1, <5>2
      <4>6. QED
        BY <4>4, <4>5
    <3>2. QED
      BY <3>1 DEF LatestInv
  <2>9. QED
    BY <2>5, <2>6, <2>7, <2>8
<1>12. QED
  BY <1>7, <1>9, <1>10, <1>11 DEF BInv

(* bwrite asks the device. *)
LEMMA BwriteBInv ==
  ASSUME BInv, NEW t \in Task, NEW b \in Buf, Bwrite(t, b)
  PROVE  BInv'
<1>1. /\ ~halted /\ halted' = halted /\ pc[t] = "out" /\ held[t][b] > 0 /\ buf[b].dirty
      /\ pc' = [pc EXCEPT ![t] = "write"]
      /\ io' = [io EXCEPT ![t] = [buf |-> b, block |-> buf[b].block]]
      /\ raced' = (raced \/ Transfers(b) # {})
      /\ UNCHANGED <<buf, buff_cnt, hash_table, free_list, wait_list, disk, held, version, latest>>
  BY DEF Bwrite, CanCall
<1>2. Types
  BY DEF BInv
<1>3. b \in 1..buff_cnt /\ buf[b].block \in Block
  BY <1>1, HeldInUse
<1>4. /\ pc \in [Task -> {"out", "wait"} \cup Reading \cup Writing]
      /\ io \in [Task -> [buf : Buf \cup {0}, block : Block \cup {0}]]
  BY <1>2 DEF Types, TypeOK
<1>5. /\ pc'[t] = "write" /\ io'[t] = [buf |-> b, block |-> buf[b].block]
      /\ \A u \in Task : u # t => pc'[u] = pc[u] /\ io'[u] = io[u]
  BY <1>1, <1>4
<1>6. /\ pc' \in [Task -> {"out", "wait"} \cup Reading \cup Writing]
      /\ io' \in [Task -> [buf : Buf \cup {0}, block : Block \cup {0}]]
  BY <1>1, <1>3, <1>4 DEF Writing
<1>7. Types'
  <2>1. raced' \in BOOLEAN
    BY <1>1
  <2>2. TypeOK'
    BY <1>1, <1>2, <1>6, <2>1 DEF Types, TypeOK
  <2>3. QED
    BY <1>2, <1>3, <1>5, <2>2 DEF Types, Transferring
<1>8. UsedInv' /\ OneBufferPerBlock'
  BY <1>1, ListsFrame
<1>9. RefsInv' /\ RefsCounted'
  <2>1. pc[t] \notin Reading /\ pc'[t] \notin Reading
    BY <1>1, <1>5 DEF Reading
  <2>2. \A u \in Task, a \in Buf : Asks(pc', io', u, a) <=> Asks(pc, io, u, a)
    BY <1>5, <2>1 DEF Asks
  <2>3. \A u \in Task : pc'[u] \in Reading => pc[u] \in Reading /\ io'[u] = io[u]
    BY <1>5, <2>1
  <2>4. QED
    BY <1>1, <2>2, <2>3, RefsFrame
<1>10. DataInv'
  <2>1. \A a \in Buf : SameContents(a)
    BY <1>1 DEF SameContents
  <2>2. QED
    BY <1>1, <1>3, <2>1, StartWriteData
<1>11. QED
  BY <1>7, <1>8, <1>9, <1>10 DEF BInv

(* The device fills the buffer of a reader. *)
LEMMA TransferReadBInv ==
  ASSUME BInv, NEW t \in Task, ~halted, pc[t] = "read",
         buf' = [buf EXCEPT ![io[t].buf].data = disk[io[t].block]],
         pc' = [pc EXCEPT ![t] = "read_done"],
         UNCHANGED <<buff_cnt, hash_table, free_list, wait_list, disk, io, held, halted, version, latest, raced>>
  PROVE  BInv'
<1>1. PICK b, k : b = io[t].buf /\ k = io[t].block
  OBVIOUS
<1>2. Types
  BY DEF BInv
<1>3. b \in Buf /\ k \in Block /\ buf[b].block = k
  BY <1>1, <1>2 DEF Types, Transferring, Reading, BInv, RefsInv
<1>4. disk[k] \in 0..MaxVersion
  BY <1>2, <1>3 DEF Types, TypeOK
<1>5. PICK d \in 0..MaxVersion : d = disk[k]
  BY <1>4
<1>6. /\ buf' \in [Buf -> BufferRec]
      /\ buf'[b].block = buf[b].block /\ buf'[b].data = d /\ buf'[b].count = buf[b].count
      /\ buf'[b].valid = buf[b].valid /\ buf'[b].dirty = buf[b].dirty
      /\ \A a \in Buf : a # b => buf'[a] = buf[a]
  BY <1>1, <1>2, <1>3, <1>5, FillPoints
<1>7. /\ pc' \in [Task -> {"out", "wait"} \cup Reading \cup Writing]
      /\ pc'[t] = "read_done" /\ \A u \in Task : u # t => pc'[u] = pc[u]
  BY <1>2 DEF Types, TypeOK, Reading
<1>8. \A u \in Task : /\ pc'[u] \in Reading <=> pc[u] \in Reading
                      /\ pc'[u] \in Writing <=> pc[u] \in Writing
                      /\ Transferring(u)' <=> Transferring(u)
  BY <1>7 DEF Reading, Writing, Transferring
<1>9. Types'
  <2>1. TypeOK'
    BY <1>2, <1>6, <1>7 DEF Types, TypeOK, BufferRec
  <2>2. QED
    BY <1>2, <1>8, <2>1 DEF Types
<1>10. \A a \in Buf : /\ buf'[a].block = buf[a].block /\ buf'[a].count = buf[a].count
                      /\ buf'[a].valid = buf[a].valid /\ buf'[a].dirty = buf[a].dirty
  BY <1>6
<1>11. UsedInv' /\ OneBufferPerBlock'
  BY <1>10, ListsFrame
<1>12. RefsInv' /\ RefsCounted'
  <2>1. \A u \in Task, a \in Buf : Asks(pc', io', u, a) <=> Asks(pc, io, u, a)
    BY <1>8 DEF Asks
  <2>2. QED
    BY <1>8, <1>10, <2>1, RefsFrame
<1>13. DataInv'
  <2> SUFFICES ASSUME ~raced PROVE (CleanInv /\ ReadInv /\ WriteInv /\ LatestInv)'
    BY DEF DataInv
  <2>1. CleanInv /\ ReadInv /\ WriteInv /\ LatestInv
    BY DEF BInv, DataInv
  <2>2. 1..buff_cnt \subseteq Buf
    BY <1>2, BufferAssumption DEF Types, TypeOK, Buf
  <2>3. b \in 1..buff_cnt /\ ~buf[b].dirty
    BY <1>1, <2>1 DEF ReadInv, Reading
  <2>4. \A a \in Buf : a # b \/ buf[a].valid => buf'[a].data = buf[a].data
    BY ZenonT(60), <1>3, <1>5, <1>6, <2>1, <2>3 DEF CleanInv
  <2>5. CleanInv'
    BY <1>10, <2>1, <2>2, <2>4 DEF CleanInv
  <2>6. ReadInv'
    <3>1. ASSUME NEW u \in Task, pc'[u] \in Reading
          PROVE  /\ io'[u].buf \in 1..buff_cnt' /\ ~buf'[io'[u].buf].dirty
                 /\ pc'[u] = "read_done" => buf'[io'[u].buf].data = disk'[io'[u].block]
      <4>1. /\ pc[u] \in Reading /\ io[u].buf \in 1..buff_cnt /\ io[u].buf \in Buf /\ ~buf[io[u].buf].dirty
            /\ buf[io[u].buf].block = io[u].block
            /\ pc[u] = "read_done" => buf[io[u].buf].data = disk[io[u].block]
        BY <1>8, <2>1, <2>2, <3>1 DEF ReadInv, BInv, RefsInv
      <4>2. CASE io[u].buf = b
        BY <1>3, <1>5, <1>6, <4>1, <4>2
      <4>3. CASE io[u].buf # b
        <5>1. u # t
          BY <1>1, <4>3
        <5>2. QED
          BY <1>6, <1>7, <4>1, <4>3, <5>1
      <4>4. QED
        BY <4>2, <4>3
    <3>2. QED
      BY <3>1 DEF ReadInv
  <2>7. WriteInv'
    <3>1. ASSUME NEW u \in Task, pc'[u] \in Writing
          PROVE  /\ io'[u].buf \in 1..buff_cnt' /\ buf'[io'[u].buf].dirty
                 /\ buf'[io'[u].buf].block = io'[u].block
                 /\ pc'[u] \in {"write_done", "release_done"} => buf'[io'[u].buf].data = disk'[io'[u].block]
                 /\ \A v \in Task : v # u /\ Transferring(v)' => io'[v].buf # io'[u].buf
      <4>1. pc[u] \in Writing /\ u # t
        BY <1>8, <3>1 DEF Writing
      <4>2. io[u].buf \in 1..buff_cnt /\ io[u].buf \in Buf /\ io[u].buf # b
        BY <2>1, <2>2, <2>3, <4>1 DEF WriteInv
      <4>3. /\ buf[io[u].buf].dirty /\ buf[io[u].buf].block = io[u].block
            /\ pc[u] \in {"write_done", "release_done"} => buf[io[u].buf].data = disk[io[u].block]
            /\ \A v \in Task : v # u /\ Transferring(v) => io[v].buf # io[u].buf
        BY <2>1, <4>1 DEF WriteInv
      <4>4. buf'[io[u].buf] = buf[io[u].buf] /\ pc'[u] = pc[u]
        BY <1>6, <1>7, <4>1, <4>2
      <4>5. \A v \in Task : v # u /\ Transferring(v)' => io'[v].buf # io'[u].buf
        BY <1>8, <4>3
      <4>6. QED
        BY <4>2, <4>3, <4>4, <4>5
    <3>2. QED
      BY <3>1 DEF WriteInv
  <2>8. LatestInv'
    BY <1>10, <2>1, <2>2, <2>4 DEF LatestInv
  <2>9. QED
    BY <2>5, <2>6, <2>7, <2>8
<1>14. QED
  BY <1>9, <1>11, <1>12, <1>13 DEF BInv

(* The device stores the buffer of a writer. *)
LEMMA TransferWriteBInv ==
  ASSUME BInv, NEW t \in Task, ~halted, pc[t] \in {"write", "release"},
         disk' = [disk EXCEPT ![io[t].block] = buf[io[t].buf].data],
         NEW w, w = (IF pc[t] = "write" THEN "write_done" ELSE "release_done"),
         pc' = [pc EXCEPT ![t] = w],
         UNCHANGED <<buf, buff_cnt, hash_table, free_list, wait_list, io, held, halted, version, latest, raced>>
  PROVE  BInv'
<1>1. PICK b, k : b = io[t].buf /\ k = io[t].block
  OBVIOUS
<1>2. Types
  BY DEF BInv
<1>3. b \in Buf /\ k \in Block
  BY <1>1, <1>2 DEF Types, Transferring, Writing
<1>4. PICK d \in 0..MaxVersion : d = buf[b].data
  BY <1>2, <1>3 DEF Types, TypeOK
<1>5. /\ disk' \in [Block -> 0..MaxVersion]
      /\ disk'[k] = d /\ \A m \in Block : m # k => disk'[m] = disk[m]
  BY <1>1, <1>2, <1>3, <1>4 DEF Types, TypeOK
<1>6. w \in {"write_done", "release_done"} /\ w \in Writing
  BY DEF Writing
<1>7. /\ pc' \in [Task -> {"out", "wait"} \cup Reading \cup Writing]
      /\ pc'[t] = w /\ \A u \in Task : u # t => pc'[u] = pc[u]
  BY <1>2, <1>6 DEF Types, TypeOK
<1>8. \A u \in Task : /\ pc'[u] \in Reading <=> pc[u] \in Reading
                      /\ pc'[u] \in Writing <=> pc[u] \in Writing
                      /\ Transferring(u)' <=> Transferring(u)
  BY <1>6, <1>7 DEF Reading, Writing, Transferring
<1>9. Types'
  <2>1. TypeOK'
    BY <1>2, <1>5, <1>7 DEF Types, TypeOK, BufferRec
  <2>2. QED
    BY <1>2, <1>8, <2>1 DEF Types
<1>10. UsedInv' /\ OneBufferPerBlock'
  BY ListsFrame
<1>11. RefsInv' /\ RefsCounted'
  <2>1. \A u \in Task, a \in Buf : Asks(pc', io', u, a) <=> Asks(pc, io, u, a)
    BY <1>8 DEF Asks
  <2>2. QED
    BY <1>8, <2>1, RefsFrame
<1>12. DataInv'
  <2> SUFFICES ASSUME ~raced PROVE (CleanInv /\ ReadInv /\ WriteInv /\ LatestInv)'
    BY DEF DataInv
  <2>1. CleanInv /\ ReadInv /\ WriteInv /\ LatestInv
    BY DEF BInv, DataInv
  <2>2. /\ b \in 1..buff_cnt /\ buf[b].dirty /\ buf[b].block = k
        /\ \A u \in Task : u # t /\ Transferring(u) => io[u].buf # b
    BY <1>1, <2>1 DEF WriteInv, Writing
  <2>3. \A a \in 1..buff_cnt : a # b => buf[a].block # k /\ buf[a].block \in Block
    BY <2>2 DEF BInv, OneBufferPerBlock, UsedInv
  <2>4. CleanInv'
    BY <1>5, <2>1, <2>2, <2>3 DEF CleanInv
  <2>5. ReadInv'
    <3>1. ASSUME NEW u \in Task, pc'[u] \in Reading
          PROVE  /\ io'[u].buf \in 1..buff_cnt' /\ ~buf'[io'[u].buf].dirty
                 /\ pc'[u] = "read_done" => buf'[io'[u].buf].data = disk'[io'[u].block]
      <4>1. pc[u] \in Reading /\ io[u].buf \in 1..buff_cnt /\ buf[io[u].buf].block = io[u].block
        BY <1>8, <2>1, <3>1 DEF ReadInv, BInv, RefsInv
      <4>2. io[u].buf # b /\ u # t
        BY <2>1, <2>2, <4>1 DEF ReadInv, Reading
      <4>3. io[u].block \in Block /\ io[u].block # k
        BY <2>3, <4>1, <4>2
      <4>4. QED
        BY <1>5, <1>7, <2>1, <4>1, <4>2, <4>3 DEF ReadInv
    <3>2. QED
      BY <3>1 DEF ReadInv
  <2>6. WriteInv'
    <3>1. ASSUME NEW u \in Task, pc'[u] \in Writing
          PROVE  /\ io'[u].buf \in 1..buff_cnt' /\ buf'[io'[u].buf].dirty
                 /\ buf'[io'[u].buf].block = io'[u].block
                 /\ pc'[u] \in {"write_done", "release_done"} => buf'[io'[u].buf].data = disk'[io'[u].block]
                 /\ \A v \in Task : v # u /\ Transferring(v)' => io'[v].buf # io'[u].buf
      <4>1. /\ pc[u] \in Writing /\ io[u].buf \in 1..buff_cnt /\ buf[io[u].buf].dirty
            /\ buf[io[u].buf].block = io[u].block
            /\ \A v \in Task : v # u /\ Transferring(v) => io[v].buf # io[u].buf
        BY <1>8, <2>1, <3>1 DEF WriteInv
      <4>2. \A v \in Task : v # u /\ Transferring(v)' => io'[v].buf # io'[u].buf
        BY <1>8, <4>1
      <4>3. pc'[u] \in {"write_done", "release_done"} => buf'[io'[u].buf].data = disk'[io'[u].block]
        <5>1. CASE u = t
          BY <1>1, <1>4, <1>5, <5>1
        <5>2. CASE u # t
          <6>1. io[u].buf # b
            BY <2>2, <4>1, <5>2 DEF Transferring
          <6>2. io[u].block \in Block /\ io[u].block # k
            BY <2>3, <4>1, <6>1
          <6>3. QED
            BY <1>5, <1>7, <2>1, <4>1, <5>2, <6>2 DEF WriteInv
        <5>3. QED
          BY <5>1, <5>2
      <4>4. QED
        BY <4>1, <4>2, <4>3
    <3>2. QED
      BY <3>1 DEF WriteInv
  <2>7. LatestInv'
    <3>1. buf[b].valid
      BY <2>1, <2>2 DEF CleanInv
    <3>2. QED
      BY <1>5, <2>1, <2>2, <3>1 DEF LatestInv
  <2>8. QED
    BY <2>4, <2>5, <2>6, <2>7
<1>13. QED
  BY <1>9, <1>10, <1>11, <1>12 DEF BInv

(* The device serves a request. *)
LEMMA TransferBInv ==
  ASSUME BInv, NEW t \in Task, Transfer(t)
  PROVE  BInv'
<1>1. ~halted /\ UNCHANGED <<buff_cnt, hash_table, free_list, wait_list, io, held, halted, version, latest, raced>>
  BY DEF Transfer, history
<1>2. CASE /\ pc[t] = "read" /\ disk' = disk
           /\ buf' = [buf EXCEPT ![io[t].buf].data = disk[io[t].block]]
           /\ pc' = [pc EXCEPT ![t] = "read_done"]
  BY <1>1, <1>2, TransferReadBInv
<1>3. CASE /\ pc[t] \in {"write", "release"} /\ buf' = buf
           /\ disk' = [disk EXCEPT ![io[t].block] = buf[io[t].buf].data]
           /\ pc' = [pc EXCEPT ![t] = IF @ = "write" THEN "write_done" ELSE "release_done"]
  <2>1. PICK w : w = (IF pc[t] = "write" THEN "write_done" ELSE "release_done")
    OBVIOUS
  <2>2. pc' = [pc EXCEPT ![t] = w]
    BY <1>3, <2>1
  <2>3. QED
    BY <1>1, <1>3, <2>1, <2>2, TransferWriteBInv
<1>4. QED
  BY <1>2, <1>3 DEF Transfer

(* What brelse takes from the holder. *)
LEMMA ReleaseHeld ==
  ASSUME Types, NEW t \in Task, NEW b \in Buf, held[t][b] > 0,
         held' = [held EXCEPT ![t][b] = @ - 1]
  PROVE  /\ held' \in [Task -> [Buf -> Nat]] /\ held[t][b] = held'[t][b] + 1
         /\ \A u \in Task, a \in Buf : u # t \/ a # b => held'[u][a] = held[u][a]
<1>1. held \in [Task -> [Buf -> Nat]]
  BY DEF Types, TypeOK
<1>2. PICK h \in Nat : held[t][b] = h + 1
  <2>1. PICK g \in Nat : g = held[t][b]
    BY <1>1
  <2>2. g - 1 \in Nat /\ g = (g - 1) + 1
    BY <2>1
  <2>3. QED
    BY <2>1, <2>2
<1>3. held' = [held EXCEPT ![t][b] = h]
  BY <1>1, <1>2
<1>4. QED
  BY <1>1, <1>2, <1>3

(* brelse gives a reference back. *)
LEMMA ReleaseRefs ==
  ASSUME BInv, ~halted, NEW t \in Task, NEW b \in Buf,
         buf[b].count = buf'[b].count + 1, buf'[b].count \in Nat,
         \A a \in Buf : SameContents(a), \A a \in Buf : a # b => buf'[a] = buf[a],
         held' \in [Task -> [Buf -> Nat]], held[t][b] = held'[t][b] + 1,
         \A u \in Task, a \in Buf : u # t \/ a # b => held'[u][a] = held[u][a],
         \A u \in Task, a \in Buf : Asks(pc', io', u, a) <=> Asks(pc, io, u, a),
         \A u \in Task : pc'[u] \in Reading => pc[u] \in Reading /\ io'[u] = io[u]
  PROVE  RefsInv' /\ \A a \in Buf : buf'[a].count = Cardinality(Refs(a)')
<1>1. held'[t][b] \in Nat
  OBVIOUS
<1>2. \A a \in Buf : Refs(a) = RefsOf(pc, io, held, a) /\ Refs(a)' = RefsOf(pc', io', held', a)
  BY DEF Refs, RefsOf, Asks
<1>3. ASSUME NEW a \in Buf, a # b PROVE Refs(a)' = Refs(a)
  <2>1. \A u \in Task : held'[u][a] = held[u][a] /\ (Asks(pc', io', u, a) <=> Asks(pc, io, u, a))
    BY <1>3
  <2>2. QED
    BY <1>2, <2>1, RefsSame
<1>4. \E x : x \notin Refs(b)' /\ Refs(b) = Refs(b)' \cup {x}
  <2>1. \A u \in Task : u # t => held[u][b] = held'[u][b] /\ (Asks(pc, io, u, b) <=> Asks(pc', io', u, b))
    OBVIOUS
  <2>2. \/ held[t][b] = held'[t][b] + 1 /\ (Asks(pc, io, t, b) <=> Asks(pc', io', t, b))
        \/ held[t][b] = held'[t][b] /\ Asks(pc, io, t, b) /\ ~Asks(pc', io', t, b)
    OBVIOUS
  <2>4. \E x : x \notin RefsOf(pc', io', held', b)
               /\ RefsOf(pc, io, held, b) = RefsOf(pc', io', held', b) \cup {x}
    <3>1. Grows(pc', io', held', pc, io, held, b, t)
      BY <1>1, <2>1, <2>2 DEF Grows
    <3>2. QED
      BY <3>1, RefsGrow
  <2>5. QED
    BY <1>2, <2>4
<1>5. \A a \in Buf : IsFiniteSet(Refs(a)) /\ buf[a].count = Cardinality(Refs(a))
  BY DEF BInv, RefsInv, RefsCounted
<1>6. \A a \in Buf : IsFiniteSet(Refs(a)') /\ buf'[a].count = Cardinality(Refs(a)')
  <2>1. /\ IsFiniteSet(Refs(b)') /\ Cardinality(Refs(b)') \in Nat
        /\ Cardinality(Refs(b)) = Cardinality(Refs(b)') + 1
    BY <1>4, <1>5, OneMore
  <2>2. buf'[b].count = Cardinality(Refs(b)')
    <3>1. PICK m \in Nat : m = buf'[b].count
      OBVIOUS
    <3>2. PICK n \in Nat : n = Cardinality(Refs(b)')
      BY <2>1
    <3>3. m + 1 = n + 1
      BY <1>5, <2>1, <3>1, <3>2
    <3>4. QED
      BY SMTT(30), <3>1, <3>2, <3>3
  <2>3. QED
    BY <1>3, <1>5, <2>1, <2>2
<1>7. RefsInv'
  <2>1. \A u \in Task, a \in Buf : held'[u][a] > 0 => buf'[a].valid
    <3>1. \A u \in Task, a \in Buf : held[u][a] > 0 => buf[a].valid
      BY DEF BInv, RefsInv
    <3>2. ASSUME NEW u \in Task, NEW a \in Buf, held'[u][a] > 0 PROVE buf[a].valid
      <4>1. held[u][a] > 0
        <5>1. held \in [Task -> [Buf -> Nat]]
          BY DEF BInv, Types, TypeOK
        <5>2. CASE u = t /\ a = b
          BY <1>1, <5>2
        <5>3. QED
          BY <3>2, <5>1, <5>2
      <4>2. QED
        BY <3>1, <4>1
    <3>3. QED
      BY <3>2 DEF SameContents
  <2>2. \A u \in Task : pc'[u] \in Reading => buf'[io'[u].buf].block = io'[u].block
    <3>1. \A u \in Task : pc[u] \in Reading => io[u].buf \in Buf /\ buf[io[u].buf].block = io[u].block
      BY DEF BInv, RefsInv, Types, Transferring
    <3>2. QED
      BY <3>1 DEF SameContents
  <2>3. QED
    BY <1>6, <2>1, <2>2 DEF RefsInv
<1>8. QED
  BY <1>6, <1>7

(* brelse of a buffer that others still use. *)
LEMMA BrelseSharedBInv ==
  ASSUME BInv, NEW t \in Task, NEW b \in Buf, BrelseShared(t, b)
  PROVE  BInv'
<1>1. Types
  BY DEF BInv
<1>2. PICK n \in Nat : n = buf[b].count
  BY <1>1 DEF Types, TypeOK
<1>3. n > 1
  BY <1>2 DEF BrelseShared
<1>4. PICK c \in Nat : c = n - 1 /\ n = c + 1 /\ c # 0
  BY <1>3
<1>5. /\ ~halted /\ held[t][b] > 0 /\ buf' = [buf EXCEPT ![b].count = c]
      /\ held' = [held EXCEPT ![t][b] = @ - 1]
      /\ UNCHANGED <<buff_cnt, hash_table, free_list, wait_list, disk, pc, io, halted, version, latest, raced>>
  BY <1>2, <1>4 DEF BrelseShared, CanCall, history
<1>6. /\ buf' \in [Buf -> BufferRec] /\ buf'[b].count = c
      /\ \A a \in Buf : SameContents(a)
      /\ \A a \in Buf : a # b => buf'[a] = buf[a]
  BY <1>1, <1>5, CountPoints
<1>7. b \in 1..buff_cnt
  BY <1>5, HeldInUse
<1>8. /\ held' \in [Task -> [Buf -> Nat]]
      /\ RefsInv' /\ \A a \in Buf : buf'[a].count = Cardinality(Refs(a)')
  <2>1. \A u \in Task, a \in Buf : Asks(pc', io', u, a) <=> Asks(pc, io, u, a)
    BY <1>5
  <2>2. /\ held' \in [Task -> [Buf -> Nat]] /\ held[t][b] = held'[t][b] + 1
        /\ \A u \in Task, a \in Buf : u # t \/ a # b => held'[u][a] = held[u][a]
    BY ZenonT(60), <1>1, <1>5, ReleaseHeld
  <2>3. buf[b].count = buf'[b].count + 1 /\ buf'[b].count \in Nat
    BY <1>2, <1>4, <1>6
  <2>4. \A u \in Task : pc'[u] \in Reading => pc[u] \in Reading /\ io'[u] = io[u]
    BY <1>5
  <2>5. RefsInv' /\ \A a \in Buf : buf'[a].count = Cardinality(Refs(a)')
    <3>1. ~halted /\ (\A a \in Buf : SameContents(a)) /\ (\A a \in Buf : a # b => buf'[a] = buf[a])
      BY <1>5, <1>6
    <3>2. QED
      BY <2>1, <2>2, <2>3, <2>4, <3>1, ReleaseRefs
  <2>6. QED
    BY <2>2, <2>5
<1>9. Types'
  <2>1. TypeOK'
    BY <1>1, <1>5, <1>6, <1>8 DEF Types, TypeOK, BufferRec
  <2>2. QED
    BY <1>1, <1>5, <2>1 DEF Types, Transferring
<1>10. 1..buff_cnt \subseteq Buf /\ buff_cnt \in Nat
  BY <1>1, BufferAssumption DEF Types, TypeOK, Buf
<1>11. UsedInv' /\ OneBufferPerBlock'
  <2>1. \A a \in Buf : buf'[a].block = buf[a].block
    BY <1>6 DEF SameContents
  <2>2. \A a \in Buf : a > buff_cnt => buf'[a].count = buf[a].count
    BY <1>6, <1>7, <1>10
  <2>3. QED
    BY <1>5, <2>1, <2>2, ListsFrame
<1>12. RefsCounted'
  <2>1. ToSet(free_list) = {a \in 1..buff_cnt : buf[a].count = 0} /\ IsInjective(free_list)
    BY <1>5 DEF BInv, RefsCounted
  <2>2. \A a \in 1..buff_cnt : buf'[a].count = 0 <=> buf[a].count = 0
    BY <1>2, <1>4, <1>6, <1>10
  <2>3. ToSet(free_list') = {a \in 1..buff_cnt' : buf'[a].count = 0} /\ IsInjective(free_list')
    BY <1>5, <2>1, <2>2
  <2>4. QED
    BY <1>8, <2>3 DEF RefsCounted
<1>13. DataInv'
  BY <1>5, <1>6, DataFrame
<1>14. QED
  BY <1>8, <1>9, <1>11, <1>12, <1>13 DEF BInv

(* brelse of the last reference: the buffer goes to the free list. *)
LEMMA BrelseLastBInv ==
  ASSUME BInv, NEW t \in Task, NEW b \in Buf, BrelseLast(t, b)
  PROVE  BInv'
<1>1. Types
  BY DEF BInv
<1>2. /\ ~halted /\ pc[t] = "out" /\ held[t][b] > 0 /\ buf[b].count = 1
      /\ buf' = [buf EXCEPT ![b].count = 0] /\ held' = [held EXCEPT ![t][b] = @ - 1]
      /\ free_list' = <<b>> \o free_list
      /\ UNCHANGED <<buff_cnt, hash_table, disk, version, latest>>
  BY DEF BrelseLast, CanCall
<1>3. /\ buf' \in [Buf -> BufferRec] /\ buf'[b].count = 0
      /\ \A a \in Buf : SameContents(a)
      /\ \A a \in Buf : a # b => buf'[a] = buf[a]
  BY <1>1, <1>2, CountPoints
<1>4. b \in 1..buff_cnt /\ buf[b].block \in Block
  BY <1>2, HeldInUse
<1>5. 1..buff_cnt \subseteq Buf /\ buff_cnt \in Nat
  BY <1>1, BufferAssumption DEF Types, TypeOK, Buf
<1>6. /\ ToSet(free_list) = {a \in 1..buff_cnt : buf[a].count = 0} /\ IsInjective(free_list)
      /\ free_list \in Seq(Buf)
  BY <1>1, <1>2 DEF BInv, RefsCounted, Types, TypeOK
<1>7. free_list' \in Seq(Buf) /\ IsInjective(free_list') /\ ToSet(free_list') = ToSet(free_list) \cup {b}
  <2>1. b \notin ToSet(free_list)
    BY <1>2, <1>6
  <2>2. PICK r : r = free_list'
    OBVIOUS
  <2>3. QED
    BY <1>2, <1>6, <2>1, <2>2, PushElements
<1>8. /\ pc \in [Task -> {"out", "wait"} \cup Reading \cup Writing]
      /\ io \in [Task -> [buf : Buf \cup {0}, block : Block \cup {0}]]
  BY <1>1 DEF Types, TypeOK
<1>9. /\ pc' \in [Task -> {"out", "wait"} \cup Reading \cup Writing]
      /\ io' \in [Task -> [buf : Buf \cup {0}, block : Block \cup {0}]]
      /\ \A u \in Task : u # t => pc'[u] = pc[u] /\ io'[u] = io[u]
      /\ pc'[t] \in {"out", "release"} /\ (pc'[t] = "release" => io'[t].buf = b /\ io'[t].block = buf[b].block)
      /\ raced' \in BOOLEAN /\ halted' \in BOOLEAN /\ wait_list' \in Seq(Task)
      /\ ~halted' => DataInv'
  <2>1. CASE buf[b].dirty
    <3>1. /\ pc' = [pc EXCEPT ![t] = "release"]
          /\ io' = [io EXCEPT ![t] = [buf |-> b, block |-> buf[b].block]]
          /\ raced' = (raced \/ Transfers(b) # {}) /\ UNCHANGED <<wait_list, halted>>
      BY <2>1 DEF BrelseLast
    <3>2. pc' \in [Task -> {"out", "wait"} \cup Reading \cup Writing]
      BY <1>8, <3>1 DEF Writing
    <3>3. io' \in [Task -> [buf : Buf \cup {0}, block : Block \cup {0}]]
      BY <1>4, <1>8, <3>1
    <3>4. DataInv'
      BY <1>2, <1>3, <1>4, <2>1, <3>1, StartWriteData
    <3>5. raced' \in BOOLEAN /\ halted' \in BOOLEAN /\ wait_list' \in Seq(Task)
      BY <1>1, <3>1 DEF Types, TypeOK
    <3>6. QED
      BY <1>8, <3>1, <3>2, <3>3, <3>4, <3>5
  <2>2. CASE ~buf[b].dirty
    <3>1. Wake /\ UNCHANGED <<pc, io, raced>>
      BY <2>2 DEF BrelseLast
    <3>2. halted' \in BOOLEAN /\ wait_list' \in Seq(Task)
      BY <1>1, <3>1, WakeTypes
    <3>3. DataInv'
      BY <1>2, <1>3, <3>1, DataFrame
    <3>4. raced' \in BOOLEAN
      BY <1>1, <3>1 DEF Types, TypeOK
    <3>5. QED
      BY <1>2, <1>8, <3>1, <3>2, <3>3, <3>4
  <2>3. QED
    BY <2>1, <2>2
<1>10. pc[t] \notin Reading /\ pc'[t] \notin Reading
  BY <1>2, <1>9 DEF Reading
<1>11. /\ held' \in [Task -> [Buf -> Nat]]
       /\ RefsInv' /\ \A a \in Buf : buf'[a].count = Cardinality(Refs(a)')
  <2>1. \A u \in Task, a \in Buf : Asks(pc', io', u, a) <=> Asks(pc, io, u, a)
    BY <1>9, <1>10 DEF Asks
  <2>2. \A u \in Task : pc'[u] \in Reading => pc[u] \in Reading /\ io'[u] = io[u]
    BY <1>9, <1>10
  <2>3. /\ held' \in [Task -> [Buf -> Nat]] /\ held[t][b] = held'[t][b] + 1
        /\ \A u \in Task, a \in Buf : u # t \/ a # b => held'[u][a] = held[u][a]
    BY ZenonT(60), <1>1, <1>2, ReleaseHeld
  <2>4. buf[b].count = buf'[b].count + 1 /\ buf'[b].count \in Nat
    BY <1>2, <1>3
  <2>5. RefsInv' /\ \A a \in Buf : buf'[a].count = Cardinality(Refs(a)')
    <3>1. ~halted /\ (\A a \in Buf : SameContents(a)) /\ (\A a \in Buf : a # b => buf'[a] = buf[a])
      BY <1>2, <1>3
    <3>2. QED
      BY <2>1, <2>2, <2>3, <2>4, <3>1, ReleaseRefs
  <2>6. QED
    BY <2>3, <2>5
<1>12. Types'
  <2>1. TypeOK'
    BY <1>1, <1>2, <1>3, <1>7, <1>9, <1>11 DEF Types, TypeOK, BufferRec
  <2>2. \A u \in Task : Transferring(u)' => io'[u].buf \in Buf /\ io'[u].block \in Block
    <3>1. pc'[t] \in Reading \cup Writing => pc'[t] = "release"
      BY <1>9, <1>10 DEF Writing
    <3>2. QED
      BY <1>1, <1>4, <1>9, <3>1 DEF Types, Transferring
  <2>3. QED
    BY <2>1, <2>2 DEF Types
<1>13. UsedInv' /\ OneBufferPerBlock'
  <2>1. \A a \in Buf : buf'[a].block = buf[a].block
    BY <1>3 DEF SameContents
  <2>2. \A a \in Buf : a > buff_cnt => buf'[a].count = buf[a].count
    BY <1>3, <1>4, <1>5
  <2>3. QED
    BY <1>2, <2>1, <2>2, ListsFrame
<1>14. RefsCounted'
  <2>1. \A a : a \in ToSet(free_list') <=> a \in 1..buff_cnt' /\ buf'[a].count = 0
    BY <1>2, <1>3, <1>4, <1>5, <1>6, <1>7
  <2>2. ToSet(free_list') = {a \in 1..buff_cnt' : buf'[a].count = 0}
    BY <2>1
  <2>3. QED
    BY <1>7, <1>11, <2>2 DEF RefsCounted
<1>15. DataInv'
  BY <1>9 DEF DataInv
<1>16. QED
  BY <1>11, <1>12, <1>13, <1>14, <1>15 DEF BInv

(* Every step keeps the invariant. *)
LEMMA NextBInv == BInv /\ [Next]_vars => BInv'
<1> SUFFICES ASSUME BInv, [Next]_vars PROVE BInv'
  OBVIOUS
<1>1. CASE UNCHANGED vars
  <2>1. /\ UNCHANGED <<buf, buff_cnt, hash_table, free_list, wait_list, disk, pc, io, held, halted>>
        /\ UNCHANGED <<version, latest, raced>>
    BY <1>1 DEF vars
  <2>2. Types'
    BY <2>1 DEF BInv, Types, TypeOK, Transferring
  <2>3. UsedInv' /\ OneBufferPerBlock'
    BY <2>1 DEF BInv, UsedInv, OneBufferPerBlock
  <2>4. RefsInv' /\ RefsCounted'
    <3>1. \A b \in Buf : Refs(b)' = Refs(b)
      BY <2>1 DEF Refs
    <3>2. RefsInv'
      BY <2>1, <3>1 DEF BInv, RefsInv
    <3>3. RefsCounted'
      BY <2>1, <3>1 DEF BInv, RefsCounted
    <3>4. QED
      BY <3>2, <3>3
  <2>5. DataInv'
    BY <2>1 DEF BInv, DataInv, CleanInv, ReadInv, WriteInv, LatestInv, Transferring
  <2>6. QED
    BY <2>2, <2>3, <2>4, <2>5 DEF BInv
<1>2. ASSUME NEW t \in Task, NEW k \in Block,
             BreadHit(t, k) \/ BreadNew(t, k) \/ BreadReuse(t, k) \/ BreadWait(t, k)
      PROVE  BInv'
  BY <1>2, BreadHitBInv, BreadNewBInv, BreadReuseBInv, BreadWaitBInv
<1>3. ASSUME NEW t \in Task, NEW b \in Buf,
             Modify(t, b) \/ Bwrite(t, b) \/ BrelseShared(t, b) \/ BrelseLast(t, b)
      PROVE  BInv'
  BY <1>3, ModifyBInv, BwriteBInv, BrelseSharedBInv, BrelseLastBInv
<1>4. ASSUME NEW t \in Task, BreadReturn(t) \/ Transfer(t) \/ BwriteReturn(t) \/ BrelseReturn(t)
      PROVE  BInv'
  BY <1>4, BreadReturnBInv, TransferBInv, BwriteReturnBInv, BrelseReturnBInv
<1>5. QED
  BY <1>1, <1>2, <1>3, <1>4 DEF Next

-----------------------------------------------------------------------------
(* The results. *)

(* In every reachable state the invariant holds, for any number of tasks,  *)
(* blocks and buffers.                                                     *)
THEOREM BufferInvariance == Spec => []BInv
<1>1. Init => BInv
  BY InitBInv
<1>2. BInv /\ [Next]_vars => BInv'
  BY NextBInv
<1>3. QED
  BY <1>1, <1>2, PTL DEF Spec

(* The fields of the buffers keep their types. *)
THEOREM BufferTypes == Spec => []TypeOK
<1>1. BInv => TypeOK
  BY DEF BInv, Types
<1>2. QED
  BY <1>1, BufferInvariance, PTL

(* Counts are references, and the free list holds exactly the buffers      *)
(* without one (getblk, brelse).                                           *)
THEOREM BufferRefsCounted == Spec => []RefsCounted
<1>1. BInv => RefsCounted
  BY DEF BInv
<1>2. QED
  BY <1>1, BufferInvariance, PTL

(* A block has at most one buffer, and the hash table holds every buffer   *)
(* in use once (getblk, hash_insert, hash_remove).                         *)
THEOREM BufferOnePerBlock == Spec => []OneBufferPerBlock
<1>1. BInv => OneBufferPerBlock
  BY DEF BInv
<1>2. QED
  BY <1>1, BufferInvariance, PTL

(* Without a race no modification is lost: every block reads as it was     *)
(* last written (bread, bwrite, brelse).                                   *)
THEOREM BufferCoherent == Spec => []Coherent
<1>1. BInv => Coherent
  <2> SUFFICES ASSUME BInv, ~halted, ~raced, NEW k \in Block PROVE Contents(k) = latest[k]
    BY DEF Coherent
  <2>1. /\ \A b \in 1..buff_cnt : buf[b].block = k /\ buf[b].valid => buf[b].data = latest[k]
        /\ (\A b \in 1..buff_cnt : buf[b].block = k => ~buf[b].valid) => disk[k] = latest[k]
    BY DEF BInv, DataInv, LatestInv
  <2>2. PICK there : there = {b \in 1..buff_cnt : buf[b].block = k /\ buf[b].valid}
    OBVIOUS
  <2>3. Contents(k) = IF there = {} THEN disk[k] ELSE buf[CHOOSE b \in there : TRUE].data
    BY <2>2 DEF Contents
  <2>4. CASE there = {}
    BY <2>1, <2>2, <2>3, <2>4
  <2>5. CASE there # {}
    <3>1. PICK c : c = CHOOSE b \in there : TRUE
      OBVIOUS
    <3>2. c \in there
      BY <2>5, <3>1
    <3>3. QED
      BY <2>1, <2>2, <2>3, <2>5, <3>1, <3>2
  <2>6. QED
    BY <2>4, <2>5
<1>2. QED
  BY <1>1, BufferInvariance, PTL

(* Without a race a clean buffer equals its block on the disk, so that     *)
(* getblk may give it to another block (getblk, bwrite).                   *)
THEOREM BufferCleanOnDisk == Spec => []CleanIsOnDisk
<1>1. BInv => CleanIsOnDisk
  BY DEF BInv, DataInv, CleanInv, CleanIsOnDisk
<1>2. QED
  BY <1>1, BufferInvariance, PTL

(* As long as a task holds a buffer, the buffer stands for the same block  *)
(* and its contents are valid: nobody takes it away (getblk).              *)
HeldStaysStep ==
    \A t \in Task, b \in Buf :
        ~halted /\ held[t][b] > 0 => buf'[b].block = buf[b].block /\ buf'[b].valid

HeldStays == [][HeldStaysStep]_vars

(* Every step leaves the buffers that are held to their blocks. *)
LEMMA NextHeldStays ==
  ASSUME BInv, Next
  PROVE  HeldStaysStep
<1> SUFFICES ASSUME NEW s \in Task, NEW a \in Buf, ~halted, held[s][a] > 0
             PROVE  buf'[a].block = buf[a].block /\ buf'[a].valid
  BY DEF HeldStaysStep
<1>1. Types /\ UsedInv /\ RefsInv /\ RefsCounted
  BY DEF BInv
<1>2. buf[a].valid /\ buf[a].count # 0 /\ a \in 1..buff_cnt
  <2>1. held[s][a] # 0
    BY <1>1 DEF Types, TypeOK
  <2>2. QED
    BY <1>1, <2>1, InUse DEF RefsInv
<1>3. buf \in [Buf -> BufferRec] /\ buff_cnt \in Nat
  BY <1>1, BufferAssumption DEF Types, TypeOK, BufferRec
<1>4. ASSUME NEW t \in Task, NEW k \in Block, BreadHit(t, k) PROVE buf'[a].block = buf[a].block /\ buf'[a].valid
  <2>1. PICK b, f : b = Found(k) /\ f = [buf[b] EXCEPT !.count = @ + 1]
    OBVIOUS
  <2>2. buf' = [buf EXCEPT ![b] = f]
    BY <1>4, <2>1 DEF BreadHit, Got
  <2>3. a = b => buf'[a] = f /\ f.block = buf[a].block /\ f.valid = buf[a].valid
    BY <1>3, <2>1, <2>2 DEF BufferRec
  <2>4. a # b => buf'[a] = buf[a]
    BY <1>3, <2>2
  <2>5. QED
    BY <1>2, <2>3, <2>4
<1>5. ASSUME NEW t \in Task, NEW k \in Block, BreadNew(t, k) PROVE buf'[a].block = buf[a].block /\ buf'[a].valid
  <2>1. PICK b, f : b = buff_cnt + 1
                    /\ f = [block |-> k, count |-> 1, dirty |-> FALSE, valid |-> FALSE, data |-> buf[b].data]
    OBVIOUS
  <2>2. buf' = [buf EXCEPT ![b] = f] /\ a # b
    BY <1>2, <1>3, <1>5, <2>1 DEF BreadNew, Got
  <2>3. QED
    BY <1>2, <1>3, <2>2
<1>6. ASSUME NEW t \in Task, NEW k \in Block, BreadReuse(t, k) PROVE buf'[a].block = buf[a].block /\ buf'[a].valid
  <2>1. PICK b : b = Last(free_list)
    OBVIOUS
  <2>2. b \in ToSet(free_list)
    BY <1>1, <1>6, <2>1, PopElements DEF BreadReuse, Types, TypeOK, RefsCounted
  <2>3. a # b
    BY <1>1, <1>2, <2>2 DEF RefsCounted
  <2>4. \/ buf' = [buf EXCEPT ![b].valid = FALSE]
        \/ buf' = [buf EXCEPT ![b] = Reused(b, k)]
    BY <1>6, <2>1 DEF BreadReuse, Got
  <2>5. buf'[a] = buf[a]
    BY <1>3, <2>3, <2>4
  <2>6. QED
    BY <1>2, <2>5
<1>7. ASSUME NEW t \in Task, NEW b \in Buf, Modify(t, b) PROVE buf'[a].block = buf[a].block /\ buf'[a].valid
  <2>1. PICK d \in 0..MaxVersion : d = version + 1
    BY SMTT(30), <1>1, <1>7, BufferAssumption DEF Modify, Types, TypeOK
  <2>2. buf' = [buf EXCEPT ![b].data = d, ![b].dirty = TRUE]
    BY <1>7, <2>1 DEF Modify
  <2>3. QED
    BY <1>1, <1>2, <2>2, ModifyPoints
<1>8. ASSUME NEW b \in Buf, NEW c \in Nat, buf' = [buf EXCEPT ![b].count = c]
      PROVE  buf'[a].block = buf[a].block /\ buf'[a].valid
  BY <1>1, <1>2, <1>8, CountPoints DEF SameContents
<1>9. ASSUME NEW t \in Task, NEW b \in Buf, BrelseShared(t, b) PROVE buf'[a].block = buf[a].block /\ buf'[a].valid
  <2>1. PICK n \in Nat : n = buf[b].count
    BY <1>3 DEF BufferRec
  <2>2. n - 1 \in Nat /\ buf' = [buf EXCEPT ![b].count = n - 1]
    BY <1>9, <2>1 DEF BrelseShared
  <2>3. QED
    BY <1>8, <2>2
<1>10. ASSUME NEW t \in Task, NEW b \in Buf, BrelseLast(t, b) PROVE buf'[a].block = buf[a].block /\ buf'[a].valid
  BY <1>8, <1>10 DEF BrelseLast
<1>11. ASSUME NEW t \in Task, Transferring(t),
              buf' = [buf EXCEPT ![io[t].buf].dirty = FALSE, ![io[t].buf].valid = TRUE]
       PROVE  buf'[a].block = buf[a].block /\ buf'[a].valid
  <2>1. PICK b \in Buf : b = io[t].buf
    BY <1>1, <1>11 DEF Types
  <2>2. buf' = [buf EXCEPT ![b].dirty = FALSE, ![b].valid = TRUE]
    BY <1>11, <2>1
  <2>3. QED
    BY <1>1, <1>2, <2>2, FlagPoints
<1>12. ASSUME NEW t \in Task, Transfer(t) PROVE buf'[a].block = buf[a].block /\ buf'[a].valid
  <2>1. CASE pc[t] = "read" /\ buf' = [buf EXCEPT ![io[t].buf].data = disk[io[t].block]]
    <3>1. PICK b \in Buf, k \in Block : b = io[t].buf /\ k = io[t].block
      BY <1>1, <2>1 DEF Types, Transferring, Reading
    <3>2. PICK d \in 0..MaxVersion : d = disk[k]
      BY <1>1 DEF Types, TypeOK
    <3>3. buf' = [buf EXCEPT ![b].data = d]
      BY <2>1, <3>1, <3>2
    <3>4. QED
      BY <1>1, <1>2, <3>3, FillPoints
  <2>2. CASE buf' = buf
    BY <1>2, <2>2
  <2>3. QED
    BY <1>12, <2>1, <2>2 DEF Transfer
<1>13. ASSUME UNCHANGED buf PROVE buf'[a].block = buf[a].block /\ buf'[a].valid
  BY <1>2, <1>13
<1>14. ASSUME NEW t \in Task, BreadReturn(t) \/ BwriteReturn(t) \/ BrelseReturn(t)
       PROVE  buf'[a].block = buf[a].block /\ buf'[a].valid
  BY <1>11, <1>14 DEF BreadReturn, BwriteReturn, BrelseReturn, Written, Transferring, Reading, Writing
<1>15. QED
  BY <1>4, <1>5, <1>6, <1>7, <1>9, <1>10, <1>12, <1>13, <1>14 DEF Next, BreadWait, Bwrite

(* A buffer that is held keeps its block, whatever the other tasks do. *)
THEOREM BufferHeldStays == Spec => HeldStays
<1>1. BInv /\ [Next]_vars => [HeldStaysStep]_vars
  BY NextHeldStays
<1>2. QED
  BY <1>1, BufferInvariance, PTL DEF Spec, HeldStays

=============================================================================
