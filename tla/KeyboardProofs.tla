--------------------------- MODULE KeyboardProofs ---------------------------
(***************************************************************************)
(* Proofs about the keyboard driver: its picture of the keys, the readers  *)
(* and their wake-up, and the ring buffer as a queue.                      *)
(***************************************************************************)
EXTENDS Keyboard, TLAPS, SequenceTheorems

-----------------------------------------------------------------------------
(* The inductive invariant. *)

Indices == 0 .. (BUFFER_SIZE - 1)

Rings == [head : Indices, tail : Indices, buf : [Indices -> Byte]]

(* TypeOK, with the ring as the record it is. *)
Typed ==
    /\ TypeOK
    /\ fifo \in Rings
    /\ got \in [Task -> 0 .. MaxCount]

(* The driver knows which keys are down; only some keys have a prefix. *)
KeysInv ==
    /\ KeysInSync
    /\ \A x \in down : x[2] => x[1] \in Extended

(* The readers: the lock, its queue, the waiter. *)
ReadersInv ==
    /\ NoLostWakeup
    /\ LockMoves
    /\ \A i, j \in 1 .. Len(lockq) : lockq[i] = lockq[j] => i = j

KInv == Typed /\ KeysInv /\ ReadersInv

-----------------------------------------------------------------------------
(* The ring. *)

(* The remainder of a number below twice the divisor. *)
LEMMA WrapOnce ==
  ASSUME NEW n \in Nat \ {0}, NEW a \in 0 .. (2 * n - 1)
  PROVE  a % n = IF a < n THEN a ELSE a - n
<1>1. CASE a < n
  BY <1>1
<1>2. CASE a >= n
  <2>1. a \in Nat /\ n \in Nat /\ n > 0 /\ a < 2 * n
    OBVIOUS
  <2>2. QED
    BY <1>2, <2>1
<1>3. QED
  BY <1>1, <1>2

(* The number of bytes in a ring. *)
Count(f) == IF f.head <= f.tail THEN f.tail - f.head ELSE f.tail + BUFFER_SIZE - f.head

(* The cell of the byte with number i. *)
Cell(f, i) == IF f.head + i - 1 < BUFFER_SIZE THEN f.head + i - 1 ELSE f.head + i - 1 - BUFFER_SIZE

(* What the ring holds, cell by cell. *)
LEMMA ContentsForm ==
  ASSUME NEW f \in Rings
  PROVE  /\ Count(f) \in 0 .. (BUFFER_SIZE - 1)
         /\ Contents(f) \in Seq(Byte)
         /\ Len(Contents(f)) = Count(f)
         /\ \A i \in 1 .. Count(f) : Cell(f, i) \in Indices /\ Contents(f)[i] = f.buf[Cell(f, i)]
<1>1. /\ BUFFER_SIZE \in Nat \ {0} /\ f.head \in 0 .. (BUFFER_SIZE - 1) /\ f.tail \in 0 .. (BUFFER_SIZE - 1)
      /\ f.buf \in [Indices -> Byte]
  BY KeyboardAssumption DEF Rings, Indices
<1>2. Count(f) \in 0 .. (BUFFER_SIZE - 1)
  BY <1>1 DEF Count
<1>3. (f.tail + BUFFER_SIZE - f.head) % BUFFER_SIZE = Count(f)
  <2>1. f.tail + BUFFER_SIZE - f.head \in 0 .. (2 * BUFFER_SIZE - 1)
    BY <1>1
  <2>2. PICK a : a = f.tail + BUFFER_SIZE - f.head
    OBVIOUS
  <2>3. a % BUFFER_SIZE = IF a < BUFFER_SIZE THEN a ELSE a - BUFFER_SIZE
    BY <1>1, <2>1, <2>2, WrapOnce
  <2>4. (IF a < BUFFER_SIZE THEN a ELSE a - BUFFER_SIZE) = Count(f)
    BY <1>1, <2>2 DEF Count
  <2>5. QED
    BY <2>2, <2>3, <2>4
<1>4. ASSUME NEW i \in 1 .. Count(f)
      PROVE  (f.head + i - 1) % BUFFER_SIZE = Cell(f, i) /\ Cell(f, i) \in Indices
  <2>1. f.head + i - 1 \in 0 .. (2 * BUFFER_SIZE - 1)
    BY <1>1, <1>2
  <2>2. PICK a : a = f.head + i - 1
    OBVIOUS
  <2>3. a % BUFFER_SIZE = IF a < BUFFER_SIZE THEN a ELSE a - BUFFER_SIZE
    BY <1>1, <2>1, <2>2, WrapOnce
  <2>4. (IF a < BUFFER_SIZE THEN a ELSE a - BUFFER_SIZE) = Cell(f, i)
    BY <1>1, <2>1, <2>2 DEF Cell
  <2>5. Cell(f, i) \in Indices
    BY <1>1, <2>1 DEF Cell, Indices
  <2>6. QED
    BY <2>2, <2>3, <2>4, <2>5
<1>5. PICK n \in Nat : n = Count(f)
  BY <1>1, <1>2
<1>6. Contents(f) = [i \in 1 .. n |-> f.buf[(f.head + i - 1) % BUFFER_SIZE]]
  BY <1>3, <1>5 DEF Contents
<1>7. \A i \in 1 .. n : f.buf[(f.head + i - 1) % BUFFER_SIZE] \in Byte
  BY <1>1, <1>4, <1>5
<1>8. Contents(f) \in [1 .. n -> Byte]
  BY <1>6, <1>7
<1>9. Contents(f) \in Seq(Byte) /\ Len(Contents(f)) = n
  <2>1. Contents(f) \in Seq(Byte)
    BY <1>8, SeqDef
  <2>2. QED
    BY <1>8, <2>1
<1>10. \A i \in 1 .. n : Contents(f)[i] = f.buf[Cell(f, i)]
  BY <1>4, <1>5, <1>6
<1>11. QED
  BY <1>2, <1>4, <1>5, <1>9, <1>10

(* The next index of the ring. *)
LEMMA NextIndex ==
  ASSUME NEW i \in Indices
  PROVE  /\ fifo_index_next(i) = IF i = BUFFER_SIZE - 1 THEN 0 ELSE i + 1
         /\ fifo_index_next(i) \in Indices
         /\ fifo_index_next(i) # i
<1>1. BUFFER_SIZE \in Nat \ {0} /\ BUFFER_SIZE > 1 /\ i \in 0 .. (BUFFER_SIZE - 1)
  BY KeyboardAssumption DEF Indices
<1>2. i + 1 \in 0 .. (2 * BUFFER_SIZE - 1)
  BY <1>1
<1>3. PICK a : a = i + 1
  OBVIOUS
<1>4. a % BUFFER_SIZE = IF a < BUFFER_SIZE THEN a ELSE a - BUFFER_SIZE
  BY <1>1, <1>2, <1>3, WrapOnce
<1>5. QED
  BY <1>1, <1>3, <1>4 DEF fifo_index_next, Indices

(* fifo_put appends a byte, after the oldest has left a full ring. *)
LEMMA PutAppends ==
  ASSUME NEW f \in Rings, NEW b \in Byte, NEW g, g = fifo_put(f, b)
  PROVE  /\ g \in Rings
         /\ ~ fifo_empty(g)
         /\ Contents(g) = Append(IF Len(Contents(f)) = BUFFER_SIZE - 1 THEN Tail(Contents(f))
                                 ELSE Contents(f), b)
<1>1. /\ BUFFER_SIZE \in Nat /\ BUFFER_SIZE > 1
      /\ f.head \in 0 .. (BUFFER_SIZE - 1) /\ f.tail \in 0 .. (BUFFER_SIZE - 1)
      /\ f.head \in Indices /\ f.tail \in Indices
      /\ f.buf \in [Indices -> Byte]
  BY KeyboardAssumption DEF Rings, Indices
<1>2. /\ g.head = IF fifo_full(f) THEN fifo_index_next(f.head) ELSE f.head
      /\ g.tail = fifo_index_next(f.tail)
      /\ g.buf = [f.buf EXCEPT ![f.tail] = b]
      /\ g \in Rings
  BY <1>1, NextIndex DEF fifo_put, Rings
<1>3. fifo_full(f) <=> Count(f) = BUFFER_SIZE - 1
  BY <1>1, NextIndex DEF fifo_full, Count
<1>4. ~ fifo_empty(g)
  BY <1>1, <1>2, NextIndex DEF fifo_empty, fifo_full
<1>5. /\ Count(f) \in 0 .. (BUFFER_SIZE - 1)
      /\ Contents(f) \in Seq(Byte) /\ Len(Contents(f)) = Count(f)
      /\ \A i \in 1 .. Count(f) : Cell(f, i) \in Indices /\ Contents(f)[i] = f.buf[Cell(f, i)]
  BY ContentsForm
<1>6. /\ Contents(g) \in Seq(Byte) /\ Len(Contents(g)) = Count(g)
      /\ \A i \in 1 .. Count(g) : Contents(g)[i] = g.buf[Cell(g, i)]
  BY <1>2, ContentsForm
<1>7. CASE fifo_full(f)
  <2>1. Count(g) = Count(f)
    BY <1>1, <1>2, <1>7, NextIndex DEF Count, fifo_full
  <2>2. ASSUME NEW i \in 1 .. Count(f)
        PROVE  /\ i < Count(f) => Cell(g, i) = Cell(f, i + 1) /\ Cell(g, i) # f.tail
               /\ i = Count(f) => Cell(g, i) = f.tail
    <3>1. PICK n, h, t \in Nat : n = BUFFER_SIZE /\ h = f.head /\ t = f.tail
      BY <1>1
    <3>2. h < n /\ t < n /\ n > 1 /\ Count(f) = n - 1 /\ i \in 1 .. (n - 1)
      BY <1>1, <1>3, <1>7, <3>1
    <3>3. t = IF h = 0 THEN n - 1 ELSE h - 1
      BY <3>1, <3>2 DEF Count
    <3>4. g.head = IF h = n - 1 THEN 0 ELSE h + 1
      BY <1>1, <1>2, <1>7, <3>1, NextIndex
    <3>5. /\ Cell(g, i) = IF g.head + i - 1 < n THEN g.head + i - 1 ELSE g.head + i - 1 - n
          /\ Cell(f, i + 1) = IF h + (i + 1) - 1 < n THEN h + (i + 1) - 1 ELSE h + (i + 1) - 1 - n
      BY <3>1 DEF Cell
    <3>6. QED
      BY <3>1, <3>2, <3>3, <3>4, <3>5
  <2>3. PICK s : s = Append(Tail(Contents(f)), b)
    OBVIOUS
  <2>4. /\ s \in Seq(Byte) /\ Len(s) = Count(f)
        /\ \A i \in 1 .. Count(f) : s[i] = IF i < Count(f) THEN Contents(f)[i + 1] ELSE b
    BY <1>1, <1>3, <1>5, <1>7, <2>3
  <2>5. ASSUME NEW i \in 1 .. Count(f) PROVE Contents(g)[i] = s[i]
    <3>1. CASE i < Count(f)
      <4>1. i + 1 \in 1 .. Count(f)
        BY <1>5, <3>1
      <4>2. Contents(f)[i + 1] = f.buf[Cell(f, i + 1)] /\ Cell(f, i + 1) \in Indices
        BY <1>5, <4>1
      <4>3. Contents(g)[i] = g.buf[Cell(f, i + 1)] /\ Cell(f, i + 1) # f.tail
        BY <1>6, <2>1, <2>2, <3>1
      <4>4. QED
        BY <1>1, <1>2, <2>4, <3>1, <4>2, <4>3
    <3>2. CASE i = Count(f)
      BY <1>1, <1>2, <1>5, <1>6, <2>1, <2>2, <2>4, <3>2
    <3>3. QED
      BY <1>5, <3>1, <3>2
  <2>6. Contents(g) = s
    BY <1>6, <2>1, <2>4, <2>5, SeqEqual
  <2>7. QED
    BY <1>2, <1>3, <1>4, <1>5, <1>7, <2>3, <2>6
<1>8. CASE ~ fifo_full(f)
  <2>1. Count(g) = Count(f) + 1
    BY <1>1, <1>2, <1>8, NextIndex DEF Count, fifo_full
  <2>2. ASSUME NEW i \in 1 .. Count(f) + 1
        PROVE  /\ i <= Count(f) => Cell(g, i) = Cell(f, i) /\ Cell(g, i) # f.tail
               /\ i = Count(f) + 1 => Cell(g, i) = f.tail
    BY <1>1, <1>2, <1>8 DEF Cell, Count
  <2>3. PICK s : s = Append(Contents(f), b)
    OBVIOUS
  <2>4. /\ s \in Seq(Byte) /\ Len(s) = Count(f) + 1
        /\ \A i \in 1 .. Count(f) + 1 : s[i] = IF i <= Count(f) THEN Contents(f)[i] ELSE b
    BY <1>5, <2>3
  <2>5. ASSUME NEW i \in 1 .. Count(f) + 1 PROVE Contents(g)[i] = s[i]
    <3>1. CASE i <= Count(f)
      <4>1. i \in 1 .. Count(f)
        BY <1>5, <3>1
      <4>2. Contents(f)[i] = f.buf[Cell(f, i)] /\ Cell(f, i) \in Indices
        BY <1>5, <4>1
      <4>3. Contents(g)[i] = g.buf[Cell(f, i)] /\ Cell(f, i) # f.tail
        BY <1>6, <2>1, <2>2, <3>1
      <4>4. QED
        BY <1>1, <1>2, <2>4, <3>1, <4>2, <4>3
    <3>2. CASE i = Count(f) + 1
      BY <1>1, <1>2, <1>5, <1>6, <2>1, <2>2, <2>4, <3>2
    <3>3. QED
      BY <1>5, <3>1, <3>2
  <2>6. Contents(g) = s
    BY <1>6, <2>1, <2>4, <2>5, SeqEqual
  <2>7. QED
    BY <1>2, <1>3, <1>4, <1>5, <1>8, <2>3, <2>6
<1>9. QED
  BY <1>7, <1>8

(* Reading k bytes drops them from the front. *)
LEMMA GetDrops ==
  ASSUME NEW f \in Rings, NEW k \in 0 .. Len(Contents(f)),
         NEW g, g = [f EXCEPT !.head = (@ + k) % BUFFER_SIZE]
  PROVE  /\ g \in Rings
         /\ k = 0 => g = f
         /\ k = Len(Contents(f)) => fifo_empty(g)
         /\ Contents(g) = SubSeq(Contents(f), k + 1, Len(Contents(f)))
<1>1. /\ BUFFER_SIZE \in Nat \ {0} /\ BUFFER_SIZE > 1
      /\ f.head \in 0 .. (BUFFER_SIZE - 1) /\ f.tail \in 0 .. (BUFFER_SIZE - 1)
      /\ f.buf \in [Indices -> Byte]
  BY KeyboardAssumption DEF Rings, Indices
<1>2. /\ Count(f) \in 0 .. (BUFFER_SIZE - 1)
      /\ Contents(f) \in Seq(Byte) /\ Len(Contents(f)) = Count(f)
      /\ \A i \in 1 .. Count(f) : Cell(f, i) \in Indices /\ Contents(f)[i] = f.buf[Cell(f, i)]
  BY ContentsForm
<1>3. k \in Nat /\ k <= Count(f)
  BY <1>2
<1>4. PICK n, h, t, c \in Nat : n = BUFFER_SIZE /\ h = f.head /\ t = f.tail /\ c = Count(f)
  BY <1>1, <1>2
<1>5. /\ h < n /\ t < n /\ c < n /\ k <= c
      /\ c = IF h <= t THEN t - h ELSE t + n - h
  BY <1>1, <1>2, <1>3, <1>4 DEF Count
<1>6. PICK m \in Nat : m = (IF h + k < n THEN h + k ELSE h + k - n) /\ m = (f.head + k) % BUFFER_SIZE
  <2>1. PICK a \in Nat : a = h + k
    BY <1>3, <1>4
  <2>2. a \in 0 .. (2 * n - 1)
    BY <1>3, <1>5, <2>1
  <2>3. a % n = IF a < n THEN a ELSE a - n
    BY <1>1, <1>4, <2>2, WrapOnce
  <2>4. QED
    BY <1>4, <2>1, <2>3
<1>7. g.head = m /\ g.tail = f.tail /\ g.buf = f.buf /\ g \in Rings
  <2>1. m \in Indices
    BY <1>3, <1>4, <1>5, <1>6 DEF Indices
  <2>2. QED
    BY <1>6, <2>1 DEF Rings
<1>8. k = 0 => g = f
  <2>1. k = 0 => g.head = f.head
    BY <1>4, <1>5, <1>6, <1>7
  <2>2. QED
    BY <1>7, <2>1 DEF Rings
<1>9. k \in Nat /\ k <= c /\ m = IF h + k < n THEN h + k ELSE h + k - n
  BY <1>3, <1>5, <1>6
<1>10. Count(g) = Count(f) - k
  <2>1. Count(g) = IF m <= t THEN t - m ELSE t + n - m
    BY <1>4, <1>7 DEF Count
  <2>2. (IF m <= t THEN t - m ELSE t + n - m) = c - k
    BY SMTT(30), <1>5, <1>9
  <2>3. QED
    BY <1>4, <2>1, <2>2
<1>11. k = Len(Contents(f)) => fifo_empty(g)
  <2>1. k = c => m = t
    BY <1>5, <1>9
  <2>2. QED
    BY <1>2, <1>4, <1>7, <2>1 DEF fifo_empty
<1>12. /\ Contents(g) \in Seq(Byte) /\ Len(Contents(g)) = Count(g)
       /\ \A i \in 1 .. Count(g) : Contents(g)[i] = g.buf[Cell(g, i)]
  BY <1>7, ContentsForm
<1>13. PICK s : s = SubSeq(Contents(f), k + 1, Len(Contents(f)))
  OBVIOUS
<1>14. /\ s \in Seq(Byte) /\ Len(s) = Count(f) - k
       /\ \A i \in 1 .. Count(f) - k : s[i] = Contents(f)[k + i]
  <2>1. c \in Int /\ k + 1 \in Int /\ \A i \in k + 1 .. c : Contents(f)[i] \in Byte
    BY <1>2, <1>3, <1>4
  <2>2. /\ s \in Seq(Byte)
        /\ Len(s) = IF k + 1 <= c THEN c - (k + 1) + 1 ELSE 0
        /\ \A i \in 1 .. c - (k + 1) + 1 : s[i] = Contents(f)[k + 1 + i - 1]
    BY SMTT(30), <1>2, <1>4, <1>13, <2>1, SubSeqProperties
  <2>3. Len(s) = c - k /\ c - (k + 1) + 1 = c - k
    BY <1>9, <2>2
  <2>4. \A i \in 1 .. c - k : k + 1 + i - 1 = k + i
    BY <1>9
  <2>5. QED
    BY <1>4, <2>2, <2>3, <2>4
<1>15. ASSUME NEW i \in 1 .. Count(f) - k PROVE Contents(g)[i] = s[i]
  <2>1. k + i \in 1 .. Count(f) /\ i \in 1 .. Count(g)
    BY <1>2, <1>3, <1>10
  <2>2. Cell(g, i) = Cell(f, k + i)
    <3>1. /\ Cell(g, i) = IF m + i - 1 < n THEN m + i - 1 ELSE m + i - 1 - n
          /\ Cell(f, k + i) = IF h + (k + i) - 1 < n THEN h + (k + i) - 1 ELSE h + (k + i) - 1 - n
      BY <1>4, <1>7 DEF Cell
    <3>2. i \in Nat /\ 1 <= i /\ k + i <= c
      BY <1>3, <1>4, <2>1
    <3>3. CASE h + k < n
      BY SMTT(30), <1>5, <1>9, <3>1, <3>2, <3>3
    <3>4. CASE h + k >= n
      <4>1. m = h + k - n /\ m + i - 1 < n /\ ~ (h + (k + i) - 1 < n)
        BY SMTT(30), <1>5, <1>9, <3>2, <3>4
      <4>2. m + i - 1 = h + (k + i) - 1 - n
        BY SMTT(30), <1>9, <3>2, <4>1
      <4>3. QED
        BY <3>1, <4>1, <4>2
    <3>5. QED
      BY <1>9, <3>3, <3>4
  <2>3. QED
    BY <1>2, <1>12, <1>14, <1>7, <2>1, <2>2
<1>16. Contents(g) = s
  BY <1>10, <1>12, <1>14, <1>15, SeqEqual
<1>17. QED
  BY <1>8, <1>11, <1>13, <1>16, <1>7

-----------------------------------------------------------------------------
(* One step after the other. *)

(* The driver starts with no keys down and an empty ring. *)
LEMMA InitKInv == Init => KInv
<1> SUFFICES ASSUME Init PROVE KInv
  OBVIOUS
<1>1. /\ 0 \in Indices /\ 0 \in Byte /\ 0 \in 0 .. MaxCount
  BY KeyboardAssumption DEF Indices, Byte
<1>2. fifo \in Rings
  BY <1>1 DEF Init, Rings, Indices
<1>3. Typed
  <2>1. fifo.head = 0 /\ fifo.tail = 0 /\ \A i \in 0 .. (BUFFER_SIZE - 1) : fifo.buf[i] = 0
    BY DEF Init
  <2>2. want \in [Task -> 0 .. MaxCount] /\ got \in [Task -> 0 .. MaxCount] /\ \A t \in Task : got[t] \in 0 .. want[t]
    BY <1>1 DEF Init
  <2>3. /\ key_state \subseteq Keys \X BOOLEAN /\ down \subseteq Keys \X BOOLEAN /\ locks \subseteq Lock
        /\ {extcode, ctrl, alt, shift, prefix} \subseteq BOOLEAN
    BY DEF Init
  <2>4. /\ waiter \in Task \cup {NULL} /\ holder \in Task \cup {NULL} /\ lockq \in Seq(Task)
        /\ pc \in [Task -> {"out", "lock", "try", "wait", "woken"}]
        /\ typed \in Byte
    BY <1>1 DEF Init
  <2>5. QED
    BY <1>1, <1>2, <2>1, <2>2, <2>3, <2>4 DEF Typed, TypeOK, Indices
<1>4. KeysInv
  BY DEF Init, KeysInv, KeysInSync
<1>5. ReadersInv
  <2>1. ToSet(lockq) = {}
    BY DEF Init, ToSet
  <2>2. QED
    BY <2>1, KeyboardAssumption DEF Init, ReadersInv, NoLostWakeup, LockMoves
<1>6. QED
  BY <1>3, <1>4, <1>5 DEF KInv

(* A character in the ring, and the wake-up of the waiter. *)
LEMMA PutCharKeeps ==
  ASSUME Typed, ReadersInv, NEW ch, PutChar(ch), UNCHANGED <<holder, lockq, want, got>>
  PROVE  /\ fifo' \in Rings /\ typed' \in Byte /\ waiter' \in Task \cup {NULL}
         /\ pc' \in [Task -> {"out", "lock", "try", "wait", "woken"}]
         /\ ReadersInv'
<1>1. /\ fifo \in Rings /\ typed \in Byte /\ waiter \in Task \cup {NULL}
      /\ pc \in [Task -> {"out", "lock", "try", "wait", "woken"}]
  BY DEF Typed, TypeOK
<1>2. CASE ch = INV
  <2>1. UNCHANGED <<fifo, waiter, pc, typed>>
    BY <1>2 DEF PutChar
  <2>2. ReadersInv'
    BY <2>1 DEF ReadersInv, NoLostWakeup, LockMoves, fifo_empty
  <2>3. QED
    BY <1>1, <2>1, <2>2
<1>3. CASE ch # INV
  <2>1. /\ fifo' = fifo_put(fifo, typed) /\ typed' = (typed + 1) % Numbers
        /\ Wakes(waiter) /\ waiter' = NULL
    BY <1>3 DEF PutChar
  <2>2. fifo' \in Rings /\ ~ fifo_empty(fifo')
    BY <1>1, <2>1, PutAppends
  <2>3. typed' \in Byte
    BY <1>1, <2>1, KeyboardAssumption DEF Byte
  <2>4. /\ pc' \in [Task -> {"out", "lock", "try", "wait", "woken"}]
        /\ \A t \in Task : pc'[t] = IF t = waiter THEN "woken" ELSE pc[t]
    <3>1. CASE waiter = NULL
      BY <1>1, <2>1, <3>1, KeyboardAssumption DEF Wakes
    <3>2. CASE waiter # NULL
      BY <1>1, <2>1, <3>2 DEF Wakes
    <3>3. QED
      BY <3>1, <3>2
  <2>5. NoLostWakeup /\ LockMoves
    BY DEF ReadersInv
  <2>6. NoLostWakeup'
    <3>1. \A t \in Task : pc'[t] # "wait"
      BY <2>4, <2>5 DEF NoLostWakeup
    <3>2. \A t \in Task : pc'[t] = "woken" => holder' = t
      BY <2>4, <2>5, KeyboardAssumption DEF NoLostWakeup
    <3>3. \A t \in Task : pc'[t] = "lock" <=> pc[t] = "lock"
      BY <2>4, <2>5 DEF NoLostWakeup
    <3>4. QED
      BY <2>1, <2>2, <2>5, <3>1, <3>2, <3>3, KeyboardAssumption DEF NoLostWakeup
  <2>7. LockMoves'
    <3>1. \A t \in Task : (pc'[t] = "lock" <=> pc[t] = "lock") /\ (pc[t] = "try" => pc'[t] = "try")
      BY <2>4, <2>5 DEF NoLostWakeup
    <3>2. QED
      BY <2>5, <3>1 DEF LockMoves
  <2>8. QED
    BY <2>1, <2>2, <2>3, <2>4, <2>6, <2>7 DEF ReadersInv
<1>4. QED
  BY <1>2, <1>3

(* What stays typed when keyboard_read leaves the keyboard alone. *)
LEMMA ReaderTyped ==
  ASSUME Typed, UNCHANGED keyboard, fifo' \in Rings,
         waiter' \in Task \cup {NULL}, holder' \in Task \cup {NULL}, lockq' \in Seq(Task),
         pc' \in [Task -> {"out", "lock", "try", "wait", "woken"}],
         NEW t \in Task, NEW n \in 0 .. MaxCount, NEW have \in 0 .. n,
         want' = [want EXCEPT ![t] = n], got' = [got EXCEPT ![t] = have]
  PROVE  Typed'
<1>1. MaxCount \in Nat /\ want \in [Task -> 0 .. MaxCount] /\ got \in [Task -> 0 .. MaxCount]
  BY KeyboardAssumption DEF Typed, TypeOK
<1>2. have \in 0 .. MaxCount
  BY <1>1
<1>3. /\ want' \in [Task -> 0 .. MaxCount] /\ got' \in [Task -> 0 .. MaxCount]
      /\ \A u \in Task : got'[u] \in 0 .. want'[u]
  BY <1>1, <1>2 DEF Typed, TypeOK
<1>4. /\ fifo'.head \in 0 .. (BUFFER_SIZE - 1) /\ fifo'.tail \in 0 .. (BUFFER_SIZE - 1)
      /\ \A i \in 0 .. (BUFFER_SIZE - 1) : fifo'.buf[i] \in Byte
  BY DEF Rings, Indices
<1>5. QED
  BY <1>3, <1>4 DEF Typed, TypeOK, keyboard, modifiers

(* keyboard_read with the lock: bytes are taken, then the task blocks or    *)
(* gives the lock on.                                                       *)
LEMMA ReadLoopKeeps ==
  ASSUME Typed, ReadersInv, NEW t \in Task, NEW n \in 0 .. MaxCount, NEW had \in 0 .. n,
         \/ holder = NULL /\ pc[t] \in {"out", "try"}
         \/ pc[t] = "woken",
         ReadLoop(t, n, had), UNCHANGED keyboard
  PROVE  Typed' /\ ReadersInv'
<1> DEFINE there == Len(Contents(fifo))
<1> DEFINE k == IF there < n - had THEN there ELSE n - had
<1> DEFINE have == had + k
<1>1. /\ fifo \in Rings /\ waiter \in Task \cup {NULL} /\ holder \in Task \cup {NULL}
      /\ lockq \in Seq(Task) /\ pc \in [Task -> {"out", "lock", "try", "wait", "woken"}]
  BY DEF Typed, TypeOK
<1>2. n \in Nat /\ had \in Nat /\ had <= n /\ there \in Nat
  BY <1>1, ContentsForm
<1>3. k \in 0 .. there /\ have \in 0 .. n /\ (have < n => k = there)
  BY <1>2
<1>4. /\ fifo' = [fifo EXCEPT !.head = (@ + k) % BUFFER_SIZE]
      /\ want' = [want EXCEPT ![t] = n]
      /\ got' = [got EXCEPT ![t] = have]
      /\ \/ /\ have < n /\ waiter' = t /\ holder' = t
            /\ pc' = [pc EXCEPT ![t] = "wait"] /\ lockq' = lockq
         \/ have = n /\ Release(t) /\ waiter' = waiter
  BY DEF ReadLoop
<1>5. fifo' \in Rings /\ (k = there => fifo_empty(fifo'))
  <2>1. PICK g, x : g = fifo' /\ x = k
    OBVIOUS
  <2>2. x \in 0 .. Len(Contents(fifo)) /\ g = [fifo EXCEPT !.head = (@ + x) % BUFFER_SIZE]
    BY <1>3, <1>4, <2>1
  <2>3. g \in Rings /\ (x = Len(Contents(fifo)) => fifo_empty(g))
    BY <1>1, <2>2, GetDrops
  <2>4. QED
    BY <2>1, <2>3
<1> HIDE DEF k, there, have
<1>6. NoLostWakeup /\ LockMoves
  BY DEF ReadersInv
<1>7. /\ waiter = NULL
      /\ \A u \in Task : pc[u] # "wait" /\ (pc[u] = "woken" => u = t)
  BY <1>1, <1>6, KeyboardAssumption DEF NoLostWakeup
<1>8. t \notin ToSet(lockq)
  BY <1>6 DEF NoLostWakeup
<1>9. CASE /\ have < n /\ waiter' = t /\ holder' = t
           /\ pc' = [pc EXCEPT ![t] = "wait"] /\ lockq' = lockq
  <2>1. pc' \in [Task -> {"out", "lock", "try", "wait", "woken"}]
    BY <1>1, <1>9
  <2>2. Typed'
    BY <1>1, <1>3, <1>4, <1>5, <1>9, <2>1, ReaderTyped
  <2>3. pc'[t] = "wait" /\ \A u \in Task : u # t => pc'[u] = pc[u]
    BY <1>1, <1>9
  <2>4. fifo_empty(fifo')
    BY <1>3, <1>5, <1>9
  <2>5. NoLostWakeup'
    <3>1. \A u \in Task : pc'[u] = "wait" <=> waiter' = u
      BY <1>7, <1>9, <2>3
    <3>2. \A u \in Task : pc'[u] # "woken"
      BY <1>7, <2>3
    <3>3. \A u \in Task : pc'[u] = "lock" <=> u \in ToSet(lockq')
      BY <1>6, <1>8, <1>9, <2>3 DEF NoLostWakeup
    <3>4. QED
      BY <1>9, <2>4, <3>1, <3>2, <3>3 DEF NoLostWakeup
  <2>6. LockMoves'
    BY <1>9, KeyboardAssumption DEF LockMoves
  <2>7. QED
    BY <1>9, <2>2, <2>5, <2>6 DEF ReadersInv
<1>10. CASE have = n /\ Release(t) /\ waiter' = waiter
  <2>1. holder' = NULL /\ waiter' = NULL
    BY <1>7, <1>10 DEF Release
  <2>2. CASE lockq = <<>>
    <3>1. pc' = [pc EXCEPT ![t] = "out"] /\ lockq' = lockq
      BY <1>10, <2>2 DEF Release
    <3>2. pc' \in [Task -> {"out", "lock", "try", "wait", "woken"}]
      BY <1>1, <3>1
    <3>3. Typed'
      BY <1>1, <1>3, <1>4, <1>5, <2>1, <3>1, <3>2, ReaderTyped
    <3>4. pc'[t] = "out" /\ \A u \in Task : u # t => pc'[u] = pc[u]
      BY <1>1, <3>1
    <3>5. ToSet(lockq) = {}
      BY <2>2 DEF ToSet
    <3>6. \A u \in Task : pc'[u] # "lock" /\ pc'[u] # "woken" /\ pc'[u] # "wait"
      BY <1>6, <1>7, <3>4, <3>5 DEF NoLostWakeup
    <3>7. NoLostWakeup' /\ LockMoves'
      BY <2>1, <3>1, <3>5, <3>6, KeyboardAssumption DEF NoLostWakeup, LockMoves
    <3>8. QED
      BY <3>1, <3>3, <3>7 DEF ReadersInv
  <2>3. CASE lockq # <<>>
    <3>1. PICK h : h = Head(lockq)
      OBVIOUS
    <3>2. pc' = [pc EXCEPT ![t] = "out", ![h] = "try"] /\ lockq' = Tail(lockq)
      BY <1>10, <2>3, <3>1 DEF Release
    <3>3. /\ Len(lockq) \in Nat /\ Len(lockq) > 0 /\ h = lockq[1] /\ h \in Task /\ lockq' \in Seq(Task)
          /\ Len(lockq') = Len(lockq) - 1
          /\ \A i \in 1 .. Len(lockq') : lockq'[i] = lockq[i + 1]
      BY <1>1, <2>3, <3>1, <3>2
    <3>4. \A u : u \in ToSet(lockq) <=> \E i \in 1 .. Len(lockq) : lockq[i] = u
      BY <1>1 DEF ToSet
    <3>5. \A u : u \in ToSet(lockq') <=> \E i \in 1 .. Len(lockq') : lockq'[i] = u
      BY <3>3 DEF ToSet
    <3>6. \A i, j \in 1 .. Len(lockq) : lockq[i] = lockq[j] => i = j
      BY DEF ReadersInv
    <3>7. h \in ToSet(lockq) /\ h # t
      BY <1>8, <3>3, <3>4
    <3>8. ASSUME NEW u PROVE u \in ToSet(lockq') <=> u \in ToSet(lockq) /\ u # h
      <4>1. ASSUME NEW i \in 1 .. Len(lockq') PROVE lockq'[i] # h /\ lockq'[i] \in ToSet(lockq)
        <5>1. i + 1 \in 1 .. Len(lockq) /\ i + 1 # 1 /\ 1 \in 1 .. Len(lockq)
          BY <3>3
        <5>2. QED
          BY <3>3, <3>4, <3>6, <5>1
      <4>2. ASSUME NEW i \in 1 .. Len(lockq), lockq[i] # h PROVE lockq[i] \in ToSet(lockq')
        <5>1. i - 1 \in 1 .. Len(lockq') /\ (i - 1) + 1 = i
          BY <3>3, <4>2
        <5>2. QED
          BY <3>3, <3>5, <5>1
      <4>3. QED
        BY <3>4, <3>5, <4>1, <4>2
    <3>9. \A i, j \in 1 .. Len(lockq') : lockq'[i] = lockq'[j] => i = j
      <4>1. \A i \in 1 .. Len(lockq') : i + 1 \in 1 .. Len(lockq)
        BY <3>3
      <4>2. QED
        BY <3>3, <3>6, <4>1
    <3>10. pc' \in [Task -> {"out", "lock", "try", "wait", "woken"}]
      BY <1>1, <3>2, <3>3
    <3>11. pc'[t] = "out" /\ pc'[h] = "try" /\ \A u \in Task : u # t /\ u # h => pc'[u] = pc[u]
      BY <1>1, <3>2, <3>3, <3>7
    <3>12. Typed'
      BY <1>1, <1>3, <1>4, <1>5, <2>1, <3>3, <3>10, ReaderTyped
    <3>13. \A u \in Task : pc'[u] = "lock" <=> u \in ToSet(lockq')
      BY <1>6, <1>8, <3>8, <3>11 DEF NoLostWakeup
    <3>14. \A u \in Task : pc'[u] # "woken" /\ pc'[u] # "wait"
      BY <1>7, <3>3, <3>11
    <3>15. NoLostWakeup'
      BY <2>1, <3>13, <3>14, KeyboardAssumption DEF NoLostWakeup
    <3>16. LockMoves'
      BY <3>3, <3>11 DEF LockMoves
    <3>17. QED
      BY <3>9, <3>12, <3>15, <3>16 DEF ReadersInv
  <2>4. QED
    BY <2>2, <2>3
<1>11. QED
  BY <1>4, <1>9, <1>10

(* mutexlock_acquire: the lock is free, or the task is queued for it. *)
LEMMA AcquireKeeps ==
  ASSUME Typed, ReadersInv, NEW t \in Task, NEW n \in 0 .. MaxCount, pc[t] \in {"out", "try"},
         Acquire(t, n), UNCHANGED keyboard
  PROVE  Typed' /\ ReadersInv'
<1>1. 0 \in 0 .. n
  BY KeyboardAssumption
<1>2. CASE holder = NULL
  <2>1. ReadLoop(t, n, 0)
    BY <1>2 DEF Acquire
  <2>2. QED
    BY <1>1, <1>2, <2>1, ReadLoopKeeps
<1>3. CASE holder # NULL
  <2>1. /\ lockq' = Append(lockq, t) /\ pc' = [pc EXCEPT ![t] = "lock"]
        /\ want' = [want EXCEPT ![t] = n] /\ got' = [got EXCEPT ![t] = 0]
        /\ UNCHANGED <<fifo, waiter, holder>>
    BY <1>3 DEF Acquire
  <2>2. /\ fifo \in Rings /\ waiter \in Task \cup {NULL} /\ holder \in Task \cup {NULL}
        /\ lockq \in Seq(Task) /\ pc \in [Task -> {"out", "lock", "try", "wait", "woken"}]
    BY DEF Typed, TypeOK
  <2>3. pc' \in [Task -> {"out", "lock", "try", "wait", "woken"}] /\ lockq' \in Seq(Task)
    BY <2>1, <2>2
  <2>4. Typed'
    BY <1>1, <2>1, <2>2, <2>3, ReaderTyped
  <2>5. pc'[t] = "lock" /\ \A u \in Task : u # t => pc'[u] = pc[u]
    BY <2>1, <2>2
  <2>6. NoLostWakeup /\ LockMoves
    BY DEF ReadersInv
  <2>7. /\ Len(lockq') = Len(lockq) + 1 /\ lockq'[Len(lockq) + 1] = t /\ Len(lockq) \in Nat
        /\ \A i \in 1 .. Len(lockq) : lockq'[i] = lockq[i]
    BY <2>1, <2>2
  <2>8. \A u : u \in ToSet(lockq) <=> \E i \in 1 .. Len(lockq) : lockq[i] = u
    BY <2>2 DEF ToSet
  <2>9. \A u : u \in ToSet(lockq') <=> \E i \in 1 .. Len(lockq') : lockq'[i] = u
    BY <2>3 DEF ToSet
  <2>10. \A u : u \in ToSet(lockq') <=> u \in ToSet(lockq) \/ u = t
    <3>1. ASSUME NEW i \in 1 .. Len(lockq') PROVE lockq'[i] \in ToSet(lockq) \/ lockq'[i] = t
      BY <2>7, <2>8
    <3>2. t \in ToSet(lockq')
      BY <2>7, <2>9
    <3>3. ASSUME NEW i \in 1 .. Len(lockq) PROVE lockq[i] \in ToSet(lockq')
      BY <2>7, <2>9
    <3>4. QED
      BY <2>8, <2>9, <3>1, <3>2, <3>3
  <2>11. t \notin ToSet(lockq)
    BY <2>6 DEF NoLostWakeup
  <2>12. \A i, j \in 1 .. Len(lockq') : lockq'[i] = lockq'[j] => i = j
    <3>1. \A i, j \in 1 .. Len(lockq) : lockq[i] = lockq[j] => i = j
      BY DEF ReadersInv
    <3>2. \A i \in 1 .. Len(lockq) : lockq[i] # t
      BY <2>8, <2>11
    <3>3. QED
      BY <2>7, <3>1, <3>2
  <2>13. NoLostWakeup'
    <3>1. \A u \in Task : pc'[u] = "wait" <=> waiter' = u
      BY <2>1, <2>5, <2>6 DEF NoLostWakeup
    <3>2. \A u \in Task : pc'[u] = "woken" => ~ fifo_empty(fifo') /\ holder' = u
      BY <2>1, <2>5, <2>6 DEF NoLostWakeup
    <3>3. \A u \in Task : pc'[u] = "lock" <=> u \in ToSet(lockq')
      BY <2>5, <2>6, <2>10 DEF NoLostWakeup
    <3>4. QED
      BY <2>1, <2>6, <3>1, <3>2, <3>3 DEF NoLostWakeup
  <2>14. LockMoves'
    BY <1>3, <2>1 DEF LockMoves
  <2>15. QED
    BY <2>4, <2>12, <2>13, <2>14 DEF ReadersInv
<1>4. QED
  BY <1>2, <1>3

(* Bytes that are no key, and the release of a key. *)
LEMMA QuietCodeKInv ==
  ASSUME KInv, PrefixByte \/ IllegalCode \/ \E key \in Keys : BreakCode(key)
  PROVE  KInv'
<1>1. UNCHANGED <<modifiers, fifo, waiter, reader, typed>>
  BY DEF PrefixByte, IllegalCode, BreakCode
<1>2. /\ key_state' \subseteq key_state /\ key_state' = down' /\ down' \subseteq down
      /\ extcode' = prefix' /\ prefix' \in BOOLEAN
  <2>1. key_state = down /\ extcode = prefix
    BY DEF KInv, KeysInv, KeysInSync
  <2>2. CASE PrefixByte \/ IllegalCode
    BY <2>1, <2>2 DEF PrefixByte, IllegalCode
  <2>3. ASSUME NEW key \in Keys, BreakCode(key)
        PROVE  /\ key_state' \subseteq key_state /\ key_state' = down' /\ down' \subseteq down
               /\ extcode' = prefix' /\ prefix' \in BOOLEAN
    <3>1. /\ prefix' = FALSE /\ extcode' = FALSE /\ down' = down \ {<<key, prefix>>}
          /\ key_state' = key_state \ {<<key, extcode>>}
      BY <2>3 DEF BreakCode
    <3>2. QED
      BY <2>1, <3>1
  <2>4. QED
    BY <2>2, <2>3
<1>3. Typed'
  <2>1. {extcode', ctrl', alt', shift', prefix'} \subseteq BOOLEAN
    BY <1>1, <1>2 DEF KInv, Typed, TypeOK, modifiers
  <2>2. key_state' \subseteq Keys \X BOOLEAN /\ down' \subseteq Keys \X BOOLEAN
    BY <1>2 DEF KInv, Typed, TypeOK
  <2>3. QED
    BY <1>1, <2>1, <2>2 DEF KInv, Typed, TypeOK, modifiers, reader
<1>4. KeysInv'
  BY <1>2 DEF KInv, KeysInv, KeysInSync
<1>5. ReadersInv'
  BY <1>1 DEF KInv, ReadersInv, NoLostWakeup, LockMoves, reader
<1>6. QED
  BY <1>3, <1>4, <1>5 DEF KInv

(* A key goes down. *)
LEMMA MakeCodeKInv ==
  ASSUME KInv, NEW key \in Keys, MakeCode(key)
  PROVE  KInv'
<1>1. /\ prefix => key \in Extended
      /\ prefix' = FALSE /\ extcode' = FALSE
      /\ down' = down \cup {<<key, prefix>>}
      /\ key_state' = key_state \cup {<<key, extcode>>}
      /\ locks' = IF key \notin Lock THEN locks ELSE IF key \in locks THEN locks \ {key} ELSE locks \cup {key}
      /\ UNCHANGED <<holder, lockq, want, got>>
  BY DEF MakeCode
<1>2. PICK ch : PutChar(ch)
  BY DEF MakeCode
<1>3. Typed /\ KeysInv /\ ReadersInv
  BY DEF KInv
<1>4. /\ fifo' \in Rings /\ typed' \in Byte /\ waiter' \in Task \cup {NULL}
      /\ pc' \in [Task -> {"out", "lock", "try", "wait", "woken"}]
      /\ ReadersInv'
  BY <1>1, <1>2, <1>3, PutCharKeeps
<1>5. key_state = down /\ extcode = prefix /\ prefix \in BOOLEAN
  BY <1>3 DEF KeysInv, KeysInSync, Typed, TypeOK
<1>6. KeysInv'
  <2>1. KeysInSync'
    BY <1>1, <1>5 DEF KeysInSync
  <2>2. ASSUME NEW x \in down', x[2] PROVE x[1] \in Extended
    <3>1. CASE x \in down
      BY <1>3, <2>2, <3>1 DEF KeysInv
    <3>2. CASE x = <<key, prefix>>
      <4>1. x[1] = key /\ x[2] = prefix
        BY <3>2
      <4>2. QED
        BY <1>1, <2>2, <4>1
    <3>3. QED
      BY <1>1, <3>1, <3>2
  <2>3. QED
    BY <2>1, <2>2 DEF KeysInv
<1>7. Typed'
  <2>1. ctrl' \in BOOLEAN /\ alt' \in BOOLEAN /\ shift' \in BOOLEAN
    BY DEF MakeCode
  <2>2. {extcode', ctrl', alt', shift', prefix'} \subseteq BOOLEAN
    BY <1>1, <2>1
  <2>3. <<key, prefix>> \in Keys \X BOOLEAN
    BY <1>5
  <2>4. key_state' \subseteq Keys \X BOOLEAN /\ down' \subseteq Keys \X BOOLEAN
    BY <1>1, <1>3, <1>5, <2>3 DEF Typed, TypeOK
  <2>5. locks' \subseteq Lock
    BY <1>1, <1>3 DEF Typed, TypeOK
  <2>6. /\ fifo'.head \in 0 .. (BUFFER_SIZE - 1) /\ fifo'.tail \in 0 .. (BUFFER_SIZE - 1)
        /\ \A i \in 0 .. (BUFFER_SIZE - 1) : fifo'.buf[i] \in Byte
    BY <1>4 DEF Rings, Indices
  <2>7. QED
    BY <1>1, <1>3, <1>4, <2>2, <2>4, <2>5, <2>6 DEF Typed, TypeOK
<1>8. QED
  BY <1>4, <1>6, <1>7 DEF KInv

(* The readers leave the keyboard alone. *)
LEMMA ReaderKInv ==
  ASSUME KInv, NEW t \in Task, Retry(t) \/ Resume(t) \/ \E n \in 1 .. MaxCount : Read(t, n)
  PROVE  KInv'
<1>1. Typed /\ KeysInv /\ ReadersInv
  BY DEF KInv
<1>2. UNCHANGED keyboard
  BY DEF Retry, Resume, Read
<1>3. want[t] \in 0 .. MaxCount /\ got[t] \in 0 .. want[t]
  BY <1>1 DEF Typed, TypeOK
<1>4. Typed' /\ ReadersInv'
  <2>1. CASE Retry(t)
    BY <1>1, <1>2, <1>3, <2>1, AcquireKeeps DEF Retry
  <2>2. CASE Resume(t)
    BY <1>1, <1>2, <1>3, <2>2, ReadLoopKeeps DEF Resume
  <2>3. ASSUME NEW n \in 1 .. MaxCount, Read(t, n) PROVE Typed' /\ ReadersInv'
    <3>1. n \in 0 .. MaxCount
      BY KeyboardAssumption
    <3>2. QED
      BY <1>1, <1>2, <2>3, <3>1, AcquireKeeps DEF Read
  <2>4. QED
    BY <2>1, <2>2, <2>3
<1>5. KeysInv'
  BY <1>1, <1>2 DEF keyboard, KeysInv, KeysInSync
<1>6. QED
  BY <1>4, <1>5 DEF KInv

(* Every step keeps the invariant. *)
LEMMA NextKInv == KInv /\ [Next]_vars => KInv'
<1> SUFFICES ASSUME KInv, [Next]_vars PROVE KInv'
  OBVIOUS
<1>1. CASE PrefixByte \/ IllegalCode \/ \E key \in Keys : BreakCode(key)
  BY <1>1, QuietCodeKInv
<1>2. CASE \E key \in Keys : MakeCode(key)
  BY <1>2, MakeCodeKInv
<1>3. CASE \E t \in Task : Retry(t) \/ Resume(t) \/ \E n \in 1 .. MaxCount : Read(t, n)
  BY <1>3, ReaderKInv
<1>4. CASE UNCHANGED vars
  <2>1. Typed'
    BY <1>4 DEF KInv, Typed, TypeOK, vars, modifiers, reader
  <2>2. KeysInv'
    BY <1>4 DEF KInv, KeysInv, KeysInSync, vars
  <2>3. ReadersInv'
    BY <1>4 DEF KInv, ReadersInv, NoLostWakeup, LockMoves, vars, reader
  <2>4. QED
    BY <2>1, <2>2, <2>3 DEF KInv
<1>5. QED
  BY <1>1, <1>2, <1>3, <1>4 DEF Next

-----------------------------------------------------------------------------
(* The theorems. *)

(* The invariant holds in every reachable state. *)
THEOREM KeyboardInvariance == Spec => []KInv
<1>1. Init => KInv
  BY InitKInv
<1>2. KInv /\ [Next]_vars => KInv'
  BY NextKInv
<1>3. QED
  BY <1>1, <1>2, PTL DEF Spec

(* Every variable of the keyboard driver keeps its type, and the indices of *)
(* the ring stay inside it.                                                 *)
THEOREM KeyboardTypes == Spec => []TypeOK
<1>1. KInv => TypeOK
  BY DEF KInv, Typed
<1>2. QED
  BY <1>1, KeyboardInvariance, PTL

(* keyboard_handler knows which keys are down. *)
THEOREM KeyboardInSync == Spec => []KeysInSync
<1>1. KInv => KeysInSync
  BY DEF KInv, KeysInv
<1>2. QED
  BY <1>1, KeyboardInvariance, PTL

(* keyboard_read against keyboard_handler: no wake-up is lost. *)
THEOREM KeyboardWakes == Spec => []NoLostWakeup
<1>1. KInv => NoLostWakeup
  BY DEF KInv, ReadersInv
<1>2. QED
  BY <1>1, KeyboardInvariance, PTL

(* A task is queued for the lock only while another has it or will get it. *)
THEOREM KeyboardLockMoves == Spec => []LockMoves
<1>1. KInv => LockMoves
  BY DEF KInv, ReadersInv
<1>2. QED
  BY <1>1, KeyboardInvariance, PTL

(* A key without a prefix is typed from the column the held keys ask for. *)
LEMMA MakeCodeAsHeld ==
  ASSUME KInv, NEW key \in Keys, MakeCode(key), ~ prefix
  PROVE  Column(key, extcode, shift', locks') = HeldColumn(key)
<1>1. KInv'
  BY MakeCodeKInv
<1>2. extcode = prefix /\ prefix \in BOOLEAN
  BY DEF KInv, KeysInv, KeysInSync, Typed, TypeOK
<1>3. shift' = (<<"shift_l", FALSE>> \in down' \/ <<"shift_r", FALSE>> \in down')
  <2>1. key_state' = down'
    BY <1>1 DEF KInv, KeysInv, KeysInSync
  <2>2. QED
    BY <2>1 DEF MakeCode
<1>4. \A x \in down' : x \in Keys \X BOOLEAN /\ (x[2] => x[1] \in Extended)
  BY <1>1 DEF KInv, Typed, TypeOK, KeysInv
<1>5. (<<"shift_l", FALSE>> \in down' \/ <<"shift_r", FALSE>> \in down')
         <=> {"shift_l", "shift_r"} \cap {x[1] : x \in down'} # {}
  <2>1. ASSUME NEW x \in down', x[1] \in {"shift_l", "shift_r"}
        PROVE  x = <<"shift_l", FALSE>> \/ x = <<"shift_r", FALSE>>
    <3>1. x[2] = FALSE
      BY <1>4, <2>1 DEF Extended
    <3>2. x = <<x[1], x[2]>>
      BY <1>4
    <3>3. QED
      BY <2>1, <3>1, <3>2
  <2>2. ASSUME NEW k \in {"shift_l", "shift_r"}, <<k, FALSE>> \in down'
        PROVE  k \in {x[1] : x \in down'}
    <3>1. <<k, FALSE>>[1] = k
      OBVIOUS
    <3>2. QED
      BY <2>2, <3>1
  <2>3. QED
    BY <2>1, <2>2
<1>6. PICK held \in BOOLEAN : held <=> {"shift_l", "shift_r"} \cap {x[1] : x \in down'} # {}
  OBVIOUS
<1>7. PICK caps \in BOOLEAN : caps <=> "capslock" \in locks'
  OBVIOUS
<1>8. shift' = held
  BY <1>3, <1>5, <1>6
<1>9. CASE key \in Alpha
  <2>1. Column(key, extcode, shift', locks') = IF caps = held THEN 0 ELSE 1
    BY <1>2, <1>7, <1>8, <1>9 DEF Column
  <2>2. HeldColumn(key) = IF held # caps THEN 1 ELSE 0
    BY <1>6, <1>7, <1>9 DEF HeldColumn
  <2>3. QED
    BY <2>1, <2>2
<1>10. CASE key \notin Alpha
  <2>1. Column(key, extcode, shift', locks') = IF FALSE = held THEN 0 ELSE 1
    BY <1>2, <1>8, <1>10 DEF Column
  <2>2. HeldColumn(key) = IF held THEN 1 ELSE 0
    BY <1>6, <1>10 DEF HeldColumn
  <2>3. QED
    BY <2>1, <2>2
<1>11. QED
  BY <1>9, <1>10

(* keyboard_handler types a character as the keys are held. *)
THEOREM KeyboardTypesAsHeld == Spec => TypedAsHeld
<1>1. KInv /\ [Next]_vars => [AsHeld]_vars
  BY MakeCodeAsHeld DEF AsHeld
<1>2. QED
  BY <1>1, KeyboardInvariance, PTL DEF Spec, TypedAsHeld

-----------------------------------------------------------------------------
(* The ring buffer implements the queue that drops its oldest byte. *)

(* Reading is Get, or nothing when the ring is empty. *)
LEMMA ReadLoopIsGet ==
  ASSUME Typed, NEW t \in Task, NEW n \in 0 .. MaxCount, NEW had \in 0 .. n,
         ReadLoop(t, n, had), typed' = typed
  PROVE  Ring!Get \/ UNCHANGED <<Contents(fifo), typed>>
<1> DEFINE there == Len(Contents(fifo))
<1>1. fifo \in Rings /\ there \in Nat /\ n \in Nat /\ had \in Nat /\ had <= n
  BY ContentsForm DEF Typed
<1>2. PICK k \in 0 .. there : fifo' = [fifo EXCEPT !.head = (@ + k) % BUFFER_SIZE]
  <2>1. PICK k : k = IF there < n - had THEN there ELSE n - had
    OBVIOUS
  <2>2. k \in 0 .. there
    BY <1>1, <2>1
  <2>3. QED
    BY <2>1, <2>2 DEF ReadLoop
<1>3. /\ k = 0 => fifo' = fifo
      /\ Contents(fifo') = SubSeq(Contents(fifo), k + 1, Len(Contents(fifo)))
  <2>1. PICK g : g = fifo'
    OBVIOUS
  <2>2. /\ k = 0 => g = fifo
        /\ Contents(g) = SubSeq(Contents(fifo), k + 1, Len(Contents(fifo)))
    BY <1>1, <1>2, <2>1, GetDrops
  <2>3. QED
    BY <2>1, <2>2
<1>4. Contents(fifo)' = Contents(fifo')
  BY DEF Contents
<1>5. CASE k = 0
  BY <1>3, <1>5 DEF Contents
<1>6. CASE k # 0
  <2>1. k \in 1 .. Len(Contents(fifo))
    BY <1>1, <1>6
  <2>2. QED
    BY <1>3, <1>4, <2>1 DEF Ring!Get
<1>7. QED
  BY <1>5, <1>6

(* Every step of the driver is a step of the queue, or leaves it alone. *)
LEMMA StepIsQueueStep ==
  ASSUME KInv, [Next]_vars
  PROVE  [Ring!Next]_<<Contents(fifo), typed>>
<1>1. Typed
  BY DEF KInv
<1>2. CASE UNCHANGED <<fifo, typed>>
  BY <1>2 DEF Contents
<1>3. ASSUME NEW ch, PutChar(ch), ~ UNCHANGED <<fifo, typed>>
      PROVE  Ring!Put
  <2>1. fifo' = fifo_put(fifo, typed) /\ typed' = (typed + 1) % Numbers
    BY <1>3 DEF PutChar
  <2>2. PICK g : g = fifo'
    OBVIOUS
  <2>3. Contents(g) = Append(IF Len(Contents(fifo)) = BUFFER_SIZE - 1 THEN Tail(Contents(fifo))
                             ELSE Contents(fifo), typed)
    BY <1>1, <2>1, <2>2, PutAppends DEF Typed, TypeOK
  <2>4. Contents(fifo)' = Contents(g)
    BY <2>2 DEF Contents
  <2>5. QED
    BY <2>1, <2>3, <2>4 DEF Ring!Put
<1>4. CASE \E key \in Keys : MakeCode(key)
  BY <1>2, <1>3, <1>4 DEF MakeCode, Ring!Next
<1>5. CASE PrefixByte \/ IllegalCode \/ \E key \in Keys : BreakCode(key)
  BY <1>2, <1>5 DEF PrefixByte, IllegalCode, BreakCode
<1>6. ASSUME NEW t \in Task, Retry(t) \/ Resume(t) \/ \E n \in 1 .. MaxCount : Read(t, n)
      PROVE  [Ring!Next]_<<Contents(fifo), typed>>
  <2>1. typed' = typed
    BY <1>6 DEF Retry, Resume, Read, keyboard
  <2>2. want[t] \in 0 .. MaxCount /\ got[t] \in 0 .. want[t]
    BY <1>1 DEF Typed, TypeOK
  <2>3. ASSUME NEW n \in 0 .. MaxCount, Acquire(t, n)
        PROVE  Ring!Get \/ UNCHANGED <<Contents(fifo), typed>>
    <3>1. 0 \in 0 .. n
      BY KeyboardAssumption
    <3>2. CASE ReadLoop(t, n, 0)
      BY <1>1, <2>1, <3>1, <3>2, ReadLoopIsGet
    <3>3. CASE fifo' = fifo
      BY <2>1, <3>3 DEF Contents
    <3>4. QED
      BY <2>3, <3>2, <3>3 DEF Acquire
  <2>4. Ring!Get \/ UNCHANGED <<Contents(fifo), typed>>
    <3>1. CASE Retry(t)
      BY <2>2, <2>3, <3>1 DEF Retry
    <3>2. CASE Resume(t)
      BY <1>1, <2>1, <2>2, <3>2, ReadLoopIsGet DEF Resume
    <3>3. ASSUME NEW n \in 1 .. MaxCount, Read(t, n)
          PROVE  Ring!Get \/ UNCHANGED <<Contents(fifo), typed>>
      <4>1. n \in 0 .. MaxCount
        BY KeyboardAssumption
      <4>2. QED
        BY <2>3, <3>3, <4>1 DEF Read
    <3>4. QED
      BY <1>6, <3>1, <3>2, <3>3
  <2>5. QED
    BY <2>4 DEF Ring!Next
<1>7. CASE UNCHANGED vars
  BY <1>2, <1>7 DEF vars
<1>8. QED
  BY <1>4, <1>5, <1>6, <1>7 DEF Next

(* fifo.c is a queue of BUFFER_SIZE - 1 bytes that drops the oldest one. *)
THEOREM KeyboardIsQueue == Spec => IsQueue
<1>1. Init => Ring!Init
  <2>1. ASSUME Init PROVE Contents(fifo) = <<>> /\ typed = 0
    <3>1. fifo \in Rings /\ fifo.head = 0 /\ fifo.tail = 0 /\ typed = 0
      BY <2>1, InitKInv DEF KInv, Typed, Init
    <3>2. Contents(fifo) \in Seq(Byte) /\ Len(Contents(fifo)) = 0
      BY <3>1, ContentsForm DEF Count
    <3>3. QED
      BY <3>1, <3>2
  <2>2. QED
    BY <2>1 DEF Ring!Init
<1>2. KInv /\ [Next]_vars => [Ring!Next]_<<Contents(fifo), typed>>
  BY StepIsQueueStep
<1>3. QED
  BY <1>1, <1>2, KeyboardInvariance, PTL DEF Spec, IsQueue, Ring!Spec

=============================================================================
