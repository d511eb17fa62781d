------------------------------ MODULE FileProofs -----------------------------
(***************************************************************************)
(* Proofs about the file system of Files: the table of the inodes in       *)
(* memory, the maps of the disk and the blocks of the files.  The ones and *)
(* zeros that the blocks and inodes in use call for (Exact) are the core   *)
(* of the invariant; a map may hold other bits as well, so a search that   *)
(* runs over the end of its block spoils nothing that counts until it      *)
(* returns a bit from behind it.                                           *)
(***************************************************************************)
EXTENDS ServicesProofs

-----------------------------------------------------------------------------
(* The inode table. *)

(* Of the entries in use, in order, each has an inode of its own, with the *)
(* references that callers hold; the other entries are free.               *)
EntryTypes ==
    /\ inode_list \in Seq(Files!Slot)
    /\ table \in [Files!Slot -> [nr : Nat, count : Nat]]
    /\ held \in [Files!Inode -> Nat]
    /\ \A k \in DOMAIN inode_list : table[inode_list[k]].nr \in Files!Inode

EntryHeld(n) ==
    IF held[n] = 0 THEN Files!Places(n) = {}
    ELSE \E k \in DOMAIN inode_list :
            Files!Places(n) = {k} /\ table[inode_list[k]] = [nr |-> n, count |-> held[n]]

EntriesFree ==
    \A i \in Files!Slot : (\A k \in DOMAIN inode_list : inode_list[k] # i) => table[i] = Files!Free

Entries == EntryTypes /\ (\A n \in Files!Inode : EntryHeld(n)) /\ EntriesFree

(* A failed assertion ends the system and leaves no claim. *)
InodeInv == sb.ninodes \in Nat /\ sb.ninodes > 0 /\ (fs_panic \/ Entries)

(* The list without its element k. *)
LEMMA Removed ==
  ASSUME NEW S, NEW q \in Seq(S), NEW k \in 1..Len(q), NEW r, r = Files!RemoveAt(q, k)
  PROVE  /\ r \in Seq(S) /\ Len(r) = Len(q) - 1
         /\ \A j \in 1..Len(r) : r[j] = q[IF j < k THEN j ELSE j + 1]
<1> DEFINE a == SubSeq(q, 1, k - 1)
           b == SubSeq(q, k + 1, Len(q))
<1>1. Len(q) \in Nat /\ k \in Nat /\ k >= 1 /\ k <= Len(q)
  OBVIOUS
<1>2. a \in Seq(S) /\ Len(a) = k - 1 /\ \A j \in 1..(k - 1) : a[j] = q[j]
  BY <1>1, SubSeqProperties
<1>3. b \in Seq(S) /\ Len(b) = Len(q) - k /\ \A j \in 1..(Len(q) - k) : b[j] = q[k + j]
  BY <1>1, SubSeqProperties
<1>4. r = a \o b
  BY DEF Files!RemoveAt
<1> HIDE DEF a, b
<1>5. /\ r \in Seq(S) /\ Len(r) = Len(q) - 1
      /\ \A j \in 1..Len(r) : r[j] = IF j <= Len(a) THEN a[j] ELSE b[j - Len(a)]
  <2>1. r \in Seq(S) /\ Len(r) = Len(a) + Len(b)
        /\ \A j \in 1..(Len(a) + Len(b)) : r[j] = IF j <= Len(a) THEN a[j] ELSE b[j - Len(a)]
    <3>1. /\ a \o b \in Seq(S) /\ Len(a \o b) = Len(a) + Len(b)
          /\ \A j \in 1..(Len(a) + Len(b)) : (a \o b)[j] = IF j <= Len(a) THEN a[j] ELSE b[j - Len(a)]
      BY <1>2, <1>3, ConcatProperties, Zenon
    <3> QED BY <1>4, <3>1, Zenon
  <2>2. Len(a) + Len(b) = Len(q) - 1
    BY <1>1, <1>2, <1>3
  <2> QED BY <2>1, <2>2
<1>6. ASSUME NEW j \in 1..Len(r) PROVE r[j] = q[IF j < k THEN j ELSE j + 1]
  <2>1. CASE j < k
    <3>1. j \in 1..(k - 1) /\ j <= Len(a)
      BY <2>1, <1>1, <1>2
    <3> QED BY <3>1, <2>1, <1>2, <1>5
  <2>2. CASE j >= k
    <3>1. j - (k - 1) \in 1..(Len(q) - k) /\ ~(j <= Len(a)) /\ k + (j - (k - 1)) = j + 1 /\ j - Len(a) = j - (k - 1)
      BY <2>2, <1>1, <1>2, <1>5
    <3>2. b[j - (k - 1)] = q[j + 1]
      BY <3>1, <1>3
    <3>3. r[j] = b[j - (k - 1)]
      BY <3>1, <1>5
    <3> QED BY <3>2, <3>3, <2>2, <1>1
  <2> QED BY <2>1, <2>2, <1>1
<1> QED BY <1>5, <1>6

(* The entry of an inode that somebody holds. *)
LEMMA HeldPlace ==
  ASSUME Entries, NEW n \in Files!Inode, Files!Places(n) # {} \/ held[n] # 0
  PROVE  \E k \in DOMAIN inode_list :
            /\ Files!Places(n) = {k} /\ Files!find_inode(n) = inode_list[k] /\ Files!Min(Files!Places(n)) = k
            /\ held[n] # 0 /\ table[inode_list[k]] = [nr |-> n, count |-> held[n]]
            /\ k \in 1..Len(inode_list) /\ inode_list[k] \in Files!Slot
            /\ \A j \in DOMAIN inode_list : j # k => table[inode_list[j]].nr # n /\ inode_list[j] # inode_list[k]
<1>1. held[n] # 0
  BY DEF Entries, EntryHeld
<1>2. PICK k \in DOMAIN inode_list :
         Files!Places(n) = {k} /\ table[inode_list[k]] = [nr |-> n, count |-> held[n]]
  BY <1>1 DEF Entries, EntryHeld
<1>3. DOMAIN inode_list = 1..Len(inode_list) /\ inode_list[k] \in Files!Slot
  BY <1>2 DEF Entries, EntryTypes
<1>4. k \in Int
  BY <1>2, <1>3 DEF Entries, EntryTypes
<1>5. Files!Min(Files!Places(n)) = k
  BY <1>2, <1>4 DEF Files!Min
<1>6. \A j \in DOMAIN inode_list : j # k => table[inode_list[j]].nr # n
  BY <1>2 DEF Files!Places
<1>7. table[inode_list[k]].nr = n
  BY <1>2
<1> QED BY <1>1, <1>2, <1>3, <1>5, <1>6, <1>7 DEF Files!find_inode

(* The entry of inode n gets count c, one more or one less reference. *)
LEMMA CountStep ==
  ASSUME Entries, NEW n \in Files!Inode, NEW k \in DOMAIN inode_list, NEW c1 \in Nat, c1 > 0,
         Files!Places(n) = {k}, table[inode_list[k]] = [nr |-> n, count |-> held[n]],
         table' = [table EXCEPT ![inode_list[k]].count = c1],
         held' = [held EXCEPT ![n] = c1], inode_list' = inode_list, sb' = sb
  PROVE  Entries'
<1> DEFINE i == inode_list[k]
<1>0. EntryTypes /\ EntriesFree /\ \A m \in Files!Inode : EntryHeld(m)
  BY DEF Entries
<1>1. /\ Files!Slot' = Files!Slot /\ Files!Inode' = Files!Inode /\ Files!Free' = Files!Free
      /\ n \in Nat
  BY DEF Files!Slot, Files!Inode, Files!Free
<1>2. \A j \in DOMAIN inode_list : inode_list[j] \in Files!Slot
  BY <1>0 DEF EntryTypes
<1>3. /\ table' \in [Files!Slot -> [nr : Nat, count : Nat]]
      /\ table'[i] = [nr |-> n, count |-> c1]
      /\ \A s \in Files!Slot : s # i => table'[s] = table[s]
      /\ \A s \in Files!Slot : table'[s].nr = table[s].nr
  BY <1>0, <1>1, <1>2 DEF EntryTypes
<1>4. /\ held' \in [Files!Inode -> Nat] /\ held'[n] = c1
      /\ \A m \in Files!Inode : m # n => held'[m] = held[m]
  BY <1>0, <1>1 DEF EntryTypes
<1>5. \A m : Files!Places(m)' = Files!Places(m)
  BY <1>2, <1>3 DEF Files!Places
<1>6. ASSUME NEW m \in Files!Inode PROVE EntryHeld(m)'
  <2>1. CASE m = n
    BY <2>1, <1>3, <1>4, <1>5 DEF EntryHeld
  <2>2. CASE m # n /\ held[m] = 0
    BY <2>2, <1>0, <1>4, <1>5 DEF EntryHeld
  <2>3. CASE m # n /\ held[m] # 0
    <3>1. PICK j \in DOMAIN inode_list :
            Files!Places(m) = {j} /\ table[inode_list[j]] = [nr |-> m, count |-> held[m]]
      BY <2>3, <1>0 DEF EntryHeld
    <3>2. inode_list[j] # i
      <4>1. table[inode_list[j]].nr = m /\ table[i].nr = n
        BY <3>1
      <4> QED BY <4>1, <2>3
    <3>3. table'[inode_list[j]] = [nr |-> m, count |-> held'[m]] /\ held'[m] # 0
      BY <3>1, <3>2, <2>3, <1>2, <1>3, <1>4
    <3>4. Files!Places(m)' = {j}
      BY <3>1, <1>5
    <3> QED BY <3>3, <3>4 DEF EntryHeld
  <2> QED BY <2>1, <2>2, <2>3
<1>7. EntriesFree'
  BY <1>0, <1>1, <1>3 DEF EntriesFree
<1>8. EntryTypes'
  BY <1>0, <1>1, <1>2, <1>3, <1>4 DEF EntryTypes
<1> HIDE DEF i
<1> QED BY <1>1, <1>6, <1>7, <1>8 DEF Entries

(* A free entry, which is not in the list, is taken for inode n. *)
LEMMA EntryStep ==
  ASSUME Entries, NEW n \in Files!Inode, NEW i \in Files!Slot,
         Files!Places(n) = {}, table[i] = Files!Free,
         table' = [table EXCEPT ![i] = [nr |-> n, count |-> 1]],
         held' = [held EXCEPT ![n] = @ + 1], inode_list' = Append(inode_list, i), sb' = sb
  PROVE  Entries'
<1> DEFINE len == Len(inode_list)
<1>0. EntryTypes /\ EntriesFree /\ \A m \in Files!Inode : EntryHeld(m)
  BY DEF Entries
<1>1. /\ Files!Slot' = Files!Slot /\ Files!Inode' = Files!Inode /\ Files!Free' = Files!Free
      /\ n \in Nat /\ n > 0 /\ \A m \in Files!Inode : m \in Nat /\ m > 0
  BY DEF Files!Slot, Files!Inode, Files!Free
<1>2. /\ len \in Nat /\ DOMAIN inode_list = 1..len /\ DOMAIN inode_list' = 1..(len + 1)
      /\ inode_list' \in Seq(Files!Slot) /\ inode_list'[len + 1] = i
      /\ \A j \in 1..len : inode_list'[j] = inode_list[j] /\ inode_list[j] \in Files!Slot
  BY <1>0 DEF EntryTypes
<1> HIDE DEF len
<1>3. ASSUME NEW j \in 1..len, inode_list[j] = i PROVE FALSE
  <2>1. table[i].nr \in Files!Inode
    BY <1>0, <1>2, <1>3 DEF EntryTypes
  <2>2. table[i].nr = 0
    BY DEF Files!Free
  <2> QED BY <2>1, <2>2, <1>1
<1>4. held[n] = 0
  BY <1>0 DEF EntryHeld
<1>5. /\ table' \in [Files!Slot -> [nr : Nat, count : Nat]]
      /\ table'[i] = [nr |-> n, count |-> 1]
      /\ \A s \in Files!Slot : s # i => table'[s] = table[s]
  BY <1>0, <1>1 DEF EntryTypes
<1>6. /\ held' \in [Files!Inode -> Nat] /\ held'[n] = 1
      /\ \A m \in Files!Inode : m # n => held'[m] = held[m]
  BY <1>0, <1>1, <1>4 DEF EntryTypes
<1>7. \A j \in 1..len : table'[inode_list'[j]] = table[inode_list[j]]
  BY <1>2, <1>3, <1>5
<1>8. /\ Files!Places(n)' = {len + 1}
      /\ \A m \in Files!Inode : m # n => Files!Places(m)' = Files!Places(m)
  <2>1. table'[inode_list'[len + 1]].nr = n /\ \A j : j \in 1..(len + 1) <=> j \in 1..len \/ j = len + 1
    BY <1>2, <1>5
  <2>2. ASSUME NEW m
        PROVE  /\ m = n => Files!Places(m)' = Files!Places(m) \cup {len + 1}
               /\ m # n => Files!Places(m)' = Files!Places(m)
    <3> DEFINE old == Files!Places(m)
               new == Files!Places(m)'
    <3>1. /\ old = {j \in 1..len : table[inode_list[j]].nr = m}
          /\ new = {j \in 1..(len + 1) : table'[inode_list'[j]].nr = m}
      BY <1>2 DEF Files!Places
    <3> HIDE DEF old, new
    <3>2. /\ \A j \in 1..len : j \in new <=> j \in old
          /\ len + 1 \in new <=> m = n
          /\ len + 1 \notin old /\ old \subseteq 1..len /\ new \subseteq 1..len \cup {len + 1}
      <4>1. \A j \in 1..len : j \in new <=> j \in old
        BY <2>1, <3>1, <1>7
      <4>2. len + 1 \in new <=> m = n
        BY <2>1, <3>1
      <4>3. len + 1 \notin old /\ old \subseteq 1..len /\ new \subseteq 1..len \cup {len + 1}
        BY <2>1, <3>1, <1>2
      <4> QED BY <4>1, <4>2, <4>3
    <3>3. ASSUME m = n PROVE new = old \cup {len + 1}
      <4>1. \A j : j \in new <=> j \in old \cup {len + 1}
        BY <3>2, <3>3, Zenon
      <4> QED BY <4>1, Zenon
    <3>4. ASSUME m # n PROVE new = old
      <4>1. \A j : j \in new <=> j \in old
        BY <3>2, <3>4, Zenon
      <4> QED BY <4>1, Zenon
    <3> QED BY <3>3, <3>4 DEF old, new
  <2> QED BY <2>2
<1>9. ASSUME NEW m \in Files!Inode
      PROVE  EntryHeld(m)'
  <2>1. CASE m = n
    <3>1. len + 1 \in DOMAIN inode_list'
      BY <1>2
    <3>2. table'[inode_list'[len + 1]] = [nr |-> m, count |-> held'[m]] /\ held'[m] # 0
      BY <2>1, <1>2, <1>5, <1>6
    <3>3. Files!Places(m)' = {len + 1}
      BY <2>1, <1>8
    <3> QED BY <3>1, <3>2, <3>3 DEF EntryHeld
  <2>2. CASE m # n /\ held[m] = 0
    BY <2>2, <1>0, <1>6, <1>8 DEF EntryHeld
  <2>3. CASE m # n /\ held[m] # 0
    <3>1. PICK j \in DOMAIN inode_list :
            Files!Places(m) = {j} /\ table[inode_list[j]] = [nr |-> m, count |-> held[m]]
      BY <2>3, <1>0 DEF EntryHeld
    <3>2. j \in 1..len /\ j \in DOMAIN inode_list'
      BY <1>2
    <3> QED BY <3>1, <3>2, <2>3, <1>6, <1>7, <1>8 DEF EntryHeld
  <2> QED BY <2>1, <2>2, <2>3
<1>10. ASSUME NEW s \in Files!Slot, \A j \in DOMAIN inode_list' : inode_list'[j] # s
       PROVE  table'[s] = Files!Free
  <2>1. len + 1 \in DOMAIN inode_list' /\ \A j \in DOMAIN inode_list : j \in DOMAIN inode_list' /\ inode_list[j] = inode_list'[j]
    BY <1>2
  <2>2. s # i /\ \A j \in DOMAIN inode_list : inode_list[j] # s
    BY <2>1, <1>10, <1>2
  <2> QED BY <2>2, <1>0, <1>5 DEF EntriesFree
<1>11. ASSUME NEW j \in DOMAIN inode_list' PROVE table'[inode_list'[j]].nr \in Files!Inode
  <2>1. CASE j = len + 1
    BY <2>1, <1>2, <1>5
  <2>2. CASE j \in 1..len
    BY <2>2, <1>0, <1>2, <1>7 DEF EntryTypes
  <2> QED BY <2>1, <2>2, <1>2
<1>12. EntryTypes'
  BY <1>1, <1>2, <1>5, <1>6, <1>11 DEF EntryTypes
<1>13. EntriesFree'
  BY <1>1, <1>10 DEF EntriesFree
<1> QED BY <1>1, <1>9, <1>12, <1>13 DEF Entries

(* An inode is got: one more reference, or a free entry of the table. *)
LEMMA GetStep ==
  ASSUME InodeInv, NEW n \in Files!Inode, Files!Get(n), sb' = sb
  PROVE  InodeInv'
<1>1. CASE fs_panic
  BY <1>1 DEF InodeInv, Files!Get
<1>2. CASE Entries /\ Files!Places(n) # {}
  <2>1. PICK k \in DOMAIN inode_list :
            /\ Files!Places(n) = {k} /\ Files!find_inode(n) = inode_list[k]
            /\ held[n] # 0 /\ table[inode_list[k]] = [nr |-> n, count |-> held[n]]
            /\ inode_list[k] \in Files!Slot
            /\ \A j \in DOMAIN inode_list : j # k => table[inode_list[j]].nr # n /\ inode_list[j] # inode_list[k]
    BY <1>2, HeldPlace
  <2>2. /\ table' = [table EXCEPT ![inode_list[k]].count = @ + 1]
        /\ held' = [held EXCEPT ![n] = @ + 1] /\ inode_list' = inode_list
    BY <1>2, <2>1 DEF Files!Get
  <2>3. held[n] \in Nat /\ table[inode_list[k]].count = held[n]
    BY <1>2, <2>1 DEF Entries, EntryTypes
  <2>4. /\ table' = [table EXCEPT ![inode_list[k]].count = held[n] + 1]
        /\ held' = [held EXCEPT ![n] = held[n] + 1] /\ held[n] + 1 \in Nat /\ held[n] + 1 > 0
    BY <2>2, <2>3
  <2> HIDE DEF InodeInv, Entries
  <2>5. Entries'
    BY <1>2, <2>1, <2>2, <2>4, CountStep
  <2> QED BY <2>5 DEF InodeInv
<1>3. CASE Entries /\ Files!Places(n) = {}
  <2> DEFINE free == {i \in Files!Slot : table[i] = Files!Free}
             slot == CHOOSE i \in free : \A j \in free : i <= j
  <2>1. CASE free = {}
    BY <1>3, <2>1 DEF InodeInv, Files!Get, Files!Inode
  <2>2. CASE free # {}
    <3>1. slot \in free
      <4>1. free \subseteq Nat
        BY DEF Files!Slot
      <4>2. \E i \in free : \A j \in free : i <= j
        BY <4>1, <2>2, LeastOne
      <4> QED BY <4>2
    <3>2. /\ table' = [table EXCEPT ![slot] = [nr |-> n, count |-> 1]]
          /\ inode_list' = Append(inode_list, slot)
          /\ held' = [held EXCEPT ![n] = @ + 1]
      BY <1>3, <2>2 DEF Files!Get
    <3> HIDE DEF free, slot
    <3>3. slot \in Files!Slot /\ table[slot] = Files!Free
      BY <3>1 DEF free
    <3>4. Entries'
      BY <1>3, <3>2, <3>3, EntryStep
    <3> QED BY <3>4 DEF InodeInv
  <2> QED BY <2>1, <2>2
<1> QED BY <1>1, <1>2, <1>3 DEF InodeInv

(* The last reference to inode n is given back: its entry leaves the list  *)
(* and is free.                                                            *)
LEMMA RemoveStep ==
  ASSUME Entries, NEW n \in Files!Inode, NEW k \in 1..Len(inode_list),
         Files!Places(n) = {k},
         \A j \in DOMAIN inode_list : j # k => inode_list[j] # inode_list[k],
         table' = [table EXCEPT ![inode_list[k]] = Files!Free],
         held' = [held EXCEPT ![n] = 0], inode_list' = Files!RemoveAt(inode_list, k), sb' = sb
  PROVE  Entries'
<1> DEFINE i == inode_list[k]
           len == Len(inode_list)
           Old(j) == IF j < k THEN j ELSE j + 1
<1>0. EntryTypes /\ EntriesFree /\ \A m \in Files!Inode : EntryHeld(m)
  BY DEF Entries
<1>1. /\ Files!Slot' = Files!Slot /\ Files!Inode' = Files!Inode /\ Files!Free' = Files!Free
      /\ n \in Nat /\ \A m \in Files!Inode : m > 0
  BY DEF Files!Slot, Files!Inode, Files!Free
<1>2. /\ len \in Nat /\ k \in 1..len /\ DOMAIN inode_list = 1..len
      /\ \A j \in 1..len : inode_list[j] \in Files!Slot
  BY <1>0 DEF EntryTypes
<1>3. /\ inode_list' \in Seq(Files!Slot) /\ DOMAIN inode_list' = 1..(len - 1)
      /\ \A j \in 1..(len - 1) : inode_list'[j] = inode_list[Old(j)]
  <2>1. inode_list \in Seq(Files!Slot)
    BY <1>0 DEF EntryTypes
  <2>2. /\ inode_list' \in Seq(Files!Slot) /\ Len(inode_list') = Len(inode_list) - 1
        /\ \A j \in 1..Len(inode_list') : inode_list'[j] = inode_list[IF j < k THEN j ELSE j + 1]
    BY <2>1, Removed
  <2> QED BY <2>2
<1>4. /\ \A j \in 1..(len - 1) : Old(j) \in 1..len /\ Old(j) # k
      /\ \A j \in 1..len : j # k => \E h \in 1..(len - 1) : Old(h) = j
      /\ \A g, h \in 1..(len - 1) : Old(g) = Old(h) => g = h
  <2>1. ASSUME NEW j \in 1..len, j # k PROVE \E h \in 1..(len - 1) : Old(h) = j
    <3>1. CASE j < k
      BY <3>1, <1>2
    <3>2. CASE j > k
      <4>1. j - 1 \in 1..(len - 1) /\ ~(j - 1 < k) /\ (j - 1) + 1 = j
        BY <3>2, <1>2
      <4> QED BY <4>1
    <3> QED BY <3>1, <3>2, <2>1, <1>2
  <2>2. \A j \in 1..(len - 1) : Old(j) \in 1..len /\ Old(j) # k
    BY <1>2
  <2>3. \A g, h \in 1..(len - 1) : Old(g) = Old(h) => g = h
    BY <1>2
  <2> QED BY <2>1, <2>2, <2>3
<1> HIDE DEF len, Old
<1>5. \A j \in 1..len : j # k => inode_list[j] # i
  BY <1>2
<1>6. /\ table' \in [Files!Slot -> [nr : Nat, count : Nat]]
      /\ table'[i] = Files!Free
      /\ \A s \in Files!Slot : s # i => table'[s] = table[s]
  BY <1>0, <1>2 DEF EntryTypes, Files!Free
<1>7. /\ held' \in [Files!Inode -> Nat] /\ held'[n] = 0
      /\ \A m \in Files!Inode : m # n => held'[m] = held[m]
  BY <1>0, <1>1 DEF EntryTypes
<1> HIDE DEF i
<1>8. \A j \in 1..(len - 1) : /\ inode_list'[j] = inode_list[Old(j)] /\ inode_list'[j] # i
                              /\ table'[inode_list'[j]] = table[inode_list[Old(j)]]
  <2> SUFFICES ASSUME NEW j \in 1..(len - 1)
               PROVE  /\ inode_list'[j] = inode_list[Old(j)] /\ inode_list'[j] # i
                      /\ table'[inode_list'[j]] = table[inode_list[Old(j)]]
    OBVIOUS
  <2>1. inode_list'[j] = inode_list[Old(j)] /\ Old(j) \in 1..len /\ Old(j) # k
    BY <1>3, <1>4
  <2>2. inode_list[Old(j)] # i /\ inode_list[Old(j)] \in Files!Slot
    BY <2>1, <1>2, <1>5
  <2> QED BY <2>1, <2>2, <1>6
<1>9. ASSUME NEW m, NEW j PROVE j \in Files!Places(m)' <=> j \in 1..(len - 1) /\ Old(j) \in Files!Places(m)
  <2>1. Files!Places(m)' = {h \in 1..(len - 1) : table'[inode_list'[h]].nr = m}
    BY <1>3 DEF Files!Places
  <2>2. Files!Places(m) = {h \in 1..len : table[inode_list[h]].nr = m}
    BY <1>2 DEF Files!Places
  <2> QED BY <2>1, <2>2, <1>4, <1>8
<1>10. ASSUME NEW m \in Files!Inode PROVE EntryHeld(m)'
  <2>1. CASE m = n
    <3>1. Files!Places(m)' = {}
      BY <2>1, <1>4, <1>9
    <3> QED BY <3>1, <2>1, <1>7 DEF EntryHeld
  <2>2. CASE m # n /\ held[m] = 0
    <3>1. Files!Places(m) = {}
      BY <2>2, <1>0 DEF EntryHeld
    <3>2. Files!Places(m)' = {}
      BY <3>1, <1>9
    <3> QED BY <3>2, <2>2, <1>7 DEF EntryHeld
  <2>3. CASE m # n /\ held[m] # 0
    <3>1. PICK j \in DOMAIN inode_list :
            Files!Places(m) = {j} /\ table[inode_list[j]] = [nr |-> m, count |-> held[m]]
      BY <2>3, <1>0 DEF EntryHeld
    <3>2. j # k
      <4>1. table[inode_list[j]].nr = m
        BY <3>1
      <4>2. table[inode_list[k]].nr = n
        BY DEF Files!Places
      <4> QED BY <4>1, <4>2, <2>3
    <3>3. PICK h \in 1..(len - 1) : Old(h) = j
      BY <3>2, <1>2, <1>4
    <3>4. Files!Places(m)' = {h}
      <4>1. \A g : g \in Files!Places(m)' <=> g \in 1..(len - 1) /\ Old(g) = j
        BY <3>1, <1>9
      <4> QED BY <4>1, <3>3, <1>4
    <3>5. table'[inode_list'[h]] = [nr |-> m, count |-> held'[m]] /\ held'[m] # 0 /\ h \in DOMAIN inode_list'
      BY <3>1, <3>3, <2>3, <1>3, <1>7, <1>8
    <3> QED BY <3>4, <3>5 DEF EntryHeld
  <2> QED BY <2>1, <2>2, <2>3
<1>11. EntriesFree'
  <2> SUFFICES ASSUME NEW s \in Files!Slot, \A j \in DOMAIN inode_list' : inode_list'[j] # s
               PROVE  table'[s] = Files!Free
    BY <1>1 DEF EntriesFree
  <2>1. CASE s = i
    BY <2>1, <1>6
  <2>2. CASE s # i
    <3>1. ASSUME NEW j \in 1..len PROVE inode_list[j] # s
      <4>1. CASE j = k
        BY <4>1, <2>2 DEF i
      <4>2. CASE j # k
        <5>1. PICK h \in 1..(len - 1) : Old(h) = j
          BY <4>2, <1>4
        <5> QED BY <5>1, <1>3
      <4> QED BY <4>1, <4>2
    <3> QED BY <3>1, <2>2, <1>0, <1>2, <1>6 DEF EntriesFree
  <2> QED BY <2>1, <2>2
<1>12. EntryTypes'
  <2>1. \A j \in DOMAIN inode_list' : table'[inode_list'[j]].nr \in Files!Inode
    <3>1. \A j \in 1..len : table[inode_list[j]].nr \in Files!Inode
      BY <1>0, <1>2 DEF EntryTypes
    <3> QED BY <3>1, <1>3, <1>4, <1>8
  <2> QED BY <2>1, <1>1, <1>3, <1>6, <1>7 DEF EntryTypes
<1> QED BY <1>1, <1>10, <1>11, <1>12 DEF Entries

(* An inode is put: one reference less, or its entry is free again. *)
LEMMA PutStep ==
  ASSUME InodeInv, NEW n \in Files!Inode, Files!iput(n)
  PROVE  InodeInv'
<1>1. Entries /\ held[n] > 0 /\ held[n] # 0 /\ sb' = sb
  BY DEF InodeInv, Entries, EntryTypes, Files!iput, Files!Running
<1>2. PICK k \in DOMAIN inode_list :
          /\ Files!Places(n) = {k} /\ Files!find_inode(n) = inode_list[k] /\ Files!Min(Files!Places(n)) = k
          /\ held[n] # 0 /\ table[inode_list[k]] = [nr |-> n, count |-> held[n]]
          /\ k \in 1..Len(inode_list) /\ inode_list[k] \in Files!Slot
          /\ \A j \in DOMAIN inode_list : j # k => table[inode_list[j]].nr # n /\ inode_list[j] # inode_list[k]
  BY <1>1, HeldPlace
<1> DEFINE i == inode_list[k]
<1>3. held[n] \in Nat /\ table[i].count = held[n]
  BY <1>1, <1>2 DEF Entries, EntryTypes
<1>4. CASE held[n] > 1
  <2>1. /\ table' = [table EXCEPT ![i].count = held[n] - 1]
        /\ held' = [held EXCEPT ![n] = held[n] - 1] /\ inode_list' = inode_list
    BY <1>2, <1>3, <1>4 DEF Files!iput
  <2>2. held[n] - 1 \in Nat /\ held[n] - 1 > 0
    BY <1>3, <1>4
  <2>3. Entries'
    BY <1>1, <1>2, <2>1, <2>2, CountStep
  <2> QED BY <2>3, <1>1 DEF InodeInv
<1>5. CASE ~(held[n] > 1) /\ i = 0
  <2>1. fs_panic'
    BY <1>2, <1>3, <1>5 DEF Files!iput
  <2> QED BY <2>1, <1>1 DEF InodeInv
<1>6. CASE ~(held[n] > 1) /\ i # 0
  <2>1. /\ table' = [table EXCEPT ![i] = Files!Free] /\ inode_list' = Files!RemoveAt(inode_list, k)
        /\ held' = [held EXCEPT ![n] = held[n] - 1]
    BY <1>2, <1>3, <1>6 DEF Files!iput
  <2>2. held[n] - 1 = 0
    BY <1>1, <1>3, <1>6
  <2>3. held' = [held EXCEPT ![n] = 0]
    BY <2>1, <2>2
  <2>4. /\ k \in 1..Len(inode_list) /\ Files!Places(n) = {k}
        /\ \A j \in DOMAIN inode_list : j # k => inode_list[j] # inode_list[k]
        /\ table' = [table EXCEPT ![inode_list[k]] = Files!Free]
        /\ inode_list' = Files!RemoveAt(inode_list, k)
    BY <1>2, <2>1
  <2>5. Entries'
    BY <1>1, <2>3, <2>4, RemoveStep, ZenonT(40)
  <2> QED BY <2>5, <1>1 DEF InodeInv
<1> QED BY <1>4, <1>5, <1>6

(* What leaves the table and the references alone, in a system that has    *)
(* not failed.                                                             *)
LEMMA InodesUnchanged ==
  ASSUME InodeInv, ~fs_panic \/ fs_panic' = fs_panic, UNCHANGED <<sb, table, inode_list, held>>
  PROVE  InodeInv'
<1>1. Entries => Entries'
  BY DEF Entries, EntryTypes, EntryHeld, EntriesFree, Files!Places, Files!Slot, Files!Inode, Files!Free
<1> QED BY <1>1 DEF InodeInv

LEMMA InodeStep ==
  ASSUME InodeInv, [Next]_vars
  PROVE  InodeInv'
<1>1. CASE Files!Next
  <2>1. CASE Files!Mount
    <3>1. Files!Get(1) /\ sb' = sb /\ 1 \in Files!Inode
      BY <2>1 DEF Files!Mount, InodeInv, Files!Inode
    <3> QED BY <3>1, GetStep
  <2>2. ASSUME NEW n \in Files!Inode, Files!iget(n) PROVE InodeInv'
    BY <2>2, GetStep DEF Files!iget
  <2>3. ASSUME NEW n \in Files!Inode, Files!iput(n) PROVE InodeInv'
    BY <2>3, PutStep
  <2>4. CASE Files!Balloc
    BY <2>4, InodesUnchanged DEF Files!Balloc, Files!Running, Files!inode_state
  <2>5. ASSUME NEW b \in Files!Zone, Files!Bfree(b) \/ Files!Store(b) PROVE InodeInv'
    BY <2>5, InodesUnchanged DEF Files!Bfree, Files!Store, Files!Running, Files!inode_state
  <2>6. CASE Files!Ialloc
    BY <2>6, InodesUnchanged DEF Files!Ialloc, Files!Running, Files!inode_state
  <2>7. ASSUME NEW n \in Files!Inode, Files!Ifree(n) PROVE InodeInv'
    BY <2>7, InodesUnchanged DEF Files!Ifree, Files!Running, Files!inode_state
  <2>8. ASSUME NEW n \in Files!Inode, NEW index \in 0..(Files!TOTAL_BLOCKS - 1), NEW create \in BOOLEAN,
               Files!bmap(n, index, create)
        PROVE  InodeInv'
    BY <2>8, InodesUnchanged DEF Files!bmap, Files!Running, Files!inode_state
  <2> QED BY <1>1, <2>1, <2>2, <2>3, <2>4, <2>5, <2>6, <2>7, <2>8 DEF Files!Next
<1>2. CASE UNCHANGED files
  BY <1>2, InodesUnchanged DEF files
<1> QED BY <1>1, <1>2 DEF Next, vars

(* Files!Init has no entry in use and nothing held. *)
LEMMA InodeStart == Init => InodeInv
<1> SUFFICES ASSUME Init PROVE InodeInv
  OBVIOUS
<1>1. /\ table = [i \in Files!Slot |-> Files!Free] /\ inode_list = <<>>
  BY DEF Init, Files!Init
<1>2. PICK a \in InodeNrs, b \in BlockNrs : sb = Image(a, b).desc /\ held = [n \in 1..Image(a, b).desc.ninodes |-> 0]
  BY DEF Init, Files!Init
<1>3. sb.ninodes = a /\ held = [n \in Files!Inode |-> 0] /\ a \in Nat /\ a > 0
  BY <1>2, FilesAssumption DEF Image, Layout, Files!Inode
<1>4. EntryTypes
  BY <1>1, <1>3 DEF EntryTypes, Files!Free
<1>5. EntriesFree
  BY <1>1 DEF EntriesFree
<1>6. \A n \in Files!Inode : EntryHeld(n)
  BY <1>1, <1>3 DEF EntryHeld, Files!Places
<1> QED BY <1>3, <1>4, <1>5, <1>6 DEF InodeInv, Entries

(* The table, the list of the inodes in memory and the references of the   *)
(* callers agree in every behaviour of iget, iput and the calls between.   *)
THEOREM InodeInvariance == Spec => []InodeInv
<1> QED BY InodeStart, InodeStep, PTL DEF Spec

(* An inode that callers hold is in memory once, with as many references   *)
(* as they have, and no entry in use is given away, for every size of the  *)
(* table and every number of references.                                   *)
THEOREM InodesExact == Spec => []InodeTable
<1>1. InodeInv => InodeTable
  <2> SUFFICES ASSUME InodeInv, ~fs_panic PROVE Files!InodeTable
    BY DEF InodeTable, Files!InodeTable
  <2>1. EntryTypes /\ EntriesFree /\ \A m \in Files!Inode : EntryHeld(m)
    BY DEF InodeInv, Entries
  <2>2. ASSUME NEW i \in Files!Slot, i \notin Files!ToSet(inode_list) PROVE table[i] = Files!Free
    BY <2>1, <2>2 DEF EntriesFree, Files!ToSet
  <2> QED BY <2>1, <2>2 DEF Files!InodeTable, EntryHeld
<1> QED BY <1>1, InodeInvariance, PTL

(* The maps of the file system: where their bits are. *)
B == BLOCK_BITS

(* The block and the place in it of bit j of a map.                        *)
LEMMA BitAt ==
  ASSUME NEW f \in Nat, NEW j \in Nat
  PROVE  /\ j \div B \in Nat /\ j % B \in 0..(B - 1) /\ j = B * (j \div B) + (j % B)
         /\ Files!Bit(f, j) = <<f + j \div B, j % B>>
<1>1. B \in Nat /\ B > 0
  BY FilesAssumption DEF B
<1> QED BY <1>1, Division DEF Files!Bit, B

(* The bit that is at place w of block i of a map.                         *)
LEMMA BitOf ==
  ASSUME NEW f \in Nat, NEW i \in Nat, NEW w \in 0..(B - 1)
  PROVE  Files!Bit(f, i * B + w) = <<f + i, w>> /\ i * B + w \in Nat
<1>1. B \in Nat /\ B > 0
  BY FilesAssumption DEF B
<1>2. i * B = B * i /\ B * i \in Nat
  BY <1>1
<1>3. (B * i + w) % B = w /\ (B * i + w) \div B = i
  BY <1>1, Quotient
<1> QED BY <1>1, <1>2, <1>3 DEF Files!Bit, B

(* Different bits of a map are in different places. *)
LEMMA BitSame ==
  ASSUME NEW f \in Nat, NEW j \in Nat, NEW k \in Nat, Files!Bit(f, j) = Files!Bit(f, k)
  PROVE  j = k
<1> DEFINE q == j \div B
           r == j % B
<1>1. j = B * q + r
  BY BitAt
<1>2. Files!Bit(f, j) = <<f + q, r>> /\ q \in Nat
  BY BitAt
<1> DEFINE p == k \div B
           s == k % B
<1>3. k = B * p + s /\ Files!Bit(f, k) = <<f + p, s>> /\ p \in Nat
  BY BitAt
<1> HIDE DEF q, r, p, s
<1>4. f + q = f + p /\ r = s
  <2>1. <<f + q, r>> = <<f + p, s>>
    BY <1>2, <1>3
  <2> QED BY ONLY <2>1
<1>5. q = p
  BY <1>2, <1>3, <1>4
<1> QED BY <1>1, <1>3, <1>4, <1>5

(* The blocks of a map of count blocks. *)
LEMMA BitBlock ==
  ASSUME NEW f \in Nat, NEW count \in Nat, NEW j \in 0..(count * B - 1)
  PROVE  Files!Bit(f, j)[1] \in f..(f + count - 1) /\ Files!Bit(f, j)[2] \in 0..(B - 1) /\ j \div B \in 0..(count - 1)
<1>0. B \in Nat /\ B > 0 /\ j \in Nat
  BY FilesAssumption DEF B
<1>1. j \div B \in Nat /\ j % B \in 0..(B - 1) /\ j = B * (j \div B) + (j % B) /\ Files!Bit(f, j) = <<f + j \div B, j % B>>
  BY <1>0, BitAt
<1>2. j \div B < count
  <2> DEFINE q == j \div B
  <2>1. q \in Nat /\ B * q <= j /\ j < count * B
    BY <1>0, <1>1
  <2> HIDE DEF q
  <2>2. ASSUME q >= count PROVE FALSE
    <3>1. PICK e \in Nat : q = count + e
      <4>1. q - count \in Nat /\ q = count + (q - count)
        BY <2>1, <2>2
      <4> QED BY <4>1
    <3>2. B * q = count * B + B * e /\ B * e \in Nat /\ count * B \in Nat
      BY <3>1, <1>0
    <3> QED BY <2>1, <3>2
  <2> QED BY <2>1, <2>2 DEF q
<1> QED BY <1>1, <1>2

(* The bits of block i of a map. *)
LEMMA BitInBlock ==
  ASSUME NEW count \in Nat, NEW i \in 0..(count - 1), NEW w \in 0..(B - 1)
  PROVE  i * B + w \in 0..(count * B - 1)
<1>0. B \in Nat /\ B > 0 /\ w \in Nat
  BY FilesAssumption DEF B
<1>1. PICK e \in Nat : count = i + 1 + e
  <2>1. count - i - 1 \in Nat /\ count = i + 1 + (count - i - 1)
    OBVIOUS
  <2> QED BY <2>1
<1>2. count * B = i * B + B + e * B /\ e * B \in Nat /\ i * B \in Nat
  BY <1>0, <1>1
<1> QED BY <1>0, <1>2

(* The heap and the file system search a bitmap with the same loop.        *)
LEMMA SameScan ==
  ASSUME NEW map, NEW n
  PROVE  Files!Scan(map, n) = Heap!Scan(map, n)
BY Zenon DEF Files!Scan, Heap!Scan, Files!bitmap_contains, Heap!bitmap_contains, Files!EOF, Heap!EOF

(* A bitmap over count buffers stays in them.                              *)
LEMMA PlaceFits ==
  ASSUME NEW k \in Nat, NEW j \in Nat
  PROVE  /\ j < B => Files!Place(k, j) = <<k, j>>
         /\ \A count \in Nat : j < count * B => Files!Place(k, j)[1] > k - count /\ Files!Place(k, j)[1] <= k /\ Files!Place(k, j)[2] \in 0..(B - 1)
<1>0. B \in Nat /\ B > 0
  BY FilesAssumption DEF B
<1>1. Files!Place(k, j) = <<k - j \div B, j % B>> /\ j \div B \in Nat /\ j % B \in 0..(B - 1)
  BY <1>0, Division DEF Files!Place, B
<1>2. ASSUME j < B PROVE Files!Place(k, j) = <<k, j>>
  <2>1. (B * 0 + j) % B = j /\ (B * 0 + j) \div B = 0
    BY <1>0, <1>2, Quotient
  <2>2. B * 0 + j = j
    BY <1>0
  <2> QED BY <2>1, <2>2, <1>1
<1>3. ASSUME NEW count \in Nat, j < count * B PROVE j \div B < count
  <2>1. j \in 0..(count * B - 1)
    BY <1>3, <1>0
  <2> QED BY <2>1, BitBlock
<1> QED BY <1>1, <1>2, <1>3

(* A round of balloc sees the first free bit of block k, if there is one   *)
(* in the memory that the bitmap covers.                                   *)
Free1(m, k, j) == Files!Place(k, j) \notin m
Span(k) == B * (IF k < 8 THEN k ELSE 8)

(* A bitmap search that sees the bits of a map finds the first zero.       *)
LEMMA FirstBit ==
  ASSUME NEW m, NEW k \in Nat \ {0}, NEW offset \in Nat
  PROVE  \/ /\ Files!Scan(Files!Over(m, k, offset), 1) = Files!EOF
            /\ \A j \in 0..(Span(k) - 1) : Files!Place(k, j) \in m
         \/ \E j \in 0..(Span(k) - 1) :
               /\ Files!Scan(Files!Over(m, k, offset), 1) = offset + j
               /\ Files!Place(k, j) \notin m
               /\ \A h \in 0..(j - 1) : Files!Place(k, h) \in m
<1> DEFINE bits == {j \in 0..(Span(k) - 1) : Files!Place(k, j) \in m}
           size == Span(k)
<1>0. size \in Nat
  BY FilesAssumption DEF Span, B
<1>1. Files!Over(m, k, offset) = MapOf(bits, size, offset)
  BY DEF Files!Over, Files!bitmap_new, MapOf, Span, B
<1>2. Files!Scan(Files!Over(m, k, offset), 1) = Heap!Scan(MapOf(bits, size, offset), 1)
  BY <1>1, SameScan
<1>3. Files!EOF = Heap!EOF
  BY DEF Files!EOF, Heap!EOF
<1> HIDE DEF bits, size
<1>4. \A r \in Nat : FreeRun(bits, size, r, 1) <=> r \in 0..(size - 1) /\ r \notin bits
  <2> SUFFICES ASSUME NEW r \in Nat PROVE FreeRun(bits, size, r, 1) <=> r \in 0..(size - 1) /\ r \notin bits
    OBVIOUS
  <2>1. r..(r + 1 - 1) = {r}
    OBVIOUS
  <2> QED BY <2>1 DEF FreeRun
<1>5. \/ /\ Heap!Scan(MapOf(bits, size, offset), 1) = Heap!EOF
         /\ \A r \in Nat : ~FreeRun(bits, size, r, 1)
      \/ \E r \in Nat : /\ Heap!Scan(MapOf(bits, size, offset), 1) = offset + r
                        /\ FreeRun(bits, size, r, 1)
                        /\ \A q \in Nat : FreeRun(bits, size, q, 1) => r <= q
  BY <1>0, ScanFirst
<1>6. \A j \in 0..(size - 1) : j \in bits <=> Files!Place(k, j) \in m
  BY DEF bits, size
<1>7. CASE /\ Heap!Scan(MapOf(bits, size, offset), 1) = Heap!EOF
           /\ \A r \in Nat : ~FreeRun(bits, size, r, 1)
  BY <1>0, <1>2, <1>3, <1>4, <1>6, <1>7 DEF size
<1>8. CASE \E r \in Nat : /\ Heap!Scan(MapOf(bits, size, offset), 1) = offset + r
                          /\ FreeRun(bits, size, r, 1)
                          /\ \A q \in Nat : FreeRun(bits, size, q, 1) => r <= q
  <2>1. PICK r \in Nat : /\ Heap!Scan(MapOf(bits, size, offset), 1) = offset + r
                         /\ FreeRun(bits, size, r, 1)
                         /\ \A q \in Nat : FreeRun(bits, size, q, 1) => r <= q
    BY <1>8
  <2>2. r \in 0..(size - 1) /\ r \notin bits
    BY <1>4, <2>1
  <2>3. \A h \in 0..(r - 1) : h \in bits
    BY <1>0, <1>4, <2>1, <2>2
  <2>4. Files!Place(k, r) \notin m /\ \A h \in 0..(r - 1) : Files!Place(k, h) \in m
    BY <1>0, <1>6, <2>2, <2>3
  <2>5. Files!Scan(Files!Over(m, k, offset), 1) = offset + r
    BY <1>2, <2>1
  <2> QED BY <2>2, <2>4, <2>5 DEF size
<1> QED BY <1>5, <1>7, <1>8


-----------------------------------------------------------------------------
(* Bits of a map whose numbers the file system does not have. *)
Extra(f, count, offset, limit) == {Files!Bit(f, q) : q \in {h \in 0..(count * B - 1) : offset + h >= limit}}

(* What balloc and ialloc have done after i rounds, in maps m and d: all   *)
(* bits were set, or bit q has been taken.                                 *)
NoneFound(a, m, d, i, f, count, offset, limit) ==
    /\ a.nr = 0 /\ a.disk = d /\ i <= count
    /\ \E E \in SUBSET Extra(f, count, offset, limit) : a.mem = m \cup E
    /\ \A q \in 0..(i * B - 1) : offset + q < limit => Files!Bit(f, q) \in m
OneFound(a, m, d, f, count, offset, limit) ==
    \E q \in 0..(count * B - 1) : \E E \in SUBSET Extra(f, count, offset, limit) :
        /\ a.nr = offset + q /\ offset + q < limit /\ Files!Bit(f, q) \notin m
        /\ a.mem = (m \cup E) \cup {Files!Bit(f, q)}
        /\ a.disk = Files!bwrite(a.mem, d, Files!Bit(f, q)[1])

InMaps(top) == {<<x, j>> : x \in 1..top, j \in 0..(B - 1)}

(* A failed or an overrun search leaves only what the types say. *)
AllocTyped(s, a, f, top, offset, limit) ==
    /\ a.mem \subseteq s.mem \cup InMaps(top) /\ s.mem \subseteq a.mem
    /\ Files!Bit(f, 0) \in s.mem => a.nr # offset
    /\ a.nr \in {0} \cup offset..(limit - 1)
    /\ s.spoiled \in BOOLEAN => a.spoiled \in BOOLEAN
    /\ s.panicked \in BOOLEAN => a.panicked \in BOOLEAN
    /\ a.panicked => a.nr = 0
    /\ s.spoiled => a.spoiled

Searched(s, a, i, f, count, offset, limit) ==
    /\ AllocTyped(s, a, f, f + count - 1, offset, limit)
    /\ ~a.spoiled /\ ~a.panicked => \/ NoneFound(a, s.mem, s.disk, i, f, count, offset, limit)
                                    \/ OneFound(a, s.mem, s.disk, f, count, offset, limit)

(* The fields of what a call on the maps leaves.                           *)
LEMMA MapsFields ==
  ASSUME NEW m, NEW d, NEW nr, NEW x, NEW y
  PROVE  /\ Files!Maps(m, d, nr, x, y).mem = m /\ Files!Maps(m, d, nr, x, y).disk = d
         /\ Files!Maps(m, d, nr, x, y).nr = nr /\ Files!Maps(m, d, nr, x, y).spoiled = x
         /\ Files!Maps(m, d, nr, x, y).panicked = y
BY DEF Files!Maps

(* Places of block f + i, seen from the bitmap and from the map. *)
LEMMA PlaceBit ==
  ASSUME NEW f \in Nat, NEW i \in Nat, NEW w \in 0..(B - 1)
  PROVE  Files!Place(f + i, w) = Files!Bit(f, i * B + w) /\ i * B + w \in Nat
<1>0. B \in Nat /\ B > 0 /\ w \in Nat /\ w < B /\ f + i \in Nat
  BY FilesAssumption DEF B
<1>1. Files!Place(f + i, w) = <<f + i, w>>
  BY <1>0, PlaceFits
<1>2. Files!Bit(f, i * B + w) = <<f + i, w>> /\ i * B + w \in Nat
  BY BitOf
<1> QED BY <1>1, <1>2

(* The bits of rounds up to i. *)
LEMMA RoundBits ==
  ASSUME NEW i \in Nat, NEW q \in 0..((i + 1) * B - 1)
  PROVE  q \in 0..(i * B - 1) \/ \E w \in 0..(B - 1) : q = i * B + w
<1>1. B \in Nat /\ B > 0 /\ i * B \in Nat /\ (i + 1) * B = i * B + B
  BY FilesAssumption DEF B
<1> DEFINE z == i * B
<1>2. q \in 0..(z + B - 1) /\ z \in Nat /\ B \in Nat
  BY <1>1
<1> HIDE DEF z
<1>3. CASE q < z
  BY <1>2, <1>3 DEF z
<1>4. CASE q >= z
  <2>1. q - z \in 0..(B - 1) /\ q = z + (q - z)
    BY <1>2, <1>4
  <2> QED BY <2>1 DEF z
<1> QED BY <1>2, <1>3, <1>4

(* A bit of a number in range is not among the extra ones. *)
LEMMA NotExtra ==
  ASSUME NEW f \in Nat, NEW count \in Nat, NEW offset \in Nat, NEW limit \in Nat,
         NEW q \in Nat, offset + q < limit
  PROVE  Files!Bit(f, q) \notin Extra(f, count, offset, limit)
<1> SUFFICES ASSUME Files!Bit(f, q) \in Extra(f, count, offset, limit) PROVE FALSE
  OBVIOUS
<1>1. PICK h \in 0..(count * B - 1) : offset + h >= limit /\ Files!Bit(f, q) = Files!Bit(f, h)
  BY DEF Extra
<1>2. h \in Nat
  OBVIOUS
<1>3. q = h
  BY <1>1, <1>2, BitSame
<1> QED BY <1>1, <1>2, <1>3

(* The search bit of a round. *)
LEMMA SpanSize == ASSUME NEW k \in Nat \ {0} PROVE Span(k) \in Nat /\ B <= Span(k) /\ Span(k) <= k * B
<1>1. B \in Nat /\ B > 0
  BY FilesAssumption DEF B
<1>2. CASE k < 8
  <2>1. PICK e \in Nat : k = 1 + e
    <3>1. k - 1 \in Nat /\ k = 1 + (k - 1)
      OBVIOUS
    <3> QED BY <3>1
  <2>2. B * k = B + B * e /\ B * e \in Nat /\ k * B = B * k /\ B * k \in Nat
    BY <1>1, <2>1
  <2> QED BY <1>1, <1>2, <2>2 DEF Span
<1>3. CASE k >= 8
  <2>1. PICK e \in Nat : k = 8 + e
    <3>1. k - 8 \in Nat /\ k = 8 + (k - 8)
      BY <1>3
    <3> QED BY <3>1
  <2>2. k * B = B * 8 + B * e /\ B * e \in Nat /\ B * 8 \in Nat
    BY <1>1, <2>1
  <2> QED BY <1>1, <1>3, <2>2 DEF Span
<1> QED BY <1>2, <1>3

(* The bits of a bitmap that are behind its block lie in blocks below it.  *)
LEMMA PlaceIn ==
  ASSUME NEW top \in Nat, NEW k \in 1..top, NEW j \in 0..(Span(k) - 1)
  PROVE  Files!Place(k, j) \in InMaps(top)
<1>0. B \in Nat /\ B > 0 /\ k \in Nat \ {0}
  BY FilesAssumption DEF B
<1>1. j \in Nat /\ j < k * B
  <2>1. Span(k) \in Nat /\ Span(k) <= k * B /\ k * B \in Nat
    BY <1>0, SpanSize
  <2> HIDE DEF Span
  <2> QED BY <2>1
<1>2. Files!Place(k, j)[1] > k - k /\ Files!Place(k, j)[1] <= k /\ Files!Place(k, j)[2] \in 0..(B - 1)
  BY <1>0, <1>1, PlaceFits
<1>3. Files!Place(k, j) = <<k - j \div B, j % B>> /\ j \div B \in Nat
  BY <1>0, <1>1, Division DEF Files!Place, B
<1> DEFINE x == k - j \div B
           y == j % B
<1>4. x \in 1..top /\ y \in 0..(B - 1) /\ Files!Place(k, j) = <<x, y>>
  <2>1. x \in Int
    BY <1>0, <1>3
  <2> QED BY <1>0, <1>2, <1>3, <2>1
<1> HIDE DEF x, y
<1> QED BY <1>4 DEF InMaps

(* A round of the search: nothing, or one more bit. *)
LEMMA RoundEffect ==
  ASSUME NEW s, NEW a, NEW i \in Nat, NEW f \in Nat \ {0}, NEW count \in Nat,
         NEW offset \in Nat \ {0}, NEW limit \in Nat,
         Searched(s, a, i, f, count, offset, limit), a.nr = 0, ~a.panicked
  PROVE  Searched(s, Files!Round(a, i, f, count, offset, limit), i + 1, f, count, offset, limit)
<1> DEFINE r == Files!Round(a, i, f, count, offset, limit)
           k == f + i
           base == offset + i * B
           nr == Files!Scan(Files!Over(a.mem, k, base), 1)
           j == nr - base
           m == a.mem \cup {Files!Place(k, j)}
           over == a.spoiled \/ j >= B
<1>0. /\ B \in Nat /\ B > 0 /\ i * B \in Nat /\ base \in Nat /\ base >= offset /\ k \in Nat \ {0}
      /\ (i + 1) * B = i * B + B
  BY FilesAssumption DEF B
<1>1. AllocTyped(s, a, f, f + count - 1, offset, limit)
  BY DEF Searched
<1>2. Files!Over(a.mem, k, base).offset = base
  BY DEF Files!Over, Files!bitmap_new
<1>3. r = IF i >= count THEN Files!Maps(a.mem, a.disk, 0, a.spoiled, TRUE)
          ELSE IF nr = Files!EOF THEN a
          ELSE IF nr < limit THEN Files!Maps(m, Files!bwrite(m, a.disk, k), nr, over, FALSE)
          ELSE Files!Maps(m, a.disk, 0, over, FALSE)
  BY <1>2 DEF Files!Round, B
<1>4. ASSUME ~a.spoiled PROVE NoneFound(a, s.mem, s.disk, i, f, count, offset, limit)
  <2>1. CASE NoneFound(a, s.mem, s.disk, i, f, count, offset, limit)
    BY <2>1
  <2>2. CASE OneFound(a, s.mem, s.disk, f, count, offset, limit)
    BY <2>2 DEF OneFound
  <2> QED BY <1>4, <2>1, <2>2 DEF Searched
<1> HIDE DEF r, k, base, nr, j, m, over
<1>5. CASE i >= count
  <2>1. r = Files!Maps(a.mem, a.disk, 0, a.spoiled, TRUE)
    BY <1>3, <1>5
  <2>2. r.mem = a.mem /\ r.nr = 0 /\ r.spoiled = a.spoiled /\ r.panicked = TRUE
    BY <2>1 DEF Files!Maps
  <2> QED BY <1>1, <2>2 DEF Searched, AllocTyped, r
<1>6. CASE i < count /\ nr = Files!EOF
  <2>1. r = a
    <3>1. ~(i >= count)
      BY <1>6
    <3> QED BY <1>3, <1>6, <3>1, Zenon
  <2>2. \A w \in 0..(Span(k) - 1) : Files!Place(k, w) \in a.mem
    <3>1. \/ /\ Files!Scan(Files!Over(a.mem, k, base), 1) = Files!EOF
             /\ \A w \in 0..(Span(k) - 1) : Files!Place(k, w) \in a.mem
          \/ \E w \in 0..(Span(k) - 1) :
                /\ Files!Scan(Files!Over(a.mem, k, base), 1) = base + w
                /\ Files!Place(k, w) \notin a.mem
                /\ \A h \in 0..(w - 1) : Files!Place(k, h) \in a.mem
      BY <1>0, FirstBit
    <3>2. Files!EOF = -1
      BY DEF Files!EOF
    <3>3. Span(k) \in Nat
      BY <1>0, SpanSize
    <3> QED BY <1>0, <1>6, <3>1, <3>2, <3>3 DEF nr
  <2>3. ASSUME ~a.spoiled PROVE NoneFound(a, s.mem, s.disk, i + 1, f, count, offset, limit)
    <3>1. NoneFound(a, s.mem, s.disk, i, f, count, offset, limit)
      BY <1>4, <2>3
    <3>2. PICK E \in SUBSET Extra(f, count, offset, limit) : a.mem = s.mem \cup E
      BY <3>1 DEF NoneFound
    <3>3. ASSUME NEW q \in 0..((i + 1) * B - 1), offset + q < limit PROVE Files!Bit(f, q) \in s.mem
      <4>1. CASE q \in 0..(i * B - 1)
        BY <4>1, <3>1, <3>3 DEF NoneFound
      <4>2. CASE \E w \in 0..(B - 1) : q = i * B + w
        <5>1. PICK w \in 0..(B - 1) : q = i * B + w
          BY <4>2
        <5>2. Files!Place(k, w) = Files!Bit(f, q) /\ q \in Nat
          BY <5>1, PlaceBit DEF k
        <5>3. w \in 0..(Span(k) - 1)
          <6>1. Span(k) \in Nat /\ B <= Span(k)
            BY <1>0, SpanSize
          <6> QED BY <6>1, <1>0
        <5>4. Files!Bit(f, q) \in a.mem
          BY <2>2, <5>2, <5>3
        <5>5. Files!Bit(f, q) \notin E
          BY <3>3, <5>2, NotExtra
        <5> QED BY <3>2, <5>4, <5>5
      <4> QED BY <4>1, <4>2, RoundBits
    <3>4. i + 1 <= count
      BY <1>6
    <3> QED BY <3>1, <3>3, <3>4 DEF NoneFound
  <2> QED BY <1>1, <2>1, <2>3 DEF Searched, r
<1>7. CASE i < count /\ nr # Files!EOF
  <2>1. /\ j \in 0..(Span(k) - 1) /\ nr = base + j /\ Files!Place(k, j) \notin a.mem
        /\ \A h \in 0..(j - 1) : Files!Place(k, h) \in a.mem
    <3>1. PICK w \in 0..(Span(k) - 1) :
             /\ nr = base + w /\ Files!Place(k, w) \notin a.mem
             /\ \A h \in 0..(w - 1) : Files!Place(k, h) \in a.mem
      BY <1>0, <1>7, FirstBit DEF nr
    <3>2. j = w
      BY <3>1, <1>0 DEF j
    <3> QED BY <3>1, <3>2
  <2>2. j \in Nat /\ nr \in Nat /\ nr >= offset /\ nr # 0
    BY <2>1, <1>0
  <2>3. k \in 1..(f + count - 1) /\ f + count - 1 \in Nat
    BY <1>7, <1>0 DEF k
  <2>4. Files!Place(k, j) \in InMaps(f + count - 1)
    BY <2>1, <2>3, PlaceIn
  <2>5. m \subseteq s.mem \cup InMaps(f + count - 1) /\ s.mem \subseteq m
    BY <2>4, <1>1 DEF AllocTyped, m
  <2>6. over \in BOOLEAN /\ (s.spoiled => over)
    BY <1>1 DEF over, AllocTyped
  <2>7. ASSUME ~over
        PROVE  /\ ~a.spoiled /\ i * B + j \in 0..(count * B - 1) /\ Files!Place(k, j) = Files!Bit(f, i * B + j)
               /\ Files!Bit(f, i * B + j)[1] = k /\ nr = offset + (i * B + j) /\ j \in 0..(B - 1)
    <3>1. j \in 0..(B - 1) /\ ~a.spoiled
      BY <2>7, <2>2, <1>0 DEF over
    <3>2. i \in 0..(count - 1)
      BY <1>7
    <3>3. i * B + j \in 0..(count * B - 1)
      BY <3>1, <3>2, BitInBlock
    <3>4. Files!Place(f + i, j) = Files!Bit(f, i * B + j) /\ Files!Bit(f, i * B + j) = <<f + i, j>>
      BY <3>1, PlaceBit, BitOf
    <3>5. Files!Bit(f, i * B + j)[1] = f + i
      BY <3>4
    <3> QED BY <3>1, <3>3, <3>4, <3>5, <2>1, <1>0 DEF k, base
  <2>8. CASE nr < limit
    <3>1. r = Files!Maps(m, Files!bwrite(m, a.disk, k), nr, over, FALSE)
      <4>1. ~(i >= count)
        BY <1>7
      <4> QED BY <1>3, <1>7, <2>8, <4>1, Zenon
    <3>2. r.mem = m /\ r.disk = Files!bwrite(m, a.disk, k) /\ r.nr = nr /\ r.spoiled = over /\ r.panicked = FALSE
      BY <3>1 DEF Files!Maps
    <3>3. AllocTyped(s, r, f, f + count - 1, offset, limit)
      <4>1. r.nr \in {0} \cup offset..(limit - 1)
        BY <2>2, <2>8, <3>2
      <4>2. ASSUME Files!Bit(f, 0) \in s.mem PROVE nr # offset
        <5>1. ASSUME nr = offset PROVE FALSE
          <6>1. i * B + j = 0
            BY <5>1, <2>1, <2>2, <1>0 DEF base
          <6>2. i * B = 0 /\ j = 0
            BY <6>1, <2>2, <1>0
          <6>3. j \in 0..(B - 1) /\ i * B + j = 0
            BY <6>1, <6>2, <1>0
          <6>4. Files!Place(k, j) = Files!Bit(f, 0)
            BY <6>3, PlaceBit DEF k
          <6> QED BY <6>4, <4>2, <2>1, <1>1 DEF AllocTyped
        <5> QED BY <5>1
      <4> QED BY <1>1, <2>5, <2>6, <3>2, <4>1, <4>2 DEF AllocTyped
    <3>4. ASSUME ~over PROVE OneFound(r, s.mem, s.disk, f, count, offset, limit)
      <4>1. NoneFound(a, s.mem, s.disk, i, f, count, offset, limit)
        BY <1>4, <2>7, <3>4
      <4>2. PICK E \in SUBSET Extra(f, count, offset, limit) : a.mem = s.mem \cup E
        BY <4>1 DEF NoneFound
      <4> DEFINE q == i * B + j
      <4>3. /\ q \in 0..(count * B - 1) /\ Files!Place(k, j) = Files!Bit(f, q) /\ Files!Bit(f, q)[1] = k
            /\ nr = offset + q /\ a.disk = s.disk
        BY <2>7, <3>4, <4>1 DEF NoneFound
      <4> HIDE DEF q
      <4>4. r.mem = (s.mem \cup E) \cup {Files!Bit(f, q)} /\ Files!Bit(f, q) \notin s.mem
        BY <2>1, <3>2, <4>2, <4>3 DEF m
      <4>5. r.disk = Files!bwrite(r.mem, s.disk, Files!Bit(f, q)[1])
        BY <3>2, <4>3
      <4> QED BY <2>8, <3>2, <4>3, <4>4, <4>5 DEF OneFound
    <3> QED BY <3>2, <3>3, <3>4 DEF Searched, r
  <2>9. CASE ~(nr < limit)
    <3>1. r = Files!Maps(m, a.disk, 0, over, FALSE)
      <4>1. ~(i >= count)
        BY <1>7
      <4> QED BY <1>3, <1>7, <2>9, <4>1, Zenon
    <3>2. r.mem = m /\ r.disk = a.disk /\ r.nr = 0 /\ r.spoiled = over /\ r.panicked = FALSE
      BY <3>1 DEF Files!Maps
    <3>3. AllocTyped(s, r, f, f + count - 1, offset, limit)
      BY <1>1, <2>5, <2>6, <3>2 DEF AllocTyped
    <3>4. ASSUME ~over PROVE NoneFound(r, s.mem, s.disk, i + 1, f, count, offset, limit)
      <4>1. NoneFound(a, s.mem, s.disk, i, f, count, offset, limit)
        BY <1>4, <2>7, <3>4
      <4>2. PICK E \in SUBSET Extra(f, count, offset, limit) : a.mem = s.mem \cup E
        BY <4>1 DEF NoneFound
      <4> DEFINE q == i * B + j
      <4>3. /\ q \in 0..(count * B - 1) /\ Files!Place(k, j) = Files!Bit(f, q)
            /\ nr = offset + q /\ a.disk = s.disk /\ j \in 0..(B - 1)
        BY <2>7, <3>4, <4>1 DEF NoneFound
      <4>4. q = i * B + j
        OBVIOUS
      <4> HIDE DEF q
      <4>5. Files!Bit(f, q) \in Extra(f, count, offset, limit)
        <5>1. offset + q >= limit
          BY <2>9, <4>3, <2>2
        <5> QED BY <5>1, <4>3 DEF Extra
      <4>6. r.mem = s.mem \cup (E \cup {Files!Bit(f, q)}) /\ E \cup {Files!Bit(f, q)} \in SUBSET Extra(f, count, offset, limit)
        BY <3>2, <4>2, <4>3, <4>5 DEF m
      <4>7. ASSUME NEW h \in 0..((i + 1) * B - 1), offset + h < limit PROVE Files!Bit(f, h) \in s.mem
        <5>1. CASE h \in 0..(i * B - 1)
          BY <5>1, <4>1, <4>7 DEF NoneFound
        <5>2. CASE \E w \in 0..(B - 1) : h = i * B + w
          <6>1. PICK w \in 0..(B - 1) : h = i * B + w
            BY <5>2
          <6>2. Files!Place(k, w) = Files!Bit(f, h) /\ h \in Nat
            BY <6>1, PlaceBit DEF k
          <6>3. w < j
            <7>1. offset + (i * B + w) < offset + (i * B + j)
              BY <2>9, <4>3, <4>4, <4>7, <6>1, <2>2, <1>0
            <7> QED BY <7>1, <1>0, <2>2
          <6>4. Files!Bit(f, h) \in a.mem
            BY <2>1, <2>2, <6>2, <6>3
          <6>5. Files!Bit(f, h) \notin E
            BY <4>7, <6>2, NotExtra
          <6> QED BY <4>2, <6>4, <6>5
        <5> QED BY <5>1, <5>2, RoundBits
      <4>8. i + 1 <= count
        BY <1>7
      <4> QED BY <3>2, <4>3, <4>6, <4>7, <4>8 DEF NoneFound
    <3> QED BY <3>2, <3>3, <3>4 DEF Searched, r
  <2> QED BY <2>8, <2>9
<1> QED BY <1>5, <1>6, <1>7

(* The whole search. *)
LEMMA AllocEffect ==
  ASSUME NEW s, NEW f \in Nat \ {0}, NEW count \in Nat, NEW offset \in Nat \ {0}, NEW limit \in Nat
  PROVE  Searched(s, Files!Alloc(s, f, count, offset, limit), MAP_BLOCKS, f, count, offset, limit)
<1> DEFINE start == Files!Maps(s.mem, s.disk, 0, s.spoiled, s.panicked)
           Next1(a, i) == IF a.nr # 0 \/ a.panicked THEN a ELSE Files!Round(a, i - 1, f, count, offset, limit)
           Is(g, m) == g = [i \in 0..m |-> IF i = 0 THEN start ELSE Next1(g[i - 1], i)]
           C == CHOOSE g : Is(g, MAP_BLOCKS)
           N == MAP_BLOCKS
<1>0. N \in Nat
  BY FilesAssumption
<1>1. Files!Alloc(s, f, count, offset, limit) = C[N]
  BY Zenon DEF Files!Alloc
<1> HIDE DEF Next1, start, N
<1>2. \E g : Is(g, N)
  <2> DEFINE Not == {m \in 0..N : ~ \E g : Is(g, m)}
  <2>1. ASSUME Not # {} PROVE FALSE
    <3>0. Not \subseteq Nat
      OBVIOUS
    <3>1. PICK m \in Not : \A h \in Not : m <= h
      BY <2>1, <3>0, LeastOne
    <3>2. CASE m = 0
      <4>1. Is([i \in 0..0 |-> start], 0)
        OBVIOUS
      <4> QED BY <3>2, <4>1
    <3>3. CASE m # 0
      <4>1. m - 1 \in 0..N /\ m - 1 \notin Not
        <5>1. m \in 0..N
          OBVIOUS
        <5> HIDE DEF Not
        <5> QED BY <5>1, <3>1, <3>3, <1>0 DEF N
      <4>2. PICK g : Is(g, m - 1)
        BY <4>1
      <4> DEFINE h == [i \in 0..m |-> IF i = m THEN Next1(g[m - 1], m) ELSE g[i]]
      <4>3. Is(h, m)
        <5>1. m \in Nat /\ m > 0
          BY <3>3
        <5>2. \A i \in 0..m : h[i] = IF i = 0 THEN start ELSE Next1(h[i - 1], i)
          BY <4>2, <5>1
        <5> QED BY <5>2
      <4> QED BY <4>3
    <3> QED BY <3>2, <3>3
  <2>2. N \in 0..N /\ N \notin Not
    <3> HIDE DEF Not
    <3> QED BY <2>1, <1>0
  <2> HIDE DEF Is
  <2> QED BY <2>2
<1>3. Is(C, N)
  <2> HIDE DEF Is
  <2> QED BY <1>2, Zenon DEF N
<1> HIDE DEF C
<1>4. C[0] = start /\ \A i \in 1..N : C[i] = Next1(C[i - 1], i)
  BY <1>3, <1>0
<1> DEFINE Ok(i) == Searched(s, C[i], i, f, count, offset, limit)
           Bad1 == {i \in 0..N : ~Ok(i)}
<1>5. Ok(0)
  <2>1. /\ start.mem = s.mem /\ start.disk = s.disk /\ start.nr = 0 /\ start.spoiled = s.spoiled
        /\ start.panicked = s.panicked
    BY MapsFields DEF start
  <2>2. s.mem = s.mem \cup {} /\ {} \in SUBSET Extra(f, count, offset, limit)
    OBVIOUS
  <2>3. 0..(0 * B - 1) = {}
    BY FilesAssumption DEF B
  <2>4. NoneFound(start, s.mem, s.disk, 0, f, count, offset, limit)
    <3>1. \A q \in 0..(0 * B - 1) : offset + q < limit => Files!Bit(f, q) \in s.mem
      BY <2>3
    <3>2. \E E \in SUBSET Extra(f, count, offset, limit) : start.mem = s.mem \cup E
      BY <2>1, <2>2
    <3>3. start.nr = 0 /\ start.disk = s.disk /\ 0 <= count
      BY <2>1
    <3> QED BY <3>1, <3>2, <3>3 DEF NoneFound
  <2>5. AllocTyped(s, start, f, f + count - 1, offset, limit)
    BY <2>1 DEF AllocTyped
  <2> QED BY <1>4, <2>4, <2>5 DEF Searched
<1>6. ASSUME NEW i \in 1..N, Ok(i - 1) PROVE Ok(i)
  <2> DEFINE a == C[i - 1]
  <2>1. Searched(s, a, i - 1, f, count, offset, limit) /\ i - 1 \in Nat /\ (i - 1) + 1 = i
    BY <1>6
  <2>2. C[i] = Next1(a, i)
    BY <1>4
  <2> HIDE DEF a
  <2>3. CASE a.nr # 0 \/ a.panicked
    <3>1. C[i] = a
      BY <2>2, <2>3 DEF Next1
    <3>2. ~NoneFound(a, s.mem, s.disk, i - 1, f, count, offset, limit) \/ a.panicked
      BY <2>3 DEF NoneFound
    <3>3. Searched(s, a, i, f, count, offset, limit)
      BY <2>1, <3>2 DEF Searched
    <3> QED BY <3>1, <3>3
  <2>4. CASE a.nr = 0 /\ ~a.panicked
    <3>1. C[i] = Files!Round(a, i - 1, f, count, offset, limit)
      BY <2>2, <2>4 DEF Next1
    <3>2. Searched(s, Files!Round(a, i - 1, f, count, offset, limit), (i - 1) + 1, f, count, offset, limit)
      BY <2>1, <2>4, RoundEffect
    <3> QED BY <2>1, <3>1, <3>2
  <2> QED BY <2>3, <2>4
<1>7. Bad1 = {}
  <2>1. ASSUME Bad1 # {} PROVE FALSE
    <3>0. Bad1 \subseteq Nat
      OBVIOUS
    <3> HIDE DEF Ok
    <3>1. PICK m \in Bad1 : \A h \in Bad1 : m <= h
      BY <2>1, <3>0, LeastOne
    <3>2. m \in 0..N /\ ~Ok(m)
      OBVIOUS
    <3>3. m # 0
      BY <1>5, <3>2
    <3>4. m - 1 \in 0..N /\ m - 1 \notin Bad1
      <4> HIDE DEF Bad1
      <4> QED BY <3>0, <3>1, <3>2, <3>3, <1>0 DEF N
    <3>5. Ok(m - 1) /\ m \in 1..N
      BY <3>2, <3>3, <3>4
    <3> QED BY <1>6, <3>2, <3>5
  <2> QED BY <2>1
<1>8. Ok(N)
  BY <1>0, <1>7
<1> QED BY <1>1, <1>8 DEF N

-----------------------------------------------------------------------------
(* The file system is one that mkfs.minix makes. *)
SbInv == \E a \in InodeNrs, b \in BlockNrs : sb = Layout(a, b)

NB == sb.nzones - sb.first_data_zone
Counted == 1..(sb.ninodes - 1)

(* The number of blocks is rounded up.                                     *)
LEMMA BlocksUp ==
  ASSUME NEW n \in Nat, NEW b \in Nat \ {0}
  PROVE  Blocks(n, b) \in Nat /\ Blocks(n, b) * b >= n /\ (n > 0 => Blocks(n, b) > 0)
<1> DEFINE q == (n + b - 1) \div b
           r == (n + b - 1) % b
<1>1. n + b - 1 \in Nat /\ b \in Nat /\ b > 0
  OBVIOUS
<1>2. q \in Nat /\ r \in 0..(b - 1) /\ n + b - 1 = b * q + r
  BY <1>1, Division
<1>3. Blocks(n, b) = q
  BY DEF Blocks
<1> HIDE DEF q, r
<1>4. b * q \in Nat /\ q * b = b * q
  BY <1>1, <1>2
<1>5. q * b >= n
  <2> DEFINE z == b * q
  <2>1. z \in Nat /\ n + b - 1 = z + r /\ q * b = z
    BY <1>2, <1>4
  <2> HIDE DEF z
  <2>2. z >= n
    BY <1>1, <1>2, <2>1
  <2> QED BY <2>1, <2>2
<1>6. ASSUME n > 0 PROVE q > 0
  <2>1. ASSUME q = 0 PROVE FALSE
    <3>1. b * q = 0
      BY <2>1, <1>1
    <3> QED BY <1>1, <1>2, <1>6, <3>1
  <2> QED BY <2>1, <1>2
<1>7. q \in Nat /\ q * b >= n /\ (n > 0 => q > 0)
  BY <1>2, <1>5, <1>6
<1> QED BY <1>3, <1>7, Zenon

(* The sizes in the super block: there are bits for all numbers.           *)
LEMMA SbFacts ==
  ASSUME SbInv
  PROVE  /\ sb.ninodes \in Nat /\ sb.ninodes >= 2
         /\ sb.imap_blocks \in Nat \ {0} /\ sb.zmap_blocks \in Nat \ {0}
         /\ sb.first_data_zone \in Nat /\ sb.first_data_zone > 3 + sb.imap_blocks /\ sb.nzones \in Nat
         /\ NB \in Nat \ {0} /\ sb.nzones = sb.first_data_zone + NB
         /\ sb.ninodes + 1 <= sb.imap_blocks * B /\ NB + 1 <= sb.zmap_blocks * B
         /\ sb.imap_blocks * B \in Nat /\ sb.zmap_blocks * B \in Nat
         /\ sb.imap_blocks <= MAP_BLOCKS /\ sb.zmap_blocks <= MAP_BLOCKS
<1>1. PICK a \in InodeNrs, b \in BlockNrs : sb = Layout(a, b)
  BY DEF SbInv
<1> DEFINE x == Blocks(a + 1, BLOCK_BITS)
           y == Blocks(b + 1, BLOCK_BITS)
           w == Blocks(a, BLOCK_INODES)
<1>2. a \in Nat /\ a >= 2 /\ b \in Nat /\ b > 0 /\ BLOCK_BITS \in Nat \ {0} /\ BLOCK_INODES \in Nat \ {0}
  BY FilesAssumption
<1>3. x \in Nat /\ x * BLOCK_BITS >= a + 1 /\ x > 0
  <2>1. a + 1 \in Nat /\ a + 1 > 0
    BY <1>2
  <2>2. BLOCK_BITS \in Nat \ {0}
    BY <1>2
  <2> HIDE DEF x, y, w
  <2>3. Blocks(a + 1, BLOCK_BITS) \in Nat /\ Blocks(a + 1, BLOCK_BITS) * BLOCK_BITS >= a + 1 /\ (a + 1 > 0 => Blocks(a + 1, BLOCK_BITS) > 0)
    BY <2>1, <2>2, BlocksUp, Zenon
  <2> QED BY <2>1, <2>3, Zenon DEF x
<1>4. y \in Nat /\ y * BLOCK_BITS >= b + 1 /\ y > 0
  <2>1. b + 1 \in Nat /\ b + 1 > 0
    BY <1>2
  <2>2. BLOCK_BITS \in Nat \ {0}
    BY <1>2
  <2> HIDE DEF x, y, w
  <2>3. Blocks(b + 1, BLOCK_BITS) \in Nat /\ Blocks(b + 1, BLOCK_BITS) * BLOCK_BITS >= b + 1 /\ (b + 1 > 0 => Blocks(b + 1, BLOCK_BITS) > 0)
    BY <2>1, <2>2, BlocksUp, Zenon
  <2> QED BY <2>1, <2>3, Zenon DEF y
<1>5. w \in Nat /\ w > 0
  <2>1. a \in Nat /\ a > 0
    BY <1>2
  <2>2. BLOCK_INODES \in Nat \ {0}
    BY <1>2
  <2> HIDE DEF x, y, w
  <2>3. Blocks(a, BLOCK_INODES) \in Nat /\ Blocks(a, BLOCK_INODES) * BLOCK_INODES >= a /\ (a > 0 => Blocks(a, BLOCK_INODES) > 0)
    BY <2>1, <2>2, BlocksUp, Zenon
  <2> QED BY <2>1, <2>3, Zenon DEF w
<1>6. Layout(a, b) = [ninodes |-> a, nzones |-> 2 + x + y + w + b, imap_blocks |-> x, zmap_blocks |-> y,
                      first_data_zone |-> 2 + x + y + w]
  BY DEF Layout
<1>7. Layout(a, b).imap_blocks <= MAP_BLOCKS /\ Layout(a, b).zmap_blocks <= MAP_BLOCKS
  BY FilesAssumption
<1> HIDE DEF x, y, w
<1>8. /\ sb.ninodes = a /\ sb.nzones = 2 + x + y + w + b /\ sb.imap_blocks = x /\ sb.zmap_blocks = y
      /\ sb.first_data_zone = 2 + x + y + w /\ x <= MAP_BLOCKS /\ y <= MAP_BLOCKS
  BY <1>1, <1>6, <1>7
<1>9. NB = b
  BY <1>2, <1>3, <1>4, <1>5, <1>8 DEF NB
<1>10. x * B \in Nat /\ y * B \in Nat /\ x * B >= a + 1 /\ y * B >= b + 1
  BY <1>2, <1>3, <1>4 DEF B
<1> QED BY <1>2, <1>3, <1>4, <1>5, <1>8, <1>9, <1>10

(* The bits of the two maps are in different blocks. *)
LEMMA MapsApart ==
  ASSUME SbInv, NEW q \in 0..(sb.imap_blocks * B - 1), NEW h \in 0..(sb.zmap_blocks * B - 1)
  PROVE  Files!Bit(Files!imap, q) # Files!Bit(Files!zmap, h)
<1>1. sb.imap_blocks \in Nat /\ sb.zmap_blocks \in Nat
  BY SbFacts
<1>2. Files!imap \in Nat /\ Files!zmap \in Nat /\ Files!imap = 2 /\ Files!zmap = 2 + sb.imap_blocks
  BY <1>1 DEF Files!imap, Files!zmap
<1>3. Files!Bit(Files!imap, q)[1] \in Files!imap..(Files!imap + sb.imap_blocks - 1)
  BY <1>1, <1>2, BitBlock
<1>4. Files!Bit(Files!zmap, h)[1] \in Files!zmap..(Files!zmap + sb.zmap_blocks - 1)
  BY <1>1, <1>2, BitBlock
<1> QED BY <1>1, <1>2, <1>3, <1>4

(* The bit of a block; of an inode. *)
LEMMA BitIndex ==
  ASSUME SbInv
  PROVE  /\ Files!imap \in Nat \ {0} /\ Files!zmap \in Nat \ {0}
         /\ \A b \in Files!Zone : /\ b - (sb.first_data_zone - 1) \in 1..NB
                                  /\ b - (sb.first_data_zone - 1) \in 0..(sb.zmap_blocks * B - 1)
                                  /\ Files!ZoneBit(b) = Files!Bit(Files!zmap, b - (sb.first_data_zone - 1))
         /\ \A n \in Counted : /\ n - 1 \in 0..(sb.ninodes - 2)
                               /\ n - 1 \in 0..(sb.imap_blocks * B - 1)
                               /\ Files!InodeBit(n) = Files!Bit(Files!imap, n - 1)
<1>1. /\ sb.ninodes \in Nat /\ sb.first_data_zone \in Nat /\ NB \in Nat
      /\ sb.nzones = sb.first_data_zone + NB
      /\ sb.ninodes + 1 <= sb.imap_blocks * B /\ NB + 1 <= sb.zmap_blocks * B
      /\ sb.imap_blocks * B \in Nat /\ sb.zmap_blocks * B \in Nat
      /\ sb.imap_blocks \in Nat \ {0}
  BY SbFacts
<1> DEFINE x == sb.imap_blocks * B
           y == sb.zmap_blocks * B
<1>2. /\ sb.ninodes + 1 <= x /\ NB + 1 <= y /\ x \in Nat /\ y \in Nat
  BY <1>1
<1> HIDE DEF x, y
<1>3. ASSUME NEW b \in Files!Zone
      PROVE  /\ b - (sb.first_data_zone - 1) \in 1..NB /\ b - (sb.first_data_zone - 1) \in 0..(y - 1)
  BY <1>1, <1>2 DEF Files!Zone
<1>4. ASSUME NEW n \in Counted
      PROVE  n - 1 \in 0..(sb.ninodes - 2) /\ n - 1 \in 0..(x - 1)
  BY <1>1, <1>2 DEF Counted
<1>5. Files!imap \in Nat \ {0} /\ Files!zmap \in Nat \ {0}
  BY <1>1 DEF Files!imap, Files!zmap
<1> QED BY <1>3, <1>4, <1>5 DEF x, y, Files!ZoneBit, Files!InodeBit

(* Different numbers have different bits. *)
LEMMA BitsDiffer ==
  ASSUME SbInv
  PROVE  /\ \A b \in Files!Zone, e \in Files!Zone : Files!ZoneBit(b) = Files!ZoneBit(e) => b = e
         /\ \A n \in Counted, e \in Counted : Files!InodeBit(n) = Files!InodeBit(e) => n = e
         /\ \A b \in Files!Zone, n \in Counted : Files!ZoneBit(b) # Files!InodeBit(n)
<1>1. sb.first_data_zone \in Nat
  BY SbFacts
<1>2. ASSUME NEW b \in Files!Zone, NEW e \in Files!Zone, Files!ZoneBit(b) = Files!ZoneBit(e) PROVE b = e
  <2> DEFINE p == b - (sb.first_data_zone - 1)
             q == e - (sb.first_data_zone - 1)
  <2>1. Files!Bit(Files!zmap, p) = Files!Bit(Files!zmap, q) /\ p \in 1..NB /\ q \in 1..NB /\ Files!zmap \in Nat
    BY <1>2, BitIndex
  <2>2. p \in Nat /\ q \in Nat
    BY <2>1
  <2> HIDE DEF p, q
  <2>3. p = q
    BY <2>1, <2>2, BitSame
  <2> QED BY <2>3, <1>1 DEF p, q, Files!Zone
<1>3. ASSUME NEW n \in Counted, NEW e \in Counted, Files!InodeBit(n) = Files!InodeBit(e) PROVE n = e
  <2> DEFINE p == n - 1
             q == e - 1
  <2>1. Files!Bit(Files!imap, p) = Files!Bit(Files!imap, q) /\ p \in 0..(sb.ninodes - 2) /\ q \in 0..(sb.ninodes - 2) /\ Files!imap \in Nat
    BY <1>3, BitIndex
  <2>2. p \in Nat /\ q \in Nat
    BY <2>1
  <2> HIDE DEF p, q
  <2>3. p = q
    BY <2>1, <2>2, BitSame
  <2> QED BY <2>3 DEF p, q, Counted
<1>4. ASSUME NEW b \in Files!Zone, NEW n \in Counted PROVE Files!ZoneBit(b) # Files!InodeBit(n)
  <2> DEFINE p == b - (sb.first_data_zone - 1)
             q == n - 1
  <2>1. /\ Files!ZoneBit(b) = Files!Bit(Files!zmap, p) /\ p \in 0..(sb.zmap_blocks * B - 1)
        /\ Files!InodeBit(n) = Files!Bit(Files!imap, q) /\ q \in 0..(sb.imap_blocks * B - 1)
    BY BitIndex
  <2> HIDE DEF p, q
  <2>2. Files!Bit(Files!imap, q) # Files!Bit(Files!zmap, p)
    BY <2>1, MapsApart
  <2> QED BY <2>1, <2>2
<1> QED BY <1>2, <1>3, <1>4

(* The bits that are ones and zeros when the blocks zs and the inodes is   *)
(* are in use; the bits of the zone map before and behind the blocks are   *)
(* ones.                                                                   *)
Ends == {0} \cup (NB + 1)..(sb.zmap_blocks * B - 1)
Ones(zs, is) ==
    {Files!Bit(Files!zmap, q) : q \in Ends}
    \cup {Files!ZoneBit(b) : b \in zs} \cup {Files!InodeBit(n) : n \in is \cap Counted}
Zeros(zs, is) ==
    {Files!ZoneBit(b) : b \in Files!Zone \ zs} \cup {Files!InodeBit(n) : n \in Counted \ is}
Shows(m, one, zero) == one \subseteq m /\ zero \cap m = {}
Exact(m, zs, is) == Shows(m, Ones(zs, is), Zeros(zs, is))

(* Bit x is set in m2, which holds extra bits too; bit x is cleared.       *)
BitTaken(m, d, one, zero, x, m2, one2, zero2) ==
    /\ Shows(m, one, zero) /\ Shows(d, one, zero)
    /\ \E E : E \cap zero = {} /\ m2 = (m \cup E) \cup {x}
    /\ one2 \subseteq one \cup {x} /\ zero2 \subseteq zero \ {x}
BitDropped(m, d, one, zero, x, m2, one2, zero2) ==
    /\ Shows(m, one, zero) /\ Shows(d, one, zero)
    /\ m2 = m \ {x} /\ one2 \subseteq one \ {x} /\ zero2 \subseteq zero \cup {x}

(* A bit that was not counted is set and written with its block.           *)
LEMMA TakeBit ==
  ASSUME NEW m, NEW d, NEW one, NEW zero, NEW x, NEW m2, NEW one2, NEW zero2,
         BitTaken(m, d, one, zero, x, m2, one2, zero2)
  PROVE  Shows(m2, one2, zero2) /\ Shows(Files!bwrite(m2, d, x[1]), one2, zero2)
<1>0. PICK E : E \cap zero = {} /\ m2 = (m \cup E) \cup {x}
  BY DEF BitTaken
<1>1. Shows(m2, one2, zero2)
  BY <1>0 DEF Shows, BitTaken
<1>2. \A y \in one2 : y[1] # x[1] => y \in d
  BY DEF Shows, BitTaken
<1>3. \A y \in zero2 : y \notin d
  BY DEF Shows, BitTaken
<1> QED BY <1>1, <1>2, <1>3 DEF Shows, Files!bwrite

(* A bit is cleared and written with its block.                            *)
LEMMA DropBit ==
  ASSUME NEW m, NEW d, NEW one, NEW zero, NEW x, NEW m2, NEW one2, NEW zero2,
         BitDropped(m, d, one, zero, x, m2, one2, zero2)
  PROVE  Shows(m2, one2, zero2) /\ Shows(Files!bwrite(m2, d, x[1]), one2, zero2)
<1>1. Shows(m2, one2, zero2)
  BY DEF Shows, BitDropped
<1>2. \A y \in one2 : y \in d
  BY DEF Shows, BitDropped
<1>3. \A y \in zero2 : y[1] # x[1] => y \notin d
  BY DEF Shows, BitDropped
<1> QED BY <1>1, <1>2, <1>3 DEF Shows, Files!bwrite

(* A call on the maps leaves what their types say, whatever went before.   *)
Top == Files!zmap + sb.zmap_blocks - 1
First == Files!Bit(Files!zmap, 0)
CallTyped(s, r) ==
    /\ r.mem \subseteq s.mem \cup InMaps(Top) /\ (First \in s.mem => First \in r.mem)
    /\ (s.spoiled \in BOOLEAN => r.spoiled \in BOOLEAN) /\ (s.spoiled => r.spoiled)
    /\ (s.panicked \in BOOLEAN => r.panicked \in BOOLEAN)
ExactBoth(s, zs, is) == Exact(s.mem, zs, is) /\ Exact(s.disk, zs, is)

(* The inode map lies before the end of the zone map.                      *)
LEMMA Tops == ASSUME SbInv PROVE InMaps(Files!imap + sb.imap_blocks - 1) \subseteq InMaps(Top)
<1>1. /\ sb.imap_blocks \in Nat /\ sb.zmap_blocks \in Nat \ {0}
  BY SbFacts
<1>2. Files!imap + sb.imap_blocks - 1 \in Nat /\ Top \in Nat /\ Files!imap + sb.imap_blocks - 1 <= Top
  BY <1>1 DEF Top, Files!imap, Files!zmap
<1> QED BY <1>2 DEF InMaps

(* The ones and zeros after a block or an inode number is given out.       *)
LEMMA OnesMore ==
  ASSUME SbInv, NEW zs, NEW is, NEW b \in Files!Zone \ zs
  PROVE  /\ Ones(zs \cup {b}, is) \subseteq Ones(zs, is) \cup {Files!ZoneBit(b)}
         /\ Zeros(zs \cup {b}, is) \subseteq Zeros(zs, is) \ {Files!ZoneBit(b)}
<1>1. Ones(zs \cup {b}, is) \subseteq Ones(zs, is) \cup {Files!ZoneBit(b)}
  BY DEF Ones
<1>2. Zeros(zs \cup {b}, is) \subseteq Zeros(zs, is)
  BY DEF Zeros
<1>3. Files!ZoneBit(b) \notin Zeros(zs \cup {b}, is)
  BY BitsDiffer DEF Zeros
<1> QED BY <1>1, <1>2, <1>3

(* The ones and zeros after an inode number is given out.                  *)
LEMMA OnesInode ==
  ASSUME SbInv, NEW zs \in SUBSET Files!Zone, NEW is, NEW n \in Counted \ is
  PROVE  /\ Ones(zs, is \cup {n}) \subseteq Ones(zs, is) \cup {Files!InodeBit(n)}
         /\ Zeros(zs, is \cup {n}) \subseteq Zeros(zs, is) \ {Files!InodeBit(n)}
<1>1. Ones(zs, is \cup {n}) \subseteq Ones(zs, is) \cup {Files!InodeBit(n)}
  BY DEF Ones
<1>2. Zeros(zs, is \cup {n}) \subseteq Zeros(zs, is)
  BY DEF Zeros
<1>3. Files!InodeBit(n) \notin Zeros(zs, is \cup {n})
  BY BitsDiffer DEF Zeros
<1> QED BY <1>1, <1>2, <1>3

(* Extra bits are not among the zeros.                                     *)
LEMMA ExtraZone ==
  ASSUME SbInv, NEW zs, NEW is
  PROVE  Extra(Files!zmap, sb.zmap_blocks, sb.first_data_zone - 1, sb.nzones) \cap Zeros(zs, is) = {}
<1> DEFINE f == Files!zmap
           offset == sb.first_data_zone - 1
<1>1. /\ sb.first_data_zone \in Nat /\ sb.first_data_zone > 3 + sb.imap_blocks /\ sb.imap_blocks \in Nat /\ sb.nzones \in Nat
      /\ sb.zmap_blocks \in Nat
  BY SbFacts
<1>2. offset \in Nat /\ f \in Nat
  BY <1>1, BitIndex
<1> HIDE DEF f
<1>3. ASSUME NEW b \in Files!Zone PROVE Files!ZoneBit(b) \notin Extra(f, sb.zmap_blocks, offset, sb.nzones)
  <2> DEFINE q == b - offset
  <2>1. Files!ZoneBit(b) = Files!Bit(f, q) /\ q \in Nat /\ offset + q < sb.nzones
    <3>1. b \in sb.first_data_zone..(sb.nzones - 1)
      BY DEF Files!Zone
    <3>2. Files!ZoneBit(b) = Files!Bit(f, q)
      BY DEF f, Files!ZoneBit
    <3> QED BY <3>1, <3>2, <1>1
  <2> HIDE DEF q, offset
  <2> QED BY <2>1, <1>1, <1>2, NotExtra
<1>4. ASSUME NEW n \in Counted PROVE Files!InodeBit(n) \notin Extra(f, sb.zmap_blocks, offset, sb.nzones)
  <2> DEFINE q == n - 1
  <2>1. Files!InodeBit(n) = Files!Bit(Files!imap, q) /\ q \in 0..(sb.imap_blocks * B - 1)
    BY BitIndex
  <2> HIDE DEF q
  <2>2. ASSUME NEW h \in 0..(sb.zmap_blocks * B - 1) PROVE Files!Bit(Files!imap, q) # Files!Bit(f, h)
    BY <2>1, MapsApart DEF f
  <2> QED BY <2>1, <2>2 DEF Extra
<1> QED BY <1>3, <1>4 DEF Zeros, f

(* The bits that ialloc sets and gives back no number for belong to no     *)
(* inode.                                                                  *)
LEMMA ExtraInode ==
  ASSUME SbInv, NEW zs, NEW is
  PROVE  Extra(Files!imap, sb.imap_blocks, 1, sb.ninodes) \cap Zeros(zs, is) = {}
<1> DEFINE f == Files!imap
<1>1. sb.ninodes \in Nat /\ sb.imap_blocks \in Nat /\ f \in Nat
  BY SbFacts, BitIndex
<1> HIDE DEF f
<1>2. ASSUME NEW n \in Counted PROVE Files!InodeBit(n) \notin Extra(f, sb.imap_blocks, 1, sb.ninodes)
  <2> DEFINE q == n - 1
  <2>1. Files!InodeBit(n) = Files!Bit(f, q) /\ q \in Nat /\ 1 + q < sb.ninodes
    <3>1. n \in 1..(sb.ninodes - 1)
      BY DEF Counted
    <3>2. Files!InodeBit(n) = Files!Bit(f, q)
      BY DEF f, Files!InodeBit
    <3> QED BY <3>1, <3>2, <1>1
  <2> HIDE DEF q
  <2>2. 1 \in Nat
    OBVIOUS
  <2> QED BY <2>1, <2>2, <1>1, NotExtra
<1>3. ASSUME NEW b \in Files!Zone PROVE Files!ZoneBit(b) \notin Extra(f, sb.imap_blocks, 1, sb.ninodes)
  <2> DEFINE q == b - (sb.first_data_zone - 1)
  <2>1. Files!ZoneBit(b) = Files!Bit(Files!zmap, q) /\ q \in 0..(sb.zmap_blocks * B - 1)
    BY BitIndex
  <2> HIDE DEF q
  <2>2. ASSUME NEW h \in 0..(sb.imap_blocks * B - 1) PROVE Files!Bit(Files!zmap, q) # Files!Bit(f, h)
    BY <2>1, MapsApart DEF f
  <2> QED BY <2>1, <2>2 DEF Extra
<1> QED BY <1>2, <1>3 DEF Zeros, f

(* balloc gives a block that is not in use and marks it, in memory and on  *)
(* the disk, or all are in use.                                            *)
LEMMA BallocEffect ==
  ASSUME SbInv, NEW s, NEW r, r = Files!balloc(s), First \in s.mem
  PROVE  /\ CallTyped(s, r) /\ r.nr \in {0} \cup Files!Zone /\ (r.panicked => r.nr = 0)
         /\ \A zs \in SUBSET Files!Zone, is \in SUBSET Nat :
              ExactBoth(s, zs, is) /\ ~r.spoiled /\ ~r.panicked =>
                \/ r.nr = 0 /\ zs = Files!Zone /\ ExactBoth(r, zs, is)
                \/ r.nr \in Files!Zone \ zs /\ ExactBoth(r, zs \cup {r.nr}, is)
<1> DEFINE f == Files!zmap
           size == sb.zmap_blocks
           offset == sb.first_data_zone - 1
           limit == sb.nzones
<1>1. /\ sb.first_data_zone \in Nat /\ sb.first_data_zone > 3 + sb.imap_blocks /\ sb.imap_blocks \in Nat /\ limit \in Nat
      /\ size \in Nat \ {0} /\ size <= MAP_BLOCKS /\ NB \in Nat /\ limit = sb.first_data_zone + NB
      /\ NB + 1 <= size * B /\ size * B \in Nat
  BY SbFacts
<1>2. offset \in Nat \ {0} /\ f \in Nat \ {0} /\ sb.first_data_zone = offset + 1
  BY <1>1, BitIndex
<1>3. r = Files!Alloc(s, f, size, offset, limit)
  BY DEF Files!balloc
<1>4. Top = f + size - 1 /\ First = Files!Bit(f, 0) /\ Files!Zone = (offset + 1)..(limit - 1)
  BY <1>2 DEF Top, First, Files!Zone
<1>5. \A b \in Files!Zone : Files!ZoneBit(b) = Files!Bit(f, b - offset)
  BY DEF Files!ZoneBit
<1>6. \A zs, is : Extra(f, size, offset, limit) \cap Zeros(zs, is) = {}
  BY ExtraZone
<1> HIDE DEF f, size, offset, limit
<1>7. Searched(s, r, MAP_BLOCKS, f, size, offset, limit)
  BY <1>1, <1>2, <1>3, AllocEffect
<1>8. CallTyped(s, r) /\ r.nr \in {0} \cup Files!Zone /\ (r.panicked => r.nr = 0)
  <2>1. r.nr # offset /\ r.nr \in {0} \cup offset..(limit - 1) /\ (r.panicked => r.nr = 0)
    BY <1>4, <1>7 DEF Searched, AllocTyped
  <2>0. offset \in Nat /\ limit \in Nat /\ Files!Zone = (offset + 1)..(limit - 1)
    BY <1>1, <1>2, <1>4
  <2>2. r.nr \in {0} \cup Files!Zone
    BY <2>0, <2>1
  <2>3. CallTyped(s, r)
    BY <1>4, <1>7 DEF CallTyped, Searched, AllocTyped
  <2> QED BY <2>1, <2>2, <2>3
<1>9. ASSUME NEW zs \in SUBSET Files!Zone, NEW is \in SUBSET Nat, ExactBoth(s, zs, is), ~r.spoiled, ~r.panicked
      PROVE  \/ r.nr = 0 /\ zs = Files!Zone /\ ExactBoth(r, zs, is)
             \/ r.nr \in Files!Zone \ zs /\ ExactBoth(r, zs \cup {r.nr}, is)
  <2>0. Shows(s.mem, Ones(zs, is), Zeros(zs, is)) /\ Shows(s.disk, Ones(zs, is), Zeros(zs, is))
    BY <1>9 DEF ExactBoth, Exact
  <2>1. CASE NoneFound(r, s.mem, s.disk, MAP_BLOCKS, f, size, offset, limit)
    <3>1. MAP_BLOCKS = size
      <4>1. MAP_BLOCKS <= size /\ MAP_BLOCKS \in Nat
        BY <2>1, FilesAssumption DEF NoneFound
      <4> QED BY <4>1, <1>1
    <3>2. ASSUME NEW b \in Files!Zone PROVE b \in zs
      <4> DEFINE q == b - offset
      <4>1. q \in 0..(size * B - 1) /\ offset + q < limit /\ Files!ZoneBit(b) = Files!Bit(f, q)
        <5>1. q \in 1..NB /\ offset + q = b /\ b < limit
          BY <1>1, <1>2, <1>4
        <5> DEFINE z == size * B
        <5>2. NB + 1 <= z /\ z \in Nat
          BY <1>1
        <5> HIDE DEF z
        <5>3. q \in 0..(z - 1)
          BY <5>1, <5>2, <1>1
        <5> QED BY <5>1, <5>3, <1>5 DEF z
      <4> HIDE DEF q
      <4>2. Files!ZoneBit(b) \in s.mem
        BY <4>1, <3>1, <2>1 DEF NoneFound
      <4> QED BY <4>2, <2>0 DEF Shows, Zeros
    <3>3. PICK E \in SUBSET Extra(f, size, offset, limit) : r.mem = s.mem \cup E
      BY <2>1 DEF NoneFound
    <3>4. E \cap Zeros(zs, is) = {}
      BY <1>6, <3>3
    <3>5. Shows(r.mem, Ones(zs, is), Zeros(zs, is)) /\ r.disk = s.disk /\ r.nr = 0
      BY <3>3, <3>4, <2>0, <2>1 DEF Shows, NoneFound
    <3> QED BY <3>2, <3>5, <2>0 DEF ExactBoth, Exact
  <2>2. CASE OneFound(r, s.mem, s.disk, f, size, offset, limit)
    <3>1. PICK q \in 0..(size * B - 1) : \E E \in SUBSET Extra(f, size, offset, limit) :
            /\ r.nr = offset + q /\ offset + q < limit /\ Files!Bit(f, q) \notin s.mem
            /\ r.mem = (s.mem \cup E) \cup {Files!Bit(f, q)}
            /\ r.disk = Files!bwrite(r.mem, s.disk, Files!Bit(f, q)[1])
      BY <2>2 DEF OneFound
    <3>2. PICK E \in SUBSET Extra(f, size, offset, limit) :
            /\ r.nr = offset + q /\ offset + q < limit /\ Files!Bit(f, q) \notin s.mem
            /\ r.mem = (s.mem \cup E) \cup {Files!Bit(f, q)}
            /\ r.disk = Files!bwrite(r.mem, s.disk, Files!Bit(f, q)[1])
      BY <3>1
    <3>3. q \in Nat
      BY <1>1
    <3>4. r.nr \in Files!Zone /\ r.nr - offset = q
      <4>1. r.nr # 0
        BY <3>2, <3>3, <1>2
      <4> QED BY <4>1, <1>8, <3>2, <3>3, <1>2
    <3>5. Files!ZoneBit(r.nr) = Files!Bit(f, q)
      BY <3>4, <1>5
    <3>6. r.nr \notin zs
      <4>1. r.nr \in zs => Files!ZoneBit(r.nr) \in Ones(zs, is)
        BY DEF Ones
      <4> QED BY <4>1, <3>2, <3>5, <2>0 DEF Shows
    <3> DEFINE x == Files!ZoneBit(r.nr)
    <3>7. /\ E \cap Zeros(zs, is) = {} /\ r.mem = (s.mem \cup E) \cup {x}
          /\ r.disk = Files!bwrite(r.mem, s.disk, x[1])
      BY <1>6, <3>2, <3>5
    <3>8. /\ Ones(zs \cup {r.nr}, is) \subseteq Ones(zs, is) \cup {x}
          /\ Zeros(zs \cup {r.nr}, is) \subseteq Zeros(zs, is) \ {x}
      BY <3>4, <3>6, OnesMore
    <3> DEFINE one == Ones(zs, is)
               zero == Zeros(zs, is)
               one2 == Ones(zs \cup {r.nr}, is)
               zero2 == Zeros(zs \cup {r.nr}, is)
               m == s.mem
               d == s.disk
               m2 == r.mem
    <3> HIDE DEF x, one, zero, one2, zero2, m, d, m2
    <3>9. Shows(m2, one2, zero2) /\ Shows(Files!bwrite(m2, d, x[1]), one2, zero2)
      <4>1. BitTaken(m, d, one, zero, x, m2, one2, zero2)
        BY <2>0, <3>7, <3>8 DEF m, d, one, zero, m2, one2, zero2, BitTaken
      <4> QED BY <4>1, TakeBit
    <3> USE DEF one2, zero2, d, m2
    <3> QED BY <3>4, <3>6, <3>7, <3>9 DEF ExactBoth, Exact
  <2> QED BY <1>7, <1>9, <2>1, <2>2 DEF Searched
<1> QED BY <1>8, <1>9

(* ialloc returns the number of an inode that was free and marks it, or    *)
(* none and marks nothing that counts.                                     *)
LEMMA IallocEffect ==
  ASSUME SbInv, NEW s, NEW r, r = Files!ialloc(s)
  PROVE  /\ CallTyped(s, r) /\ r.nr \in {0} \cup Counted
         /\ \A zs \in SUBSET Files!Zone, is \in SUBSET Nat :
              ExactBoth(s, zs, is) /\ ~r.spoiled /\ ~r.panicked =>
                \/ r.nr = 0 /\ ExactBoth(r, zs, is)
                \/ r.nr \in Counted \ is /\ ExactBoth(r, zs, is \cup {r.nr})
<1> DEFINE f == Files!imap
           size == sb.imap_blocks
           limit == sb.ninodes
<1>1. limit \in Nat /\ size \in Nat \ {0} /\ size * B \in Nat /\ f \in Nat \ {0}
  BY SbFacts, BitIndex
<1>3. r = Files!Alloc(s, f, size, 1, limit)
  BY DEF Files!ialloc
<1>4. Counted = 1..(limit - 1) /\ InMaps(f + size - 1) \subseteq InMaps(Top)
  BY Tops DEF Counted
<1>5. \A n \in Counted : Files!InodeBit(n) = Files!Bit(f, n - 1)
  BY DEF Files!InodeBit
<1>6. \A zs, is : Extra(f, size, 1, limit) \cap Zeros(zs, is) = {}
  BY ExtraInode
<1> HIDE DEF f, size, limit
<1>7. Searched(s, r, MAP_BLOCKS, f, size, 1, limit)
  <2>1. 1 \in Nat \ {0}
    OBVIOUS
  <2>2. Searched(s, Files!Alloc(s, f, size, 1, limit), MAP_BLOCKS, f, size, 1, limit)
    BY <1>1, <2>1, AllocEffect
  <2> QED BY <2>2, <1>3
<1>8. CallTyped(s, r) /\ r.nr \in {0} \cup Counted
  <2>1. AllocTyped(s, r, f, f + size - 1, 1, limit)
    BY <1>7 DEF Searched
  <2>2. r.nr \in {0} \cup Counted
    BY <2>1, <1>4 DEF AllocTyped
  <2>3. r.mem \subseteq s.mem \cup InMaps(Top) /\ s.mem \subseteq r.mem
    BY <2>1, <1>4 DEF AllocTyped
  <2> QED BY <2>1, <2>2, <2>3 DEF CallTyped, AllocTyped
<1>9. ASSUME NEW zs \in SUBSET Files!Zone, NEW is \in SUBSET Nat, ExactBoth(s, zs, is), ~r.spoiled, ~r.panicked
      PROVE  \/ r.nr = 0 /\ ExactBoth(r, zs, is)
             \/ r.nr \in Counted \ is /\ ExactBoth(r, zs, is \cup {r.nr})
  <2>0. Shows(s.mem, Ones(zs, is), Zeros(zs, is)) /\ Shows(s.disk, Ones(zs, is), Zeros(zs, is))
    BY <1>9 DEF ExactBoth, Exact
  <2>1. CASE NoneFound(r, s.mem, s.disk, MAP_BLOCKS, f, size, 1, limit)
    <3>1. PICK E \in SUBSET Extra(f, size, 1, limit) : r.mem = s.mem \cup E
      BY <2>1 DEF NoneFound
    <3>2. E \cap Zeros(zs, is) = {}
      BY <1>6, <3>1
    <3>3. Shows(r.mem, Ones(zs, is), Zeros(zs, is)) /\ r.disk = s.disk /\ r.nr = 0
      BY <3>1, <3>2, <2>0, <2>1 DEF Shows, NoneFound
    <3> QED BY <3>3, <2>0 DEF ExactBoth, Exact
  <2>2. CASE OneFound(r, s.mem, s.disk, f, size, 1, limit)
    <3>1. PICK q \in 0..(size * B - 1) : \E E \in SUBSET Extra(f, size, 1, limit) :
            /\ r.nr = 1 + q /\ 1 + q < limit /\ Files!Bit(f, q) \notin s.mem
            /\ r.mem = (s.mem \cup E) \cup {Files!Bit(f, q)}
            /\ r.disk = Files!bwrite(r.mem, s.disk, Files!Bit(f, q)[1])
      BY <2>2 DEF OneFound
    <3>2. PICK E \in SUBSET Extra(f, size, 1, limit) :
            /\ r.nr = 1 + q /\ 1 + q < limit /\ Files!Bit(f, q) \notin s.mem
            /\ r.mem = (s.mem \cup E) \cup {Files!Bit(f, q)}
            /\ r.disk = Files!bwrite(r.mem, s.disk, Files!Bit(f, q)[1])
      BY <3>1
    <3>3. q \in Nat
      BY <1>1
    <3>4. r.nr \in Counted /\ r.nr - 1 = q
      BY <3>2, <3>3, <1>1, <1>4
    <3>5. Files!InodeBit(r.nr) = Files!Bit(f, q)
      BY <3>4, <1>5
    <3>6. r.nr \notin is
      <4>1. r.nr \in is => Files!InodeBit(r.nr) \in Ones(zs, is)
        BY <3>4 DEF Ones
      <4> QED BY <4>1, <3>2, <3>5, <2>0 DEF Shows
    <3> DEFINE x == Files!InodeBit(r.nr)
    <3>7. /\ E \cap Zeros(zs, is) = {} /\ r.mem = (s.mem \cup E) \cup {x}
          /\ r.disk = Files!bwrite(r.mem, s.disk, x[1])
      BY <1>6, <3>2, <3>5
    <3>8. /\ Ones(zs, is \cup {r.nr}) \subseteq Ones(zs, is) \cup {x}
          /\ Zeros(zs, is \cup {r.nr}) \subseteq Zeros(zs, is) \ {x}
      BY <3>4, <3>6, OnesInode
    <3> DEFINE one == Ones(zs, is)
               zero == Zeros(zs, is)
               one2 == Ones(zs, is \cup {r.nr})
               zero2 == Zeros(zs, is \cup {r.nr})
               m == s.mem
               d == s.disk
               m2 == r.mem
    <3> HIDE DEF x, one, zero, one2, zero2, m, d, m2
    <3>9. Shows(m2, one2, zero2) /\ Shows(Files!bwrite(m2, d, x[1]), one2, zero2)
      <4>1. BitTaken(m, d, one, zero, x, m2, one2, zero2)
        BY <2>0, <3>7, <3>8 DEF m, d, one, zero, m2, one2, zero2, BitTaken
      <4> QED BY <4>1, TakeBit
    <3> USE DEF one2, zero2, d, m2
    <3> QED BY <3>4, <3>6, <3>7, <3>9 DEF ExactBoth, Exact
  <2> QED BY <1>7, <1>9, <2>1, <2>2 DEF Searched
<1> QED BY <1>8, <1>9

(* A block, an inode number is given back.                                 *)
LEMMA ReleaseEffect ==
  ASSUME NEW s, NEW f, NEW q, NEW r, r = Files!Release(s, f, q), NEW x, x = Files!Bit(f, q), x # First
  PROVE  /\ CallTyped(s, r) /\ r.nr = 0
         /\ x \in s.mem => r.spoiled = s.spoiled /\ r.panicked = s.panicked
         /\ \A one, zero, one2, zero2 :
              /\ x \in s.mem /\ Shows(s.mem, one, zero) /\ Shows(s.disk, one, zero)
              /\ one2 \subseteq one \ {x} /\ zero2 \subseteq zero \cup {x}
              => Shows(r.mem, one2, zero2) /\ Shows(r.disk, one2, zero2)
<1> DEFINE m == s.mem \ {x}
           d == s.disk
<1>1. r = IF x \notin s.mem THEN Files!Maps(s.mem, d, 0, s.spoiled, TRUE)
          ELSE Files!Maps(m, Files!bwrite(m, d, x[1]), 0, s.spoiled, s.panicked)
  BY Zenon DEF Files!Release
<1>2. CASE x \notin s.mem
  <2>1. r = Files!Maps(s.mem, d, 0, s.spoiled, TRUE)
    BY <1>1, <1>2
  <2>2. r.mem = s.mem /\ r.nr = 0 /\ r.spoiled = s.spoiled /\ r.panicked = TRUE
    BY <2>1 DEF Files!Maps
  <2>3. CallTyped(s, r)
    BY <2>2 DEF CallTyped
  <2> QED BY <2>2, <2>3, <1>2
<1>3. CASE x \in s.mem
  <2>1. r = Files!Maps(m, Files!bwrite(m, d, x[1]), 0, s.spoiled, s.panicked)
    BY <1>1, <1>3
  <2>2. /\ r.mem = m /\ r.disk = Files!bwrite(m, d, x[1]) /\ r.nr = 0 /\ r.spoiled = s.spoiled
        /\ r.panicked = s.panicked
    BY <2>1 DEF Files!Maps
  <2>3. CallTyped(s, r)
    BY <2>2 DEF CallTyped
  <2>4. ASSUME NEW one, NEW zero, NEW one2, NEW zero2,
               Shows(s.mem, one, zero), Shows(s.disk, one, zero),
               one2 \subseteq one \ {x}, zero2 \subseteq zero \cup {x}
        PROVE  Shows(r.mem, one2, zero2) /\ Shows(r.disk, one2, zero2)
    <3> DEFINE m1 == s.mem
    <3>1. BitDropped(m1, d, one, zero, x, m, one2, zero2)
      BY <2>4 DEF BitDropped
    <3> HIDE DEF m1, d, m
    <3>2. Shows(m, one2, zero2) /\ Shows(Files!bwrite(m, d, x[1]), one2, zero2)
      BY <3>1, DropBit
    <3> QED BY <3>2, <2>2
  <2> QED BY <2>2, <2>3, <2>4
<1> QED BY <1>2, <1>3

(* First is the bit of no block and of no inode.                           *)
LEMMA FirstBits ==
  ASSUME SbInv
  PROVE  /\ \A b \in Files!Zone : Files!ZoneBit(b) # First
         /\ \A n \in Counted : Files!InodeBit(n) # First
         /\ \A zs, is : First \in Ones(zs, is)
         /\ First \in InMaps(Top)
<1>1. Files!zmap \in Nat \ {0} /\ sb.zmap_blocks * B \in Nat /\ NB + 1 <= sb.zmap_blocks * B /\ NB \in Nat
      /\ sb.zmap_blocks \in Nat \ {0}
  BY SbFacts, BitIndex
<1>2. ASSUME NEW b \in Files!Zone PROVE Files!ZoneBit(b) # First
  <2> DEFINE q == b - (sb.first_data_zone - 1)
  <2>1. Files!ZoneBit(b) = Files!Bit(Files!zmap, q) /\ q \in 1..NB
    BY BitIndex
  <2>2. q \in Nat /\ q # 0 /\ 0 \in Nat
    BY <2>1, <1>1
  <2> HIDE DEF q
  <2>3. Files!Bit(Files!zmap, q) # Files!Bit(Files!zmap, 0)
    BY <1>1, <2>2, BitSame
  <2> QED BY <2>1, <2>3 DEF First
<1>3. 0 \in 0..(sb.zmap_blocks * B - 1)
  <2> DEFINE z == sb.zmap_blocks * B
  <2>1. z \in Nat /\ NB + 1 <= z
    BY <1>1
  <2> HIDE DEF z
  <2>2. 0 \in 0..(z - 1)
    BY <2>1, <1>1
  <2> QED BY <2>2 DEF z
<1>4. ASSUME NEW n \in Counted PROVE Files!InodeBit(n) # First
  <2> DEFINE q == n - 1
  <2>1. Files!InodeBit(n) = Files!Bit(Files!imap, q) /\ q \in 0..(sb.imap_blocks * B - 1)
    BY BitIndex
  <2> HIDE DEF q
  <2>2. Files!Bit(Files!imap, q) # Files!Bit(Files!zmap, 0)
    BY <2>1, <1>3, MapsApart
  <2> QED BY <2>1, <2>2 DEF First
<1>5. \A zs, is : First \in Ones(zs, is)
  BY DEF First, Ones, Ends
<1>6. First \in InMaps(Top)
  <2>1. Files!Bit(Files!zmap, 0 * B + 0) = <<Files!zmap + 0, 0>>
    <3>1. 0 \in 0..(B - 1) /\ 0 \in Nat
      BY FilesAssumption DEF B
    <3> QED BY <1>1, <3>1, BitOf
  <2>2. 0 * B + 0 = 0 /\ Files!zmap + 0 = Files!zmap
    BY <1>1, FilesAssumption DEF B
  <2>3. First = <<Files!zmap, 0>>
    BY <2>1, <2>2 DEF First
  <2>4. Files!zmap \in 1..Top /\ 0 \in 0..(B - 1)
    BY <1>1, FilesAssumption DEF Top, B
  <2> QED BY <2>3, <2>4 DEF InMaps
<1> QED BY <1>2, <1>4, <1>5, <1>6

(* bfree clears the bit of its block and no other.                         *)
LEMMA BfreeEffect ==
  ASSUME SbInv, NEW s, NEW b \in Files!Zone, NEW r, r = Files!bfree(s, b)
  PROVE  /\ CallTyped(s, r)
         /\ \A zs \in SUBSET Files!Zone, is \in SUBSET Nat :
              ExactBoth(s, zs, is) /\ b \in zs =>
                /\ ExactBoth(r, zs \ {b}, is) /\ r.spoiled = s.spoiled /\ r.panicked = s.panicked
<1> DEFINE x == Files!ZoneBit(b)
           q == b - (sb.first_data_zone - 1)
           f == Files!zmap
<1>1. r = Files!Release(s, f, q) /\ x = Files!Bit(f, q) /\ x # First
  BY FirstBits DEF Files!bfree, Files!ZoneBit
<1> HIDE DEF x, q, f
<1>2. /\ CallTyped(s, r)
      /\ x \in s.mem => r.spoiled = s.spoiled /\ r.panicked = s.panicked
      /\ \A one, zero, one2, zero2 :
              /\ x \in s.mem /\ Shows(s.mem, one, zero) /\ Shows(s.disk, one, zero)
              /\ one2 \subseteq one \ {x} /\ zero2 \subseteq zero \cup {x}
              => Shows(r.mem, one2, zero2) /\ Shows(r.disk, one2, zero2)
  BY <1>1, ReleaseEffect
<1>3. ASSUME NEW zs \in SUBSET Files!Zone, NEW is \in SUBSET Nat, ExactBoth(s, zs, is), b \in zs
      PROVE  ExactBoth(r, zs \ {b}, is) /\ r.spoiled = s.spoiled /\ r.panicked = s.panicked
  <2>1. x \in Ones(zs, is)
    BY <1>3 DEF x, Ones
  <2>2. Ones(zs \ {b}, is) \subseteq Ones(zs, is)
    BY DEF Ones
  <2>3. x \notin Ones(zs \ {b}, is)
    <3>1. x \notin {Files!Bit(f, h) : h \in Ends}
      <4>1. SUFFICES ASSUME NEW h \in Ends, x = Files!Bit(f, h) PROVE FALSE
        OBVIOUS
      <4>2. q \in 1..NB /\ NB \in Nat /\ f \in Nat
        BY BitIndex, SbFacts DEF q, f
      <4>3. h \in Nat /\ h # q
        BY <4>2 DEF Ends
      <4>4. q \in Nat
        BY <4>2
      <4> QED BY <4>1, <4>2, <4>3, <4>4, <1>1, BitSame
    <3>2. \A e \in zs \ {b} : x # Files!ZoneBit(e)
      BY BitsDiffer DEF x
    <3>3. \A n \in is \cap Counted : x # Files!InodeBit(n)
      BY BitsDiffer DEF x
    <3> QED BY <3>1, <3>2, <3>3 DEF Ones, f
  <2>4. Zeros(zs \ {b}, is) \subseteq Zeros(zs, is) \cup {x}
    BY DEF Zeros, x
  <2>5. Shows(s.mem, Ones(zs, is), Zeros(zs, is)) /\ Shows(s.disk, Ones(zs, is), Zeros(zs, is)) /\ x \in s.mem
    BY <1>3, <2>1 DEF ExactBoth, Exact, Shows
  <2>6. Ones(zs \ {b}, is) \subseteq Ones(zs, is) \ {x}
    BY <2>2, <2>3
  <2>7. Shows(r.mem, Ones(zs \ {b}, is), Zeros(zs \ {b}, is)) /\ Shows(r.disk, Ones(zs \ {b}, is), Zeros(zs \ {b}, is))
    BY <2>4, <2>5, <2>6, <1>2
  <2> QED BY <1>2, <2>5, <2>7 DEF ExactBoth, Exact
<1> QED BY <1>2, <1>3

(* ifree clears the bit of its inode and no other.                         *)
LEMMA IfreeEffect ==
  ASSUME SbInv, NEW s, NEW n \in Counted, NEW r, r = Files!ifree(s, n)
  PROVE  /\ CallTyped(s, r)
         /\ \A zs \in SUBSET Files!Zone, is \in SUBSET Nat :
              ExactBoth(s, zs, is) /\ n \in is =>
                /\ ExactBoth(r, zs, is \ {n}) /\ r.spoiled = s.spoiled /\ r.panicked = s.panicked
<1> DEFINE x == Files!InodeBit(n)
           q == n - 1
           f == Files!imap
<1>1. r = Files!Release(s, f, q) /\ x = Files!Bit(f, q) /\ x # First
  BY FirstBits DEF Files!ifree, Files!InodeBit
<1> HIDE DEF x, q, f
<1>2. /\ CallTyped(s, r)
      /\ x \in s.mem => r.spoiled = s.spoiled /\ r.panicked = s.panicked
      /\ \A one, zero, one2, zero2 :
              /\ x \in s.mem /\ Shows(s.mem, one, zero) /\ Shows(s.disk, one, zero)
              /\ one2 \subseteq one \ {x} /\ zero2 \subseteq zero \cup {x}
              => Shows(r.mem, one2, zero2) /\ Shows(r.disk, one2, zero2)
  BY <1>1, ReleaseEffect
<1>3. ASSUME NEW zs \in SUBSET Files!Zone, NEW is \in SUBSET Nat, ExactBoth(s, zs, is), n \in is
      PROVE  ExactBoth(r, zs, is \ {n}) /\ r.spoiled = s.spoiled /\ r.panicked = s.panicked
  <2>1. x \in Ones(zs, is)
    BY <1>3 DEF x, Ones
  <2>2. Ones(zs, is \ {n}) \subseteq Ones(zs, is)
    BY DEF Ones
  <2>3. x \notin Ones(zs, is \ {n})
    <3>1. x \notin {Files!Bit(Files!zmap, h) : h \in Ends}
      <4>1. SUFFICES ASSUME NEW h \in Ends PROVE x # Files!Bit(Files!zmap, h)
        OBVIOUS
      <4>2. q \in 0..(sb.imap_blocks * B - 1) /\ NB \in Nat /\ sb.zmap_blocks * B \in Nat /\ NB + 1 <= sb.zmap_blocks * B
        BY BitIndex, SbFacts DEF q
      <4>3. h \in 0..(sb.zmap_blocks * B - 1)
        <5> DEFINE z == sb.zmap_blocks * B
        <5>1. z \in Nat /\ NB + 1 <= z /\ h \in {0} \cup (NB + 1)..(z - 1)
          BY <4>2 DEF Ends
        <5> HIDE DEF z
        <5>2. h \in 0..(z - 1)
          BY <5>1, <4>2
        <5> QED BY <5>2 DEF z
      <4>4. Files!Bit(Files!imap, q) # Files!Bit(Files!zmap, h)
        BY <4>2, <4>3, MapsApart
      <4> QED BY <4>4, <1>1 DEF f
    <3>2. \A e \in (is \ {n}) \cap Counted : x # Files!InodeBit(e)
      BY BitsDiffer DEF x
    <3>3. \A e \in zs : x # Files!ZoneBit(e)
      BY BitsDiffer DEF x
    <3> QED BY <3>1, <3>2, <3>3 DEF Ones
  <2>4. Zeros(zs, is \ {n}) \subseteq Zeros(zs, is) \cup {x}
    BY DEF Zeros, x
  <2>5. Shows(s.mem, Ones(zs, is), Zeros(zs, is)) /\ Shows(s.disk, Ones(zs, is), Zeros(zs, is)) /\ x \in s.mem
    BY <1>3, <2>1 DEF ExactBoth, Exact, Shows
  <2>6. Ones(zs, is \ {n}) \subseteq Ones(zs, is) \ {x}
    BY <2>2, <2>3
  <2>7. Shows(r.mem, Ones(zs, is \ {n}), Zeros(zs, is \ {n})) /\ Shows(r.disk, Ones(zs, is \ {n}), Zeros(zs, is \ {n}))
    BY <2>4, <2>5, <2>6, <1>2
  <2> QED BY <1>2, <2>5, <2>7 DEF ExactBoth, Exact
<1> QED BY <1>2, <1>3

-----------------------------------------------------------------------------
(* The blocks of the files.                                                *)
Dom == (0 - sb.ninodes)..(sb.nzones - 1)
Negs == {v \in Dom : v < 0}
Numbers == Files!Zone \cup {0}
ZoneType(z) ==
    /\ z = [x \in Dom |-> z[x]]
    /\ \A x \in Dom : z[x] \in [Files!Index(x) -> Numbers]

(* The cells that hold the numbers of index blocks.                        *)
PtrAt(z, v, j) ==
    \/ v \in Negs /\ j \in {DIRECT_BLOCKS, DIRECT_BLOCKS + 1}
    \/ v # 0 /\ \E u \in Negs : v = z[u][DIRECT_BLOCKS + 1]

(* The places of an inode and of an index block.                           *)
LEMMA IndexFacts ==
  /\ \A v : v \in Negs => Files!Index(v) = 0..(DIRECT_BLOCKS + 1)
  /\ \A v \in Dom : v \notin Negs => Files!Index(v) = 0..(BLOCK_INDEXES - 1)
  /\ DIRECT_BLOCKS \in Nat /\ DIRECT_BLOCKS > 0 /\ BLOCK_INDEXES \in Nat /\ BLOCK_INDEXES > 0
BY FilesAssumption DEF Negs, Files!Index

(* Blocks and inodes have arrays of their own.                             *)
LEMMA DomFacts ==
  ASSUME SbInv
  PROVE  /\ Files!Zone \subseteq Dom /\ \A b \in Files!Zone : b \notin Negs /\ b # 0 /\ b \in Nat
         /\ \A v : v \in Negs <=> \E n \in Files!Inode : v = 0 - n
         /\ \A v : v \in Negs => v # 0 /\ v \in Dom
         /\ 0 \notin Files!Zone
<1>1. /\ sb.ninodes \in Nat /\ sb.first_data_zone \in Nat /\ sb.first_data_zone > 3 + sb.imap_blocks
      /\ sb.imap_blocks \in Nat /\ sb.nzones \in Nat
  BY SbFacts
<1>2. ASSUME NEW v \in Negs PROVE 0 - v \in Files!Inode /\ v = 0 - (0 - v)
  BY <1>1 DEF Negs, Dom, Files!Inode
<1>3. ASSUME NEW n \in Files!Inode PROVE 0 - n \in Negs
  BY <1>1 DEF Negs, Dom, Files!Inode
<1>4. Files!Zone \subseteq Dom /\ \A b \in Files!Zone : b \notin Negs /\ b # 0 /\ b \in Nat
  BY <1>1 DEF Files!Zone, Dom, Negs
<1> QED BY <1>2, <1>3, <1>4 DEF Negs

(* The cells of the index blocks of an array.                              *)
LEMMA CellType ==
  ASSUME SbInv, NEW z, ZoneType(z), NEW v \in Dom, NEW j \in Files!Index(v)
  PROVE  z[v][j] \in Numbers /\ (z[v][j] # 0 => z[v][j] \in Files!Zone)
BY DEF ZoneType, Numbers

(* The arrays of the files: of the inodes, and those that a pointer leads  *)
(* to.                                                                     *)
LEMMA NodesAre ==
  ASSUME SbInv, NEW z, ZoneType(z)
  PROVE  /\ \A v : v \in Files!Nodes(z) <=>
              \/ v \in Negs
              \/ v # 0 /\ \E u \in Dom : \E j \in Files!Index(u) : PtrAt(z, u, j) /\ v = z[u][j]
         /\ \A v \in Files!Nodes(z) : v \in Dom /\ v # 0
<1> DEFINE D == DIRECT_BLOCKS
           Ptr(v) == v # 0 /\ \E u \in Dom : \E j \in Files!Index(u) : PtrAt(z, u, j) /\ v = z[u][j]
<1>1. /\ DIRECT_BLOCKS \in Nat /\ \A v : v \in Negs => Files!Index(v) = 0..(D + 1)
      /\ \A v \in Dom : v \notin Negs => Files!Index(v) = 0..(BLOCK_INDEXES - 1)
  BY IndexFacts
<1>2. \A v \in Negs : D \in Files!Index(v) /\ D + 1 \in Files!Index(v) /\ v \in Dom
  BY <1>1 DEF Negs
<1>3. ASSUME NEW v, NEW n \in Files!Inode, v \in Files!IndexBlocks(z, n) PROVE Ptr(v)
  <2> DEFINE u == 0 - n
             two == z[u][D + 1]
             below == IF two = 0 THEN {} ELSE {z[two][i] : i \in Files!Index(two)}
  <2>1. u \in Negs
    BY DomFacts
  <2>2. v \in ({z[u][D], two} \cup below) \ {0}
    BY <1>3 DEF Files!IndexBlocks
  <2> HIDE DEF u
  <2>3. CASE v = z[u][D]
    <3>1. PtrAt(z, u, D) /\ u \in Dom /\ D \in Files!Index(u)
      BY <1>2, <2>1 DEF PtrAt
    <3> QED BY <2>2, <2>3, <3>1
  <2>4. CASE v = two
    <3>1. PtrAt(z, u, D + 1) /\ u \in Dom /\ D + 1 \in Files!Index(u)
      BY <1>2, <2>1 DEF PtrAt
    <3> QED BY <2>2, <2>4, <3>1
  <2>5. CASE two # 0 /\ v \in {z[two][i] : i \in Files!Index(two)}
    <3>1. two \in Files!Zone
      BY <1>2, <2>1, <2>5, CellType
    <3>2. two \in Dom
      BY <3>1, DomFacts
    <3>3. PICK i \in Files!Index(two) : v = z[two][i]
      BY <2>5
    <3>4. PtrAt(z, two, i)
      BY <2>1, <2>5 DEF PtrAt
    <3> QED BY <2>2, <3>2, <3>3, <3>4
  <2> QED BY <2>2, <2>3, <2>4, <2>5
<1>4. ASSUME NEW v, Ptr(v) PROVE \E n \in Files!Inode : v \in Files!IndexBlocks(z, n)
  <2>1. PICK u \in Dom : \E j \in Files!Index(u) : PtrAt(z, u, j) /\ v = z[u][j]
    BY <1>4
  <2>2. PICK j \in Files!Index(u) : PtrAt(z, u, j) /\ v = z[u][j]
    BY <2>1
  <2>3. CASE u \in Negs /\ j \in {D, D + 1}
    <3>1. PICK n \in Files!Inode : u = 0 - n
      BY <2>3, DomFacts
    <3>2. v \in {z[0 - n][D], z[0 - n][D + 1]} \ {0}
      BY <1>4, <2>2, <2>3, <3>1
    <3>3. v \in Files!IndexBlocks(z, n)
      BY <3>2, Zenon DEF Files!IndexBlocks
    <3> QED BY <3>3
  <2>4. CASE u # 0 /\ \E x \in Negs : u = z[x][D + 1]
    <3>1. PICK x \in Negs : u = z[x][D + 1]
      BY <2>4
    <3>2. PICK n \in Files!Inode : x = 0 - n
      BY DomFacts
    <3> DEFINE two == z[0 - n][D + 1]
               below == IF two = 0 THEN {} ELSE {z[two][i] : i \in Files!Index(two)}
    <3>3. two = u /\ two # 0
      BY <3>1, <3>2, <2>4
    <3>4. v \in below
      BY <2>2, <3>3
    <3>5. Files!IndexBlocks(z, n) = ({z[0 - n][D], two} \cup below) \ {0}
      BY DEF Files!IndexBlocks
    <3> HIDE DEF below, two
    <3>6. v \in Files!IndexBlocks(z, n)
      BY <1>4, <3>4, <3>5
    <3> QED BY <3>6
  <2> QED BY <2>2, <2>3, <2>4 DEF PtrAt
<1>5. ASSUME NEW v PROVE v \in Files!Nodes(z) <=> v \in Negs \/ Ptr(v)
  <2>1. v \in Files!Nodes(z) <=> \E n \in Files!Inode : v = 0 - n \/ v \in Files!IndexBlocks(z, n)
    BY Zenon DEF Files!Nodes
  <2>2. v \in Negs <=> \E n \in Files!Inode : v = 0 - n
    BY DomFacts
  <2> HIDE DEF Ptr
  <2> QED BY <2>1, <2>2, <1>3, <1>4
<1>6. ASSUME NEW v, v \in Negs \/ Ptr(v) PROVE v \in Dom /\ v # 0
  <2>1. CASE v \in Negs
    BY <2>1, DomFacts
  <2>2. CASE Ptr(v)
    BY <2>2, CellType, DomFacts
  <2> QED BY <1>6, <2>1, <2>2
<1> QED BY <1>5, <1>6

(* An array with pointers in it is one of a file.                          *)
LEMMA PtrNode ==
  ASSUME SbInv, NEW z, ZoneType(z), NEW u \in Dom, NEW j, PtrAt(z, u, j)
  PROVE  u \in Files!Nodes(z)
<1>1. CASE u \in Negs
  BY <1>1, NodesAre
<1>2. CASE u # 0 /\ \E x \in Negs : u = z[x][DIRECT_BLOCKS + 1]
  <2>1. PICK x \in Negs : u = z[x][DIRECT_BLOCKS + 1]
    BY <1>2
  <2>2. PtrAt(z, x, DIRECT_BLOCKS + 1) /\ x \in Dom /\ DIRECT_BLOCKS + 1 \in Files!Index(x)
    BY IndexFacts DEF PtrAt, Negs
  <2> QED BY <1>2, <2>1, <2>2, NodesAre
<1> QED BY <1>1, <1>2 DEF PtrAt

(* A number in a cell: of an index block or of a block of data.            *)
LEMMA LinkedAre ==
  ASSUME SbInv, NEW z, ZoneType(z)
  PROVE  /\ \A b : b \in Files!Linked(z) <=>
              b # 0 /\ \E v \in Files!Nodes(z) : \E j \in Files!Index(v) : b = z[v][j]
         /\ Files!Linked(z) \subseteq Files!Zone
         /\ \A v \in Files!Nodes(z) : v \in Negs \/ v \in Files!Linked(z)
<1>1. ASSUME NEW b
      PROVE  b \in Files!Linked(z) <=> b # 0 /\ \E v \in Files!Nodes(z) : \E j \in Files!Index(v) : b = z[v][j]
  <2> DEFINE Row(v) == {z[v][j] : j \in Files!Index(v)}
             All == UNION {Row(v) : v \in Files!Nodes(z)}
  <2>1. Files!Linked(z) = All \ {0}
    BY DEF Files!Linked
  <2>2. b \in All <=> \E v \in Files!Nodes(z) : b \in Row(v)
    BY Zenon
  <2>3. \A v : b \in Row(v) <=> \E j \in Files!Index(v) : b = z[v][j]
    OBVIOUS
  <2> HIDE DEF Row, All
  <2> QED BY <2>1, <2>2, <2>3
<1>2. Files!Linked(z) \subseteq Files!Zone
  BY <1>1, NodesAre, CellType
<1>3. ASSUME NEW v \in Files!Nodes(z), v \notin Negs PROVE v \in Files!Linked(z)
  <2>1. v # 0 /\ \E u \in Dom : \E j \in Files!Index(u) : PtrAt(z, u, j) /\ v = z[u][j]
    BY <1>3, NodesAre
  <2>2. PICK u \in Dom : \E j \in Files!Index(u) : PtrAt(z, u, j) /\ v = z[u][j]
    BY <2>1
  <2>3. PICK j \in Files!Index(u) : PtrAt(z, u, j) /\ v = z[u][j]
    BY <2>2
  <2>4. u \in Files!Nodes(z)
    BY <2>3, PtrNode
  <2> QED BY <1>1, <2>1, <2>3, <2>4
<1> QED BY <1>1, <1>2, <1>3

(* The number of a block is put into a cell.                               *)
Put(z, x, i, b) == [z EXCEPT ![x][i] = b]

(* A cell is set; the others stay.                                         *)
LEMMA SetCell ==
  ASSUME SbInv, NEW z, ZoneType(z), NEW x \in Dom, NEW i \in Files!Index(x), NEW b \in Numbers,
         NEW y, y = Put(z, x, i, b)
  PROVE  /\ ZoneType(y) /\ y[x][i] = b
         /\ \A v \in Dom : \A j \in Files!Index(v) : v # x \/ j # i => y[v][j] = z[v][j]
<1> DEFINE row == [z[x] EXCEPT ![i] = b]
<1>1. z = [v \in Dom |-> z[v]] /\ \A v \in Dom : z[v] \in [Files!Index(v) -> Numbers]
  BY DEF ZoneType
<1>2. y = [v \in Dom |-> IF v = x THEN row ELSE z[v]]
  <2>1. y = [z EXCEPT ![x] = row]
    BY DEF Put
  <2> HIDE DEF row
  <2> QED BY <1>1, <2>1
<1>3. row \in [Files!Index(x) -> Numbers] /\ row[i] = b /\ \A j \in Files!Index(x) : j # i => row[j] = z[x][j]
  BY <1>1
<1> HIDE DEF row
<1>4. y[x] = row /\ \A v \in Dom : v # x => y[v] = z[v]
  BY <1>2
<1>5. ZoneType(y)
  BY <1>1, <1>2, <1>3, <1>4 DEF ZoneType
<1> QED BY <1>3, <1>4, <1>5

(* Every block is linked once.                                             *)
Once(z) == \A x, y \in Files!Nodes(z) : \A i \in Files!Index(x), j \in Files!Index(y) :
            z[x][i] # 0 /\ z[x][i] = z[y][j] => x = y /\ i = j

(* Pointers stay pointers when an empty cell is set.                       *)
LEMMA PtrStays ==
  ASSUME SbInv, NEW z, ZoneType(z), NEW x \in Dom, NEW i \in Files!Index(x), z[x][i] = 0,
         NEW b \in Numbers, NEW y, y = Put(z, x, i, b)
  PROVE  \A v, j : PtrAt(y, v, j) <=> PtrAt(z, v, j) \/ (v = b /\ v # 0 /\ x \in Negs /\ i = DIRECT_BLOCKS + 1)
<1> DEFINE e == DIRECT_BLOCKS + 1
<1>1. \A u \in Negs : u \in Dom /\ e \in Files!Index(u)
  BY IndexFacts DEF Negs
<1>2. y[x][i] = b /\ \A v \in Dom : \A j \in Files!Index(v) : v # x \/ j # i => y[v][j] = z[v][j]
  BY SetCell
<1> HIDE DEF e
<1>3. \A u \in Negs : y[u][e] = IF u = x /\ e = i THEN b ELSE z[u][e]
  BY <1>1, <1>2
<1> QED BY <1>3 DEF PtrAt, e

(* An empty cell gets a block that no file has: the arrays and the blocks  *)
(* of the files grow by it alone.                                          *)
LEMMA LinkCell ==
  ASSUME SbInv, NEW z, ZoneType(z), Once(z), NEW x \in Files!Nodes(z), NEW i \in Files!Index(x), z[x][i] = 0,
         NEW b \in Files!Zone \ Files!Linked(z), NEW y, y = Put(z, x, i, b),
         PtrAt(z, x, i) => \A j \in Files!Index(b) : z[b][j] = 0
  PROVE  /\ ZoneType(y) /\ Once(y) /\ Files!Linked(y) = Files!Linked(z) \cup {b}
         /\ \A v : v \in Files!Nodes(y) <=> v \in Files!Nodes(z) \/ (v = b /\ PtrAt(z, x, i))
<1>1. x \in Dom /\ x # 0 /\ b \in Dom /\ b # 0 /\ b \notin Negs /\ b \in Numbers
  BY NodesAre, DomFacts DEF Numbers
<1>2. /\ ZoneType(y) /\ y[x][i] = b
      /\ \A v \in Dom : \A j \in Files!Index(v) : v # x \/ j # i => y[v][j] = z[v][j]
  BY <1>1, SetCell
<1>3. \A v, j : PtrAt(y, v, j) <=> PtrAt(z, v, j) \/ (v = b /\ v # 0 /\ x \in Negs /\ i = DIRECT_BLOCKS + 1)
  BY <1>1, PtrStays
<1>4. b \notin Files!Nodes(z) /\ b # x
  BY <1>1, LinkedAre
<1>5. x \in Negs /\ i = DIRECT_BLOCKS + 1 => PtrAt(z, x, i)
  BY DEF PtrAt
<1>6. PtrAt(z, x, i) => \A j \in Files!Index(b) : y[b][j] = 0
  BY <1>1, <1>2, <1>4
<1>7. /\ \A v : v \in Files!Nodes(z) <=>
              \/ v \in Negs
              \/ v # 0 /\ \E u \in Dom : \E j \in Files!Index(u) : PtrAt(z, u, j) /\ v = z[u][j]
      /\ \A v \in Files!Nodes(z) : v \in Dom /\ v # 0
  BY NodesAre
<1>8. /\ \A v : v \in Files!Nodes(y) <=>
              \/ v \in Negs
              \/ v # 0 /\ \E u \in Dom : \E j \in Files!Index(u) : PtrAt(y, u, j) /\ v = y[u][j]
      /\ \A v \in Files!Nodes(y) : v \in Dom /\ v # 0
  BY <1>2, NodesAre
<1>9. ASSUME NEW v \in Files!Nodes(y) PROVE v \in Files!Nodes(z) \/ (v = b /\ PtrAt(z, x, i))
  <2>1. CASE v \in Negs
    BY <2>1, <1>7
  <2>2. CASE v # 0 /\ \E u \in Dom : \E j \in Files!Index(u) : PtrAt(y, u, j) /\ v = y[u][j]
    <3>1. PICK u \in Dom : \E j \in Files!Index(u) : PtrAt(y, u, j) /\ v = y[u][j]
      BY <2>2
    <3>2. PICK j \in Files!Index(u) : PtrAt(y, u, j) /\ v = y[u][j]
      BY <3>1
    <3>3. PtrAt(z, u, j)
      BY <1>3, <1>5, <1>6, <3>2, <2>2
    <3>4. CASE u = x /\ j = i
      BY <3>2, <3>3, <3>4, <1>2
    <3>5. CASE u # x \/ j # i
      BY <3>2, <3>3, <3>5, <1>2, <1>7, <2>2
    <3> QED BY <3>4, <3>5
  <2> QED BY <2>1, <2>2, <1>8
<1>10. ASSUME NEW v \in Files!Nodes(z) PROVE v \in Files!Nodes(y)
  <2>1. CASE v \in Negs
    BY <2>1, <1>8
  <2>2. CASE v # 0 /\ \E u \in Dom : \E j \in Files!Index(u) : PtrAt(z, u, j) /\ v = z[u][j]
    <3>1. PICK u \in Dom : \E j \in Files!Index(u) : PtrAt(z, u, j) /\ v = z[u][j]
      BY <2>2
    <3>2. PICK j \in Files!Index(u) : PtrAt(z, u, j) /\ v = z[u][j]
      BY <3>1
    <3>3. PtrAt(y, u, j) /\ v = y[u][j]
      BY <1>2, <1>3, <3>2, <2>2
    <3> QED BY <3>3, <1>8, <2>2
  <2> QED BY <2>1, <2>2, <1>7
<1>11. ASSUME PtrAt(z, x, i) PROVE b \in Files!Nodes(y)
  <2>1. PtrAt(y, x, i) /\ y[x][i] = b /\ b # 0
    BY <1>1, <1>2, <1>3, <1>11
  <2> QED BY <2>1, <1>1, <1>8
<1>12. \A v : v \in Files!Nodes(y) <=> v \in Files!Nodes(z) \/ (v = b /\ PtrAt(z, x, i))
  BY <1>9, <1>10, <1>11
<1>13. ASSUME NEW v \in Files!Nodes(y), NEW j \in Files!Index(v), y[v][j] # 0
       PROVE  v \in Files!Nodes(z) /\ ((v = x /\ j = i) \/ y[v][j] = z[v][j])
  BY <1>13, <1>9, <1>6, <1>7, <1>2
<1>14. Files!Linked(y) = Files!Linked(z) \cup {b}
  <2>1. \A e : e \in Files!Linked(z) <=>
              e # 0 /\ \E v \in Files!Nodes(z) : \E j \in Files!Index(v) : e = z[v][j]
    BY LinkedAre
  <2>2. \A e : e \in Files!Linked(y) <=>
              e # 0 /\ \E v \in Files!Nodes(y) : \E j \in Files!Index(v) : e = y[v][j]
    BY <1>2, LinkedAre
  <2>3. ASSUME NEW e \in Files!Linked(y) PROVE e \in Files!Linked(z) \cup {b}
    <3>1. PICK v \in Files!Nodes(y) : \E j \in Files!Index(v) : e = y[v][j]
      BY <2>2
    <3>2. PICK j \in Files!Index(v) : e = y[v][j]
      BY <3>1
    <3>3. e # 0 /\ v \in Files!Nodes(z) /\ ((v = x /\ j = i) \/ y[v][j] = z[v][j])
      BY <2>2, <3>2, <1>13
    <3> QED BY <3>2, <3>3, <2>1, <1>2
  <2>4. ASSUME NEW e \in Files!Linked(z) PROVE e \in Files!Linked(y)
    <3>1. PICK v \in Files!Nodes(z) : \E j \in Files!Index(v) : e = z[v][j]
      BY <2>1
    <3>2. PICK j \in Files!Index(v) : e = z[v][j]
      BY <3>1
    <3>3. e # 0 /\ e = y[v][j] /\ v \in Files!Nodes(y)
      BY <2>1, <3>2, <1>2, <1>7, <1>10
    <3> QED BY <3>3, <2>2
  <2>5. b \in Files!Linked(y)
    BY <2>2, <1>1, <1>2, <1>10
  <2> QED BY <2>3, <2>4, <2>5
<1>15. Once(y)
  <2> SUFFICES ASSUME NEW v \in Files!Nodes(y), NEW u \in Files!Nodes(y),
                      NEW j \in Files!Index(v), NEW k \in Files!Index(u), y[v][j] # 0, y[v][j] = y[u][k]
               PROVE  v = u /\ j = k
    BY DEF Once
  <2>1. v \in Files!Nodes(z) /\ ((v = x /\ j = i) \/ y[v][j] = z[v][j])
    BY <1>13
  <2>2. u \in Files!Nodes(z) /\ ((u = x /\ k = i) \/ y[u][k] = z[u][k])
    BY <1>13
  <2>3. CASE v = x /\ j = i
    <3>1. y[u][k] = b
      BY <2>3, <1>2
    <3>2. z[u][k] # b
      BY <2>2, LinkedAre, <1>1
    <3> QED BY <2>2, <2>3, <3>1, <3>2
  <2>4. CASE u = x /\ k = i
    <3>1. y[v][j] = b
      BY <2>4, <1>2
    <3>2. z[v][j] # b
      BY <2>1, LinkedAre, <1>1
    <3> QED BY <2>1, <2>4, <3>1, <3>2
  <2>5. CASE ~(v = x /\ j = i) /\ ~(u = x /\ k = i)
    BY <2>1, <2>2, <2>5 DEF Once
  <2> QED BY <2>3, <2>4, <2>5
<1> QED BY <1>2, <1>12, <1>14, <1>15

(* A walk of bmap, among the blocks bl and the inode numbers is that are   *)
(* allocated.                                                              *)
WalkTyped(w) ==
    /\ ZoneType(w.zone) /\ w.node \in Dom /\ w.at \in Files!Index(w.node)
    /\ w.maps.mem \subseteq InMaps(Top) /\ First \in w.maps.mem
    /\ w.maps.spoiled \in BOOLEAN /\ w.maps.panicked \in BOOLEAN
Sound(s, z, bl, is) ==
    /\ Once(z) /\ Files!Linked(z) \cap bl = {}
    /\ ~s.panicked => ExactBoth(s, bl \cup Files!Linked(z), is)
Good(w, bl, is, create) == ~w.maps.spoiled =>
    /\ Sound(w.maps, w.zone, bl, is) /\ w.node \in Files!Nodes(w.zone)
    /\ w.over /\ create /\ ~w.maps.panicked => bl \cup Files!Linked(w.zone) = Files!Zone

(* Numbers that there are stay in their cells.                             *)
Keeps(z, y) == \A v \in Dom : \A j \in Files!Index(v) : z[v][j] # 0 => y[v][j] = z[v][j]

(* Numbers that stay over two steps stay.                                  *)
LEMMA KeepsOn ==
  ASSUME NEW x, NEW y, NEW z, Keeps(x, y), Keeps(y, z)
  PROVE  Keeps(x, z)
BY DEF Keeps

(* The fields of a walk.                                                   *)
LEMMA WalkerFields ==
  ASSUME NEW s, NEW z, NEW x, NEW i, NEW over
  PROVE  /\ Files!Walker(s, z, x, i, over).maps = s /\ Files!Walker(s, z, x, i, over).zone = z
         /\ Files!Walker(s, z, x, i, over).node = x /\ Files!Walker(s, z, x, i, over).at = i
         /\ Files!Walker(s, z, x, i, over).over = over
BY DEF Files!Walker

(* What a cell of the walk becomes: it stays, or all blocks are in use and *)
(* it stays, or it has the number of a block that was not in use.          *)
CellMade(w, c1, create, bl, is) ==
    LET used == bl \cup Files!Linked(w.zone)
    IN  \/ c1.maps.panicked /\ c1.zone = w.zone
        \/ /\ ~c1.maps.panicked /\ c1.zone = w.zone /\ ExactBoth(c1.maps, used, is)
           /\ Files!Number(w) = 0 /\ create => used = Files!Zone
        \/ /\ ~c1.maps.panicked /\ ~w.maps.panicked /\ Files!Number(w) = 0 /\ create
           /\ \E b \in Files!Zone \ used :
                c1.zone = Put(w.zone, w.node, w.at, b) /\ ExactBoth(c1.maps, used \cup {b}, is)

(* A cell of the walk with create, in a system with any number of free     *)
(* blocks.                                                                 *)
LEMMA CellEffect ==
  ASSUME SbInv, NEW w, WalkTyped(w), NEW create \in BOOLEAN, NEW c1, c1 = Files!Cell(w, create),
         NEW bl \in SUBSET Files!Zone, NEW is \in SUBSET Nat
  PROVE  /\ c1.node = w.node /\ c1.at = w.at /\ c1.over = w.over
         /\ WalkTyped(c1) /\ Keeps(w.zone, c1.zone) /\ (w.maps.spoiled => c1.maps.spoiled)
         /\ ~c1.maps.spoiled /\ Good(w, bl, is, create) => CellMade(w, c1, create, bl, is)
<1> DEFINE a == Files!balloc(w.maps)
           z == IF a.panicked THEN w.zone ELSE Put(w.zone, w.node, w.at, a.nr)
           used == bl \cup Files!Linked(w.zone)
<1>0. ZoneType(w.zone) /\ w.node \in Dom /\ w.at \in Files!Index(w.node) /\ First \in w.maps.mem
  BY DEF WalkTyped
<1>1. c1 = IF Files!Number(w) # 0 \/ ~create \/ w.maps.panicked THEN w
           ELSE Files!Walker(a, z, w.node, w.at, w.over)
  BY Zenon DEF Files!Cell, Files!Made, Put
<1>2. /\ CallTyped(w.maps, a) /\ a.nr \in {0} \cup Files!Zone
      /\ \A zs \in SUBSET Files!Zone, is2 \in SUBSET Nat :
           ExactBoth(w.maps, zs, is2) /\ ~a.spoiled /\ ~a.panicked =>
             \/ a.nr = 0 /\ zs = Files!Zone /\ ExactBoth(a, zs, is2)
             \/ a.nr \in Files!Zone \ zs /\ ExactBoth(a, zs \cup {a.nr}, is2)
  BY <1>0, BallocEffect
<1> HIDE DEF a
<1>3. CASE Files!Number(w) # 0 \/ ~create \/ w.maps.panicked
  <2>1. c1 = w
    BY <1>1, <1>3
  <2>2. Keeps(w.zone, w.zone)
    BY DEF Keeps
  <2>3. ~w.maps.spoiled /\ Good(w, bl, is, create) => CellMade(w, w, create, bl, is)
    BY <1>3 DEF Good, Sound, CellMade, WalkTyped
  <2> QED BY <2>1, <2>2, <2>3
<1>4. CASE ~(Files!Number(w) # 0 \/ ~create \/ w.maps.panicked)
  <2>1. c1 = Files!Walker(a, z, w.node, w.at, w.over)
    BY <1>1, <1>4, Zenon
  <2> HIDE DEF z
  <2>2. c1.maps = a /\ c1.zone = z /\ c1.node = w.node /\ c1.at = w.at /\ c1.over = w.over
    BY <2>1, WalkerFields
  <2>3. Files!Number(w) = 0 /\ w.zone[w.node][w.at] = 0
    BY <1>4 DEF Files!Number
  <2>4. a.nr \in Numbers
    BY <1>2 DEF Numbers
  <2>5. ~a.panicked => /\ z = Put(w.zone, w.node, w.at, a.nr)
                       /\ ZoneType(z) /\ z[w.node][w.at] = a.nr
                       /\ \A v \in Dom : \A j \in Files!Index(v) :
                            v # w.node \/ j # w.at => z[v][j] = w.zone[v][j]
    <3> SUFFICES ASSUME ~a.panicked
                 PROVE  /\ z = Put(w.zone, w.node, w.at, a.nr)
                        /\ ZoneType(z) /\ z[w.node][w.at] = a.nr
                        /\ \A v \in Dom : \A j \in Files!Index(v) :
                             v # w.node \/ j # w.at => z[v][j] = w.zone[v][j]
      OBVIOUS
    <3>1. z = Put(w.zone, w.node, w.at, a.nr)
      BY DEF z
    <3> DEFINE zz == w.zone
               x == w.node
               i == w.at
               b == a.nr
    <3>2. ZoneType(zz) /\ x \in Dom /\ i \in Files!Index(x) /\ b \in Numbers /\ z = Put(zz, x, i, b)
      BY <1>0, <2>4, <3>1
    <3> HIDE DEF zz, x, i, b
    <3>3. /\ ZoneType(z) /\ z[x][i] = b
          /\ \A v \in Dom : \A j \in Files!Index(v) : v # x \/ j # i => z[v][j] = zz[v][j]
      BY <3>2, SetCell
    <3> QED BY <3>1, <3>3 DEF zz, x, i, b
  <2>6. a.panicked => z = w.zone
    BY DEF z
  <2>7. ZoneType(z) /\ Keeps(w.zone, z)
    BY <1>0, <2>3, <2>5, <2>6 DEF Keeps
  <2>8. WalkTyped(c1)
    BY <2>2, <2>7, <1>0, <1>2 DEF WalkTyped, CallTyped
  <2>9. ASSUME ~a.spoiled, Good(w, bl, is, create) PROVE CellMade(w, c1, create, bl, is)
    <3>1. CASE a.panicked
      BY <3>1, <2>2, <2>6 DEF CellMade
    <3>2. CASE ~a.panicked
      <4>1. ~w.maps.spoiled /\ ~w.maps.panicked
        BY <1>2, <1>4, <2>9 DEF CallTyped
      <4>2. ExactBoth(w.maps, used, is) /\ used \in SUBSET Files!Zone
        BY <4>1, <2>9, <1>0, LinkedAre DEF Good, Sound
      <4> HIDE DEF used
      <4>3. \/ a.nr = 0 /\ used = Files!Zone /\ ExactBoth(a, used, is)
            \/ a.nr \in Files!Zone \ used /\ ExactBoth(a, used \cup {a.nr}, is)
        BY <4>2, <3>2, <2>9, <1>2
      <4>4. CASE a.nr = 0 /\ used = Files!Zone /\ ExactBoth(a, used, is)
        <5>1. z = w.zone
          <6>1. \A v \in Dom : \A j \in Files!Index(v) : z[v][j] = w.zone[v][j]
            BY <2>3, <2>5, <3>2, <4>4
          <6>2. \A v \in Dom : z[v] = w.zone[v]
            <7>1. \A v \in Dom : z[v] \in [Files!Index(v) -> Numbers] /\ w.zone[v] \in [Files!Index(v) -> Numbers]
              BY <2>7, <1>0 DEF ZoneType
            <7> QED BY <6>1, <7>1
          <6>3. z = [x \in Dom |-> z[x]] /\ w.zone = [x \in Dom |-> w.zone[x]]
            BY <2>7, <1>0 DEF ZoneType
          <6> QED BY <6>2, <6>3
        <5> QED BY <5>1, <4>4, <3>2, <2>2 DEF CellMade, used
      <4>5. CASE a.nr \in Files!Zone \ used /\ ExactBoth(a, used \cup {a.nr}, is)
        <5>1. /\ ~c1.maps.panicked /\ ~w.maps.panicked /\ Files!Number(w) = 0 /\ create
              /\ c1.zone = Put(w.zone, w.node, w.at, a.nr) /\ ExactBoth(c1.maps, used \cup {a.nr}, is)
          BY <4>1, <4>5, <3>2, <2>2, <2>3, <2>5, <1>4
        <5> QED BY <5>1, <4>5 DEF CellMade, used
      <4> QED BY <4>3, <4>4, <4>5
    <3> QED BY <3>1, <3>2
  <2>10. w.maps.spoiled => c1.maps.spoiled
    BY <2>2, <1>2 DEF CallTyped
  <2> QED BY <2>2, <2>7, <2>8, <2>9, <2>10
<1> QED BY <1>3, <1>4

(* A cell that has been made, of a block of data or of an index block that *)
(* was empty, leaves the blocks of the files as they should be.            *)
LEMMA MadeSound ==
  ASSUME SbInv, NEW w, WalkTyped(w), NEW c1, NEW create \in BOOLEAN, NEW bl \in SUBSET Files!Zone, NEW is \in SUBSET Nat,
         Sound(w.maps, w.zone, bl, is), w.node \in Files!Nodes(w.zone), CellMade(w, c1, create, bl, is),
         c1.zone # w.zone /\ PtrAt(w.zone, w.node, w.at) =>
            \A j \in Files!Index(c1.zone[w.node][w.at]) : c1.zone[c1.zone[w.node][w.at]][j] = 0
  PROVE  /\ Sound(c1.maps, c1.zone, bl, is)
         /\ \A v \in Files!Nodes(w.zone) : v \in Files!Nodes(c1.zone)
         /\ c1.zone[w.node][w.at] # 0 /\ PtrAt(w.zone, w.node, w.at) => c1.zone[w.node][w.at] \in Files!Nodes(c1.zone)
         /\ \A v, j : PtrAt(w.zone, v, j) => PtrAt(c1.zone, v, j)
<1> DEFINE z == w.zone
           x == w.node
           i == w.at
           y == c1.zone
           used == bl \cup Files!Linked(z)
<1>0. ZoneType(z) /\ x \in Dom /\ i \in Files!Index(x)
  BY DEF WalkTyped
<1>1. CASE c1.zone = w.zone /\ (c1.maps.panicked \/ ExactBoth(c1.maps, used, is))
  <2>1. Sound(c1.maps, c1.zone, bl, is)
    BY <1>1 DEF Sound
  <2>2. y = z
    BY <1>1
  <2>3. z[x][i] # 0 /\ PtrAt(z, x, i) => z[x][i] \in Files!Nodes(z)
    <3> HIDE DEF z, x, i
    <3> QED BY <1>0, NodesAre
  <2> QED BY <2>1, <2>2, <2>3
<1>2. CASE /\ ~c1.maps.panicked /\ ~w.maps.panicked /\ Files!Number(w) = 0 /\ create
           /\ \E b \in Files!Zone \ used :
                c1.zone = Put(w.zone, w.node, w.at, b) /\ ExactBoth(c1.maps, used \cup {b}, is)
  <2>1. PICK b \in Files!Zone \ used : y = Put(z, x, i, b) /\ ExactBoth(c1.maps, used \cup {b}, is)
    BY <1>2
  <2>2. /\ z[x][i] = 0 /\ Once(z) /\ Files!Linked(z) \cap bl = {} /\ x \in Files!Nodes(z)
        /\ b \in Files!Zone \ Files!Linked(z) /\ b # 0 /\ b \in Numbers
    BY <1>2, DomFacts DEF Files!Number, Sound, Numbers
  <2>3. y # z /\ PtrAt(z, x, i) => \A j \in Files!Index(y[x][i]) : y[y[x][i]][j] = 0
    OBVIOUS
  <2>4. ~c1.maps.panicked
    BY <1>2
  <2> HIDE DEF z, x, i, y
  <2>5. /\ ZoneType(y) /\ y[x][i] = b
        /\ \A v \in Dom : \A j \in Files!Index(v) : v # x \/ j # i => y[v][j] = z[v][j]
    BY <1>0, <2>1, <2>2, SetCell
  <2>6. y # z
    BY <2>2, <2>5
  <2>7. b # x /\ b \in Dom
    BY <1>0, <2>2, LinkedAre, DomFacts
  <2>8. PtrAt(z, x, i) => \A j \in Files!Index(b) : z[b][j] = 0
    BY <2>3, <2>5, <2>6, <2>7
  <2>9. /\ ZoneType(y) /\ Once(y) /\ Files!Linked(y) = Files!Linked(z) \cup {b}
        /\ \A v : v \in Files!Nodes(y) <=> v \in Files!Nodes(z) \/ (v = b /\ PtrAt(z, x, i))
    BY <1>0, <2>1, <2>2, <2>8, LinkCell
  <2>10. \A v, j : PtrAt(z, v, j) => PtrAt(y, v, j)
    BY <1>0, <2>1, <2>2, PtrStays
  <2>11. bl \cup Files!Linked(y) = used \cup {b} /\ Files!Linked(y) \cap bl = {}
    BY <2>1, <2>2, <2>9
  <2>12. Sound(c1.maps, y, bl, is)
    BY <2>1, <2>4, <2>9, <2>11 DEF Sound
  <2>13. /\ \A v \in Files!Nodes(z) : v \in Files!Nodes(y)
         /\ y[x][i] # 0 /\ PtrAt(z, x, i) => y[x][i] \in Files!Nodes(y)
    BY <2>5, <2>9
  <2> QED BY <2>10, <2>12, <2>13 DEF z, x, i, y
<1> QED BY <1>1, <1>2 DEF CellMade

(* One level down.                                                         *)
LEMMA DescendEffect ==
  ASSUME SbInv, NEW w, WalkTyped(w), NEW create \in BOOLEAN, NEW index \in 0..(BLOCK_INDEXES - 1),
         NEW d, d = Files!Descend(w, index, create),
         NEW bl \in SUBSET Files!Zone, NEW is \in SUBSET Nat, Good(w, bl, is, create),
         ~w.over /\ ~w.maps.spoiled => PtrAt(w.zone, w.node, w.at), w.over \in BOOLEAN
  PROVE  /\ WalkTyped(d) /\ Keeps(w.zone, d.zone) /\ Good(d, bl, is, create) /\ (w.maps.spoiled => d.maps.spoiled)
         /\ d.over \in BOOLEAN
         /\ ~d.over => ~w.over /\ d.at = index /\ d.node = d.zone[w.node][w.at] /\ d.node # 0
         /\ ~d.over /\ ~d.maps.spoiled => /\ w.node \in Files!Nodes(d.zone)
                                          /\ \A v, j : PtrAt(w.zone, v, j) => PtrAt(d.zone, v, j)
<1> DEFINE c1 == Files!Cell(w, create)
           b == Files!Number(c1)
           junk == Files!Number(w) = 0 /\ \E i \in Files!Index(b) : c1.zone[b][i] # 0
           s == Files!Maps(c1.maps.mem, c1.maps.disk, c1.maps.nr, c1.maps.spoiled \/ junk, c1.maps.panicked)
<1>1. d = IF w.over THEN w
          ELSE IF b = 0 \/ c1.maps.panicked THEN Files!Walker(c1.maps, c1.zone, c1.node, c1.at, TRUE)
          ELSE Files!Walker(s, c1.zone, b, index, FALSE)
  BY Zenon DEF Files!Descend, Files!Enter
<1>2. b = c1.zone[c1.node][c1.at]
  BY DEF Files!Number
<1>3. /\ c1.node = w.node /\ c1.at = w.at /\ c1.over = w.over
      /\ WalkTyped(c1) /\ Keeps(w.zone, c1.zone) /\ (w.maps.spoiled => c1.maps.spoiled)
      /\ ~c1.maps.spoiled /\ Good(w, bl, is, create) => CellMade(w, c1, create, bl, is)
  BY CellEffect
<1> HIDE DEF c1, b, s, junk
<1>4. CASE w.over
  <2>1. d = w
    BY <1>1, <1>4
  <2>2. Keeps(w.zone, w.zone)
    BY DEF Keeps
  <2> QED BY <2>1, <2>2, <1>4
<1>5. CASE ~w.over /\ (b = 0 \/ c1.maps.panicked)
  <2>1. d = Files!Walker(c1.maps, c1.zone, c1.node, c1.at, TRUE)
    BY <1>1, <1>5
  <2>2. d.maps = c1.maps /\ d.zone = c1.zone /\ d.node = w.node /\ d.at = w.at /\ d.over = TRUE
    BY <2>1, <1>3 DEF Files!Walker
  <2>3. WalkTyped(d)
    BY <2>2, <1>3 DEF WalkTyped
  <2>4. ASSUME ~d.maps.spoiled
        PROVE  /\ Sound(d.maps, d.zone, bl, is) /\ d.node \in Files!Nodes(d.zone)
               /\ create /\ ~d.maps.panicked => bl \cup Files!Linked(d.zone) = Files!Zone
    <3>1. CellMade(w, c1, create, bl, is) /\ ~w.maps.spoiled
      BY <2>2, <2>4, <1>3
    <3>2. Sound(w.maps, w.zone, bl, is) /\ w.node \in Files!Nodes(w.zone)
      BY <3>1 DEF Good
    <3>3. CASE c1.maps.panicked /\ c1.zone = w.zone
      BY <3>2, <3>3, <2>2 DEF Sound
    <3>4. CASE /\ ~c1.maps.panicked /\ c1.zone = w.zone /\ ExactBoth(c1.maps, bl \cup Files!Linked(w.zone), is)
               /\ Files!Number(w) = 0 /\ create => bl \cup Files!Linked(w.zone) = Files!Zone
      <4>1. Files!Number(w) = 0
        BY <1>2, <1>3, <1>5, <3>4 DEF Files!Number
      <4> QED BY <3>2, <3>4, <4>1, <2>2 DEF Sound
    <3>5. CASE \E e \in Files!Zone \ (bl \cup Files!Linked(w.zone)) :
                  ~c1.maps.panicked /\ c1.zone = Put(w.zone, w.node, w.at, e)
      <4>1. PICK e \in Files!Zone : ~c1.maps.panicked /\ c1.zone = Put(w.zone, w.node, w.at, e)
        BY <3>5
      <4> DEFINE z == w.zone
                 x == w.node
                 i == w.at
                 y == c1.zone
      <4>2. y = Put(z, x, i, e) /\ ZoneType(z) /\ x \in Dom /\ i \in Files!Index(x) /\ e \in Numbers
        BY <4>1 DEF WalkTyped, Numbers
      <4> HIDE DEF z, x, i, y
      <4>3. y[x][i] = e
        BY <4>2, SetCell
      <4>4. b = e
        BY <4>3, <1>2, <1>3 DEF x, i, y
      <4> QED BY <4>1, <4>4, <1>5, DomFacts
    <3> QED BY <3>1, <3>3, <3>4, <3>5 DEF CellMade
  <2>5. Good(d, bl, is, create)
    BY <2>4 DEF Good
  <2> QED BY <2>2, <2>3, <2>5, <1>3
<1>6. CASE ~w.over /\ ~(b = 0 \/ c1.maps.panicked)
  <2>1. d = Files!Walker(s, c1.zone, b, index, FALSE)
    BY <1>1, <1>6
  <2>2. d.maps = s /\ d.zone = c1.zone /\ d.node = b /\ d.at = index /\ d.over = FALSE
    BY <2>1 DEF Files!Walker
  <2>3. /\ s.mem = c1.maps.mem /\ s.disk = c1.maps.disk /\ s.spoiled = (c1.maps.spoiled \/ junk)
        /\ s.panicked = c1.maps.panicked
    BY DEF s, Files!Maps
  <2>4. b = c1.zone[w.node][w.at] /\ b \in Files!Zone /\ b \in Dom /\ b \notin Negs
    <3> DEFINE y == c1.zone
               x == c1.node
               i == c1.at
    <3>1. ZoneType(y) /\ x \in Dom /\ i \in Files!Index(x) /\ b = y[x][i]
      BY <1>2, <1>3 DEF WalkTyped
    <3> HIDE DEF y, x, i
    <3>2. b \in Files!Zone
      BY <1>6, <3>1, CellType
    <3> QED BY <3>2, <1>2, <1>3, DomFacts
  <2>5. index \in Files!Index(b)
    BY <2>4, IndexFacts
  <2>6. WalkTyped(d)
    BY <2>2, <2>3, <2>4, <2>5, <1>3 DEF WalkTyped, junk
  <2>7. w.maps.spoiled => d.maps.spoiled
    BY <2>2, <2>3, <1>3
  <2>8. ASSUME ~d.maps.spoiled
        PROVE  /\ Sound(d.maps, d.zone, bl, is) /\ d.node \in Files!Nodes(d.zone)
               /\ w.node \in Files!Nodes(d.zone)
               /\ \A v, j : PtrAt(w.zone, v, j) => PtrAt(d.zone, v, j)
    <3>1. ~c1.maps.spoiled /\ ~junk /\ ~w.maps.spoiled
      BY <2>2, <2>3, <2>8, <1>3
    <3>2. CellMade(w, c1, create, bl, is) /\ Sound(w.maps, w.zone, bl, is) /\ w.node \in Files!Nodes(w.zone)
      BY <3>1, <1>3 DEF Good
    <3>3. PtrAt(w.zone, w.node, w.at)
      BY <3>1, <1>6
    <3>4. c1.zone # w.zone => \A j \in Files!Index(b) : c1.zone[b][j] = 0
      <4>1. c1.zone # w.zone => Files!Number(w) = 0
        BY <3>2 DEF CellMade
      <4> QED BY <4>1, <3>1 DEF junk
    <3>5. /\ Sound(c1.maps, c1.zone, bl, is)
          /\ \A v \in Files!Nodes(w.zone) : v \in Files!Nodes(c1.zone)
          /\ c1.zone[w.node][w.at] # 0 /\ PtrAt(w.zone, w.node, w.at) => c1.zone[w.node][w.at] \in Files!Nodes(c1.zone)
          /\ \A v, j : PtrAt(w.zone, v, j) => PtrAt(c1.zone, v, j)
      BY <3>2, <3>4, <2>4, MadeSound
    <3>6. Sound(d.maps, d.zone, bl, is)
      BY <3>5, <2>2, <2>3 DEF Sound, ExactBoth
    <3> QED BY <3>2, <3>3, <3>5, <3>6, <2>2, <2>4, <1>6
  <2>9. Good(d, bl, is, create)
    BY <2>2, <2>8 DEF Good
  <2> QED BY <2>2, <2>4, <2>6, <2>7, <2>8, <2>9, <1>3, <1>6
<1> QED BY <1>4, <1>5, <1>6

(* A path has one, two or three indices, and they are in range.            *)
LEMMA PathCases ==
  ASSUME NEW n \in 0..(Files!TOTAL_BLOCKS - 1)
  PROVE  \/ n \in 0..(DIRECT_BLOCKS - 1) /\ Files!Path(n) = <<n>>
         \/ \E i \in 0..(BLOCK_INDEXES - 1) : Files!Path(n) = <<DIRECT_BLOCKS, i>>
         \/ \E i, j \in 0..(BLOCK_INDEXES - 1) : Files!Path(n) = <<DIRECT_BLOCKS + 1, i, j>>
<1> DEFINE D == DIRECT_BLOCKS
           I == BLOCK_INDEXES
           n1 == n - D
           n2 == n1 - I
<1>1. D \in Nat /\ I \in Nat /\ I > 0 /\ I * I \in Nat
  BY IndexFacts
<1>2. n \in Nat /\ n < D + I + I * I
  BY <1>1 DEF Files!TOTAL_BLOCKS
<1>3. Files!Path(n) = IF n < D THEN <<n>> ELSE IF n1 < I THEN <<D, n1>> ELSE <<D + 1, n2 \div I, n2 % I>>
  BY DEF Files!Path
<1>4. CASE n < D
  BY <1>1, <1>2, <1>3, <1>4
<1>5. CASE ~(n < D) /\ n1 < I
  <2>1. Files!Path(n) = <<D, n1>>
    BY <1>3, <1>5, Zenon
  <2>2. n1 \in 0..(I - 1)
    BY <1>1, <1>2, <1>5
  <2> QED BY <2>1, <2>2
<1>6. CASE ~(n < D) /\ ~(n1 < I)
  <2>1. n2 \in Nat /\ n2 < I * I
    BY <1>1, <1>2, <1>6
  <2> DEFINE q == n2 \div I
             r == n2 % I
  <2>2. Files!Path(n) = <<D + 1, q, r>>
    <3>1. ~(n < D)
      BY <1>6
    <3>2. ~(n1 < I)
      BY <1>6
    <3> QED BY <1>3, <3>1, <3>2, Zenon
  <2> HIDE DEF n2
  <2>3. q \in Nat /\ r \in 0..(I - 1) /\ n2 = I * q + r
    BY <1>1, <2>1, Division
  <2> HIDE DEF q, r
  <2>4. q < I
    <3>1. ASSUME q >= I PROVE FALSE
      <4>1. PICK e \in Nat : q = I + e
        <5>1. q - I \in Nat /\ q = I + (q - I)
          BY <1>1, <2>3, <3>1
        <5> QED BY <5>1
      <4>2. I * q = I * I + I * e /\ I * e \in Nat
        BY <1>1, <4>1
      <4> QED BY <4>2, <2>1, <2>3, <1>1
    <3> QED BY <3>1, <2>3, <1>1
  <2>5. q \in 0..(I - 1)
    BY <2>3, <2>4, <1>1
  <2> QED BY <2>2, <2>3, <2>5
<1> QED BY <1>4, <1>5, <1>6

(* The cell of a block of data at the end of the walk.                     *)
LEMMA LastCell ==
  ASSUME SbInv, NEW w, WalkTyped(w), NEW create \in BOOLEAN, NEW c1, c1 = Files!Cell(w, create),
         NEW bl \in SUBSET Files!Zone, NEW is \in SUBSET Nat, Good(w, bl, is, create),
         ~w.over /\ ~w.maps.spoiled => ~PtrAt(w.zone, w.node, w.at)
  PROVE  /\ WalkTyped(c1) /\ Keeps(w.zone, c1.zone) /\ (w.maps.spoiled => c1.maps.spoiled)
         /\ ~c1.maps.spoiled => Sound(c1.maps, c1.zone, bl, is)
<1>1. /\ WalkTyped(c1) /\ Keeps(w.zone, c1.zone) /\ (w.maps.spoiled => c1.maps.spoiled)
      /\ ~c1.maps.spoiled /\ Good(w, bl, is, create) => CellMade(w, c1, create, bl, is)
  BY CellEffect
<1>2. ASSUME ~c1.maps.spoiled PROVE Sound(c1.maps, c1.zone, bl, is)
  <2>1. /\ CellMade(w, c1, create, bl, is) /\ Sound(w.maps, w.zone, bl, is) /\ w.node \in Files!Nodes(w.zone)
        /\ ~w.maps.spoiled
    BY <1>1, <1>2 DEF Good
  <2>2. c1.zone # w.zone => ~w.over
    <3>1. ASSUME c1.zone # w.zone, w.over PROVE FALSE
      <4>1. ~w.maps.panicked /\ create /\ Files!Zone \ (bl \cup Files!Linked(w.zone)) # {}
        BY <2>1, <3>1 DEF CellMade
      <4> QED BY <4>1, <3>1, <2>1 DEF Good
    <3> QED BY <3>1
  <2>3. c1.zone # w.zone => ~PtrAt(w.zone, w.node, w.at)
    BY <2>1, <2>2
  <2> QED BY <2>1, <2>3, MadeSound
<1> QED BY <1>1, <1>2

(* An index block that an inode names in another cell has no pointers.     *)
LEMMA NoPtr ==
  ASSUME SbInv, NEW z, ZoneType(z), Once(z), NEW u \in Files!Nodes(z), NEW i \in Files!Index(u), z[u][i] # 0,
         ~(u \in Negs /\ i = DIRECT_BLOCKS + 1), NEW j
  PROVE  ~PtrAt(z, z[u][i], j)
<1> DEFINE e == DIRECT_BLOCKS + 1
           b == z[u][i]
<1>1. \A v \in Negs : v \in Files!Nodes(z) /\ e \in Files!Index(v)
  BY IndexFacts, NodesAre
<1>2. b \in Files!Zone /\ b \notin Negs
  BY NodesAre, CellType, DomFacts
<1>3. ASSUME NEW v \in Negs, b = z[v][e] PROVE FALSE
  BY <1>1, <1>3 DEF Once
<1> QED BY <1>2, <1>3 DEF PtrAt

(* What a walk leaves.                                                     *)
Walked(z, w, bl, is) ==
    /\ ZoneType(w.zone) /\ w.maps.mem \subseteq InMaps(Top) /\ First \in w.maps.mem
    /\ w.maps.spoiled \in BOOLEAN /\ w.maps.panicked \in BOOLEAN
    /\ Keeps(z, w.zone)
    /\ ~w.maps.spoiled => Sound(w.maps, w.zone, bl, is)

Starts(w, z, n) ==
    /\ WalkTyped(w) /\ w.zone = z /\ w.node = 0 - n /\ w.node \in Negs /\ w.over = FALSE

(* A walk to a direct block leaves the files sound.                        *)
LEMMA WalkOne ==
  ASSUME SbInv, NEW z, NEW w, NEW n, Starts(w, z, n), NEW create \in BOOLEAN,
         NEW bl \in SUBSET Files!Zone, NEW is \in SUBSET Nat, Good(w, bl, is, create),
         w.at \in 0..(DIRECT_BLOCKS - 1)
  PROVE  Walked(z, Files!Cell(w, create), bl, is)
<1>1. ~PtrAt(w.zone, w.node, w.at)
  <2>1. w.at # DIRECT_BLOCKS /\ w.at # DIRECT_BLOCKS + 1
    BY IndexFacts
  <2>2. \A u \in Negs : w.zone[u][DIRECT_BLOCKS + 1] \in Numbers
    <3>1. \A u \in Negs : u \in Dom /\ DIRECT_BLOCKS + 1 \in Files!Index(u)
      BY IndexFacts DEF Negs
    <3> QED BY <3>1, CellType DEF Starts, WalkTyped
  <2> QED BY <2>1, <2>2, DomFacts DEF PtrAt, Starts, Numbers
<1>2. WalkTyped(w)
  BY DEF Starts
<1> DEFINE c1 == Files!Cell(w, create)
<1> HIDE DEF c1
<1>3. /\ WalkTyped(c1) /\ Keeps(w.zone, c1.zone) /\ (w.maps.spoiled => c1.maps.spoiled)
      /\ ~c1.maps.spoiled => Sound(c1.maps, c1.zone, bl, is)
  BY <1>1, <1>2, LastCell DEF c1
<1> QED BY <1>3 DEF Walked, WalkTyped, Starts, c1

(* A walk over one index block does.                                       *)
LEMMA WalkTwo ==
  ASSUME SbInv, NEW z, NEW w, NEW n, Starts(w, z, n), NEW create \in BOOLEAN,
         NEW bl \in SUBSET Files!Zone, NEW is \in SUBSET Nat, Good(w, bl, is, create),
         w.at = DIRECT_BLOCKS, NEW i \in 0..(BLOCK_INDEXES - 1)
  PROVE  Walked(z, Files!Cell(Files!Descend(w, i, create), create), bl, is)
<1> DEFINE d == Files!Descend(w, i, create)
           c1 == Files!Cell(d, create)
<1>1. WalkTyped(w) /\ w.over \in BOOLEAN /\ PtrAt(w.zone, w.node, w.at) /\ w.node \in Negs
  BY DEF Starts, PtrAt
<1> HIDE DEF d
<1>2. /\ WalkTyped(d) /\ Keeps(w.zone, d.zone) /\ Good(d, bl, is, create) /\ (w.maps.spoiled => d.maps.spoiled)
      /\ ~d.over => ~w.over /\ d.at = i /\ d.node = d.zone[w.node][w.at] /\ d.node # 0
      /\ ~d.over /\ ~d.maps.spoiled => w.node \in Files!Nodes(d.zone)
  BY <1>1, DescendEffect DEF d
<1>3. ASSUME ~d.over, ~d.maps.spoiled PROVE ~PtrAt(d.zone, d.node, d.at)
  <2> DEFINE y == d.zone
             u == w.node
             k == w.at
  <2>1. ZoneType(y) /\ Once(y) /\ u \in Files!Nodes(y) /\ k \in Files!Index(u) /\ y[u][k] # 0
    BY <1>1, <1>2, <1>3 DEF WalkTyped, Good, Sound
  <2>2. k # DIRECT_BLOCKS + 1
    BY IndexFacts
  <2>3. d.node = y[u][k]
    BY <1>2, <1>3
  <2> HIDE DEF y, u, k
  <2>4. ~PtrAt(y, y[u][k], d.at)
    BY <2>1, <2>2, NoPtr
  <2> QED BY <2>3, <2>4 DEF y
<1> HIDE DEF c1
<1>4. /\ WalkTyped(c1) /\ Keeps(d.zone, c1.zone) /\ (d.maps.spoiled => c1.maps.spoiled)
      /\ ~c1.maps.spoiled => Sound(c1.maps, c1.zone, bl, is)
  BY <1>2, <1>3, LastCell DEF c1
<1>5. Keeps(w.zone, c1.zone)
  BY <1>2, <1>4, KeepsOn
<1> QED BY <1>4, <1>5 DEF Walked, WalkTyped, Starts, c1, d

(* A walk over two index blocks does.                                      *)
LEMMA WalkThree ==
  ASSUME SbInv, NEW z, NEW w, NEW n, Starts(w, z, n), NEW create \in BOOLEAN,
         NEW bl \in SUBSET Files!Zone, NEW is \in SUBSET Nat, Good(w, bl, is, create),
         w.at = DIRECT_BLOCKS + 1, NEW i \in 0..(BLOCK_INDEXES - 1), NEW j \in 0..(BLOCK_INDEXES - 1)
  PROVE  Walked(z, Files!Cell(Files!Descend(Files!Descend(w, i, create), j, create), create), bl, is)
<1> DEFINE d == Files!Descend(w, i, create)
           f == Files!Descend(d, j, create)
           c1 == Files!Cell(f, create)
<1>1. WalkTyped(w) /\ w.over \in BOOLEAN /\ PtrAt(w.zone, w.node, w.at) /\ w.node \in Negs
  BY DEF Starts, PtrAt
<1> HIDE DEF d
<1>2. /\ WalkTyped(d) /\ Keeps(w.zone, d.zone) /\ Good(d, bl, is, create) /\ (w.maps.spoiled => d.maps.spoiled)
      /\ d.over \in BOOLEAN
      /\ ~d.over => ~w.over /\ d.at = i /\ d.node = d.zone[w.node][w.at] /\ d.node # 0
      /\ ~d.over /\ ~d.maps.spoiled => w.node \in Files!Nodes(d.zone)
  <2>1. d = Files!Descend(w, i, create)
    BY DEF d
  <2> QED BY <1>1, <2>1, DescendEffect, SMTT(60)
<1>3. ASSUME ~d.over PROVE d.node \notin Negs /\ PtrAt(d.zone, d.node, d.at)
  <2> DEFINE y == d.zone
             u == w.node
             k == w.at
  <2>1. ZoneType(y) /\ u \in Dom /\ k \in Files!Index(u) /\ y[u][k] # 0 /\ d.node = y[u][k]
    BY <1>1, <1>2, <1>3 DEF WalkTyped
  <2> HIDE DEF y, u
  <2>2. d.node \in Files!Zone
    BY <2>1, CellType
  <2>3. d.node \notin Negs
    BY <2>2, DomFacts
  <2>4. PtrAt(d.zone, d.node, d.at)
    BY <1>1, <2>1 DEF PtrAt, y, u
  <2> QED BY <2>3, <2>4
<1> HIDE DEF f
<1>4. /\ WalkTyped(f) /\ Keeps(d.zone, f.zone) /\ Good(f, bl, is, create) /\ (d.maps.spoiled => f.maps.spoiled)
      /\ ~f.over => ~d.over /\ f.at = j /\ f.node = f.zone[d.node][d.at] /\ f.node # 0
      /\ ~f.over /\ ~f.maps.spoiled => d.node \in Files!Nodes(f.zone)
  <2>1. f = Files!Descend(d, j, create) /\ WalkTyped(d) /\ d.over \in BOOLEAN /\ Good(d, bl, is, create)
    BY <1>2 DEF f
  <2>2. ~d.over /\ ~d.maps.spoiled => PtrAt(d.zone, d.node, d.at)
    BY <1>3
  <2> QED BY <2>1, <2>2, DescendEffect, SMTT(60)
<1>5. ASSUME ~f.over, ~f.maps.spoiled PROVE ~PtrAt(f.zone, f.node, f.at)
  <2> DEFINE y == f.zone
             u == d.node
             k == d.at
  <2>1. ZoneType(y) /\ Once(y) /\ u \in Files!Nodes(y) /\ k \in Files!Index(u) /\ y[u][k] # 0
    BY <1>2, <1>4, <1>5 DEF WalkTyped, Good, Sound
  <2>2. u \notin Negs /\ f.node = y[u][k]
    BY <1>3, <1>4, <1>5
  <2> HIDE DEF y, u, k
  <2>4. ~PtrAt(y, y[u][k], f.at)
    BY <2>1, <2>2, NoPtr
  <2> QED BY <2>2, <2>4 DEF y
<1> HIDE DEF c1
<1>6. /\ WalkTyped(c1) /\ Keeps(f.zone, c1.zone) /\ (f.maps.spoiled => c1.maps.spoiled)
      /\ ~c1.maps.spoiled => Sound(c1.maps, c1.zone, bl, is)
  BY <1>4, <1>5, LastCell DEF c1
<1>7. Keeps(w.zone, c1.zone)
  <2>1. Keeps(w.zone, f.zone)
    BY <1>2, <1>4, KeepsOn
  <2> QED BY <2>1, <1>6, KeepsOn
<1> QED BY <1>6, <1>7 DEF Walked, WalkTyped, Starts, c1, d, f

(* bmap, whatever block of whatever file is asked for.                     *)
LEMMA WalkEffect ==
  ASSUME SbInv, NEW z, ZoneType(z), NEW n \in Files!Inode, NEW index \in 0..(Files!TOTAL_BLOCKS - 1),
         NEW create \in BOOLEAN, NEW bl \in SUBSET Files!Zone, NEW is \in SUBSET Nat,
         mem \subseteq InMaps(Top), First \in mem, spoiled \in BOOLEAN, fs_panic \in BOOLEAN,
         ~spoiled => Sound(Files!Now, z, bl, is)
  PROVE  Walked(z, Files!Walk(z, n, index, create), bl, is)
<1> DEFINE path == Files!Path(index)
           from == Files!Walker(Files!Now, z, 0 - n, path[1], FALSE)
           Level(w, k) == IF k > Len(path) THEN w ELSE Files!Descend(w, path[k], create)
<1>1. Files!Walk(z, n, index, create) = Files!Cell(Level(Level(from, 2), 3), create)
  BY Zenon DEF Files!Walk
<1>2. /\ from.maps = Files!Now /\ from.zone = z /\ from.node = 0 - n /\ from.at = path[1] /\ from.over = FALSE
  BY DEF Files!Walker
<1>3. Files!Now.mem = mem /\ Files!Now.spoiled = spoiled /\ Files!Now.panicked = fs_panic
  BY DEF Files!Now, Files!Maps
<1>4. 0 - n \in Negs /\ 0 - n \in Dom
  BY DomFacts
<1> HIDE DEF from
<1>5. ASSUME path[1] \in 0..(DIRECT_BLOCKS + 1) PROVE Starts(from, z, n) /\ Good(from, bl, is, create)
  <2>1. path[1] \in Files!Index(0 - n)
    BY <1>4, <1>5, IndexFacts
  <2>2. Starts(from, z, n)
    BY <1>2, <1>3, <1>4, <2>1 DEF Starts, WalkTyped
  <2>3. Good(from, bl, is, create)
    BY <1>2, <1>3, <1>4, NodesAre DEF Good
  <2> QED BY <2>2, <2>3
<1>6. DIRECT_BLOCKS \in Nat
  BY IndexFacts
<1>7. CASE index \in 0..(DIRECT_BLOCKS - 1) /\ path = <<index>>
  <2>1. path[1] = index /\ Len(path) = 1
    BY <1>7
  <2>2. Level(Level(from, 2), 3) = from
    BY <2>1
  <2>3. Starts(from, z, n) /\ Good(from, bl, is, create) /\ from.at \in 0..(DIRECT_BLOCKS - 1)
    BY <1>2, <1>5, <1>6, <1>7, <2>1
  <2> QED BY <1>1, <2>2, <2>3, WalkOne
<1>8. ASSUME NEW i \in 0..(BLOCK_INDEXES - 1), path = <<DIRECT_BLOCKS, i>>
      PROVE  Walked(z, Files!Walk(z, n, index, create), bl, is)
  <2>1. path[1] = DIRECT_BLOCKS /\ Len(path) = 2 /\ path[2] = i
    BY <1>8
  <2>2. Level(Level(from, 2), 3) = Files!Descend(from, i, create)
    BY <2>1
  <2>3. Starts(from, z, n) /\ Good(from, bl, is, create) /\ from.at = DIRECT_BLOCKS
    BY <1>2, <1>5, <1>6, <2>1
  <2> QED BY <1>1, <2>2, <2>3, WalkTwo
<1>9. ASSUME NEW i \in 0..(BLOCK_INDEXES - 1), NEW j \in 0..(BLOCK_INDEXES - 1), path = <<DIRECT_BLOCKS + 1, i, j>>
      PROVE  Walked(z, Files!Walk(z, n, index, create), bl, is)
  <2>1. path[1] = DIRECT_BLOCKS + 1 /\ Len(path) = 3 /\ path[2] = i /\ path[3] = j
    BY <1>9
  <2>2. Level(Level(from, 2), 3) = Files!Descend(Files!Descend(from, i, create), j, create)
    BY <2>1
  <2>3. Starts(from, z, n) /\ Good(from, bl, is, create) /\ from.at = DIRECT_BLOCKS + 1
    BY <1>2, <1>5, <1>6, <2>1
  <2> QED BY <1>1, <2>2, <2>3, WalkThree
<1> QED BY <1>7, <1>8, <1>9, PathCases

(* What the super block says does not change with a step.                  *)
LEMMA Primes ==
  ASSUME sb' = sb
  PROVE  /\ Dom' = Dom /\ Negs' = Negs /\ Numbers' = Numbers /\ Files!Zone' = Files!Zone
         /\ Counted' = Counted /\ Top' = Top /\ First' = First /\ SbInv' = SbInv
         /\ Files!Inode' = Files!Inode
<1>1. Files!Zone' = Files!Zone /\ Files!Inode' = Files!Inode /\ Dom' = Dom /\ Counted' = Counted /\ SbInv' = SbInv
  BY DEF Files!Zone, Files!Inode, Dom, Counted, SbInv
<1>2. Files!zmap' = Files!zmap
  BY DEF Files!zmap
<1> QED BY <1>1, <1>2 DEF Negs, Numbers, Top, First, Files!Bit

(* The files of the next state are those of its zone arrays.               *)
LEMMA PrimeZone ==
  ASSUME sb' = sb
  PROVE  /\ ZoneType(zone)' <=> ZoneType(zone')
         /\ Once(zone)' <=> Once(zone')
         /\ Files!Linked(zone)' = Files!Linked(zone')
         /\ Exact(mem, blocks \cup Files!Linked(zone), inodes)' <=> Exact(mem', blocks' \cup Files!Linked(zone'), inodes')
         /\ Exact(disk, blocks \cup Files!Linked(zone), inodes)' <=> Exact(disk', blocks' \cup Files!Linked(zone'), inodes')
<1>1. \A z : Files!Nodes(z)' = Files!Nodes(z)
  BY DEF Files!Nodes, Files!Inode, Files!IndexBlocks
<1>2. Files!Nodes(zone)' = Files!Nodes(zone')
  BY <1>1
<1>3. ZoneType(zone)' <=> ZoneType(zone')
  BY Primes DEF ZoneType
<1>4. Once(zone)' <=> Once(zone')
  BY <1>2 DEF Once
<1>5. Files!Linked(zone)' = Files!Linked(zone')
  BY <1>2 DEF Files!Linked
<1>6. /\ Files!zmap' = Files!zmap /\ Files!imap' = Files!imap /\ Ends' = Ends
      /\ Files!Zone' = Files!Zone /\ Counted' = Counted
  BY Primes DEF Files!zmap, Files!imap, Ends, NB
<1>7. /\ \A b : Files!ZoneBit(b)' = Files!ZoneBit(b)
      /\ \A n : Files!InodeBit(n)' = Files!InodeBit(n)
  BY <1>6 DEF Files!ZoneBit, Files!InodeBit
<1>8. \A zs, is : Ones(zs, is)' = Ones(zs, is) /\ Zeros(zs, is)' = Zeros(zs, is)
  BY <1>6, <1>7 DEF Ones, Zeros
<1>9. \A m, zs, is : Exact(m, zs, is)' <=> Exact(m, zs, is)
  BY <1>8 DEF Exact
<1>10. /\ Exact(mem, blocks \cup Files!Linked(zone), inodes)' <=> Exact(mem', blocks' \cup Files!Linked(zone'), inodes')
       /\ Exact(disk, blocks \cup Files!Linked(zone), inodes)' <=> Exact(disk', blocks' \cup Files!Linked(zone'), inodes')
  BY <1>5, <1>9
<1> QED BY <1>3, <1>4, <1>5, <1>10

-----------------------------------------------------------------------------
(* The file system, whatever calls it has had.                             *)
MemTyped ==
    /\ mounted \in BOOLEAN /\ spoiled \in BOOLEAN /\ fs_panic \in BOOLEAN
    /\ mounted => mem \subseteq InMaps(Top) /\ First \in mem
    /\ ~mounted => /\ mem = {} /\ disk \subseteq InMaps(Top) /\ First \in disk
                   /\ ~spoiled /\ ~fs_panic /\ \A n \in Files!Inode : held[n] = 0
NumbersTyped ==
    /\ ZoneType(zone) /\ blocks \subseteq Files!Zone
    /\ inodes \subseteq Files!Preset \cup Counted
EntriesTyped ==
    /\ table \in [Files!Slot -> [nr : Files!Inode \cup {0}, count : 0..MaxHeld]]
    /\ inode_list \in Seq(Files!Slot) /\ held \in [Files!Inode -> 0..MaxHeld]
FilesSound == ~spoiled =>
    /\ Once(zone) /\ Files!Linked(zone) \cap blocks = {}
    /\ ~fs_panic => /\ Exact(disk, blocks \cup Files!Linked(zone), inodes)
                    /\ mounted => Exact(mem, blocks \cup Files!Linked(zone), inodes)
FilesInv == SbInv /\ MemTyped /\ NumbersTyped /\ EntriesTyped /\ FilesSound

(* The maps as they are.                                                   *)
LEMMA NowFields ==
  /\ Files!Now.mem = mem /\ Files!Now.disk = disk /\ Files!Now.spoiled = spoiled /\ Files!Now.panicked = fs_panic
BY DEF Files!Now, Files!Maps

(* What a call in the mounted system starts from and leaves.               *)
LEMMA Before ==
  ASSUME FilesInv, Files!Running
  PROVE  /\ SbInv /\ mounted = TRUE /\ spoiled = FALSE /\ fs_panic = FALSE
         /\ mem \subseteq InMaps(Top) /\ First \in mem
         /\ ZoneType(zone) /\ blocks \subseteq Files!Zone /\ inodes \subseteq Files!Preset \cup Counted
         /\ inodes \subseteq Nat /\ blocks \cup Files!Linked(zone) \subseteq Files!Zone
         /\ Sound(Files!Now, zone, blocks, inodes) /\ ExactBoth(Files!Now, blocks \cup Files!Linked(zone), inodes)
         /\ EntriesTyped
<1>1. SbInv /\ mounted = TRUE /\ spoiled = FALSE /\ fs_panic = FALSE
  BY DEF FilesInv, Files!Running, MemTyped
<1>2. mem \subseteq InMaps(Top) /\ First \in mem
  BY <1>1 DEF FilesInv, MemTyped
<1>3. /\ ZoneType(zone) /\ blocks \subseteq Files!Zone /\ inodes \subseteq Files!Preset \cup Counted
  BY DEF FilesInv, NumbersTyped
<1>4. inodes \subseteq Nat
  BY <1>1, <1>3, SbFacts DEF Files!Preset, Counted
<1>5. Files!Linked(zone) \subseteq Files!Zone
  BY <1>1, <1>3, LinkedAre
<1>6. ExactBoth(Files!Now, blocks \cup Files!Linked(zone), inodes) /\ Once(zone) /\ Files!Linked(zone) \cap blocks = {}
  BY <1>1, NowFields DEF FilesInv, FilesSound, ExactBoth
<1>7. Sound(Files!Now, zone, blocks, inodes)
  BY <1>6 DEF Sound
<1> QED BY <1>1, <1>2, <1>3, <1>4, <1>5, <1>6, <1>7 DEF FilesInv

(* What a call must leave for the invariant.                               *)
LEMMA After ==
  ASSUME SbInv, sb' = sb, mounted' = TRUE, NEW s, Files!Becomes(s), NEW y, zone' = y,
         s.mem \subseteq InMaps(Top), First \in s.mem, s.spoiled \in BOOLEAN, s.panicked \in BOOLEAN,
         ZoneType(y), blocks' \subseteq Files!Zone, inodes' \subseteq Files!Preset \cup Counted,
         ~s.spoiled => Sound(s, y, blocks', inodes'), EntriesTyped'
  PROVE  FilesInv'
<1>1. /\ SbInv' /\ Top' = Top /\ First' = First /\ Files!Zone' = Files!Zone /\ Counted' = Counted
      /\ \A top : InMaps(top)' = InMaps(top)
  BY Primes DEF InMaps, B
<1>2. mem' = s.mem /\ disk' = s.disk /\ spoiled' = s.spoiled /\ fs_panic' = s.panicked
  BY DEF Files!Becomes
<1>3. MemTyped'
  BY <1>1, <1>2 DEF MemTyped
<1>4. NumbersTyped'
  BY <1>1, PrimeZone DEF NumbersTyped, Files!Preset
<1>5. FilesSound'
  <2>1. /\ Once(zone)' <=> Once(zone')
        /\ Files!Linked(zone)' = Files!Linked(zone')
        /\ Exact(mem, blocks \cup Files!Linked(zone), inodes)' <=> Exact(mem', blocks' \cup Files!Linked(zone'), inodes')
        /\ Exact(disk, blocks \cup Files!Linked(zone), inodes)' <=> Exact(disk', blocks' \cup Files!Linked(zone'), inodes')
    BY PrimeZone
  <2>2. ~s.spoiled => /\ Once(zone') /\ Files!Linked(zone') \cap blocks' = {}
                      /\ ~s.panicked => ExactBoth(s, blocks' \cup Files!Linked(zone'), inodes')
    BY DEF Sound
  <2>3. ~s.spoiled /\ ~s.panicked => /\ Exact(mem', blocks' \cup Files!Linked(zone'), inodes')
                                     /\ Exact(disk', blocks' \cup Files!Linked(zone'), inodes')
    BY <1>2, <2>2 DEF ExactBoth
  <2> QED BY <1>2, <2>1, <2>2, <2>3 DEF FilesSound
<1> QED BY <1>1, <1>3, <1>4, <1>5 DEF FilesInv

(* The table and the list of the inodes, where they stay as they are.      *)
LEMMA EntriesStay ==
  ASSUME EntriesTyped, sb' = sb, UNCHANGED <<table, inode_list, held>>
  PROVE  EntriesTyped'
BY DEF EntriesTyped, Files!Slot, Files!Inode

(* balloc keeps the invariant, whether it finds a block, finds none or     *)
(* overruns the map.                                                       *)
LEMMA BallocStep == ASSUME FilesInv, Files!Balloc PROVE FilesInv'
<1> DEFINE s == Files!balloc(Files!Now)
           used == blocks \cup Files!Linked(zone)
<1>1. /\ Files!Running /\ Files!Becomes(s) /\ blocks' = blocks \cup ({s.nr} \ {0})
      /\ sb' = sb /\ mounted' = mounted /\ zone' = zone /\ inodes' = inodes
      /\ UNCHANGED <<table, inode_list, held>>
  BY DEF Files!Balloc, Files!inode_state
<1>2. /\ SbInv /\ mounted = TRUE /\ spoiled = FALSE /\ fs_panic = FALSE
      /\ mem \subseteq InMaps(Top) /\ First \in mem
      /\ ZoneType(zone) /\ blocks \subseteq Files!Zone /\ inodes \subseteq Files!Preset \cup Counted
      /\ inodes \subseteq Nat /\ used \subseteq Files!Zone
      /\ Sound(Files!Now, zone, blocks, inodes) /\ ExactBoth(Files!Now, used, inodes)
      /\ EntriesTyped
  BY <1>1, Before
<1> HIDE DEF s
<1>3. /\ CallTyped(Files!Now, s) /\ s.nr \in {0} \cup Files!Zone /\ (s.panicked => s.nr = 0)
      /\ \A zs \in SUBSET Files!Zone, is \in SUBSET Nat :
           ExactBoth(Files!Now, zs, is) /\ ~s.spoiled /\ ~s.panicked =>
             \/ s.nr = 0 /\ zs = Files!Zone /\ ExactBoth(s, zs, is)
             \/ s.nr \in Files!Zone \ zs /\ ExactBoth(s, zs \cup {s.nr}, is)
  BY <1>2, NowFields, BallocEffect DEF s
<1>4. s.mem \subseteq InMaps(Top) /\ First \in s.mem /\ s.spoiled \in BOOLEAN /\ s.panicked \in BOOLEAN
  BY <1>2, <1>3, NowFields DEF CallTyped
<1>5. ASSUME ~s.spoiled PROVE Sound(s, zone, blocks', inodes')
  <2>1. CASE s.panicked
    BY <2>1, <1>1, <1>2, <1>3 DEF Sound
  <2>2. CASE ~s.panicked
    <3>1. \/ s.nr = 0 /\ ExactBoth(s, used, inodes)
          \/ s.nr \in Files!Zone \ used /\ ExactBoth(s, used \cup {s.nr}, inodes)
      BY <1>2, <1>3, <1>5, <2>2
    <3>2. CASE s.nr = 0 /\ ExactBoth(s, used, inodes)
      BY <3>2, <1>1, <1>2 DEF Sound
    <3>3. CASE s.nr \in Files!Zone \ used /\ ExactBoth(s, used \cup {s.nr}, inodes)
      <4>1. blocks' = blocks \cup {s.nr}
        BY <1>1, <1>2, <3>3, DomFacts
      <4>2. blocks' \cup Files!Linked(zone) = used \cup {s.nr}
        BY <4>1
      <4> QED BY <1>1, <1>2, <3>3, <4>1, <4>2 DEF Sound
    <3> QED BY <3>1, <3>2, <3>3
  <2> QED BY <2>1, <2>2
<1>6. blocks' \subseteq Files!Zone
  BY <1>1, <1>2, <1>3
<1>7. EntriesTyped'
  BY <1>1, <1>2, EntriesStay
<1>8. mounted' = TRUE /\ zone' = zone /\ inodes' \subseteq Files!Preset \cup Counted
  BY <1>1, <1>2
<1> QED BY <1>1, <1>2, <1>4, <1>5, <1>6, <1>7, <1>8, After

(* ialloc keeps the invariant.                                             *)
LEMMA IallocStep == ASSUME FilesInv, Files!Ialloc PROVE FilesInv'
<1> DEFINE s == Files!ialloc(Files!Now)
           used == blocks \cup Files!Linked(zone)
<1>1. /\ Files!Running /\ Files!Becomes(s) /\ inodes' = inodes \cup ({s.nr} \ {0})
      /\ sb' = sb /\ mounted' = mounted /\ zone' = zone /\ blocks' = blocks
      /\ UNCHANGED <<table, inode_list, held>>
  BY DEF Files!Ialloc, Files!inode_state
<1>2. /\ SbInv /\ mounted = TRUE /\ spoiled = FALSE /\ fs_panic = FALSE
      /\ mem \subseteq InMaps(Top) /\ First \in mem
      /\ ZoneType(zone) /\ blocks \subseteq Files!Zone /\ inodes \subseteq Files!Preset \cup Counted
      /\ inodes \subseteq Nat /\ used \subseteq Files!Zone
      /\ Sound(Files!Now, zone, blocks, inodes) /\ ExactBoth(Files!Now, used, inodes)
      /\ EntriesTyped
  BY <1>1, Before
<1> HIDE DEF s
<1>3. /\ CallTyped(Files!Now, s) /\ s.nr \in {0} \cup Counted
      /\ \A zs \in SUBSET Files!Zone, is \in SUBSET Nat :
           ExactBoth(Files!Now, zs, is) /\ ~s.spoiled /\ ~s.panicked =>
             \/ s.nr = 0 /\ ExactBoth(s, zs, is)
             \/ s.nr \in Counted \ is /\ ExactBoth(s, zs, is \cup {s.nr})
  BY <1>2, IallocEffect DEF s
<1>4. s.mem \subseteq InMaps(Top) /\ First \in s.mem /\ s.spoiled \in BOOLEAN /\ s.panicked \in BOOLEAN
  BY <1>2, <1>3, NowFields DEF CallTyped
<1>5. ASSUME ~s.spoiled PROVE Sound(s, zone, blocks', inodes')
  <2>1. CASE s.panicked
    BY <2>1, <1>1, <1>2, <1>3 DEF Sound
  <2>2. CASE ~s.panicked
    <3>1. \/ s.nr = 0 /\ ExactBoth(s, used, inodes)
          \/ s.nr \in Counted \ inodes /\ ExactBoth(s, used, inodes \cup {s.nr})
      BY <1>2, <1>3, <1>5, <2>2
    <3>2. CASE s.nr = 0 /\ ExactBoth(s, used, inodes)
      BY <3>2, <1>1, <1>2 DEF Sound
    <3>3. CASE s.nr \in Counted \ inodes /\ ExactBoth(s, used, inodes \cup {s.nr})
      <4>1. inodes' = inodes \cup {s.nr}
        BY <1>1, <3>3 DEF Counted
      <4> QED BY <1>1, <1>2, <3>3, <4>1 DEF Sound
    <3> QED BY <3>1, <3>2, <3>3
  <2> QED BY <2>1, <2>2
<1>6. inodes' \subseteq Files!Preset \cup Counted
  BY <1>1, <1>2, <1>3
<1>7. EntriesTyped'
  BY <1>1, <1>2, EntriesStay
<1>8. mounted' = TRUE /\ zone' = zone /\ blocks' \subseteq Files!Zone
  BY <1>1, <1>2
<1> QED BY <1>1, <1>2, <1>4, <1>5, <1>6, <1>7, <1>8, After

(* bfree keeps it: the block is the caller's, so no file has it.           *)
LEMMA BfreeStep == ASSUME FilesInv, NEW b \in Files!Zone, Files!Bfree(b) PROVE FilesInv'
<1> DEFINE s == Files!bfree(Files!Now, b)
           used == blocks \cup Files!Linked(zone)
<1>1. /\ Files!Running /\ Files!Becomes(s) /\ blocks' = blocks \ {b} /\ b \in blocks
      /\ sb' = sb /\ mounted' = mounted /\ zone' = zone /\ inodes' = inodes
      /\ UNCHANGED <<table, inode_list, held>>
  BY DEF Files!Bfree, Files!inode_state
<1>2. /\ SbInv /\ mounted = TRUE /\ spoiled = FALSE /\ fs_panic = FALSE
      /\ mem \subseteq InMaps(Top) /\ First \in mem
      /\ ZoneType(zone) /\ blocks \subseteq Files!Zone /\ inodes \subseteq Files!Preset \cup Counted
      /\ inodes \subseteq Nat /\ used \subseteq Files!Zone
      /\ Sound(Files!Now, zone, blocks, inodes) /\ ExactBoth(Files!Now, used, inodes)
      /\ EntriesTyped
  BY <1>1, Before
<1> HIDE DEF s
<1>3. /\ CallTyped(Files!Now, s)
      /\ \A zs \in SUBSET Files!Zone, is \in SUBSET Nat :
           ExactBoth(Files!Now, zs, is) /\ b \in zs =>
             /\ ExactBoth(s, zs \ {b}, is) /\ s.spoiled = Files!Now.spoiled /\ s.panicked = Files!Now.panicked
  BY <1>2, BfreeEffect DEF s
<1>4. s.mem \subseteq InMaps(Top) /\ First \in s.mem /\ s.spoiled \in BOOLEAN /\ s.panicked \in BOOLEAN
  BY <1>2, <1>3, NowFields DEF CallTyped
<1>5. Sound(s, zone, blocks', inodes')
  <2>1. ExactBoth(s, used \ {b}, inodes)
    BY <1>1, <1>2, <1>3
  <2>2. b \notin Files!Linked(zone)
    BY <1>1, <1>2 DEF Sound
  <2>3. blocks' \cup Files!Linked(zone) = used \ {b}
    BY <1>1, <2>2
  <2> QED BY <1>1, <1>2, <2>1, <2>3 DEF Sound
<1>6. blocks' \subseteq Files!Zone
  BY <1>1, <1>2
<1>7. EntriesTyped'
  BY <1>1, <1>2, EntriesStay
<1>8. mounted' = TRUE /\ zone' = zone /\ inodes' \subseteq Files!Preset \cup Counted
  BY <1>1, <1>2
<1> QED BY <1>1, <1>2, <1>4, <1>5, <1>6, <1>7, <1>8, After

(* ifree keeps it.                                                         *)
LEMMA IfreeStep == ASSUME FilesInv, NEW n \in Files!Inode, Files!Ifree(n) PROVE FilesInv'
<1> DEFINE s == Files!ifree(Files!Now, n)
           used == blocks \cup Files!Linked(zone)
<1>1. /\ Files!Running /\ Files!Becomes(s) /\ inodes' = inodes \ {n} /\ n \in inodes \ Files!Preset
      /\ sb' = sb /\ mounted' = mounted /\ zone' = zone /\ blocks' = blocks
      /\ UNCHANGED <<table, inode_list, held>>
  BY DEF Files!Ifree, Files!inode_state
<1>2. /\ SbInv /\ mounted = TRUE /\ spoiled = FALSE /\ fs_panic = FALSE
      /\ mem \subseteq InMaps(Top) /\ First \in mem
      /\ ZoneType(zone) /\ blocks \subseteq Files!Zone /\ inodes \subseteq Files!Preset \cup Counted
      /\ inodes \subseteq Nat /\ used \subseteq Files!Zone
      /\ Sound(Files!Now, zone, blocks, inodes) /\ ExactBoth(Files!Now, used, inodes)
      /\ EntriesTyped
  BY <1>1, Before
<1> HIDE DEF s
<1>0. n \in Counted
  BY <1>1, <1>2
<1>3. /\ CallTyped(Files!Now, s)
      /\ \A zs \in SUBSET Files!Zone, is \in SUBSET Nat :
           ExactBoth(Files!Now, zs, is) /\ n \in is =>
             /\ ExactBoth(s, zs, is \ {n}) /\ s.spoiled = Files!Now.spoiled /\ s.panicked = Files!Now.panicked
  BY <1>0, <1>2, IfreeEffect DEF s
<1>4. s.mem \subseteq InMaps(Top) /\ First \in s.mem /\ s.spoiled \in BOOLEAN /\ s.panicked \in BOOLEAN
  BY <1>2, <1>3, NowFields DEF CallTyped
<1>5. Sound(s, zone, blocks', inodes')
  <2>1. ExactBoth(s, used, inodes \ {n})
    BY <1>1, <1>2, <1>3
  <2> QED BY <1>1, <1>2, <2>1 DEF Sound
<1>6. inodes' \subseteq Files!Preset \cup Counted
  BY <1>1, <1>2
<1>7. EntriesTyped'
  BY <1>1, <1>2, EntriesStay
<1>8. mounted' = TRUE /\ zone' = zone /\ blocks' \subseteq Files!Zone
  BY <1>1, <1>2
<1> QED BY <1>1, <1>2, <1>4, <1>5, <1>6, <1>7, <1>8, After

(* bmap keeps it, and the numbers that it has answered before.             *)
LEMMA BmapStep ==
  ASSUME FilesInv, NEW n \in Files!Inode, NEW index \in 0..(Files!TOTAL_BLOCKS - 1), NEW create \in BOOLEAN,
         Files!bmap(n, index, create)
  PROVE  FilesInv' /\ Keeps(zone, zone')
<1> DEFINE w == Files!Walk(zone, n, index, create)
<1>1. /\ Files!Running /\ Files!Becomes(w.maps) /\ zone' = w.zone
      /\ sb' = sb /\ mounted' = mounted /\ blocks' = blocks /\ inodes' = inodes
      /\ UNCHANGED <<table, inode_list, held>>
  BY DEF Files!bmap, Files!inode_state
<1>2. /\ SbInv /\ mounted = TRUE /\ spoiled = FALSE /\ fs_panic = FALSE
      /\ mem \subseteq InMaps(Top) /\ First \in mem
      /\ ZoneType(zone) /\ blocks \subseteq Files!Zone /\ inodes \subseteq Files!Preset \cup Counted
      /\ inodes \subseteq Nat /\ Sound(Files!Now, zone, blocks, inodes)
      /\ EntriesTyped
  BY <1>1, Before
<1>3. Walked(zone, w, blocks, inodes)
  BY <1>2, WalkEffect
<1> DEFINE s == w.maps
           y == w.zone
<1> HIDE DEF w
<1>4. /\ ZoneType(y) /\ s.mem \subseteq InMaps(Top) /\ First \in s.mem
      /\ s.spoiled \in BOOLEAN /\ s.panicked \in BOOLEAN /\ Keeps(zone, y)
      /\ ~s.spoiled => Sound(s, y, blocks, inodes)
  BY <1>3 DEF Walked
<1> HIDE DEF s, y
<1>5. Files!Becomes(s) /\ zone' = y /\ mounted' = TRUE
  BY <1>1, <1>2 DEF s, y
<1>6. EntriesTyped'
  BY <1>1, <1>2, EntriesStay
<1>7. ~s.spoiled => Sound(s, y, blocks', inodes')
  BY <1>1, <1>4
<1> QED BY <1>1, <1>2, <1>4, <1>5, <1>6, <1>7, After

(* Blocks of data may change as they like.                                 *)
LEMMA SameNodes ==
  ASSUME SbInv, NEW z, ZoneType(z), NEW y, ZoneType(y), \A v \in Files!Nodes(z) : y[v] = z[v]
  PROVE  /\ Files!Nodes(y) = Files!Nodes(z) /\ Files!Linked(y) = Files!Linked(z)
         /\ Once(z) => Once(y)
<1>1. /\ \A v : v \in Files!Nodes(z) <=>
              \/ v \in Negs
              \/ v # 0 /\ \E u \in Dom : \E j \in Files!Index(u) : PtrAt(z, u, j) /\ v = z[u][j]
      /\ \A v \in Files!Nodes(z) : v \in Dom /\ v # 0
  BY NodesAre
<1>2. /\ \A v : v \in Files!Nodes(y) <=>
              \/ v \in Negs
              \/ v # 0 /\ \E u \in Dom : \E j \in Files!Index(u) : PtrAt(y, u, j) /\ v = y[u][j]
  BY NodesAre
<1>3. \A v, j : PtrAt(y, v, j) <=> PtrAt(z, v, j)
  BY <1>1 DEF PtrAt
<1>4. \A u \in Dom : \A j : PtrAt(z, u, j) => y[u] = z[u]
  BY PtrNode
<1>5. ASSUME NEW v PROVE v \in Files!Nodes(y) <=> v \in Files!Nodes(z)
  <2>1. ASSUME NEW u \in Dom, NEW j \in Files!Index(u)
        PROVE  (PtrAt(z, u, j) /\ v = z[u][j]) <=> (PtrAt(y, u, j) /\ v = y[u][j])
    BY <1>3, <1>4
  <2> QED BY <1>1, <1>2, <2>1
<1>6. Files!Nodes(y) = Files!Nodes(z)
  <2>1. \A n \in Files!Inode : Files!IndexBlocks(y, n) = Files!IndexBlocks(y, n)
    OBVIOUS
  <2> DEFINE S == Files!Nodes(y)
             T == Files!Nodes(z)
  <2>2. \A v : v \in S <=> v \in T
    BY <1>5
  <2> HIDE DEF S, T
  <2>3. S = T
    BY <2>2
  <2> QED BY <2>3 DEF S, T
<1>7. Files!Linked(y) = Files!Linked(z)
  <2>1. \A b : b \in Files!Linked(z) <=> b # 0 /\ \E v \in Files!Nodes(z) : \E j \in Files!Index(v) : b = z[v][j]
    BY LinkedAre
  <2>2. \A b : b \in Files!Linked(y) <=> b # 0 /\ \E v \in Files!Nodes(y) : \E j \in Files!Index(v) : b = y[v][j]
    BY LinkedAre
  <2> DEFINE S == Files!Linked(y)
             T == Files!Linked(z)
  <2>3. \A v : v \in S <=> v \in T
    BY <1>6, <2>1, <2>2
  <2> HIDE DEF S, T
  <2>4. S = T
    BY <2>3
  <2> QED BY <2>4 DEF S, T
<1>8. Once(z) => Once(y)
  BY <1>6 DEF Once
<1> QED BY <1>6, <1>7, <1>8

(* A write into a block of data keeps it and the arrays of the files.      *)
LEMMA StoreStep ==
  ASSUME FilesInv, NEW b \in Files!Zone, Files!Store(b)
  PROVE  FilesInv' /\ \A v \in Files!Nodes(zone) : zone'[v] = zone[v]
<1> DEFINE row == [i \in Files!Index(b) |-> sb.first_data_zone]
           y == [zone EXCEPT ![b] = row]
           s == Files!Now
<1>1. /\ Files!Running /\ zone' = y /\ b \in blocks
      /\ sb' = sb /\ mounted' = mounted /\ blocks' = blocks /\ inodes' = inodes
      /\ UNCHANGED <<table, inode_list, held>> /\ mem' = mem /\ disk' = disk /\ spoiled' = spoiled /\ fs_panic' = fs_panic
  BY DEF Files!Store, Files!inode_state, Files!maps
<1>2. /\ SbInv /\ mounted = TRUE /\ spoiled = FALSE /\ fs_panic = FALSE
      /\ mem \subseteq InMaps(Top) /\ First \in mem
      /\ ZoneType(zone) /\ blocks \subseteq Files!Zone /\ inodes \subseteq Files!Preset \cup Counted
      /\ Sound(s, zone, blocks, inodes)
      /\ EntriesTyped
  BY <1>1, Before
<1>3. row \in [Files!Index(b) -> Numbers] /\ b \in Dom
  <2>1. sb.first_data_zone \in Files!Zone
    BY <1>2, SbFacts DEF Files!Zone
  <2> QED BY <1>2, <2>1, DomFacts DEF Numbers
<1> HIDE DEF row
<1>4. y = [v \in Dom |-> IF v = b THEN row ELSE zone[v]]
  BY <1>2, <1>3 DEF ZoneType
<1>5. ZoneType(y) /\ \A v \in Dom : v # b => y[v] = zone[v]
  BY <1>2, <1>3, <1>4 DEF ZoneType
<1>6. \A v \in Files!Nodes(zone) : y[v] = zone[v]
  <2>1. b \notin Files!Nodes(zone)
    BY <1>1, <1>2, LinkedAre, DomFacts DEF Sound
  <2> QED BY <1>2, <1>5, <2>1, NodesAre
<1> HIDE DEF y
<1>7. Once(y) /\ Files!Linked(y) = Files!Linked(zone)
  BY <1>2, <1>5, <1>6, SameNodes DEF Sound
<1>8. Sound(s, y, blocks', inodes')
  BY <1>1, <1>2, <1>7 DEF Sound
<1>9. EntriesTyped'
  BY <1>1, <1>2, EntriesStay
<1> HIDE DEF s
<1>10. Files!Becomes(s) /\ s.mem = mem /\ s.spoiled = spoiled /\ s.panicked = fs_panic
  BY <1>1, NowFields DEF Files!Becomes, s
<1>11. /\ mounted' = TRUE /\ s.mem \subseteq InMaps(Top) /\ First \in s.mem /\ s.spoiled \in BOOLEAN /\ s.panicked \in BOOLEAN
       /\ blocks' \subseteq Files!Zone /\ inodes' \subseteq Files!Preset \cup Counted
  BY <1>1, <1>2, <1>10
<1>12. FilesInv'
  BY <1>1, <1>2, <1>5, <1>8, <1>9, <1>10, <1>11, After
<1> QED BY <1>1, <1>6, <1>12

(* The references of an inode stay within the bound.                       *)
LEMMA GetTyped ==
  ASSUME InodeInv, fs_panic = FALSE, EntriesTyped, NEW n \in Files!Inode, Files!Get(n), held[n] < MaxHeld, sb' = sb
  PROVE  EntriesTyped' /\ fs_panic' \in BOOLEAN
<1> DEFINE R == [nr : Files!Inode \cup {0}, count : 0..MaxHeld]
<1>0. /\ Files!Slot' = Files!Slot /\ Files!Inode' = Files!Inode /\ MaxHeld \in Nat \ {0}
      /\ table \in [Files!Slot -> R] /\ inode_list \in Seq(Files!Slot) /\ held \in [Files!Inode -> 0..MaxHeld]
      /\ Entries
  BY ServicesAssumption DEF Files!Slot, Files!Inode, EntriesTyped, InodeInv
<1>1. SUFFICES /\ table' \in [Files!Slot -> R] /\ inode_list' \in Seq(Files!Slot) /\ held' \in [Files!Inode -> 0..MaxHeld]
               /\ fs_panic' \in BOOLEAN
  BY <1>0 DEF EntriesTyped
<1>2. held[n] + 1 \in 0..MaxHeld
  BY <1>0
<1>5. held' = [held EXCEPT ![n] = held[n] + 1] => held' \in [Files!Inode -> 0..MaxHeld]
  BY <1>0, <1>2
<1>3. CASE Files!Places(n) # {}
  <2>1. PICK k \in DOMAIN inode_list :
            /\ Files!find_inode(n) = inode_list[k]
            /\ table[inode_list[k]] = [nr |-> n, count |-> held[n]]
            /\ inode_list[k] \in Files!Slot
    BY <1>0, <1>3, HeldPlace
  <2> DEFINE i == inode_list[k]
  <2>2. /\ table' = [table EXCEPT ![i].count = @ + 1] /\ held' = [held EXCEPT ![n] = held[n] + 1]
        /\ inode_list' = inode_list /\ fs_panic' = fs_panic
    BY <1>3, <2>1 DEF Files!Get
  <2> HIDE DEF i
  <2>3. i \in Files!Slot /\ table[i].nr = n /\ table[i].count = held[n]
    BY <2>1 DEF i
  <2>4. [nr |-> n, count |-> held[n] + 1] \in R
    BY <1>2
  <2>5. table' = [table EXCEPT ![i] = [nr |-> n, count |-> held[n] + 1]]
    <3>1. [table[i] EXCEPT !.count = table[i].count + 1] = [nr |-> n, count |-> held[n] + 1]
      BY <1>0, <2>3
    <3> QED BY <2>2, <3>1
  <2> HIDE DEF R
  <2>6. table' \in [Files!Slot -> R]
    BY <1>0, <2>4, <2>5
  <2>7. inode_list' \in Seq(Files!Slot) /\ fs_panic' \in BOOLEAN
    BY <1>0, <2>2
  <2> QED BY <1>5, <2>2, <2>6, <2>7
<1>4. CASE Files!Places(n) = {}
  <2> DEFINE free == {i \in Files!Slot : table[i] = Files!Free}
             slot == CHOOSE i \in free : \A j \in free : i <= j
  <2>1. CASE free = {}
    <3>1. UNCHANGED <<table, inode_list, held>> /\ fs_panic' = TRUE
      BY <1>4, <2>1 DEF Files!Get
    <3> QED BY <1>0, <3>1
  <2>2. CASE free # {}
    <3>1. slot \in Files!Slot
      <4>1. free \subseteq Nat
        BY DEF Files!Slot
      <4>2. \E i \in free : \A j \in free : i <= j
        BY <4>1, <2>2, LeastOne
      <4> QED BY <4>2
    <3>2. /\ table' = [table EXCEPT ![slot] = [nr |-> n, count |-> 1]]
          /\ inode_list' = Append(inode_list, slot)
          /\ held' = [held EXCEPT ![n] = held[n] + 1] /\ fs_panic' = fs_panic
      BY <1>4, <2>2 DEF Files!Get
    <3> HIDE DEF free, slot
    <3>3. [nr |-> n, count |-> 1] \in R
      BY <1>0
    <3> HIDE DEF R
    <3>4. table' \in [Files!Slot -> R]
      BY <1>0, <3>1, <3>2, <3>3
    <3>5. inode_list' \in Seq(Files!Slot)
      BY <1>0, <3>1, <3>2
    <3>6. fs_panic' \in BOOLEAN
      BY <3>2
    <3> QED BY <1>5, <3>2, <3>4, <3>5, <3>6
  <2> QED BY <2>1, <2>2
<1> QED BY <1>3, <1>4

(* An inode is put; a panic over slot 0 leaves the types.                  *)
LEMMA PutTyped ==
  ASSUME InodeInv, fs_panic = FALSE, EntriesTyped, NEW n \in Files!Inode, Files!iput(n)
  PROVE  EntriesTyped' /\ fs_panic' \in BOOLEAN
<1> DEFINE R == [nr : Files!Inode \cup {0}, count : 0..MaxHeld]
<1>0. /\ Files!Slot' = Files!Slot /\ Files!Inode' = Files!Inode /\ MaxHeld \in Nat \ {0}
      /\ table \in [Files!Slot -> R] /\ inode_list \in Seq(Files!Slot) /\ held \in [Files!Inode -> 0..MaxHeld]
      /\ Entries /\ sb' = sb /\ held[n] # 0
      /\ held' = [held EXCEPT ![n] = held[n] - 1]
  <2>1. sb' = sb /\ held[n] > 0 /\ held' = [held EXCEPT ![n] = held[n] - 1]
    BY DEF Files!iput
  <2>2. held \in [Files!Inode -> 0..MaxHeld] /\ Entries
    BY DEF EntriesTyped, InodeInv
  <2>3. held[n] # 0
    BY <2>1, <2>2, ServicesAssumption
  <2> QED BY <2>1, <2>2, <2>3, ServicesAssumption DEF Files!Slot, Files!Inode, EntriesTyped
<1>1. SUFFICES /\ table' \in [Files!Slot -> R] /\ inode_list' \in Seq(Files!Slot) /\ held' \in [Files!Inode -> 0..MaxHeld]
               /\ fs_panic' \in BOOLEAN
  BY <1>0 DEF EntriesTyped
<1>2. held' \in [Files!Inode -> 0..MaxHeld]
  <2>1. held[n] - 1 \in 0..MaxHeld
    BY <1>0
  <2> QED BY <2>1, <1>0
<1>3. PICK k \in DOMAIN inode_list :
          /\ Files!find_inode(n) = inode_list[k] /\ Files!Min(Files!Places(n)) = k
          /\ table[inode_list[k]] = [nr |-> n, count |-> held[n]]
          /\ k \in 1..Len(inode_list) /\ inode_list[k] \in Files!Slot
  BY <1>0, HeldPlace
<1> DEFINE i == inode_list[k]
<1>4. i \in Files!Slot /\ table[i] = [nr |-> n, count |-> held[n]] /\ Files!find_inode(n) = i
  BY <1>3
<1>5. \/ table[i].count > 1 /\ table' = [table EXCEPT ![i].count = @ - 1] /\ UNCHANGED <<inode_list, fs_panic>>
      \/ /\ inode_list' = Files!RemoveAt(inode_list, k) /\ fs_panic' = (i = 0)
         /\ table' = [table EXCEPT ![i] = IF i = 0 THEN [@ EXCEPT !.count = 0] ELSE Files!Free]
  BY <1>3, <1>4 DEF Files!iput
<1> HIDE DEF i
<1>6. /\ [nr |-> n, count |-> held[n] - 1] \in R /\ [nr |-> n, count |-> 0] \in R /\ Files!Free \in R
      /\ [table[i] EXCEPT !.count = table[i].count - 1] = [nr |-> n, count |-> held[n] - 1]
      /\ [table[i] EXCEPT !.count = 0] = [nr |-> n, count |-> 0]
  <2>1. held[n] - 1 \in 0..MaxHeld /\ 0 \in 0..MaxHeld
    BY <1>0
  <2>2. Files!Free \in R
    BY <2>1 DEF Files!Free
  <2>3. table[i].count = held[n]
    BY <1>4
  <2> QED BY <1>4, <2>1, <2>2, <2>3
<1> HIDE DEF R
<1>7. CASE table[i].count > 1 /\ table' = [table EXCEPT ![i].count = @ - 1] /\ UNCHANGED <<inode_list, fs_panic>>
  <2>1. table' = [table EXCEPT ![i] = [nr |-> n, count |-> held[n] - 1]]
    BY <1>6, <1>7
  <2>2. table' \in [Files!Slot -> R]
    BY <1>0, <1>6, <2>1
  <2> QED BY <1>0, <1>2, <1>7, <2>2
<1>8. CASE /\ inode_list' = Files!RemoveAt(inode_list, k) /\ fs_panic' = (i = 0)
           /\ table' = [table EXCEPT ![i] = IF i = 0 THEN [@ EXCEPT !.count = 0] ELSE Files!Free]
  <2>1. PICK v \in R : table' = [table EXCEPT ![i] = v]
    <3>1. CASE i = 0
      <4>1. table' = [table EXCEPT ![i] = [nr |-> n, count |-> 0]]
        BY <1>6, <1>8, <3>1
      <4> QED BY <1>6, <4>1
    <3>2. CASE i # 0
      BY <1>6, <1>8, <3>2
    <3> QED BY <3>1, <3>2
  <2>2. table' \in [Files!Slot -> R]
    BY <1>0, <2>1
  <2>3. inode_list' \in Seq(Files!Slot)
    BY <1>0, <1>3, <1>8, Removed
  <2>4. fs_panic' \in BOOLEAN
    BY <1>8
  <2> QED BY <1>2, <2>2, <2>3, <2>4
<1> QED BY <1>5, <1>7, <1>8

(* A call that changes the inode table only; the mount fills the cache.    *)
LEMMA EntryCall ==
  ASSUME FilesInv, spoiled = FALSE, fs_panic = FALSE, EntriesTyped', fs_panic' \in BOOLEAN,
         NEW m, mem' = m, m \subseteq InMaps(Top), First \in m,
         Exact(m, blocks \cup Files!Linked(zone), inodes),
         mounted' = TRUE, UNCHANGED <<sb, disk, zone, blocks, inodes, spoiled>>
  PROVE  FilesInv'
<1> DEFINE s == Files!Maps(m, disk, 0, spoiled, fs_panic')
<1>1. s.mem = m /\ s.disk = disk /\ s.spoiled = spoiled /\ s.panicked = fs_panic'
  BY DEF Files!Maps
<1> HIDE DEF s
<1>2. /\ SbInv /\ ZoneType(zone) /\ blocks \subseteq Files!Zone /\ inodes \subseteq Files!Preset \cup Counted
      /\ Once(zone) /\ Files!Linked(zone) \cap blocks = {} /\ Exact(disk, blocks \cup Files!Linked(zone), inodes)
  BY DEF FilesInv, NumbersTyped, FilesSound
<1>3. Sound(s, zone, blocks', inodes')
  BY <1>1, <1>2 DEF Sound, ExactBoth
<1>4. Files!Becomes(s)
  BY <1>1 DEF Files!Becomes
<1>5. /\ sb' = sb /\ zone' = zone /\ blocks' \subseteq Files!Zone /\ inodes' \subseteq Files!Preset \cup Counted
      /\ s.mem \subseteq InMaps(Top) /\ First \in s.mem /\ s.spoiled \in BOOLEAN /\ s.panicked \in BOOLEAN
  BY <1>1, <1>2
<1> QED BY <1>2, <1>3, <1>4, <1>5, After

(* iget keeps the invariant.                                               *)
LEMMA IgetStep ==
  ASSUME FilesInv, InodeInv, NEW n \in Files!Inode, Files!iget(n)
  PROVE  FilesInv'
<1>1. /\ Files!Running /\ Files!Get(n) /\ held[n] < MaxHeld /\ mounted' = mounted /\ mem' = mem
      /\ UNCHANGED <<sb, disk, zone, blocks, inodes, spoiled>>
  BY DEF Files!iget, Files!maps
<1>2. /\ mounted = TRUE /\ spoiled = FALSE /\ fs_panic = FALSE /\ EntriesTyped
      /\ mem \subseteq InMaps(Top) /\ First \in mem
      /\ ExactBoth(Files!Now, blocks \cup Files!Linked(zone), inodes)
  BY <1>1, Before
<1>3. EntriesTyped' /\ fs_panic' \in BOOLEAN
  BY <1>1, <1>2, GetTyped
<1>4. Exact(mem, blocks \cup Files!Linked(zone), inodes)
  BY <1>2, NowFields DEF ExactBoth
<1> QED BY <1>1, <1>2, <1>3, <1>4, EntryCall

(* iput keeps it.                                                          *)
LEMMA IputStep ==
  ASSUME FilesInv, InodeInv, NEW n \in Files!Inode, Files!iput(n)
  PROVE  FilesInv'
<1>1. /\ Files!Running /\ mounted' = mounted /\ mem' = mem
      /\ UNCHANGED <<sb, disk, zone, blocks, inodes, spoiled>>
  BY DEF Files!iput, Files!maps
<1>2. /\ mounted = TRUE /\ spoiled = FALSE /\ fs_panic = FALSE /\ EntriesTyped
      /\ mem \subseteq InMaps(Top) /\ First \in mem
      /\ ExactBoth(Files!Now, blocks \cup Files!Linked(zone), inodes)
  BY <1>1, Before
<1>3. EntriesTyped' /\ fs_panic' \in BOOLEAN
  BY <1>1, <1>2, PutTyped
<1>4. Exact(mem, blocks \cup Files!Linked(zone), inodes)
  BY <1>2, NowFields DEF ExactBoth
<1> QED BY <1>1, <1>2, <1>3, <1>4, EntryCall

(* The mount reads maps that are exact.                                    *)
LEMMA MountStep ==
  ASSUME FilesInv, InodeInv, Files!Mount
  PROVE  FilesInv'
<1>1. /\ mounted = FALSE /\ mounted' = TRUE /\ Files!Get(1) /\ mem' = disk
      /\ UNCHANGED <<sb, disk, zone, blocks, inodes, spoiled>>
  BY DEF Files!Mount, FilesInv, MemTyped
<1>2. /\ spoiled = FALSE /\ fs_panic = FALSE /\ EntriesTyped /\ SbInv
      /\ disk \subseteq InMaps(Top) /\ First \in disk /\ \A n \in Files!Inode : held[n] = 0
      /\ Exact(disk, blocks \cup Files!Linked(zone), inodes)
  BY <1>1 DEF FilesInv, MemTyped, FilesSound
<1>3. 1 \in Files!Inode /\ held[1] < MaxHeld
  <2>1. 1 \in Files!Inode
    BY <1>2 DEF InodeInv, Files!Inode
  <2> QED BY <2>1, <1>2, ServicesAssumption
<1> DEFINE one == 1
<1>4. one \in Files!Inode /\ Files!Get(one) /\ held[one] < MaxHeld
  BY <1>1, <1>3
<1> HIDE DEF one
<1>5. EntriesTyped' /\ fs_panic' \in BOOLEAN
  BY <1>1, <1>2, <1>4, GetTyped
<1> QED BY <1>1, <1>2, <1>5, EntryCall

(* Another service has its turn.                                           *)
LEMMA FilesUnchanged ==
  ASSUME FilesInv, UNCHANGED files
  PROVE  FilesInv'
<1>1. /\ sb' = sb /\ mounted' = mounted /\ mem' = mem /\ disk' = disk /\ zone' = zone /\ blocks' = blocks
      /\ inodes' = inodes /\ spoiled' = spoiled /\ fs_panic' = fs_panic
      /\ UNCHANGED <<table, inode_list, held>>
  BY DEF files
<1>2. SbInv' /\ Top' = Top /\ First' = First /\ Files!Zone' = Files!Zone /\ Counted' = Counted /\ Files!Inode' = Files!Inode
      /\ \A top : InMaps(top)' = InMaps(top)
  BY <1>1, Primes DEF InMaps, B, FilesInv
<1>3. EntriesTyped'
  BY <1>1, EntriesStay DEF FilesInv
<1>4. MemTyped'
  BY <1>1, <1>2 DEF FilesInv, MemTyped
<1>5. NumbersTyped'
  BY <1>1, <1>2, PrimeZone DEF FilesInv, NumbersTyped, Files!Preset
<1>6. FilesSound'
  BY <1>1, PrimeZone DEF FilesInv, FilesSound
<1> QED BY <1>2, <1>3, <1>4, <1>5, <1>6 DEF FilesInv

(* Every step of every service keeps it.                                   *)
LEMMA FilesStep ==
  ASSUME FilesInv, InodeInv, [Next]_vars
  PROVE  FilesInv'
<1>1. CASE Files!Next
  <2>1. CASE Files!Mount
    BY <2>1, MountStep
  <2>2. ASSUME NEW n \in Files!Inode, Files!iget(n) PROVE FilesInv'
    BY <2>2, IgetStep
  <2>3. ASSUME NEW n \in Files!Inode, Files!iput(n) PROVE FilesInv'
    BY <2>3, IputStep
  <2>4. CASE Files!Balloc
    BY <2>4, BallocStep
  <2>5. ASSUME NEW b \in Files!Zone, Files!Bfree(b) PROVE FilesInv'
    BY <2>5, BfreeStep
  <2>6. ASSUME NEW b \in Files!Zone, Files!Store(b) PROVE FilesInv'
    BY <2>6, StoreStep
  <2>7. CASE Files!Ialloc
    BY <2>7, IallocStep
  <2>8. ASSUME NEW n \in Files!Inode, Files!Ifree(n) PROVE FilesInv'
    BY <2>8, IfreeStep
  <2>9. ASSUME NEW n \in Files!Inode, NEW index \in 0..(Files!TOTAL_BLOCKS - 1), NEW create \in BOOLEAN,
               Files!bmap(n, index, create)
        PROVE  FilesInv'
    BY <2>9, BmapStep
  <2> QED BY <1>1, <2>1, <2>2, <2>3, <2>4, <2>5, <2>6, <2>7, <2>8, <2>9 DEF Files!Next
<1>2. CASE UNCHANGED files
  BY <1>2, FilesUnchanged
<1>3. Files!Next \/ UNCHANGED files
  BY DEF Next, vars
<1> QED BY <1>1, <1>2, <1>3

(* What mkfs.minix has made.                                               *)
Fresh(a, b) ==
    /\ a \in InodeNrs /\ b \in BlockNrs /\ sb = Layout(a, b)
    /\ disk = {<<1, 0>>} \cup Bits(2, sb.imap_blocks, a) \cup Bits(2 + sb.imap_blocks, sb.zmap_blocks, b)
    /\ zone = [x \in Dom |-> [i \in Files!Index(x) |-> IF x = -1 /\ i = 0 THEN sb.first_data_zone ELSE 0]]
    /\ held = [n \in Files!Inode |-> 0]
    /\ mounted = FALSE /\ mem = {}
    /\ table = [i \in Files!Slot |-> Files!Free] /\ inode_list = <<>>
    /\ blocks = {} /\ inodes = Files!Preset
    /\ spoiled = FALSE /\ fs_panic = FALSE

(* The initial states are those of mkfs.minix.                             *)
LEMMA IsFresh == Files!Init => \E a, b : Fresh(a, b)
<1> SUFFICES ASSUME Files!Init PROVE \E a, b : Fresh(a, b)
  OBVIOUS
<1>1. PICK a \in InodeNrs, b \in BlockNrs :
        /\ sb = Image(a, b).desc /\ disk = Image(a, b).maps
        /\ zone = [x \in (0 - Image(a, b).desc.ninodes)..(Image(a, b).desc.nzones - 1) |->
                    [i \in Files!Index(x) |-> IF x = -1 /\ i = 0 THEN Image(a, b).desc.first_data_zone ELSE 0]]
        /\ held = [n \in 1..Image(a, b).desc.ninodes |-> 0]
  BY DEF Files!Init
<1>2. /\ Image(a, b).desc = Layout(a, b)
      /\ Image(a, b).maps = {<<1, 0>>} \cup Bits(2, Layout(a, b).imap_blocks, a)
                                       \cup Bits(2 + Layout(a, b).imap_blocks, Layout(a, b).zmap_blocks, b)
  BY DEF Image
<1>3. sb = Layout(a, b)
  BY <1>1, <1>2
<1>4. disk = {<<1, 0>>} \cup Bits(2, sb.imap_blocks, a) \cup Bits(2 + sb.imap_blocks, sb.zmap_blocks, b)
  BY <1>1, <1>2, <1>3
<1>5. zone = [x \in Dom |-> [i \in Files!Index(x) |-> IF x = -1 /\ i = 0 THEN sb.first_data_zone ELSE 0]]
  BY <1>1 DEF Dom
<1>6. held = [n \in Files!Inode |-> 0]
  BY <1>1 DEF Files!Inode
<1>7. /\ mounted = FALSE /\ mem = {}
      /\ table = [i \in Files!Slot |-> Files!Free] /\ inode_list = <<>>
      /\ blocks = {} /\ inodes = Files!Preset
      /\ spoiled = FALSE /\ fs_panic = FALSE
  BY DEF Files!Init
<1> QED BY <1>1, <1>3, <1>4, <1>5, <1>6, <1>7 DEF Fresh

(* Their sizes.                                                            *)
LEMMA FreshSizes ==
  ASSUME NEW a, NEW b, Fresh(a, b)
  PROVE  SbInv /\ sb.ninodes = a /\ NB = b /\ a \in Nat /\ a >= 2 /\ b \in Nat /\ b > 0
<1>1. a \in InodeNrs /\ b \in BlockNrs /\ sb = Layout(a, b)
  BY DEF Fresh
<1>2. a \in Nat /\ a >= 2 /\ b \in Nat /\ b > 0
  BY <1>1, FilesAssumption
<1>3. SbInv
  BY <1>1 DEF SbInv
<1>4. sb.first_data_zone \in Nat
  BY <1>3, SbFacts
<1>5. sb.ninodes = a /\ sb.nzones = sb.first_data_zone + b
  BY <1>1 DEF Layout
<1> QED BY <1>2, <1>3, <1>4, <1>5 DEF NB

(* Only the directory of the root has a block.                             *)
LEMMA FreshZone ==
  ASSUME NEW a, NEW b, Fresh(a, b)
  PROVE  /\ ZoneType(zone) /\ Once(zone)
         /\ Files!Linked(zone) = {sb.first_data_zone} /\ sb.first_data_zone \in Files!Zone
<1> DEFINE d == sb.first_data_zone
<1>1. /\ SbInv /\ sb.ninodes \in Nat /\ sb.ninodes >= 2 /\ sb.nzones \in Nat
      /\ d \in Nat /\ sb.nzones = d + NB /\ NB \in Nat \ {0} /\ sb.imap_blocks \in Nat /\ d > 3 + sb.imap_blocks
  BY FreshSizes, SbFacts
<1>2. d \in Files!Zone /\ d # 0
  BY <1>1 DEF Files!Zone
<1> HIDE DEF d
<1>3. zone = [x \in Dom |-> [i \in Files!Index(x) |-> IF x = -1 /\ i = 0 THEN d ELSE 0]]
  BY DEF Fresh, d
<1>4. ASSUME NEW x \in Dom
      PROVE  /\ zone[x] \in [Files!Index(x) -> Numbers]
             /\ \A i \in Files!Index(x) : zone[x][i] = IF x = -1 /\ i = 0 THEN d ELSE 0
  <2>1. zone[x] = [i \in Files!Index(x) |-> IF x = -1 /\ i = 0 THEN d ELSE 0]
    BY <1>3
  <2> QED BY <2>1, <1>2 DEF Numbers
<1>5. ZoneType(zone)
  BY <1>3, <1>4 DEF ZoneType
<1>6. -1 \in Negs /\ 0 \in Files!Index(-1) /\ DIRECT_BLOCKS \in Nat /\ DIRECT_BLOCKS > 0
  <2>1. -1 \in Negs
    BY <1>1 DEF Negs, Dom
  <2> QED BY <2>1, IndexFacts
<1>7. ASSUME NEW x \in Files!Nodes(zone), NEW i \in Files!Index(x)
      PROVE  zone[x][i] = IF x = -1 /\ i = 0 THEN d ELSE 0
  BY <1>1, <1>4, <1>5, NodesAre
<1>8. Once(zone)
  BY <1>2, <1>7 DEF Once
<1>9. \A e : e \in Files!Linked(zone) <=> e = d
  <2>1. -1 \in Files!Nodes(zone)
    BY <1>1, <1>5, <1>6, NodesAre
  <2>2. \A e : e \in Files!Linked(zone) <=>
          e # 0 /\ \E v \in Files!Nodes(zone) : \E j \in Files!Index(v) : e = zone[v][j]
    BY <1>1, <1>5, LinkedAre
  <2>3. zone[-1][0] = d
    BY <1>6, <1>7, <2>1
  <2>4. \A e : e \in Files!Linked(zone) => e = d
    BY <2>2, <1>7
  <2>5. d \in Files!Linked(zone)
    BY <2>2, <2>1, <2>3, <1>2, <1>6
  <2> QED BY <2>4, <2>5
<1> DEFINE L == Files!Linked(zone)
<1>10. L = {d}
  <2>1. \A e : e \in L <=> e = d
    BY <1>9
  <2> HIDE DEF L
  <2> QED BY <2>1
<1> QED BY <1>2, <1>5, <1>8, <1>10 DEF d

(* The bits that mkfs.minix sets.                                          *)
Set(count, number) == {0, 1} \cup (number + 1)..(count * B - 1)

(* The bits that mkfs.minix sets are at the places that the file system    *)
(* reads.                                                                  *)
LEMMA FreshBits ==
  ASSUME NEW f \in Nat, NEW count \in Nat, NEW number \in Nat, number > 0, number + 1 <= count * B, count * B \in Nat
  PROVE  /\ Bits(f, count, number) = {Files!Bit(f, j) : j \in Set(count, number)}
         /\ Set(count, number) \subseteq 0..(count * B - 1)
         /\ \A j \in 0..(count * B - 1) : Files!Bit(f, j) \in Bits(f, count, number) <=> j \in Set(count, number)
         /\ \A x \in Bits(f, count, number) : x[1] \in f..(f + count - 1) /\ x[2] \in 0..(B - 1) /\ x = <<x[1], x[2]>>
<1> DEFINE z == count * B
<1>1. Bits(f, count, number) = {Files!Bit(f, j) : j \in Set(count, number)}
  BY DEF Bits, Files!Bit, Set, B
<1>2. Set(count, number) \subseteq 0..(z - 1)
  <2>1. z \in Nat /\ number + 1 <= z
    OBVIOUS
  <2>2. Set(count, number) = {0, 1} \cup (number + 1)..(z - 1)
    BY DEF Set
  <2> HIDE DEF z
  <2> QED BY <2>1, <2>2
<1>3. ASSUME NEW j \in 0..(z - 1), Files!Bit(f, j) \in Bits(f, count, number) PROVE j \in Set(count, number)
  <2>1. PICK k \in Set(count, number) : Files!Bit(f, j) = Files!Bit(f, k)
    BY <1>1, <1>3
  <2>2. j \in Nat /\ k \in Nat
    <3> HIDE DEF z
    <3> QED BY <1>2
  <2>3. j = k
    BY <2>1, <2>2, BitSame
  <2> QED BY <2>3
<1>4. ASSUME NEW x \in Bits(f, count, number)
      PROVE  x[1] \in f..(f + count - 1) /\ x[2] \in 0..(B - 1) /\ x = <<x[1], x[2]>>
  <2>1. PICK j \in Set(count, number) : x = Files!Bit(f, j)
    BY <1>1
  <2>2. j \in 0..(count * B - 1)
    BY <1>2
  <2>3. x = <<f + j \div B, j % B>>
    BY <2>1 DEF Files!Bit, B
  <2>4. Files!Bit(f, j)[1] \in f..(f + count - 1) /\ Files!Bit(f, j)[2] \in 0..(B - 1)
    BY <2>2, BitBlock
  <2>5. x = <<x[1], x[2]>>
    BY ONLY <2>3
  <2> QED BY <2>1, <2>4, <2>5
<1> QED BY <1>1, <1>2, <1>3, <1>4

(* The maps of mkfs.minix are exact.                                       *)
LEMMA FreshMaps ==
  ASSUME NEW a, NEW b, Fresh(a, b)
  PROVE  /\ disk \subseteq InMaps(Top) /\ First \in disk
         /\ Exact(disk, blocks \cup Files!Linked(zone), inodes)
<1> DEFINE d == sb.first_data_zone
           x == sb.imap_blocks * B
           y == sb.zmap_blocks * B
           one == <<1, 0>>
           I == Bits(2, sb.imap_blocks, a)
           Z == Bits(2 + sb.imap_blocks, sb.zmap_blocks, b)
<1>1. /\ SbInv /\ sb.ninodes = a /\ NB = b /\ a \in Nat /\ a >= 2 /\ b \in Nat /\ b > 0
      /\ sb.imap_blocks \in Nat \ {0} /\ sb.zmap_blocks \in Nat \ {0} /\ d \in Nat
      /\ a + 1 <= x /\ b + 1 <= y /\ x \in Nat /\ y \in Nat
      /\ Files!imap = 2 /\ Files!zmap = 2 + sb.imap_blocks /\ B \in Nat \ {0}
      /\ sb.nzones = d + NB
  BY FreshSizes, SbFacts, FilesAssumption DEF Files!imap, Files!zmap, B
<1>2. disk = {one} \cup I \cup Z /\ blocks = {} /\ inodes = Files!Preset
  BY DEF Fresh
<1>3. blocks \cup Files!Linked(zone) = {d} /\ d \in Files!Zone
  BY <1>2, FreshZone
<1>4. /\ \A j \in 0..(x - 1) : Files!Bit(Files!imap, j) \in I <=> j \in Set(sb.imap_blocks, a)
      /\ \A v \in I : v[1] \in 2..(2 + sb.imap_blocks - 1) /\ v[2] \in 0..(B - 1) /\ v = <<v[1], v[2]>>
  <2> DEFINE f == Files!imap
  <2>1. f \in Nat /\ sb.imap_blocks \in Nat /\ a \in Nat /\ a > 0 /\ a + 1 <= sb.imap_blocks * B /\ sb.imap_blocks * B \in Nat
        /\ I = Bits(f, sb.imap_blocks, a)
    BY <1>1
  <2> HIDE DEF f, I
  <2>2. /\ \A j \in 0..(sb.imap_blocks * B - 1) : Files!Bit(f, j) \in Bits(f, sb.imap_blocks, a) <=> j \in Set(sb.imap_blocks, a)
        /\ \A v \in Bits(f, sb.imap_blocks, a) : v[1] \in f..(f + sb.imap_blocks - 1) /\ v[2] \in 0..(B - 1) /\ v = <<v[1], v[2]>>
    BY <2>1, FreshBits
  <2> QED BY <2>1, <2>2, <1>1 DEF f
<1>5. /\ \A j \in 0..(y - 1) : Files!Bit(Files!zmap, j) \in Z <=> j \in Set(sb.zmap_blocks, b)
      /\ \A v \in Z : v[1] \in Files!zmap..(Files!zmap + sb.zmap_blocks - 1) /\ v[2] \in 0..(B - 1) /\ v = <<v[1], v[2]>>
  <2> DEFINE f == Files!zmap
  <2>1. f \in Nat /\ sb.zmap_blocks \in Nat /\ b \in Nat /\ b > 0 /\ b + 1 <= sb.zmap_blocks * B /\ sb.zmap_blocks * B \in Nat
        /\ Z = Bits(f, sb.zmap_blocks, b)
    BY <1>1
  <2> HIDE DEF f, Z
  <2>2. /\ \A j \in 0..(sb.zmap_blocks * B - 1) : Files!Bit(f, j) \in Bits(f, sb.zmap_blocks, b) <=> j \in Set(sb.zmap_blocks, b)
        /\ \A v \in Bits(f, sb.zmap_blocks, b) : v[1] \in f..(f + sb.zmap_blocks - 1) /\ v[2] \in 0..(B - 1) /\ v = <<v[1], v[2]>>
    BY <2>1, FreshBits
  <2> QED BY <2>1, <2>2, <1>1 DEF f
<1>6. one[1] = 1 /\ one[2] = 0 /\ one = <<one[1], one[2]>>
  OBVIOUS
<1> HIDE DEF I, Z, one
<1>7. Top \in Nat /\ Top = Files!zmap + sb.zmap_blocks - 1 /\ Top >= 2 + sb.imap_blocks
  BY <1>1 DEF Top
<1>8. disk \subseteq InMaps(Top)
  <2>1. ASSUME NEW v \in disk PROVE v[1] \in 1..Top /\ v[2] \in 0..(B - 1) /\ v = <<v[1], v[2]>>
    <3>1. CASE v = one
      BY <3>1, <1>1, <1>6, <1>7
    <3>2. CASE v \in I
      BY <3>2, <1>1, <1>4, <1>7
    <3>3. CASE v \in Z
      BY <3>3, <1>1, <1>5, <1>7
    <3> QED BY <1>2, <3>1, <3>2, <3>3
  <2> QED BY <2>1 DEF InMaps
<1> HIDE DEF x, y
<1>9. ASSUME NEW j \in 0..(y - 1)
      PROVE  Files!Bit(Files!zmap, j) \in disk <=> j \in Set(sb.zmap_blocks, b)
  <2>1. Files!Bit(Files!zmap, j)[1] \in Files!zmap..(Files!zmap + sb.zmap_blocks - 1)
    <3>1. Files!zmap \in Nat /\ sb.zmap_blocks \in Nat /\ j \in 0..(sb.zmap_blocks * B - 1)
      BY <1>1 DEF y
    <3> QED BY <3>1, BitBlock
  <2> DEFINE v == Files!Bit(Files!zmap, j)
  <2> HIDE DEF v
  <2>2. v # one /\ v \notin I
    <3>1. v[1] \in Files!zmap..(Files!zmap + sb.zmap_blocks - 1)
      BY <2>1 DEF v
    <3>2. v # one
      BY <3>1, <1>1, <1>6
    <3>3. v \notin I
      BY <3>1, <1>1, <1>4
    <3> QED BY <3>2, <3>3
  <2> QED BY <2>2, <1>2, <1>5 DEF v
<1>10. ASSUME NEW j \in 0..(x - 1)
       PROVE  Files!Bit(Files!imap, j) \in disk <=> j \in Set(sb.imap_blocks, a)
  <2>1. Files!Bit(Files!imap, j)[1] \in Files!imap..(Files!imap + sb.imap_blocks - 1)
    <3>1. Files!imap \in Nat /\ sb.imap_blocks \in Nat /\ j \in 0..(sb.imap_blocks * B - 1)
      BY <1>1 DEF x
    <3> QED BY <3>1, BitBlock
  <2> DEFINE v == Files!Bit(Files!imap, j)
  <2> HIDE DEF v
  <2>2. v # one /\ v \notin Z
    <3>1. v[1] \in Files!imap..(Files!imap + sb.imap_blocks - 1)
      BY <2>1 DEF v
    <3>2. v # one
      BY <3>1, <1>1, <1>6
    <3>3. v \notin Z
      BY <3>1, <1>1, <1>5
    <3> QED BY <3>2, <3>3
  <2> QED BY <2>2, <1>2, <1>4 DEF v
<1>11. /\ \A q : q \in Ends <=> q = 0 \/ q \in (b + 1)..(y - 1)
       /\ \A q : q \in Set(sb.zmap_blocks, b) <=> q \in {0, 1} \/ q \in (b + 1)..(y - 1)
       /\ \A q : q \in Set(sb.imap_blocks, a) <=> q \in {0, 1} \/ q \in (a + 1)..(x - 1)
  BY <1>1 DEF Ends, Set, x, y
<1>12. ASSUME NEW e \in Files!Zone PROVE Files!ZoneBit(e) \in disk <=> e = d
  <2> DEFINE p == e - (d - 1)
  <2>1. p \in 1..NB /\ p \in 0..(y - 1) /\ Files!ZoneBit(e) = Files!Bit(Files!zmap, p)
    BY <1>1, BitIndex DEF y
  <2>2. p = 1 <=> e = d
    BY <1>1 DEF Files!Zone
  <2> HIDE DEF p
  <2>3. p \in Set(sb.zmap_blocks, b) <=> p = 1
    BY <2>1, <1>1, <1>11
  <2> QED BY <2>1, <2>2, <2>3, <1>9
<1>13. ASSUME NEW e \in Counted PROVE Files!InodeBit(e) \in disk <=> e \in Files!Preset
  <2> DEFINE p == e - 1
  <2>1. p \in 0..(a - 2) /\ p \in 0..(x - 1) /\ Files!InodeBit(e) = Files!Bit(Files!imap, p)
    BY <1>1, BitIndex DEF x
  <2>2. p \in {0, 1} <=> e \in Files!Preset
    BY <1>1 DEF Counted, Files!Preset
  <2> HIDE DEF p
  <2>3. p \in Set(sb.imap_blocks, a) <=> p \in {0, 1}
    BY <2>1, <1>1, <1>11
  <2> QED BY <2>1, <2>2, <2>3, <1>10
<1>14. \A q \in Ends : Files!Bit(Files!zmap, q) \in disk
  <2>1. ASSUME NEW q \in Ends PROVE q \in 0..(y - 1) /\ q \in Set(sb.zmap_blocks, b)
    BY <1>1, <1>11
  <2> QED BY <2>1, <1>9
<1>15. First \in disk
  BY <1>14 DEF First, Ends
<1>16. Ones({d}, inodes) \subseteq disk
  <2>1. ASSUME NEW v \in Ones({d}, inodes) PROVE v \in disk
    <3>1. CASE v \in {Files!Bit(Files!zmap, q) : q \in Ends}
      BY <3>1, <1>14
    <3>2. CASE v \in {Files!ZoneBit(e) : e \in {d}}
      BY <3>2, <1>3, <1>12
    <3>3. CASE v \in {Files!InodeBit(n) : n \in inodes \cap Counted}
      BY <3>3, <1>2, <1>13
    <3> QED BY <3>1, <3>2, <3>3 DEF Ones
  <2> QED BY <2>1
<1>17. Zeros({d}, inodes) \cap disk = {}
  <2>1. ASSUME NEW v \in Zeros({d}, inodes) PROVE v \notin disk
    <3>1. CASE v \in {Files!ZoneBit(e) : e \in Files!Zone \ {d}}
      BY <3>1, <1>12
    <3>2. CASE v \in {Files!InodeBit(n) : n \in Counted \ inodes}
      BY <3>2, <1>2, <1>13
    <3> QED BY <3>1, <3>2 DEF Zeros
  <2> QED BY <2>1
<1>18. Exact(disk, {d}, inodes)
  BY <1>16, <1>17 DEF Exact, Shows
<1> QED BY <1>3, <1>8, <1>15, <1>18

(* The invariant holds at the start.                                       *)
LEMMA FilesStart == Init => FilesInv
<1> SUFFICES ASSUME Init PROVE FilesInv
  OBVIOUS
<1>1. PICK a, b : Fresh(a, b)
  BY IsFresh DEF Init
<1>2. SbInv /\ sb.ninodes \in Nat /\ sb.ninodes >= 2
  BY <1>1, FreshSizes
<1>3. /\ mounted = FALSE /\ mem = {}
      /\ table = [i \in Files!Slot |-> Files!Free] /\ inode_list = <<>>
      /\ held = [n \in Files!Inode |-> 0]
      /\ blocks = {} /\ inodes = Files!Preset
      /\ spoiled = FALSE /\ fs_panic = FALSE
  BY <1>1 DEF Fresh
<1>4. /\ ZoneType(zone) /\ Once(zone)
  BY <1>1, FreshZone
<1>5. /\ disk \subseteq InMaps(Top) /\ First \in disk
      /\ Exact(disk, blocks \cup Files!Linked(zone), inodes)
  BY <1>1, FreshMaps
<1>6. MemTyped
  BY <1>3, <1>5 DEF MemTyped
<1>7. NumbersTyped
  BY <1>3, <1>4 DEF NumbersTyped
<1>8. EntriesTyped
  BY <1>3, ServicesAssumption DEF EntriesTyped, Files!Free
<1>9. FilesSound
  BY <1>3, <1>4, <1>5 DEF FilesSound
<1> QED BY <1>2, <1>6, <1>7, <1>8, <1>9 DEF FilesInv

(* The blocks and the maps of the file system stay sound in every          *)
(* behaviour (balloc, bfree, ialloc, ifree, bmap, iget, iput, mount_root), *)
(* for any numbers of inodes and blocks, any block size, any number of     *)
(* indices in an index block.                                              *)
THEOREM FilesInvariance == Spec => []FilesInv
<1>1. Init => FilesInv /\ InodeInv
  BY FilesStart, InodeStart
<1>2. FilesInv /\ InodeInv /\ [Next]_vars => FilesInv'
  BY FilesStep
<1> QED BY <1>1, <1>2, InodeInvariance, PTL DEF Spec

(* As long as no map is overrun, no block is used twice, and the maps in   *)
(* the cache and on the disk have a one for exactly the blocks and inodes  *)
(* in use (fsmap.c, inode.c).                                              *)
THEOREM MapsAreExact == Spec => []MapsExact
<1>1. FilesInv => MapsExact
  <2> SUFFICES ASSUME FilesInv PROVE Files!TypeOK /\ Files!BlocksApart /\ Files!MapsExact
    BY DEF MapsExact
  <2>1. /\ SbInv /\ ZoneType(zone) /\ blocks \subseteq Files!Zone /\ inodes \subseteq Files!Preset \cup Counted
        /\ sb.ninodes \in Nat /\ sb.ninodes >= 2 /\ sb.zmap_blocks \in Nat /\ sb.imap_blocks \in Nat
    BY SbFacts DEF FilesInv, NumbersTyped
  <2>2. Files!TypeOK
    <3>1. mem \subseteq (1..(Files!zmap + sb.zmap_blocks - 1)) \X (0..(BLOCK_BITS - 1))
      <4>1. mem \subseteq InMaps(Top)
        BY DEF FilesInv, MemTyped
      <4> QED BY <4>1 DEF InMaps, Top, B
    <3>2. \A x \in DOMAIN zone : zone[x] \in [Files!Index(x) -> Files!Zone \cup {0}]
      <4>1. DOMAIN zone = Dom
        BY <2>1 DEF ZoneType
      <4> QED BY <2>1, <4>1 DEF ZoneType, Numbers
    <3>3. inodes \subseteq Files!Inode
      BY <2>1 DEF Files!Preset, Counted, Files!Inode
    <3>4. {mounted, spoiled, fs_panic} \subseteq BOOLEAN
      BY DEF FilesInv, MemTyped
    <3> QED BY <2>1, <3>1, <3>2, <3>3, <3>4 DEF Files!TypeOK, FilesInv, EntriesTyped
  <2>3. Files!BlocksApart
    <3>1. ~spoiled => Once(zone) /\ Files!Linked(zone) \cap blocks = {}
      BY DEF FilesInv, FilesSound
    <3> QED BY <3>1, <2>1, LinkedAre DEF Files!BlocksApart, Once
  <2>4. ASSUME mounted, ~fs_panic, ~spoiled, NEW m \in {mem, disk}
        PROVE  /\ {b \in Files!Zone : Files!ZoneBit(b) \in m} = blocks \cup Files!Linked(zone)
               /\ \A n \in 1..(sb.ninodes - 1) : Files!InodeBit(n) \in m <=> n \in inodes
    <3> DEFINE used == blocks \cup Files!Linked(zone)
    <3>1. Exact(m, used, inodes)
      BY <2>4 DEF FilesInv, FilesSound
    <3>2. used \subseteq Files!Zone
      BY <2>1, LinkedAre
    <3> HIDE DEF used
    <3>3. Ones(used, inodes) \subseteq m /\ Zeros(used, inodes) \cap m = {}
      BY <3>1 DEF Exact, Shows
    <3>4. ASSUME NEW b \in Files!Zone PROVE Files!ZoneBit(b) \in m <=> b \in used
      <4>1. b \in used => Files!ZoneBit(b) \in Ones(used, inodes)
        BY DEF Ones
      <4>2. b \notin used => Files!ZoneBit(b) \in Zeros(used, inodes)
        BY DEF Zeros
      <4> QED BY <3>3, <4>1, <4>2
    <3>5. ASSUME NEW n \in 1..(sb.ninodes - 1) PROVE Files!InodeBit(n) \in m <=> n \in inodes
      <4>0. n \in Counted
        BY DEF Counted
      <4>1. n \in inodes => Files!InodeBit(n) \in Ones(used, inodes)
        BY <4>0 DEF Ones
      <4>2. n \notin inodes => Files!InodeBit(n) \in Zeros(used, inodes)
        BY <4>0 DEF Zeros
      <4> QED BY <3>3, <4>1, <4>2
    <3>6. {b \in Files!Zone : Files!ZoneBit(b) \in m} = used
      BY <3>2, <3>4
    <3> QED BY <3>5, <3>6 DEF used
  <2> QED BY <2>2, <2>3, <2>4 DEF Files!MapsExact
<1> QED BY <1>1, FilesInvariance, PTL

(* A walk that makes no blocks reads the cells on its way.                 *)
LEMMA CellReads ==
  ASSUME NEW w, NEW create, create = FALSE
  PROVE  Files!Cell(w, create) = w
BY Zenon DEF Files!Cell, Files!Made

At(w, z, x, i) == w.zone = z /\ w.node = x /\ w.at = i /\ w.over = FALSE /\ w.maps.panicked = FALSE
Ended(w, z) == w.zone = z /\ w.over = TRUE /\ z[w.node][w.at] = 0

(* One level down without create: the end at a zero, or the array that the *)
(* number names.                                                           *)
LEMMA DescendReads ==
  ASSUME NEW create, create = FALSE, NEW w, NEW z, NEW x, NEW i, At(w, z, x, i), NEW index,
         NEW d, d = Files!Descend(w, index, create)
  PROVE  /\ z[x][i] = 0 => Ended(d, z)
         /\ z[x][i] # 0 => At(d, z, z[x][i], index)
<1> DEFINE c1 == Files!Cell(w, create)
           b == Files!Number(c1)
           junk == Files!Number(w) = 0 /\ \E k \in Files!Index(b) : c1.zone[b][k] # 0
           s == Files!Maps(c1.maps.mem, c1.maps.disk, c1.maps.nr, c1.maps.spoiled \/ junk, c1.maps.panicked)
<1>1. d = IF w.over THEN w
          ELSE IF b = 0 \/ c1.maps.panicked THEN Files!Walker(c1.maps, c1.zone, c1.node, c1.at, TRUE)
          ELSE Files!Walker(s, c1.zone, b, index, FALSE)
  BY Zenon DEF Files!Descend, Files!Enter
<1>2. s.panicked = c1.maps.panicked
  BY DEF Files!Maps
<1>3. b = c1.zone[c1.node][c1.at]
  BY DEF Files!Number
<1> HIDE DEF s, junk, b
<1>4. c1 = w
  BY CellReads
<1> HIDE DEF c1
<1>5. /\ w.zone = z /\ w.node = x /\ w.at = i /\ w.over = FALSE /\ w.maps.panicked = FALSE /\ b = z[x][i]
      /\ s.panicked = FALSE
  BY <1>2, <1>3, <1>4 DEF At
<1>6. ASSUME z[x][i] = 0 PROVE Ended(d, z)
  <2>1. d = Files!Walker(w.maps, z, x, i, TRUE)
    BY <1>1, <1>4, <1>5, <1>6
  <2>2. d.zone = z /\ d.node = x /\ d.at = i /\ d.over = TRUE
    BY <2>1 DEF Files!Walker
  <2> QED BY <2>2, <1>6 DEF Ended
<1>7. ASSUME z[x][i] # 0 PROVE At(d, z, z[x][i], index)
  <2>1. d = Files!Walker(s, z, b, index, FALSE)
    BY <1>1, <1>4, <1>5, <1>7
  <2>2. d.zone = z /\ d.node = b /\ d.at = index /\ d.over = FALSE /\ d.maps = s
    BY <2>1 DEF Files!Walker
  <2> QED BY <2>2, <1>5 DEF At
<1> QED BY <1>6, <1>7

(* A walk that is over stays over.                                         *)
LEMMA DescendEnded ==
  ASSUME NEW create, NEW w, NEW z, Ended(w, z), NEW index, NEW d, d = Files!Descend(w, index, create)
  PROVE  Ended(d, z)
<1>1. w.over = TRUE
  BY DEF Ended
<1>2. d = w
  BY <1>1, Zenon DEF Files!Descend
<1> QED BY <1>2

(* The number that bmap returns: the one in the last cell of the path.     *)
Next1(z, x, i, j) == IF z[x][i] = 0 THEN 0 ELSE z[z[x][i]][j]
LooksUp(z, x, n, index) ==
    /\ \A i : Files!Path(index) = <<i>> => Files!Lookup(z, n, index) = z[x][i]
    /\ \A i, j : Files!Path(index) = <<i, j>> => Files!Lookup(z, n, index) = Next1(z, x, i, j)
    /\ \A i, j, k : Files!Path(index) = <<i, j, k>> =>
          Files!Lookup(z, n, index) = IF z[x][i] = 0 THEN 0 ELSE Next1(z, z[x][i], j, k)

(* bmap without create follows the indices through the arrays.             *)
LEMMA LookupIs ==
  ASSUME fs_panic = FALSE, NEW z, NEW n, NEW index, NEW x, x = 0 - n
  PROVE  LooksUp(z, x, n, index)
<1> DEFINE path == Files!Path(index)
           create == FALSE
           from == Files!Walker(Files!Now, z, 0 - n, path[1], FALSE)
           Level(w, k) == IF k > Len(path) THEN w ELSE Files!Descend(w, path[k], create)
<1>1. Files!Lookup(z, n, index) = Files!Number(Files!Cell(Level(Level(from, 2), 3), create))
  BY Zenon DEF Files!Lookup, Files!Walk
<1>2. create = FALSE
  OBVIOUS
<1> HIDE DEF create
<1>3. Files!Lookup(z, n, index) = Files!Number(Level(Level(from, 2), 3))
  <2> DEFINE w == Level(Level(from, 2), 3)
  <2>1. Files!Lookup(z, n, index) = Files!Number(Files!Cell(w, create))
    BY <1>1
  <2> HIDE DEF w
  <2>2. Files!Cell(w, create) = w
    BY <1>2, CellReads
  <2> QED BY <2>1, <2>2 DEF w
<1>4. At(from, z, x, path[1])
  BY NowFields DEF At, Files!Walker
<1> HIDE DEF from
<1>5. ASSUME NEW i, path = <<i>> PROVE Files!Lookup(z, n, index) = z[x][i]
  <2>1. path[1] = i /\ Len(path) = 1
    BY <1>5
  <2>2. Level(Level(from, 2), 3) = from
    BY <2>1
  <2> QED BY <1>3, <1>4, <2>1, <2>2 DEF At, Files!Number
<1>6. ASSUME NEW i, NEW j, path = <<i, j>> PROVE Files!Lookup(z, n, index) = Next1(z, x, i, j)
  <2>1. path[1] = i /\ path[2] = j /\ Len(path) = 2
    BY <1>6
  <2> DEFINE d == Files!Descend(from, j, create)
  <2>2. Level(Level(from, 2), 3) = d /\ At(from, z, x, i)
    BY <2>1, <1>4
  <2> HIDE DEF d
  <2>3. d = Files!Descend(from, j, create)
    BY DEF d
  <2>4. /\ z[x][i] = 0 => Ended(d, z)
        /\ z[x][i] # 0 => At(d, z, z[x][i], j)
    BY <1>2, <2>2, <2>3, DescendReads
  <2>5. Files!Number(d) = Next1(z, x, i, j)
    BY <2>4 DEF Next1, At, Ended, Files!Number
  <2> QED BY <1>3, <2>2, <2>5
<1>7. ASSUME NEW i, NEW j, NEW k, path = <<i, j, k>>
      PROVE  Files!Lookup(z, n, index) = IF z[x][i] = 0 THEN 0 ELSE Next1(z, z[x][i], j, k)
  <2>1. path[1] = i /\ path[2] = j /\ path[3] = k /\ Len(path) = 3
    BY <1>7
  <2> DEFINE d == Files!Descend(from, j, create)
             f == Files!Descend(d, k, create)
  <2>2. Level(Level(from, 2), 3) = f /\ At(from, z, x, i)
    BY <2>1, <1>4
  <2> HIDE DEF d
  <2>3. d = Files!Descend(from, j, create)
    BY DEF d
  <2>4. /\ z[x][i] = 0 => Ended(d, z)
        /\ z[x][i] # 0 => At(d, z, z[x][i], j)
    BY <1>2, <2>2, <2>3, DescendReads
  <2> HIDE DEF f
  <2>5. f = Files!Descend(d, k, create)
    BY DEF f
  <2>6. CASE z[x][i] = 0
    <3>1. Ended(f, z)
      BY <2>4, <2>5, <2>6, DescendEnded
    <3> QED BY <1>3, <2>2, <2>6, <3>1 DEF Ended, Files!Number
  <2>7. CASE z[x][i] # 0
    <3> DEFINE e == z[x][i]
    <3>1. At(d, z, e, j)
      BY <2>4, <2>7
    <3> HIDE DEF e
    <3>2. /\ z[e][j] = 0 => Ended(f, z)
          /\ z[e][j] # 0 => At(f, z, z[e][j], k)
      BY <1>2, <2>5, <3>1, DescendReads
    <3>3. Files!Number(f) = Next1(z, e, j, k)
      BY <3>2 DEF Next1, At, Ended, Files!Number
    <3> QED BY <1>3, <2>2, <2>7, <3>3 DEF e
  <2> QED BY <2>6, <2>7
<1> QED BY <1>5, <1>6, <1>7 DEF LooksUp

(* Where the numbers in the arrays of the files stay, lookups do.          *)
LEMMA LookupStays ==
  ASSUME SbInv, fs_panic = FALSE, NEW z, ZoneType(z), NEW y,
         \A v \in Files!Nodes(z) : \A j \in Files!Index(v) : z[v][j] # 0 => y[v][j] = z[v][j],
         NEW n \in Files!Inode, NEW index \in 0..(Files!TOTAL_BLOCKS - 1), Files!Lookup(z, n, index) # 0
  PROVE  Files!Lookup(y, n, index) = Files!Lookup(z, n, index)
<1> DEFINE x == 0 - n
           D == DIRECT_BLOCKS
<1>1. x \in Negs /\ x \in Files!Nodes(z) /\ x \in Dom
  BY DomFacts, NodesAre
<1>2. /\ Files!Index(x) = 0..(D + 1) /\ D \in Nat /\ BLOCK_INDEXES \in Nat
      /\ \A v \in Files!Zone : Files!Index(v) = 0..(BLOCK_INDEXES - 1)
  BY <1>1, IndexFacts, DomFacts
<1>8. x = 0 - n
  OBVIOUS
<1> HIDE DEF x
<1>3. LooksUp(z, x, n, index) /\ LooksUp(y, x, n, index)
  BY <1>8, LookupIs
<1>4. ASSUME NEW v \in Files!Nodes(z), NEW j \in Files!Index(v), z[v][j] # 0, PtrAt(z, v, j)
      PROVE  z[v][j] \in Files!Nodes(z) /\ z[v][j] \in Files!Zone
  BY <1>4, NodesAre, CellType
<1>5. CASE index \in 0..(D - 1) /\ Files!Path(index) = <<index>>
  <2>1. index \in Files!Index(x)
    BY <1>2, <1>5
  <2> QED BY <1>1, <1>3, <1>5, <2>1 DEF LooksUp
<1>6. ASSUME NEW i \in 0..(BLOCK_INDEXES - 1), Files!Path(index) = <<D, i>>
      PROVE  Files!Lookup(y, n, index) = Files!Lookup(z, n, index)
  <2> DEFINE b == z[x][D]
  <2>1. Files!Lookup(z, n, index) = Next1(z, x, D, i) /\ Files!Lookup(y, n, index) = Next1(y, x, D, i)
    BY <1>3, <1>6 DEF LooksUp
  <2>2. b # 0 /\ z[b][i] # 0
    BY <2>1 DEF Next1
  <2>3. D \in Files!Index(x) /\ PtrAt(z, x, D)
    BY <1>1, <1>2 DEF PtrAt
  <2>4. y[x][D] = b /\ b \in Files!Nodes(z) /\ b \in Files!Zone
    BY <1>1, <1>4, <2>2, <2>3
  <2>5. y[b][i] = z[b][i]
    BY <1>2, <2>2, <2>4
  <2> QED BY <2>1, <2>2, <2>4, <2>5 DEF Next1
<1>7. ASSUME NEW i \in 0..(BLOCK_INDEXES - 1), NEW j \in 0..(BLOCK_INDEXES - 1), Files!Path(index) = <<D + 1, i, j>>
      PROVE  Files!Lookup(y, n, index) = Files!Lookup(z, n, index)
  <2> DEFINE b == z[x][D + 1]
             e == z[b][i]
  <2>1. /\ Files!Lookup(z, n, index) = IF b = 0 THEN 0 ELSE Next1(z, b, i, j)
        /\ Files!Lookup(y, n, index) = IF y[x][D + 1] = 0 THEN 0 ELSE Next1(y, y[x][D + 1], i, j)
    BY <1>3, <1>7 DEF LooksUp
  <2>2. b # 0 /\ e # 0 /\ z[e][j] # 0
    BY <2>1 DEF Next1
  <2>3. D + 1 \in Files!Index(x) /\ PtrAt(z, x, D + 1)
    BY <1>1, <1>2 DEF PtrAt
  <2>4. y[x][D + 1] = b /\ b \in Files!Nodes(z) /\ b \in Files!Zone
    BY <1>1, <1>4, <2>2, <2>3
  <2>5. i \in Files!Index(b) /\ PtrAt(z, b, i)
    BY <1>1, <1>2, <2>2, <2>4 DEF PtrAt
  <2>6. y[b][i] = e /\ e \in Files!Nodes(z) /\ e \in Files!Zone
    BY <1>4, <2>2, <2>4, <2>5
  <2>7. y[e][j] = z[e][j]
    BY <1>2, <2>2, <2>6
  <2> QED BY <2>1, <2>2, <2>4, <2>6, <2>7 DEF Next1
<1> QED BY <1>5, <1>6, <1>7, PathCases

(* A number that bmap has returned for a block of a file stays the file's, *)
(* whatever is allocated, freed, mapped and written after (bmap).          *)
THEOREM FilesStay == Spec => FilesKeep
<1> DEFINE Stays ==
             mounted /\ ~spoiled' /\ zone' # zone =>
                \A n \in Files!Inode, i \in 0..(Files!TOTAL_BLOCKS - 1) :
                    Files!Lookup(zone, n, i) # 0 => Files!Lookup(zone', n, i) = Files!Lookup(zone, n, i)
<1>1. FilesInv /\ [Next]_vars => [Stays]_Files!vars
  <2> SUFFICES ASSUME FilesInv, [Next]_vars, mounted, zone' # zone,
                      NEW n \in Files!Inode, NEW i \in 0..(Files!TOTAL_BLOCKS - 1), Files!Lookup(zone, n, i) # 0
               PROVE  Files!Lookup(zone', n, i) = Files!Lookup(zone, n, i)
    OBVIOUS
  <2>1. Files!Next
    BY DEF Next, vars, files
  <2>2. SbInv /\ ZoneType(zone)
    BY DEF FilesInv, NumbersTyped
  <2>3. /\ Files!Running
        /\ \A v \in Files!Nodes(zone) : \A j \in Files!Index(v) : zone[v][j] # 0 => zone'[v][j] = zone[v][j]
    <3>1. ASSUME NEW b \in Files!Zone, Files!Store(b)
          PROVE  /\ Files!Running
                 /\ \A v \in Files!Nodes(zone) : \A j \in Files!Index(v) : zone[v][j] # 0 => zone'[v][j] = zone[v][j]
      <4>1. \A v \in Files!Nodes(zone) : zone'[v] = zone[v]
        BY <3>1, StoreStep
      <4>2. Files!Running
        BY <3>1 DEF Files!Store
      <4> QED BY <4>1, <4>2
    <3>2. ASSUME NEW m \in Files!Inode, NEW index \in 0..(Files!TOTAL_BLOCKS - 1), NEW create \in BOOLEAN,
                 Files!bmap(m, index, create)
          PROVE  /\ Files!Running
                 /\ \A v \in Files!Nodes(zone) : \A j \in Files!Index(v) : zone[v][j] # 0 => zone'[v][j] = zone[v][j]
      <4>1. Keeps(zone, zone')
        BY <3>2, BmapStep
      <4>2. Files!Running
        BY <3>2 DEF Files!bmap
      <4>3. \A v \in Files!Nodes(zone) : v \in Dom
        BY <2>2, NodesAre
      <4> QED BY <4>1, <4>2, <4>3 DEF Keeps
    <3>3. \/ \E b \in Files!Zone : Files!Store(b)
          \/ \E m \in Files!Inode, index \in 0..(Files!TOTAL_BLOCKS - 1), create \in BOOLEAN : Files!bmap(m, index, create)
      BY <2>1 DEF Files!Next, Files!Mount, Files!iget, Files!iput, Files!Balloc, Files!Bfree, Files!Ialloc, Files!Ifree
    <3> QED BY <3>1, <3>2, <3>3
  <2>4. fs_panic = FALSE
    BY <2>3, Before
  <2> QED BY <2>2, <2>3, <2>4, LookupStays
<1>2. Spec => [][Stays]_Files!vars
  BY <1>1, FilesInvariance, PTL DEF Spec
<1> QED BY <1>2 DEF FilesKeep, Files!FilesKeep
=============================================================================
