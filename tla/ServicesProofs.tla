--------------------------- MODULE ServicesProofs ---------------------------
(***************************************************************************)
(* Proofs about six of the services: the lists, the calendar, the CMOS,    *)
(* the console, the table of the devices and the kernel heap.  The file    *)
(* system has a module of its own, FileProofs.                             *)
(***************************************************************************)
EXTENDS Services, Sequences, FiniteSets, SequenceTheorems, FiniteSetTheorems, FunctionTheorems, WellFoundedInduction, TLAPS

-----------------------------------------------------------------------------
(* Quotients and remainders. *)

(* What they are, and that nothing else is. *)
LEMMA Division ==
  ASSUME NEW k \in Nat, NEW b \in Nat, b > 0
  PROVE  k \div b \in Nat /\ k % b \in 0..(b - 1) /\ k = b * (k \div b) + (k % b)
OBVIOUS

LEMMA Quotient ==
  ASSUME NEW b \in Nat, b > 0, NEW v \in Nat, NEW w \in 0..(b - 1)
  PROVE  (b * v + w) % b = w /\ (b * v + w) \div b = v
<1> DEFINE a == b * v + w
           q == a \div b
           r == a % b
<1>1. b * v \in Nat /\ w \in Nat /\ w < b /\ a \in Nat
  OBVIOUS
<1>2. q \in Nat /\ r \in Nat /\ r < b /\ a = b * q + r
  BY <1>1, Division
<1> HIDE DEF q, r
<1>3. b * v + w = b * q + r
  BY <1>2
<1>4. ASSUME q < v PROVE FALSE
  <2>1. b * q + b = b * (q + 1) /\ b * (q + 1) <= b * v
    BY <1>2, <1>4
  <2> QED BY <2>1, <1>1, <1>2, <1>3
<1>5. ASSUME q > v PROVE FALSE
  <2>1. b * v + b = b * (v + 1) /\ b * (v + 1) <= b * q
    BY <1>2, <1>5
  <2> QED BY <2>1, <1>1, <1>2, <1>3
<1>6. q = v
  BY <1>2, <1>4, <1>5
<1>7. r = w
  BY <1>1, <1>2, <1>3, <1>6
<1> QED BY <1>6, <1>7 DEF q, r

(* A nonempty set of naturals has a least element. *)
LEMMA LeastOne ==
  ASSUME NEW S, S \subseteq Nat, S # {}
  PROVE  \E i \in S : \A j \in S : i <= j
<1> DEFINE R == OpToRel(<, Nat)
<1>1. IsWellFoundedOn(R, Nat)
  BY NatLessThanWellFounded
<1>2. R = {p \in Nat \X Nat : p[1] < p[2]}
  BY Zenon DEF OpToRel
<1> HIDE DEF R
<1>3. PICK i \in S : \A j \in S : ~ (<<j, i>> \in R)
  BY <1>1, WFMin
<1>4. \A j \in S : i \in Nat /\ j \in Nat /\ ~ (j < i)
  BY <1>2, <1>3
<1> QED BY <1>3, <1>4

-----------------------------------------------------------------------------
(* Lists: the links are at every step the ones of some sequences of nodes, *)
(* and what a call does to the links it does to its sequence.              *)

(* A sequence without repetitions is no longer than there are nodes.       *)
LEMMA Short ==
  ASSUME NEW s \in Seq(Node), \A i, j \in 1..Len(s) : s[i] = s[j] => i = j
  PROVE  Cardinality(Node) \in Nat /\ Len(s) <= Cardinality(Node)
<1>1. IsFiniteSet(Node)
  BY ListAssumption
<1>2. Len(s) \in Nat /\ s \in [1..Len(s) -> Node]
  OBVIOUS
<1>3. s \in Injection(1..Len(s), Node)
  BY <1>2 DEF Injection, IsInjective
<1>4. Cardinality(1..Len(s)) <= Cardinality(Node)
  BY <1>1, <1>3, FS_Injection
<1>5. Cardinality(1..Len(s)) = Len(s)
  BY <1>2, FS_Interval
<1> QED BY <1>1, <1>4, <1>5, FS_CardinalityType

(* Along f from x the nodes of s come one after the other, then end.       *)
Leads(f, x, end, s) ==
    /\ f[x] = IF s = <<>> THEN end ELSE s[1]
    /\ \A i \in 1..Len(s) : f[s[i]] = IF i = Len(s) THEN end ELSE s[i + 1]

(* The loops of list_contains and list_size find them.                     *)
LEMMA AlongIs ==
  ASSUME NEW f, NEW x, NEW end, end \notin Node, NEW s \in Seq(Node), Leads(f, x, end, s),
         \A i, j \in 1..Len(s) : s[i] = s[j] => i = j
  PROVE  Lists!Along(f, x, end) = s
<1> DEFINE N == Cardinality(Node)
           L == Len(s)
           Step(g, i) == IF i = 0 THEN f[x] ELSE IF g[i - 1] \in {end, NULL} THEN g[i - 1] ELSE f[g[i - 1]]
           Is(g) == g = [i \in 0..N |-> Step(g, i)]
           spot == CHOOSE g : Is(g)
           C == [i \in 0..N |-> IF i < L THEN s[i + 1] ELSE end]
<1>10. Lists!Along(f, x, end) = [i \in 1..Cardinality({i \in 0..N : spot[i] \in Node}) |-> spot[i - 1]]
  BY Zenon DEF Lists!Along, Lists!Cardinality, Cardinality
<1>1. N \in Nat /\ L \in Nat /\ L <= N
  BY Short
<1>2. NULL \notin Node
  BY ListAssumption DEF Lists!Link
<1>3. \A i \in 1..L : s[i] \in Node
  OBVIOUS
<1>4. \A i \in 0..N : Step(C, i) = C[i]
  <2> SUFFICES ASSUME NEW i \in 0..N PROVE Step(C, i) = C[i]
    OBVIOUS
  <2>1. CASE i = 0
    <3>1. s = <<>> <=> L = 0
      OBVIOUS
    <3> QED BY <2>1, <3>1, <1>1 DEF Leads
  <2>2. CASE i > 0 /\ i - 1 < L
    <3>1. i \in 1..L /\ i - 1 \in 0..N /\ C[i - 1] = s[i]
      BY <2>2, <1>1
    <3>2. C[i - 1] \notin {end, NULL}
      BY <3>1, <1>2, <1>3
    <3>3. Step(C, i) = f[s[i]]
      BY <3>1, <3>2, <2>2
    <3> QED BY <3>1, <3>3, <1>1 DEF Leads
  <2>3. CASE i > 0 /\ ~(i - 1 < L)
    <3>1. i - 1 \in 0..N /\ C[i - 1] = end /\ ~(i < L)
      BY <2>3, <1>1
    <3> QED BY <3>1, <2>3
  <2> QED BY <2>1, <2>2, <2>3
<1>5. Is(C)
  BY <1>4
<1>6. Is(spot)
  BY <1>5, Zenon
<1> HIDE DEF spot
<1>7. \A i \in 0..N : spot[i] = C[i]
  <2> SUFFICES ASSUME {i \in 0..N : spot[i] # C[i]} # {} PROVE FALSE
    OBVIOUS
  <2>1. {i \in 0..N : spot[i] # C[i]} \subseteq Nat
    BY <1>1
  <2>2. PICK i \in {j \in 0..N : spot[j] # C[j]} : \A j \in {h \in 0..N : spot[h] # C[h]} : i <= j
    BY <2>1, LeastOne
  <2>3. spot[i] = Step(spot, i)
    BY <1>6
  <2>4. C[i] = Step(C, i)
    BY <1>4
  <2>5. i > 0 => spot[i - 1] = C[i - 1]
    BY <2>2, <1>1
  <2>6. Step(spot, i) = Step(C, i)
    BY <2>5, <2>2
  <2> QED BY <2>2, <2>3, <2>4, <2>6
<1>8. {i \in 0..N : spot[i] \in Node} = 0..(L - 1)
  <2>1. \A i \in 0..N : spot[i] \in Node <=> i < L
    BY <1>7, <1>1, <1>3
  <2> QED BY <2>1, <1>1
<1>9. Cardinality({i \in 0..N : spot[i] \in Node}) = L
  <2>1. L - 1 \in Int /\ 0 \in Int
    BY <1>1
  <2>2. Cardinality(0..(L - 1)) = IF 0 > L - 1 THEN 0 ELSE (L - 1) - 0 + 1
    BY <2>1, FS_Interval
  <2>3. Cardinality(0..(L - 1)) = L
    BY <2>2, <1>1
  <2> QED BY <2>3, <1>8
<1>11. [i \in 1..L |-> spot[i - 1]] = [i \in 1..L |-> s[i]]
  BY <1>1, <1>7
<1>12. s = [i \in 1..L |-> s[i]]
  OBVIOUS
<1> QED BY <1>9, <1>10, <1>11, <1>12

(* The points of a list: its head, its nodes, its tail. *)
Pt(l, s, i) == IF i = 0 THEN Lists!head(l) ELSE IF i <= Len(s) THEN s[i] ELSE Lists!tail(l)

(* The links join the points of the list both ways.                        *)
Chain(nx, pv, l, s) == \A i \in 0..Len(s) :
    nx[Pt(l, s, i)] = Pt(l, s, i + 1) /\ pv[Pt(l, s, i + 1)] = Pt(l, s, i)

(* No node is twice in a list or in two lists.                             *)
OnceIn(G) == \A k, l \in Queue : \A i \in 1..Len(G[k]), j \in 1..Len(G[l]) :
    G[k][i] = G[l][j] => k = l /\ i = j
Listed(G, n) == \E l \in Queue : \E i \in 1..Len(G[l]) : G[l][i] = n

(* The links are the ones of lists G, and the other nodes have none.       *)
Links == [Lists!Link -> Lists!Link \cup {NULL}]
Lay(nx, pv, G) ==
    /\ nx \in Links /\ pv \in Links /\ G \in [Queue -> Seq(Node)]
    /\ \A l \in Queue : Chain(nx, pv, l, G[l])
    /\ OnceIn(G)
    /\ \A n \in Node : ~Listed(G, n) => nx[n] = NULL /\ pv[n] = NULL

(* The invariant: there are lists that the links are the ones of. *)
LinksInv == \E G : Lay(next, prev, G)

(* Heads, tails and nodes differ, and all differ from NULL.                *)
LEMMA EndsDiffer ==
  ASSUME NEW k \in Queue, NEW l \in Queue
  PROVE  /\ Lists!head(k) # Lists!tail(l) /\ Lists!head(k) \notin Node /\ Lists!tail(k) \notin Node
         /\ Lists!head(k) = Lists!head(l) => k = l
         /\ Lists!tail(k) = Lists!tail(l) => k = l
         /\ Lists!head(k) \in Lists!Link /\ Lists!tail(k) \in Lists!Link
<1>1. Lists!head(k) # Lists!tail(l)
  BY DEF Lists!head, Lists!tail
<1>2. (Lists!head(k) = Lists!head(l) => k = l) /\ (Lists!tail(k) = Lists!tail(l) => k = l)
  BY DEF Lists!head, Lists!tail
<1>3. Lists!head(k) \in Lists!Link /\ Lists!tail(k) \in Lists!Link
  BY Zenon DEF Lists!Link
<1> QED BY <1>1, <1>2, <1>3, ListAssumption

(* NULL is the address of no link. *)
LEMMA NodeLinks == NULL \notin Lists!Link /\ Node \subseteq Lists!Link
BY ListAssumption DEF Lists!Link

(* A point is a link: the head, a node or the tail. *)
LEMMA PtLink ==
  ASSUME NEW l \in Queue, NEW s \in Seq(Node), NEW i \in 0..(Len(s) + 1)
  PROVE  Pt(l, s, i) \in Lists!Link /\ (i \in 1..Len(s) => Pt(l, s, i) = s[i] /\ s[i] \in Node)
         /\ (i = 0 => Pt(l, s, i) = Lists!head(l)) /\ (i = Len(s) + 1 => Pt(l, s, i) = Lists!tail(l))
<1>1. Lists!head(l) \in Lists!Link /\ Lists!tail(l) \in Lists!Link
  BY EndsDiffer
<1>2. Len(s) \in Nat /\ \A j \in 1..Len(s) : s[j] \in Node
  OBVIOUS
<1> QED BY <1>1, <1>2, NodeLinks DEF Pt

(* The points of the lists differ. *)
LEMMA PtSame ==
  ASSUME NEW G \in [Queue -> Seq(Node)], OnceIn(G), NEW k \in Queue, NEW l \in Queue,
         NEW i \in 0..(Len(G[k]) + 1), NEW j \in 0..(Len(G[l]) + 1), Pt(k, G[k], i) = Pt(l, G[l], j)
  PROVE  k = l /\ i = j
<1> DEFINE s == G[k]
           t == G[l]
<1>1. s \in Seq(Node) /\ t \in Seq(Node) /\ Len(s) \in Nat /\ Len(t) \in Nat
  OBVIOUS
<1>2. /\ Lists!head(k) # Lists!tail(l) /\ Lists!head(l) # Lists!tail(k)
      /\ Lists!head(k) \notin Node /\ Lists!tail(k) \notin Node /\ Lists!head(l) \notin Node /\ Lists!tail(l) \notin Node
      /\ Lists!head(k) = Lists!head(l) => k = l
      /\ Lists!tail(k) = Lists!tail(l) => k = l
  BY EndsDiffer
<1>3. /\ i \in 1..Len(s) => Pt(k, s, i) = s[i] /\ s[i] \in Node
      /\ i = 0 => Pt(k, s, i) = Lists!head(k)
      /\ i = Len(s) + 1 => Pt(k, s, i) = Lists!tail(k)
  BY <1>1, PtLink
<1>4. /\ j \in 1..Len(t) => Pt(l, t, j) = t[j] /\ t[j] \in Node
      /\ j = 0 => Pt(l, t, j) = Lists!head(l)
      /\ j = Len(t) + 1 => Pt(l, t, j) = Lists!tail(l)
  BY <1>1, PtLink
<1>5. /\ i = 0 \/ i \in 1..Len(s) \/ i = Len(s) + 1
      /\ j = 0 \/ j \in 1..Len(t) \/ j = Len(t) + 1
  BY <1>1
<1>6. CASE i \in 1..Len(s) /\ j \in 1..Len(t)
  BY <1>3, <1>4, <1>6 DEF OnceIn
<1>7. CASE i = 0 \/ j = 0
  BY <1>2, <1>3, <1>4, <1>5, <1>7
<1>8. CASE i = Len(s) + 1 \/ j = Len(t) + 1
  BY <1>1, <1>2, <1>3, <1>4, <1>5, <1>8
<1> QED BY <1>5, <1>6, <1>7, <1>8

(* Two links are set.                                                      *)
Both(f, a, u, b, v) == [f EXCEPT ![a] = u, ![b] = v]
TwoSet(f, a, u, b, v, g) ==
    /\ g \in Links /\ g[a] = u /\ g[b] = v
    /\ \A z \in Lists!Link : z # a /\ z # b => g[z] = f[z]

(* Setting two different links sets them and no other. *)
LEMMA BothAt ==
  ASSUME NEW f \in Links, NEW a \in Lists!Link, NEW b \in Lists!Link,
         NEW u \in Lists!Link \cup {NULL}, NEW v \in Lists!Link \cup {NULL}, a # b, NEW g, g = Both(f, a, u, b, v)
  PROVE  TwoSet(f, a, u, b, v, g)
BY DEF Links, Both, TwoSet

(* A node is put at place p + 1 of a sequence, or taken from place p.      *)
PutIn(s, p, n, t) ==
    /\ t \in Seq(Node) /\ Len(t) = Len(s) + 1
    /\ \A i \in 1..Len(t) : t[i] = IF i <= p THEN s[i] ELSE IF i = p + 1 THEN n ELSE s[i - 1]
TakenOut(s, p, t) ==
    /\ t \in Seq(Node) /\ Len(t) = Len(s) - 1
    /\ \A i \in 1..Len(t) : t[i] = IF i < p THEN s[i] ELSE s[i + 1]

(* InsertAt puts a node in, and RemoveAt takes one out. *)
LEMMA NodeIn ==
  ASSUME NEW s \in Seq(Node), NEW p \in 0..Len(s), NEW n \in Node, NEW t, t = Lists!InsertAt(s, p + 1, n)
  PROVE  PutIn(s, p, n, t)
<1> DEFINE a == SubSeq(s, 1, (p + 1) - 1)
           b == SubSeq(s, p + 1, Len(s))
           c1 == a \o <<n>>
<1>1. Len(s) \in Nat /\ p \in Nat /\ p <= Len(s) /\ (p + 1) - 1 = p
  OBVIOUS
<1>2. a \in Seq(Node) /\ Len(a) = p /\ \A j \in 1..p : a[j] = s[j]
  BY <1>1, SubSeqProperties
<1>3. b \in Seq(Node) /\ Len(b) = Len(s) - p /\ \A j \in 1..(Len(s) - p) : b[j] = s[p + j]
  BY <1>1, SubSeqProperties
<1>4. t = c1 \o b
  BY Zenon DEF Lists!InsertAt
<1>5. <<n>> \in Seq(Node) /\ Len(<<n>>) = 1 /\ <<n>>[1] = n
  OBVIOUS
<1> HIDE DEF a, b
<1>6. /\ c1 \in Seq(Node) /\ Len(c1) = p + 1
      /\ \A j \in 1..(p + 1) : c1[j] = IF j <= p THEN a[j] ELSE n
  BY <1>1, <1>2, <1>5
<1> HIDE DEF c1
<1>7. /\ t \in Seq(Node) /\ Len(t) = Len(c1) + Len(b)
      /\ \A j \in 1..(Len(c1) + Len(b)) : t[j] = IF j <= Len(c1) THEN c1[j] ELSE b[j - Len(c1)]
  <2>1. /\ c1 \o b \in Seq(Node) /\ Len(c1 \o b) = Len(c1) + Len(b)
        /\ \A j \in 1..(Len(c1) + Len(b)) : (c1 \o b)[j] = IF j <= Len(c1) THEN c1[j] ELSE b[j - Len(c1)]
    BY <1>3, <1>6, ConcatProperties, Zenon
  <2> QED BY <1>4, <2>1, Zenon
<1>8. Len(t) = Len(s) + 1
  BY <1>1, <1>3, <1>6, <1>7
<1>9. \A i \in 1..Len(t) : t[i] = IF i <= p THEN s[i] ELSE IF i = p + 1 THEN n ELSE s[i - 1]
  <2> SUFFICES ASSUME NEW i \in 1..Len(t) PROVE t[i] = IF i <= p THEN s[i] ELSE IF i = p + 1 THEN n ELSE s[i - 1]
    OBVIOUS
  <2>1. CASE i <= p + 1
    <3>1. t[i] = c1[i] /\ i \in 1..(p + 1)
      BY <2>1, <1>1, <1>3, <1>6, <1>7
    <3> QED BY <2>1, <3>1, <1>1, <1>2, <1>6
  <2>2. CASE i > p + 1
    <3>1. i - (p + 1) \in 1..(Len(s) - p) /\ p + (i - (p + 1)) = i - 1
      BY <2>2, <1>1, <1>8
    <3>2. t[i] = b[i - (p + 1)]
      BY <2>2, <1>1, <1>3, <1>6, <1>7
    <3> QED BY <2>2, <3>1, <3>2, <1>1, <1>3
  <2> QED BY <2>1, <2>2, <1>1
<1> QED BY <1>7, <1>8, <1>9 DEF PutIn

(* The node at place p is left out. *)
LEMMA NodeOut ==
  ASSUME NEW s \in Seq(Node), NEW p \in 1..Len(s), NEW t, t = Lists!RemoveAt(s, p)
  PROVE  TakenOut(s, p, t)
<1> DEFINE a == SubSeq(s, 1, p - 1)
           b == SubSeq(s, p + 1, Len(s))
<1>1. Len(s) \in Nat /\ p \in Nat /\ p >= 1 /\ p <= Len(s)
  OBVIOUS
<1>2. a \in Seq(Node) /\ Len(a) = p - 1 /\ \A j \in 1..(p - 1) : a[j] = s[j]
  BY <1>1, SubSeqProperties
<1>3. b \in Seq(Node) /\ Len(b) = Len(s) - p /\ \A j \in 1..(Len(s) - p) : b[j] = s[p + j]
  BY <1>1, SubSeqProperties
<1>4. t = a \o b
  BY DEF Lists!RemoveAt
<1> HIDE DEF a, b
<1>5. /\ t \in Seq(Node) /\ Len(t) = Len(a) + Len(b)
      /\ \A j \in 1..(Len(a) + Len(b)) : t[j] = IF j <= Len(a) THEN a[j] ELSE b[j - Len(a)]
  <2>1. /\ a \o b \in Seq(Node) /\ Len(a \o b) = Len(a) + Len(b)
        /\ \A j \in 1..(Len(a) + Len(b)) : (a \o b)[j] = IF j <= Len(a) THEN a[j] ELSE b[j - Len(a)]
    BY <1>2, <1>3, ConcatProperties, Zenon
  <2> QED BY <1>4, <2>1, Zenon
<1>6. Len(t) = Len(s) - 1
  BY <1>1, <1>2, <1>3, <1>5
<1>7. \A i \in 1..Len(t) : t[i] = IF i < p THEN s[i] ELSE s[i + 1]
  <2> SUFFICES ASSUME NEW i \in 1..Len(t) PROVE t[i] = IF i < p THEN s[i] ELSE s[i + 1]
    OBVIOUS
  <2>1. CASE i < p
    BY <2>1, <1>1, <1>2, <1>3, <1>5
  <2>2. CASE i >= p
    <3>1. i - (p - 1) \in 1..(Len(s) - p) /\ p + (i - (p - 1)) = i + 1
      BY <2>2, <1>1, <1>6
    <3>2. t[i] = b[i - (p - 1)]
      BY <2>2, <1>1, <1>2, <1>3, <1>5
    <3> QED BY <2>2, <3>1, <3>2, <1>1, <1>3
  <2> QED BY <2>1, <2>2, <1>1
<1> QED BY <1>5, <1>6, <1>7 DEF TakenOut

(* A node that is in no list is no point of one.                           *)
LEMMA PtListed ==
  ASSUME NEW G \in [Queue -> Seq(Node)], NEW n \in Node, ~Listed(G, n),
         NEW k \in Queue, NEW i \in 0..(Len(G[k]) + 1)
  PROVE  Pt(k, G[k], i) \in Lists!Link /\ Pt(k, G[k], i) # n
<1>1. G[k] \in Seq(Node) /\ Len(G[k]) \in Nat
  OBVIOUS
<1>2. Lists!head(k) \notin Node /\ Lists!tail(k) \notin Node
  BY EndsDiffer
<1>3. /\ Pt(k, G[k], i) \in Lists!Link /\ (i \in 1..Len(G[k]) => Pt(k, G[k], i) = G[k][i])
      /\ (i = 0 => Pt(k, G[k], i) = Lists!head(k)) /\ (i = Len(G[k]) + 1 => Pt(k, G[k], i) = Lists!tail(k))
  BY <1>1, PtLink
<1>4. i = 0 \/ i \in 1..Len(G[k]) \/ i = Len(G[k]) + 1
  BY <1>1
<1> QED BY <1>2, <1>3, <1>4 DEF Listed

(* A free node gets between points p and p + 1 of list l.                  *)
LEMMA InsertLay ==
  ASSUME NEW nx, NEW pv, NEW G, Lay(nx, pv, G), NEW l \in Queue, NEW p \in 0..Len(G[l]),
         NEW n \in Node, ~Listed(G, n), NEW x, x = Pt(l, G[l], p), NEW y, y = Pt(l, G[l], p + 1),
         NEW t, t = Lists!InsertAt(G[l], p + 1, n),
         NEW nx2, nx2 = Both(nx, n, y, x, n), NEW pv2, pv2 = Both(pv, n, x, y, n)
  PROVE  Lay(nx2, pv2, [G EXCEPT ![l] = t])
<1> DEFINE s == G[l]
           H == [G EXCEPT ![l] = t]
<1>1. /\ nx \in Links /\ pv \in Links /\ G \in [Queue -> Seq(Node)] /\ OnceIn(G)
      /\ \A k \in Queue : Chain(nx, pv, k, G[k])
      /\ \A m \in Node : ~Listed(G, m) => nx[m] = NULL /\ pv[m] = NULL
  BY DEF Lay
<1>2. s \in Seq(Node) /\ Len(s) \in Nat /\ p \in Nat /\ p <= Len(s)
  BY <1>1
<1>3. /\ t \in Seq(Node) /\ Len(t) = Len(s) + 1
      /\ \A i \in 1..Len(t) : t[i] = IF i <= p THEN s[i] ELSE IF i = p + 1 THEN n ELSE s[i - 1]
  <2>1. PutIn(s, p, n, t)
    BY <1>2, NodeIn
  <2> QED BY <2>1 DEF PutIn
<1>4. H \in [Queue -> Seq(Node)] /\ H[l] = t /\ \A k \in Queue : k # l => H[k] = G[k]
  BY <1>1, <1>3
<1> HIDE DEF H, s
<1>5. \A k \in Queue : \A i \in 0..(Len(G[k]) + 1) : Pt(k, G[k], i) \in Lists!Link /\ Pt(k, G[k], i) # n
  BY <1>1, PtListed
<1>6. \A k \in Queue : \A i \in 0..(Len(G[k]) + 1) :
         /\ Pt(k, G[k], i) = x => k = l /\ i = p
         /\ Pt(k, G[k], i) = y => k = l /\ i = p + 1
  <2>1. p \in 0..(Len(G[l]) + 1) /\ p + 1 \in 0..(Len(G[l]) + 1)
    BY <1>2 DEF s
  <2> QED BY <1>1, <2>1, PtSame
<1>7. x \in Lists!Link /\ y \in Lists!Link /\ n \in Lists!Link /\ x # n /\ y # n /\ n # x /\ n # y
  <2>1. p \in 0..(Len(G[l]) + 1) /\ p + 1 \in 0..(Len(G[l]) + 1)
    BY <1>2 DEF s
  <2> QED BY <1>5, <2>1, NodeLinks
<1>70. x \in Lists!Link \cup {NULL} /\ y \in Lists!Link \cup {NULL} /\ n \in Lists!Link \cup {NULL}
  BY <1>7
<1>8. /\ nx2 \in Links /\ nx2[n] = y /\ nx2[x] = n /\ \A z \in Lists!Link : z # n /\ z # x => nx2[z] = nx[z]
  <2>1. TwoSet(nx, n, y, x, n, nx2)
    BY <1>1, <1>7, <1>70, BothAt
  <2> QED BY <2>1, Zenon DEF TwoSet
<1>9. /\ pv2 \in Links /\ pv2[n] = x /\ pv2[y] = n /\ \A z \in Lists!Link : z # n /\ z # y => pv2[z] = pv[z]
  <2>1. TwoSet(pv, n, x, y, n, pv2)
    BY <1>1, <1>7, <1>70, BothAt
  <2> QED BY <2>1, Zenon DEF TwoSet
<1>10. \A i \in 0..(Len(t) + 1) :
          Pt(l, t, i) = IF i <= p THEN Pt(l, s, i) ELSE IF i = p + 1 THEN n ELSE Pt(l, s, i - 1)
  BY <1>2, <1>3 DEF Pt
<1>11. \A k \in Queue : Chain(nx2, pv2, k, H[k])
  <2>1. ASSUME NEW k \in Queue, k # l PROVE Chain(nx2, pv2, k, H[k])
    <3> SUFFICES ASSUME NEW i \in 0..Len(G[k])
                 PROVE  nx2[Pt(k, G[k], i)] = Pt(k, G[k], i + 1) /\ pv2[Pt(k, G[k], i + 1)] = Pt(k, G[k], i)
      BY <1>4, <2>1 DEF Chain
    <3>1. Len(G[k]) \in Nat /\ i \in 0..(Len(G[k]) + 1) /\ i + 1 \in 0..(Len(G[k]) + 1)
      BY <1>1
    <3>2. nx[Pt(k, G[k], i)] = Pt(k, G[k], i + 1) /\ pv[Pt(k, G[k], i + 1)] = Pt(k, G[k], i)
      BY <1>1 DEF Chain
    <3> QED BY <2>1, <3>1, <3>2, <1>5, <1>6, <1>8, <1>9
  <2>2. Chain(nx2, pv2, l, t)
    <3> SUFFICES ASSUME NEW i \in 0..Len(t)
                 PROVE  nx2[Pt(l, t, i)] = Pt(l, t, i + 1) /\ pv2[Pt(l, t, i + 1)] = Pt(l, t, i)
      BY DEF Chain
    <3>1. \A j \in 0..Len(s) : nx[Pt(l, s, j)] = Pt(l, s, j + 1) /\ pv[Pt(l, s, j + 1)] = Pt(l, s, j)
      BY <1>1 DEF Chain, s
    <3>2. \A j \in 0..(Len(s) + 1) : /\ Pt(l, s, j) \in Lists!Link /\ Pt(l, s, j) # n
                                     /\ (Pt(l, s, j) = x => j = p) /\ (Pt(l, s, j) = y => j = p + 1)
      BY <1>5, <1>6 DEF s
    <3>3. x = Pt(l, s, p) /\ y = Pt(l, s, p + 1)
      BY DEF s
    <3>4. CASE i < p
      <4>1. i \in 0..Len(s) /\ i + 1 \in 0..(Len(s) + 1) /\ i + 1 <= p /\ i \in 0..(Len(s) + 1) /\ i # p /\ i + 1 # p + 1
        BY <3>4, <1>2
      <4>0. i \in 0..(Len(t) + 1) /\ i + 1 \in 0..(Len(t) + 1) /\ i <= p
        BY <3>4, <1>2, <1>3
      <4>2. Pt(l, t, i) = Pt(l, s, i) /\ Pt(l, t, i + 1) = Pt(l, s, i + 1)
        BY <4>0, <4>1, <1>10
      <4> QED BY <4>1, <4>2, <3>1, <3>2, <1>8, <1>9
    <3>5. CASE i = p
      <4>1. Pt(l, t, i) = x /\ Pt(l, t, i + 1) = n
        BY <3>5, <3>3, <1>2, <1>3, <1>10
      <4> QED BY <4>1, <1>8, <1>9
    <3>6. CASE i = p + 1
      <4>1. Pt(l, t, i) = n /\ Pt(l, t, i + 1) = y
        BY <3>6, <3>3, <1>2, <1>3, <1>10
      <4> QED BY <4>1, <1>8, <1>9
    <3>7. CASE i > p + 1
      <4>1. i - 1 \in 0..Len(s) /\ i - 1 \in 0..(Len(s) + 1) /\ i \in 0..(Len(s) + 1) /\ i - 1 # p /\ i # p + 1 /\ i - 1 + 1 = i
        BY <3>7, <1>2, <1>3
      <4>0. /\ i \in 0..(Len(t) + 1) /\ i + 1 \in 0..(Len(t) + 1) /\ ~(i <= p) /\ ~(i = p + 1)
            /\ ~(i + 1 <= p) /\ ~(i + 1 = p + 1) /\ i + 1 - 1 = i
        BY <3>7, <1>2, <1>3
      <4>2. Pt(l, t, i) = Pt(l, s, i - 1)
        BY <4>0, <1>10
      <4>3. Pt(l, t, i + 1) = Pt(l, s, i)
        BY <4>0, <1>10
      <4> QED BY <4>1, <4>2, <4>3, <3>1, <3>2, <1>8, <1>9
    <3> QED BY <3>4, <3>5, <3>6, <3>7, <1>2, <1>3
  <2> QED BY <2>1, <2>2, <1>4
<1>12. OnceIn(H)
  <2>1. \A i \in 1..Len(t) : t[i] # n => \E j \in 1..Len(s) : s[j] = t[i] /\ i = IF j <= p THEN j ELSE j + 1
    <3> SUFFICES ASSUME NEW i \in 1..Len(t), t[i] # n
                 PROVE  \E j \in 1..Len(s) : s[j] = t[i] /\ i = IF j <= p THEN j ELSE j + 1
      OBVIOUS
    <3>1. CASE i <= p
      BY <3>1, <1>2, <1>3
    <3>2. CASE i > p
      <4>1. i # p + 1
        BY <3>2, <1>2, <1>3
      <4> DEFINE h == i - 1
      <4>2. h \in 1..Len(s) /\ s[h] = t[i] /\ i = IF h <= p THEN h ELSE h + 1
        BY <3>2, <4>1, <1>2, <1>3
      <4> HIDE DEF h
      <4> QED BY <4>2
    <3>3. i <= p \/ i > p
      BY <1>2, <1>3
    <3> QED BY <3>1, <3>2, <3>3
  <2>2. \A k \in Queue : \A j \in 1..Len(G[k]) : G[k][j] # n
    BY DEF Listed
  <2>3. \A i \in 1..Len(t) : t[i] = n => i = p + 1
    <3> SUFFICES ASSUME NEW i \in 1..Len(t), i # p + 1 PROVE t[i] # n
      OBVIOUS
    <3>1. \E j \in 1..Len(s) : t[i] = s[j]
      <4>1. i <= p => i \in 1..Len(s) /\ t[i] = s[i]
        BY <1>2, <1>3
      <4>2. ~(i <= p) => i - 1 \in 1..Len(s) /\ t[i] = s[i - 1]
        BY <1>2, <1>3
      <4> QED BY <4>1, <4>2
    <3> QED BY <2>2, <3>1 DEF s
  <2>4. ASSUME NEW k \in Queue, NEW m \in Queue, NEW i \in 1..Len(H[k]), NEW j \in 1..Len(H[m]), H[k][i] = H[m][j]
        PROVE  k = m /\ i = j
    <3>1. CASE k # l /\ m # l
      BY <3>1, <2>4, <1>1, <1>4 DEF OnceIn
    <3>2. CASE k = l /\ m # l
      <4>1. t[i] # n /\ t[i] = G[m][j] /\ i \in 1..Len(t)
        BY <3>2, <2>2, <2>4, <1>4
      <4>2. PICK h \in 1..Len(s) : s[h] = t[i]
        BY <4>1, <2>1
      <4> QED BY <3>2, <4>1, <4>2, <1>1, <1>4, <2>4 DEF OnceIn, s
    <3>3. CASE k # l /\ m = l
      <4>1. t[j] # n /\ t[j] = G[k][i] /\ j \in 1..Len(t)
        BY <3>3, <2>2, <2>4, <1>4
      <4>2. PICK h \in 1..Len(s) : s[h] = t[j]
        BY <4>1, <2>1
      <4> QED BY <3>3, <4>1, <4>2, <1>1, <1>4, <2>4 DEF OnceIn, s
    <3>4. CASE k = l /\ m = l
      <4>1. t[i] = t[j] /\ i \in 1..Len(t) /\ j \in 1..Len(t)
        BY <3>4, <2>4, <1>4
      <4>2. CASE t[i] = n
        BY <3>4, <4>1, <4>2, <2>3
      <4>3. CASE t[i] # n
        <5>1. PICK g \in 1..Len(s) : s[g] = t[i] /\ i = IF g <= p THEN g ELSE g + 1
          BY <4>1, <4>3, <2>1
        <5>2. PICK h \in 1..Len(s) : s[h] = t[j] /\ j = IF h <= p THEN h ELSE h + 1
          BY <4>1, <4>3, <2>1
        <5>3. g = h
          BY <5>1, <5>2, <4>1, <1>1 DEF OnceIn, s
        <5> QED BY <5>1, <5>2, <5>3, <3>4
      <4> QED BY <4>2, <4>3
    <3> QED BY <3>1, <3>2, <3>3, <3>4
  <2> QED BY <2>4 DEF OnceIn
<1>13. \A m \in Node : ~Listed(H, m) => nx2[m] = NULL /\ pv2[m] = NULL
  <2> SUFFICES ASSUME NEW m \in Node, ~Listed(H, m) PROVE nx2[m] = NULL /\ pv2[m] = NULL
    OBVIOUS
  <2>1. p + 1 \in 1..Len(t) /\ t[p + 1] = n
    BY <1>2, <1>3
  <2>2. m # n
    BY <2>1, <1>4 DEF Listed
  <2>3. \A k \in Queue : \A i \in 1..Len(G[k]) : k # l => G[k][i] # m
    BY <1>4 DEF Listed
  <2>4. \A i \in 1..Len(s) : s[i] # m
    <3> SUFFICES ASSUME NEW i \in 1..Len(s) PROVE s[i] # m
      OBVIOUS
    <3> DEFINE j == IF i <= p THEN i ELSE i + 1
    <3>1. j \in 1..Len(t) /\ t[j] = s[i]
      BY <1>2, <1>3
    <3> HIDE DEF j
    <3> QED BY <3>1, <1>4 DEF Listed
  <2>5. ~Listed(G, m)
    BY <2>3, <2>4 DEF Listed, s
  <2>6. m \in Lists!Link /\ m # x /\ m # y
    <3>1. \A i \in 0..(Len(s) + 1) : Pt(l, s, i) # m
      BY <1>1, <2>5, PtListed DEF s
    <3>2. p \in 0..(Len(s) + 1) /\ p + 1 \in 0..(Len(s) + 1)
      BY <1>2
    <3> QED BY <3>1, <3>2, NodeLinks DEF s
  <2> QED BY <2>2, <2>5, <2>6, <1>1, <1>8, <1>9
<1> QED BY <1>4, <1>8, <1>9, <1>11, <1>12, <1>13 DEF Lay, H

(* The node at place p leaves list l.                                      *)
LEMMA RemoveLay ==
  ASSUME NEW nx, NEW pv, NEW G, Lay(nx, pv, G), NEW l \in Queue, NEW p \in 1..Len(G[l]),
         NEW n, n = G[l][p], NEW x, x = Pt(l, G[l], p - 1), NEW y, y = Pt(l, G[l], p + 1),
         NEW t, t = Lists!RemoveAt(G[l], p),
         NEW nx2, nx2 = Both(nx, x, y, n, NULL), NEW pv2, pv2 = Both(pv, y, x, n, NULL)
  PROVE  Lay(nx2, pv2, [G EXCEPT ![l] = t])
<1> DEFINE s == G[l]
           H == [G EXCEPT ![l] = t]
<1>1. /\ nx \in Links /\ pv \in Links /\ G \in [Queue -> Seq(Node)] /\ OnceIn(G)
      /\ \A k \in Queue : Chain(nx, pv, k, G[k])
      /\ \A m \in Node : ~Listed(G, m) => nx[m] = NULL /\ pv[m] = NULL
  BY DEF Lay
<1>2. s \in Seq(Node) /\ Len(s) \in Nat /\ p \in Nat /\ p >= 1 /\ p <= Len(s) /\ n \in Node
  BY <1>1
<1>3. /\ t \in Seq(Node) /\ Len(t) = Len(s) - 1
      /\ \A i \in 1..Len(t) : t[i] = IF i < p THEN s[i] ELSE s[i + 1]
  <2>1. TakenOut(s, p, t)
    BY <1>2, NodeOut
  <2> QED BY <2>1 DEF TakenOut
<1>4. H \in [Queue -> Seq(Node)] /\ H[l] = t /\ \A k \in Queue : k # l => H[k] = G[k]
  BY <1>1, <1>3
<1> HIDE DEF H, s
<1>5. \A k \in Queue : \A i \in 0..(Len(G[k]) + 1) : Pt(k, G[k], i) \in Lists!Link
  BY <1>1, PtLink
<1>50. /\ p \in 0..(Len(G[l]) + 1) /\ p + 1 \in 0..(Len(G[l]) + 1) /\ p - 1 \in 0..(Len(G[l]) + 1)
       /\ p \in 1..Len(G[l]) /\ G[l] \in Seq(Node)
  BY <1>2 DEF s
<1>51. n = Pt(l, G[l], p)
  BY <1>50, PtLink
<1>6. \A k \in Queue : \A i \in 0..(Len(G[k]) + 1) :
         /\ Pt(k, G[k], i) = x => k = l /\ i = p - 1
         /\ Pt(k, G[k], i) = n => k = l /\ i = p
         /\ Pt(k, G[k], i) = y => k = l /\ i = p + 1
  BY <1>1, <1>50, <1>51, PtSame
<1>7. x \in Lists!Link /\ y \in Lists!Link /\ n \in Lists!Link /\ x # n /\ y # n
  <2>1. p - 1 # p /\ p + 1 # p
    BY <1>2
  <2> QED BY <2>1, <1>5, <1>6, <1>50, <1>51
<1>70. x \in Lists!Link \cup {NULL} /\ y \in Lists!Link \cup {NULL} /\ NULL \in Lists!Link \cup {NULL}
  BY <1>7
<1>8. /\ nx2 \in Links /\ nx2[x] = y /\ nx2[n] = NULL /\ \A z \in Lists!Link : z # n /\ z # x => nx2[z] = nx[z]
  <2>1. TwoSet(nx, x, y, n, NULL, nx2)
    BY <1>1, <1>7, <1>70, BothAt
  <2> QED BY <2>1, Zenon DEF TwoSet
<1>9. /\ pv2 \in Links /\ pv2[y] = x /\ pv2[n] = NULL /\ \A z \in Lists!Link : z # n /\ z # y => pv2[z] = pv[z]
  <2>1. TwoSet(pv, y, x, n, NULL, pv2)
    BY <1>1, <1>7, <1>70, BothAt
  <2> QED BY <2>1, Zenon DEF TwoSet
<1>10. \A i \in 0..(Len(t) + 1) : Pt(l, t, i) = IF i < p THEN Pt(l, s, i) ELSE Pt(l, s, i + 1)
  BY <1>2, <1>3 DEF Pt
<1>11. \A k \in Queue : Chain(nx2, pv2, k, H[k])
  <2>1. ASSUME NEW k \in Queue, k # l PROVE Chain(nx2, pv2, k, H[k])
    <3> SUFFICES ASSUME NEW i \in 0..Len(G[k])
                 PROVE  nx2[Pt(k, G[k], i)] = Pt(k, G[k], i + 1) /\ pv2[Pt(k, G[k], i + 1)] = Pt(k, G[k], i)
      BY <1>4, <2>1 DEF Chain
    <3>1. Len(G[k]) \in Nat /\ i \in 0..(Len(G[k]) + 1) /\ i + 1 \in 0..(Len(G[k]) + 1)
      BY <1>1
    <3>2. nx[Pt(k, G[k], i)] = Pt(k, G[k], i + 1) /\ pv[Pt(k, G[k], i + 1)] = Pt(k, G[k], i)
      BY <1>1 DEF Chain
    <3> QED BY <2>1, <3>1, <3>2, <1>5, <1>6, <1>8, <1>9
  <2>2. Chain(nx2, pv2, l, t)
    <3> SUFFICES ASSUME NEW i \in 0..Len(t)
                 PROVE  nx2[Pt(l, t, i)] = Pt(l, t, i + 1) /\ pv2[Pt(l, t, i + 1)] = Pt(l, t, i)
      BY DEF Chain
    <3>1. \A j \in 0..Len(s) : nx[Pt(l, s, j)] = Pt(l, s, j + 1) /\ pv[Pt(l, s, j + 1)] = Pt(l, s, j)
      BY <1>1 DEF Chain, s
    <3>2. \A j \in 0..(Len(s) + 1) : /\ Pt(l, s, j) \in Lists!Link /\ (Pt(l, s, j) = n => j = p)
                                     /\ (Pt(l, s, j) = x => j = p - 1) /\ (Pt(l, s, j) = y => j = p + 1)
      BY <1>5, <1>6 DEF s
    <3>3. x = Pt(l, s, p - 1) /\ y = Pt(l, s, p + 1)
      BY DEF s
    <3>4. CASE i < p - 1
      <4>1. i \in 0..Len(s) /\ i + 1 \in 0..(Len(s) + 1) /\ i \in 0..(Len(s) + 1) /\ i # p - 1 /\ i + 1 # p + 1 /\ i # p /\ i + 1 # p
        BY <3>4, <1>2, <1>3
      <4>0. i \in 0..(Len(t) + 1) /\ i + 1 \in 0..(Len(t) + 1) /\ i < p /\ i + 1 < p
        BY <3>4, <1>2, <1>3
      <4>2. Pt(l, t, i) = Pt(l, s, i) /\ Pt(l, t, i + 1) = Pt(l, s, i + 1)
        BY <4>0, <1>10
      <4> QED BY <4>1, <4>2, <3>1, <3>2, <1>8, <1>9
    <3>5. CASE i = p - 1
      <4>0. i \in 0..(Len(t) + 1) /\ i + 1 \in 0..(Len(t) + 1) /\ i < p /\ ~(i + 1 < p) /\ i + 1 + 1 = p + 1
        BY <3>5, <1>2, <1>3
      <4>1. Pt(l, t, i) = x /\ Pt(l, t, i + 1) = y
        BY <4>0, <3>5, <3>3, <1>10
      <4> QED BY <4>1, <1>8, <1>9
    <3>6. CASE i >= p
      <4>1. i + 1 \in 0..Len(s) /\ i + 1 \in 0..(Len(s) + 1) /\ i + 2 \in 0..(Len(s) + 1) /\ i + 1 # p - 1 /\ i + 1 # p
            /\ i + 2 # p /\ i + 2 # p + 1 /\ i + 1 + 1 = i + 2
        BY <3>6, <1>2, <1>3
      <4>0. i \in 0..(Len(t) + 1) /\ i + 1 \in 0..(Len(t) + 1) /\ ~(i < p) /\ ~(i + 1 < p)
        BY <3>6, <1>2, <1>3
      <4>2. Pt(l, t, i) = Pt(l, s, i + 1)
        BY <4>0, <1>10
      <4>3. Pt(l, t, i + 1) = Pt(l, s, i + 2)
        BY <4>0, <4>1, <1>10
      <4> QED BY <4>1, <4>2, <4>3, <3>1, <3>2, <1>8, <1>9
    <3> QED BY <3>4, <3>5, <3>6, <1>2, <1>3
  <2> QED BY <2>1, <2>2, <1>4
<1>12. OnceIn(H)
  <2>1. ASSUME NEW k \in Queue, NEW i \in 1..Len(H[k])
        PROVE  \E j \in 1..Len(G[k]) : G[k][j] = H[k][i] /\ i = IF k = l /\ j >= p THEN j - 1 ELSE j
    <3>1. CASE k = l /\ i < p
      <4>1. i \in 1..Len(s) /\ s[i] = t[i] /\ ~(i >= p)
        BY <3>1, <2>1, <1>2, <1>3, <1>4
      <4> QED BY <4>1, <3>1, <1>4 DEF s
    <3>2. CASE k = l /\ i >= p
      <4> DEFINE h == i + 1
      <4>1. h \in 1..Len(s) /\ s[h] = t[i] /\ h >= p /\ i = h - 1
        BY <3>2, <2>1, <1>2, <1>3, <1>4
      <4> HIDE DEF h
      <4> QED BY <4>1, <3>2, <1>4 DEF s
    <3>3. CASE k # l
      BY <3>3, <2>1, <1>4
    <3>4. i >= p \/ i < p
      BY <1>2, <1>4
    <3> QED BY <3>1, <3>2, <3>3, <3>4
  <2>2. ASSUME NEW k \in Queue, NEW m \in Queue, NEW i \in 1..Len(H[k]), NEW j \in 1..Len(H[m]), H[k][i] = H[m][j]
        PROVE  k = m /\ i = j
    <3>1. PICK g \in 1..Len(G[k]) : G[k][g] = H[k][i] /\ i = IF k = l /\ g >= p THEN g - 1 ELSE g
      BY <2>1
    <3>2. PICK h \in 1..Len(G[m]) : G[m][h] = H[m][j] /\ j = IF m = l /\ h >= p THEN h - 1 ELSE h
      BY <2>1
    <3>3. k = m /\ g = h
      BY <3>1, <3>2, <2>2, <1>1 DEF OnceIn
    <3> QED BY <3>1, <3>2, <3>3
  <2> QED BY <2>2 DEF OnceIn
<1>13. \A m \in Node : ~Listed(H, m) => nx2[m] = NULL /\ pv2[m] = NULL
  <2> SUFFICES ASSUME NEW m \in Node, ~Listed(H, m), m # n PROVE nx2[m] = NULL /\ pv2[m] = NULL
    BY <1>8, <1>9
  <2>1. \A k \in Queue : \A i \in 1..Len(G[k]) : k # l => G[k][i] # m
    BY <1>4 DEF Listed
  <2>2. \A i \in 1..Len(s) : s[i] # m
    <3> SUFFICES ASSUME NEW i \in 1..Len(s), i # p PROVE s[i] # m
      BY DEF s
    <3> DEFINE j == IF i < p THEN i ELSE i - 1
    <3>1. j \in 1..Len(t) /\ t[j] = s[i]
      BY <1>2, <1>3
    <3> HIDE DEF j
    <3> QED BY <3>1, <1>4 DEF Listed
  <2>3. ~Listed(G, m)
    BY <2>1, <2>2 DEF Listed, s
  <2>4. m \in Lists!Link /\ m # x /\ m # y
    BY <1>1, <1>50, <2>3, PtListed, NodeLinks
  <2> QED BY <2>3, <2>4, <1>1, <1>8, <1>9
<1> QED BY <1>4, <1>8, <1>9, <1>11, <1>12, <1>13 DEF Lay, H

(* The loops along the links find the nodes of the lists, both ways.       *)
LEMMA LayForward ==
  ASSUME NEW nx, NEW pv, NEW G, Lay(nx, pv, G), NEW l \in Queue
  PROVE  /\ Lists!Along(nx, Lists!head(l), Lists!tail(l)) = G[l]
         /\ Lists!Along(pv, Lists!tail(l), Lists!head(l)) = Lists!Reverse(G[l])
<1> DEFINE s == G[l]
           b == Lists!Reverse(s)
<1>1. s \in Seq(Node) /\ Len(s) \in Nat /\ \A i, j \in 1..Len(s) : s[i] = s[j] => i = j
  BY DEF Lay, OnceIn
<1>2. \A i \in 0..Len(s) : nx[Pt(l, s, i)] = Pt(l, s, i + 1) /\ pv[Pt(l, s, i + 1)] = Pt(l, s, i)
  BY DEF Lay, Chain
<1>3. Lists!head(l) \notin Node /\ Lists!tail(l) \notin Node
  BY EndsDiffer
<1>4. /\ b \in Seq(Node) /\ Len(b) = Len(s) /\ \A i \in 1..Len(s) : b[i] = s[(Len(s) - i) + 1]
      /\ \A i, j \in 1..Len(b) : b[i] = b[j] => i = j
  <2>1. b = [i \in 1..Len(s) |-> s[(Len(s) - i) + 1]]
    BY DEF Lists!Reverse
  <2>2. \A i \in 1..Len(s) : (Len(s) - i) + 1 \in 1..Len(s)
    BY <1>1
  <2>3. b \in [1..Len(s) -> Node]
    BY <2>1, <2>2, <1>1
  <2>4. b \in Seq(Node) /\ Len(b) = Len(s)
    BY <2>3, <1>1
  <2> QED BY <2>1, <2>2, <2>4, <1>1
<1> HIDE DEF s, b
<1>5. (s = <<>> <=> Len(s) = 0) /\ (b = <<>> <=> Len(b) = 0)
  BY <1>1, <1>4
<1>6. Leads(nx, Lists!head(l), Lists!tail(l), s)
  <2>1. nx[Lists!head(l)] = IF s = <<>> THEN Lists!tail(l) ELSE s[1]
    BY <1>1, <1>2, <1>5 DEF Pt
  <2>2. \A i \in 1..Len(s) : nx[s[i]] = IF i = Len(s) THEN Lists!tail(l) ELSE s[i + 1]
    BY <1>1, <1>2 DEF Pt
  <2> QED BY <2>1, <2>2 DEF Leads
<1>7. Leads(pv, Lists!tail(l), Lists!head(l), b)
  <2>1. pv[Lists!tail(l)] = Pt(l, s, Len(s))
    <3>1. Len(s) \in 0..Len(s) /\ Pt(l, s, Len(s) + 1) = Lists!tail(l)
      BY <1>1 DEF Pt
    <3> QED BY <3>1, <1>2
  <2>2. pv[Lists!tail(l)] = IF b = <<>> THEN Lists!head(l) ELSE b[1]
    <3>1. CASE Len(s) = 0
      BY <3>1, <2>1, <1>4, <1>5 DEF Pt
    <3>2. CASE Len(s) # 0
      <4>1. 1 \in 1..Len(s) /\ (Len(s) - 1) + 1 = Len(s)
        BY <3>2, <1>1
      <4>2. b[1] = s[Len(s)] /\ Pt(l, s, Len(s)) = s[Len(s)]
        BY <3>2, <4>1, <1>4, <1>1 DEF Pt
      <4> QED BY <3>2, <4>2, <2>1, <1>4, <1>5
    <3> QED BY <3>1, <3>2
  <2>3. ASSUME NEW i \in 1..Len(b) PROVE pv[b[i]] = IF i = Len(b) THEN Lists!head(l) ELSE b[i + 1]
    <3> DEFINE j == (Len(s) - i) + 1
    <3>1. j \in 1..Len(s) /\ b[i] = s[j] /\ j - 1 \in 0..Len(s) /\ (j - 1) + 1 = j
      BY <2>3, <1>1, <1>4
    <3>2. i # Len(b) => j - 1 \in 1..Len(s) /\ b[i + 1] = s[j - 1]
      <4>1. i # Len(b) => i + 1 \in 1..Len(s) /\ (Len(s) - (i + 1)) + 1 = j - 1
        BY <1>1, <1>4
      <4> QED BY <4>1, <1>1, <1>4
    <3>3. i = Len(b) <=> j - 1 = 0
      BY <1>1, <1>4
    <3> HIDE DEF j
    <3>4. pv[Pt(l, s, j)] = Pt(l, s, j - 1)
      BY <3>1, <1>2
    <3>5. Pt(l, s, j) = s[j]
      BY <3>1, <1>1 DEF Pt
    <3>6. Pt(l, s, j - 1) = IF i = Len(b) THEN Lists!head(l) ELSE b[i + 1]
      BY <3>1, <3>2, <3>3, <1>1 DEF Pt
    <3> QED BY <3>1, <3>4, <3>5, <3>6
  <2> QED BY <2>2, <2>3 DEF Leads
<1>8. Lists!Along(nx, Lists!head(l), Lists!tail(l)) = s
  BY <1>1, <1>3, <1>6, AlongIs
<1>9. Lists!Along(pv, Lists!tail(l), Lists!head(l)) = b
  BY <1>3, <1>4, <1>7, AlongIs
<1> QED BY <1>8, <1>9 DEF s, b

(* Two sequences with the same elements are one. *)
LEMMA SameElements ==
  ASSUME NEW s \in Seq(Node), NEW t \in Seq(Node), Len(s) = Len(t), \A i \in 1..Len(s) : s[i] = t[i]
  PROVE  s = t
OBVIOUS

(* What is put in or taken out at the ends. *)
LEMMA AtEnds ==
  ASSUME NEW s \in Seq(Node), NEW n \in Node
  PROVE  /\ Lists!InsertAt(s, 1, n) = <<n>> \o s
         /\ Lists!InsertAt(s, Len(s) + 1, n) = Append(s, n)
         /\ Len(s) > 0 => Lists!RemoveAt(s, 1) = Tail(s) /\ Lists!RemoveAt(s, Len(s)) = Lists!Front(s)
<1>0. Len(s) \in Nat /\ \A i \in 1..Len(s) : s[i] \in Node
  OBVIOUS
<1>1. Lists!InsertAt(s, 1, n) = <<n>> \o s
  <2>1. ASSUME NEW t, t = Lists!InsertAt(s, 1, n) PROVE t = <<n>> \o s
    <3>1. 0 \in 0..Len(s) /\ 0 + 1 = 1
      BY <1>0
    <3>2. PutIn(s, 0, n, t)
      BY <2>1, <3>1, NodeIn
    <3>3. /\ <<n>> \o s \in Seq(Node) /\ Len(<<n>> \o s) = 1 + Len(s)
          /\ \A i \in 1..(1 + Len(s)) : (<<n>> \o s)[i] = IF i <= 1 THEN n ELSE s[i - 1]
      <4>1. <<n>> \in Seq(Node) /\ Len(<<n>>) = 1 /\ <<n>>[1] = n
        OBVIOUS
      <4>2. /\ <<n>> \o s \in Seq(Node) /\ Len(<<n>> \o s) = Len(<<n>>) + Len(s)
            /\ \A i \in 1..(Len(<<n>>) + Len(s)) :
                  (<<n>> \o s)[i] = IF i <= Len(<<n>>) THEN <<n>>[i] ELSE s[i - Len(<<n>>)]
        BY <4>1, ConcatProperties, Zenon
      <4> QED BY <1>0, <4>1, <4>2
    <3> DEFINE u == <<n>> \o s
    <3> HIDE DEF u
    <3>4. u \in Seq(Node) /\ Len(u) = 1 + Len(s) /\ \A i \in 1..Len(u) : u[i] = IF i <= 1 THEN n ELSE s[i - 1]
      BY <3>3 DEF u
    <3>7. t \in Seq(Node) /\ Len(t) = Len(s) + 1
      BY <3>2 DEF PutIn
    <3>8. \A i \in 1..(Len(s) + 1) : t[i] = IF i <= 0 THEN s[i] ELSE IF i = 0 + 1 THEN n ELSE s[i - 1]
      BY <3>2, <3>7 DEF PutIn
    <3>5. Len(t) = Len(u) /\ \A i \in 1..Len(t) : t[i] = u[i]
      <4>1. Len(t) = Len(u)
        BY <1>0, <3>4, <3>7
      <4>2. ASSUME NEW i \in 1..(Len(s) + 1) PROVE t[i] = u[i]
        <5>1. i \in 1..Len(u) /\ ~(i <= 0) /\ (i <= 1 <=> i = 0 + 1)
          BY <1>0, <3>4
        <5> QED BY <5>1, <3>4, <3>8
      <4> QED BY <4>1, <4>2, <3>7
    <3>6. t = u
      BY <3>4, <3>5, <3>7, SameElements
    <3> QED BY <3>6 DEF u
  <2> QED BY <2>1
<1>2. Lists!InsertAt(s, Len(s) + 1, n) = Append(s, n)
  <2>1. ASSUME NEW t, t = Lists!InsertAt(s, Len(s) + 1, n) PROVE t = Append(s, n)
    <3>1. Len(s) \in 0..Len(s)
      BY <1>0
    <3>2. PutIn(s, Len(s), n, t)
      BY <2>1, <3>1, NodeIn
    <3>3. /\ Append(s, n) \in Seq(Node) /\ Len(Append(s, n)) = Len(s) + 1
          /\ \A i \in 1..(Len(s) + 1) : Append(s, n)[i] = IF i <= Len(s) THEN s[i] ELSE n
      BY <1>0
    <3>4. \A i \in 1..(Len(s) + 1) : t[i] = Append(s, n)[i]
      BY <1>0, <3>2, <3>3 DEF PutIn
    <3> QED BY <3>2, <3>3, <3>4, SameElements DEF PutIn
  <2> QED BY <2>1
<1>3. Len(s) > 0 => Lists!RemoveAt(s, 1) = Tail(s)
  <2>1. ASSUME Len(s) > 0, NEW t, t = Lists!RemoveAt(s, 1) PROVE t = Tail(s)
    <3>1. 1 \in 1..Len(s)
      BY <2>1, <1>0
    <3>2. TakenOut(s, 1, t)
      BY <2>1, <3>1, NodeOut
    <3>3. /\ Tail(s) \in Seq(Node) /\ Len(Tail(s)) = Len(s) - 1
          /\ \A i \in 1..(Len(s) - 1) : Tail(s)[i] = s[i + 1]
      BY <2>1, <1>0
    <3>4. \A i \in 1..(Len(s) - 1) : t[i] = Tail(s)[i]
      BY <1>0, <3>2, <3>3 DEF TakenOut
    <3> QED BY <3>2, <3>3, <3>4, SameElements DEF TakenOut
  <2> QED BY <2>1
<1>4. Len(s) > 0 => Lists!RemoveAt(s, Len(s)) = Lists!Front(s)
  <2>1. ASSUME Len(s) > 0, NEW t, t = Lists!RemoveAt(s, Len(s)), NEW u, u = Lists!Front(s) PROVE t = u
    <3>1. Len(s) \in 1..Len(s)
      BY <2>1, <1>0
    <3>2. TakenOut(s, Len(s), t)
      BY <2>1, <3>1, NodeOut
    <3>3. u = SubSeq(s, 1, Len(s) - 1)
      BY <2>1 DEF Lists!Front
    <3> DEFINE p == Len(s) - 1
    <3>6. p \in Nat /\ p <= Len(s) /\ \A i \in 1..p : i < Len(s)
      BY <2>1, <1>0
    <3>7. u = SubSeq(s, 1, p)
      BY <3>3
    <3> HIDE DEF p
    <3>4. u \in Seq(Node) /\ Len(u) = p /\ \A i \in 1..p : u[i] = s[i]
      BY <3>6, <3>7, <1>0, SubSeqProperties
    <3>8. Len(t) = p
      BY <3>2 DEF TakenOut, p
    <3>5. \A i \in 1..p : t[i] = u[i]
      BY <3>2, <3>4, <3>6, <3>8 DEF TakenOut
    <3> QED BY <3>2, <3>4, <3>5, <3>8, SameElements DEF TakenOut
  <2> QED BY <2>1
<1> QED BY <1>1, <1>2, <1>3, <1>4

(* The links of a node tell whether it is in a list.                       *)
LEMMA FreeListed ==
  ASSUME NEW nx, NEW pv, NEW G, Lay(nx, pv, G), NEW n \in Node
  PROVE  /\ ~Listed(G, n) <=> nx[n] = NULL
         /\ ~Listed(G, n) <=> pv[n] = NULL
<1>1. ASSUME Listed(G, n) PROVE nx[n] # NULL /\ pv[n] # NULL
  <2>1. PICK l \in Queue : \E i \in 1..Len(G[l]) : G[l][i] = n
    BY <1>1 DEF Listed
  <2>2. PICK i \in 1..Len(G[l]) : G[l][i] = n
    BY <2>1
  <2>3. G[l] \in Seq(Node) /\ Len(G[l]) \in Nat /\ Chain(nx, pv, l, G[l])
    BY DEF Lay
  <2>4. /\ i \in 0..Len(G[l]) /\ i - 1 \in 0..Len(G[l]) /\ (i - 1) + 1 = i
        /\ i + 1 \in 0..(Len(G[l]) + 1) /\ i - 1 \in 0..(Len(G[l]) + 1) /\ i \in 0..(Len(G[l]) + 1)
    BY <2>3
  <2>5. Pt(l, G[l], i) = n /\ Pt(l, G[l], i + 1) \in Lists!Link /\ Pt(l, G[l], i - 1) \in Lists!Link
    BY <2>2, <2>3, <2>4, PtLink
  <2>6. nx[n] = Pt(l, G[l], i + 1) /\ pv[n] = Pt(l, G[l], i - 1)
    BY <2>3, <2>4, <2>5 DEF Chain
  <2> QED BY <2>5, <2>6, NodeLinks
<1> QED BY <1>1 DEF Lay

(* In front of point p + 1 a node is inserted. *)
LEMMA InsertBefore ==
  ASSUME NEW G, Lay(next, prev, G), NEW l \in Queue, NEW p \in 0..Len(G[l]), NEW n \in Node, ~Listed(G, n),
         Lists!list_insert_before(Pt(l, G[l], p + 1), n)
  PROVE  Lay(next', prev', [G EXCEPT ![l] = Lists!InsertAt(G[l], p + 1, n)])
<1> DEFINE x == Pt(l, G[l], p)
           y == Pt(l, G[l], p + 1)
<1>1. prev[y] = x
  BY DEF Lay, Chain
<1>2. next' = Both(next, n, y, prev[y], n) /\ prev' = Both(prev, n, prev[y], y, n)
  BY Zenon DEF Lists!list_insert_before, Both
<1>3. next' = Both(next, n, y, x, n) /\ prev' = Both(prev, n, x, y, n)
  BY <1>1, <1>2
<1> QED BY <1>3, InsertLay

(* The same behind a point. *)
LEMMA InsertAfter ==
  ASSUME NEW G, Lay(next, prev, G), NEW l \in Queue, NEW p \in 0..Len(G[l]), NEW n \in Node, ~Listed(G, n),
         Lists!list_insert_after(Pt(l, G[l], p), n)
  PROVE  Lay(next', prev', [G EXCEPT ![l] = Lists!InsertAt(G[l], p + 1, n)])
<1> DEFINE x == Pt(l, G[l], p)
           y == Pt(l, G[l], p + 1)
<1>1. next[x] = y
  BY DEF Lay, Chain
<1>2. next' = Both(next, n, next[x], x, n) /\ prev' = Both(prev, n, x, next[x], n)
  BY Zenon DEF Lists!list_insert_after, Both
<1>3. next' = Both(next, n, y, x, n) /\ prev' = Both(prev, n, x, y, n)
  BY <1>1, <1>2
<1> QED BY <1>3, InsertLay

(* The node at place p is removed.                                         *)
LEMMA RemoveNode ==
  ASSUME NEW G, Lay(next, prev, G), NEW l \in Queue, NEW p \in 1..Len(G[l]), Lists!list_remove(G[l][p])
  PROVE  Lay(next', prev', [G EXCEPT ![l] = Lists!RemoveAt(G[l], p)])
<1> DEFINE n == G[l][p]
           x == Pt(l, G[l], p - 1)
           y == Pt(l, G[l], p + 1)
<1>1. next[n] = y /\ prev[n] = x
  <2>1. G[l] \in Seq(Node) /\ Len(G[l]) \in Nat /\ Chain(next, prev, l, G[l])
    BY DEF Lay
  <2>2. p \in 0..Len(G[l]) /\ p - 1 \in 0..Len(G[l]) /\ (p - 1) + 1 = p /\ p \in 0..(Len(G[l]) + 1)
    BY <2>1
  <2>3. Pt(l, G[l], p) = n
    BY <2>1, <2>2, PtLink
  <2> QED BY <2>1, <2>2, <2>3 DEF Chain
<1>2. next' = Both(next, prev[n], next[n], n, NULL) /\ prev' = Both(prev, next[n], prev[n], n, NULL)
  BY Zenon DEF Lists!list_remove, Both
<1>3. next' = Both(next, x, y, n, NULL) /\ prev' = Both(prev, y, x, n, NULL)
  BY <1>1, <1>2
<1> QED BY <1>3, RemoveLay

(* What the first and the last links of a list tell. *)
LEMMA EndLinks ==
  ASSUME NEW G, Lay(next, prev, G), NEW l \in Queue
  PROVE  /\ G[l] \in Seq(Node) /\ Len(G[l]) \in Nat
         /\ Lists!list_empty(l) <=> Len(G[l]) = 0
         /\ Len(G[l]) > 0 => next[Lists!head(l)] = G[l][1] /\ prev[Lists!tail(l)] = G[l][Len(G[l])]
<1> DEFINE s == G[l]
<1>1. s \in Seq(Node) /\ Len(s) \in Nat /\ Chain(next, prev, l, s)
  BY DEF Lay
<1>2. Lists!head(l) \notin Node /\ Lists!tail(l) \notin Node
  BY EndsDiffer
<1> HIDE DEF s
<1>3. next[Pt(l, s, 0)] = Pt(l, s, 1) /\ prev[Pt(l, s, Len(s) + 1)] = Pt(l, s, Len(s))
  <2>1. 0 \in 0..Len(s) /\ Len(s) \in 0..Len(s) /\ 0 + 1 = 1
    BY <1>1
  <2> QED BY <2>1, <1>1 DEF Chain
<1>4. Pt(l, s, 0) = Lists!head(l) /\ Pt(l, s, Len(s) + 1) = Lists!tail(l)
  BY <1>1 DEF Pt
<1>5. CASE Len(s) = 0
  <2>1. Pt(l, s, 1) = Lists!tail(l) /\ Pt(l, s, Len(s)) = Lists!head(l)
    BY <1>5, <1>4
  <2> QED BY <2>1, <1>1, <1>3, <1>4, <1>5 DEF Lists!list_empty, s
<1>6. CASE Len(s) > 0
  <2>1. Pt(l, s, 1) = s[1] /\ Pt(l, s, Len(s)) = s[Len(s)] /\ s[1] \in Node
    BY <1>1, <1>6 DEF Pt
  <2> QED BY <2>1, <1>1, <1>2, <1>3, <1>4, <1>6 DEF Lists!list_empty, s
<1> QED BY <1>1, <1>5, <1>6

(* Each call does to the sequences what its name says: here the node       *)
(* becomes the first one.                                                  *)
LEMMA PushFront ==
  ASSUME NEW G, Lay(next, prev, G), NEW l \in Queue, NEW n \in Node, Lists!list_push_front(l, n)
  PROVE  Lay(next', prev', [G EXCEPT ![l] = <<n>> \o G[l]])
<1>1. G[l] \in Seq(Node) /\ Len(G[l]) \in Nat
  BY EndLinks
<1>2. ~Listed(G, n)
  BY FreeListed DEF Lists!list_push_front, Lists!NodeFree
<1>3. 0 \in 0..Len(G[l]) /\ 0 + 1 = 1 /\ Pt(l, G[l], 0) = Lists!head(l)
  BY <1>1 DEF Pt
<1>4. Lists!list_insert_after(Pt(l, G[l], 0), n)
  BY <1>3 DEF Lists!list_push_front
<1>5. Lay(next', prev', [G EXCEPT ![l] = Lists!InsertAt(G[l], 0 + 1, n)])
  BY <1>2, <1>3, <1>4, InsertAfter
<1>6. Lists!InsertAt(G[l], 1, n) = <<n>> \o G[l]
  BY <1>1, AtEnds
<1> QED BY <1>3, <1>5, <1>6

(* The node becomes the last one. *)
LEMMA PushBack ==
  ASSUME NEW G, Lay(next, prev, G), NEW l \in Queue, NEW n \in Node, Lists!list_push_back(l, n)
  PROVE  Lay(next', prev', [G EXCEPT ![l] = Append(G[l], n)])
<1>1. G[l] \in Seq(Node) /\ Len(G[l]) \in Nat
  BY EndLinks
<1>2. ~Listed(G, n)
  BY FreeListed DEF Lists!list_push_back, Lists!NodeFree
<1>3. Len(G[l]) \in 0..Len(G[l]) /\ Pt(l, G[l], Len(G[l]) + 1) = Lists!tail(l)
  BY <1>1 DEF Pt
<1>4. Lists!list_insert_before(Pt(l, G[l], Len(G[l]) + 1), n)
  BY <1>3 DEF Lists!list_push_back
<1>5. Lay(next', prev', [G EXCEPT ![l] = Lists!InsertAt(G[l], Len(G[l]) + 1, n)])
  BY <1>2, <1>3, <1>4, InsertBefore
<1>6. Lists!InsertAt(G[l], Len(G[l]) + 1, n) = Append(G[l], n)
  BY <1>1, AtEnds
<1> QED BY <1>5, <1>6

(* The first node leaves. *)
LEMMA PopFront ==
  ASSUME NEW G, Lay(next, prev, G), NEW l \in Queue, Lists!list_pop_front(l)
  PROVE  Lay(next', prev', [G EXCEPT ![l] = Tail(G[l])])
<1>1. /\ G[l] \in Seq(Node) /\ Len(G[l]) \in Nat /\ Len(G[l]) > 0
      /\ next[Lists!head(l)] = G[l][1]
  <2>1. Len(G[l]) # 0
    BY EndLinks DEF Lists!list_pop_front
  <2> QED BY <2>1, EndLinks
<1>2. 1 \in 1..Len(G[l]) /\ G[l][1] \in Node
  BY <1>1
<1>3. Lists!list_remove(G[l][1])
  BY <1>1 DEF Lists!list_pop_front
<1>4. Lay(next', prev', [G EXCEPT ![l] = Lists!RemoveAt(G[l], 1)])
  BY <1>2, <1>3, RemoveNode
<1>5. Lists!RemoveAt(G[l], 1) = Tail(G[l])
  BY <1>1, <1>2, AtEnds
<1> QED BY <1>4, <1>5

(* The last node leaves. *)
LEMMA PopBack ==
  ASSUME NEW G, Lay(next, prev, G), NEW l \in Queue, Lists!list_pop_back(l)
  PROVE  Lay(next', prev', [G EXCEPT ![l] = Lists!Front(G[l])])
<1>1. /\ G[l] \in Seq(Node) /\ Len(G[l]) \in Nat /\ Len(G[l]) > 0
      /\ prev[Lists!tail(l)] = G[l][Len(G[l])]
  <2>1. Len(G[l]) # 0
    BY EndLinks DEF Lists!list_pop_back
  <2> QED BY <2>1, EndLinks
<1>2. Len(G[l]) \in 1..Len(G[l]) /\ G[l][Len(G[l])] \in Node
  BY <1>1
<1>3. Lists!list_remove(G[l][Len(G[l])])
  BY <1>1 DEF Lists!list_pop_back
<1>4. Lay(next', prev', [G EXCEPT ![l] = Lists!RemoveAt(G[l], Len(G[l]))])
  BY <1>2, <1>3, RemoveNode
<1>5. Lists!RemoveAt(G[l], Len(G[l])) = Lists!Front(G[l])
  BY <1>1, <1>2, AtEnds
<1> QED BY <1>4, <1>5

(* A node that is removed was at one place of one list. *)
LEMMA Removal ==
  ASSUME NEW G, Lay(next, prev, G), NEW n \in Node, Lists!list_remove(n)
  PROVE  \E l \in Queue : \E p \in 1..Len(G[l]) :
            G[l][p] = n /\ Lay(next', prev', [G EXCEPT ![l] = Lists!RemoveAt(G[l], p)])
<1>1. Listed(G, n)
  BY FreeListed DEF Lists!list_remove
<1>2. PICK l \in Queue : \E p \in 1..Len(G[l]) : G[l][p] = n
  BY <1>1 DEF Listed
<1>3. PICK p \in 1..Len(G[l]) : G[l][p] = n
  BY <1>2
<1>4. Lay(next', prev', [G EXCEPT ![l] = Lists!RemoveAt(G[l], p)])
  BY <1>3, RemoveNode
<1> QED BY <1>3, <1>4

(* A node goes before the first one that is not less. *)
LEMMA InsertSort ==
  ASSUME NEW G, Lay(next, prev, G), NEW l \in Queue, NEW n \in Node, Lists!list_insert_sort(l, n)
  PROVE  \E i \in 1..(Len(G[l]) + 1) :
            /\ Lay(next', prev', [G EXCEPT ![l] = Lists!InsertAt(G[l], i, n)])
            /\ \A j \in 1..(i - 1) : key[G[l][j]] < key[n]
            /\ i <= Len(G[l]) => key[G[l][i]] >= key[n]
<1> DEFINE s == G[l]
           R == {i \in DOMAIN s : key[s[i]] >= key[n]}
<1>1. s \in Seq(Node) /\ Len(s) \in Nat /\ DOMAIN s = 1..Len(s) /\ \A i \in 1..Len(s) : s[i] \in Node
  BY EndLinks
<1>2. ~Listed(G, n)
  BY FreeListed DEF Lists!list_insert_sort, Lists!NodeFree
<1>3. Lists!Forward(l) = s
  BY LayForward DEF Lists!Forward
<1>4. key[n] \in Int /\ \A i \in 1..Len(s) : key[s[i]] \in Int
  BY <1>1, ListAssumption
<1>5. Lists!Anchor(l, n) = IF R = {} THEN Lists!tail(l) ELSE s[Lists!Min(R)]
  BY <1>3 DEF Lists!Anchor
<1>6. Lists!list_insert_before(Lists!Anchor(l, n), n)
  BY DEF Lists!list_insert_sort
<1> HIDE DEF s, R
<1>7. \E p \in 0..Len(s) : /\ Lists!Anchor(l, n) = Pt(l, s, p + 1)
                           /\ \A j \in 1..p : ~(j \in R)
                           /\ p + 1 <= Len(s) => p + 1 \in R
  <2>1. CASE R = {}
    <3>1. Lists!Anchor(l, n) = Pt(l, s, Len(s) + 1)
      BY <2>1, <1>1, <1>5 DEF Pt
    <3>2. Len(s) \in 0..Len(s) /\ ~(Len(s) + 1 <= Len(s))
      BY <1>1
    <3> QED BY <2>1, <3>1, <3>2
  <2>2. CASE R # {}
    <3>1. R \subseteq 1..Len(s)
      BY <1>1 DEF R
    <3>2. R \subseteq Nat
      BY <3>1
    <3>3. \E i \in R : \A j \in R : i <= j
      BY <2>2, <3>2, LeastOne
    <3> DEFINE m == Lists!Min(R)
    <3>4. m \in R /\ \A j \in R : m <= j
      BY <3>3, Zenon DEF Lists!Min
    <3> HIDE DEF m
    <3>5. m \in 1..Len(s) /\ Lists!Anchor(l, n) = s[m]
      BY <2>2, <3>1, <3>4, <1>5 DEF m
    <3> DEFINE p == m - 1
    <3>6. p \in 0..Len(s) /\ p + 1 = m
      BY <3>5, <1>1
    <3>7. Pt(l, s, m) = s[m]
      BY <3>5, <1>1 DEF Pt
    <3>8. \A j \in 1..p : ~(j \in R)
      <4> SUFFICES ASSUME NEW j \in 1..p, j \in R PROVE FALSE
        OBVIOUS
      <4>1. m <= j /\ j <= m - 1 /\ m \in Nat /\ j \in Nat
        BY <3>4, <3>5
      <4> QED BY <4>1
    <3> HIDE DEF p
    <3> QED BY <3>4, <3>5, <3>6, <3>7, <3>8
  <2> QED BY <2>1, <2>2
<1>8. PICK p \in 0..Len(s) : /\ Lists!Anchor(l, n) = Pt(l, s, p + 1)
                             /\ \A j \in 1..p : ~(j \in R)
                             /\ p + 1 <= Len(s) => p + 1 \in R
  BY <1>7
<1> DEFINE i == p + 1
<1>9. Lay(next', prev', [G EXCEPT ![l] = Lists!InsertAt(s, i, n)])
  BY <1>2, <1>6, <1>8, InsertBefore DEF s
<1>10. i \in 1..(Len(s) + 1)
  BY <1>1
<1>11. \A j \in 1..(i - 1) : key[s[j]] < key[n]
  <2> SUFFICES ASSUME NEW j \in 1..(i - 1) PROVE key[s[j]] < key[n]
    OBVIOUS
  <2>1. j \in 1..p /\ j \in 1..Len(s)
    BY <1>1
  <2>2. ~(key[s[j]] >= key[n])
    BY <2>1, <1>1, <1>8 DEF R
  <2> QED BY <2>1, <2>2, <1>4
<1>12. i <= Len(s) => key[s[i]] >= key[n]
  BY <1>8 DEF R
<1> HIDE DEF i
<1> QED BY <1>9, <1>10, <1>11, <1>12 DEF s

(* list_init makes empty lists. *)
LEMMA ListsStart == Lists!Init => LinksInv
<1> SUFFICES ASSUME Lists!Init PROVE LinksInv
  OBVIOUS
<1> DEFINE G == [l \in Queue |-> <<>>]
<1>1. next = [x \in Lists!Link |-> IF \E l \in Queue : x = Lists!head(l) THEN Lists!tail(x[1]) ELSE NULL]
  BY Zenon DEF Lists!Init
<1>2. prev = [x \in Lists!Link |-> IF \E l \in Queue : x = Lists!tail(l) THEN Lists!head(x[1]) ELSE NULL]
  BY Zenon DEF Lists!Init
<1>3. \A l \in Queue : Lists!head(l)[1] = l /\ Lists!tail(l)[1] = l
  BY DEF Lists!head, Lists!tail
<1>4. \A x \in Lists!Link : /\ \A l \in Queue : x = Lists!head(l) => next[x] = Lists!tail(l)
                            /\ ~(\E l \in Queue : x = Lists!head(l)) => next[x] = NULL
  BY <1>1, <1>3
<1>5. \A x \in Lists!Link : /\ \A l \in Queue : x = Lists!tail(l) => prev[x] = Lists!head(l)
                            /\ ~(\E l \in Queue : x = Lists!tail(l)) => prev[x] = NULL
  BY <1>2, <1>3
<1>6. /\ \A l \in Queue : Lists!head(l) \in Lists!Link /\ Lists!tail(l) \in Lists!Link
      /\ \A l \in Queue : Lists!head(l) \notin Node /\ Lists!tail(l) \notin Node
  BY EndsDiffer
<1>7. next \in Links
  <2>1. DOMAIN next = Lists!Link /\ next = [x \in Lists!Link |-> next[x]]
    BY <1>1
  <2>2. \A x \in Lists!Link : next[x] \in Lists!Link \cup {NULL}
    BY <1>4, <1>6
  <2> QED BY <2>1, <2>2 DEF Links
<1>8. prev \in Links
  <2>1. DOMAIN prev = Lists!Link /\ prev = [x \in Lists!Link |-> prev[x]]
    BY <1>2
  <2>2. \A x \in Lists!Link : prev[x] \in Lists!Link \cup {NULL}
    BY <1>5, <1>6
  <2> QED BY <2>1, <2>2 DEF Links
<1>9. G \in [Queue -> Seq(Node)] /\ \A l \in Queue : G[l] = <<>> /\ Len(G[l]) = 0
  OBVIOUS
<1> HIDE DEF G
<1>10. ASSUME NEW l \in Queue PROVE Chain(next, prev, l, G[l])
  <2>1. Pt(l, G[l], 0) = Lists!head(l) /\ Pt(l, G[l], 0 + 1) = Lists!tail(l)
    BY <1>9 DEF Pt
  <2>2. next[Lists!head(l)] = Lists!tail(l) /\ prev[Lists!tail(l)] = Lists!head(l)
    BY <1>4, <1>5, <1>6
  <2>3. \A i \in 0..Len(G[l]) : i = 0
    BY <1>9
  <2> QED BY <2>1, <2>2, <2>3 DEF Chain
<1>11. OnceIn(G)
  BY <1>9 DEF OnceIn
<1>12. \A n \in Node : next[n] = NULL /\ prev[n] = NULL
  BY <1>4, <1>5, <1>6, NodeLinks
<1>13. Lay(next, prev, G)
  BY <1>7, <1>8, <1>9, <1>10, <1>11, <1>12 DEF Lay
<1> QED BY <1>13 DEF LinksInv

(* The links are the ones of lists after every step. *)
LEMMA ListsStep == LinksInv /\ [Next]_vars => LinksInv'
<1> SUFFICES ASSUME LinksInv, [Next]_vars PROVE LinksInv'
  OBVIOUS
<1>1. PICK G : Lay(next, prev, G)
  BY DEF LinksInv
<1>2. ASSUME NEW H, Lay(next', prev', H) PROVE LinksInv'
  BY <1>2 DEF LinksInv
<1>3. CASE UNCHANGED list
  <2>1. Lay(next', prev', G)
    BY <1>1, <1>3 DEF list
  <2> QED BY <2>1, <1>2
<1>4. ASSUME NEW l \in Queue, NEW n \in Node,
             Lists!list_push_front(l, n) \/ Lists!list_push_back(l, n) \/ Lists!list_insert_sort(l, n)
      PROVE  LinksInv'
  BY <1>1, <1>2, <1>4, PushFront, PushBack, InsertSort
<1>5. ASSUME NEW l \in Queue, Lists!list_pop_front(l) \/ Lists!list_pop_back(l) PROVE LinksInv'
  BY <1>1, <1>2, <1>5, PopFront, PopBack
<1>6. ASSUME NEW n \in Node, Lists!list_remove(n) PROVE LinksInv'
  BY <1>1, <1>2, <1>6, Removal
<1>7. Lists!Next \/ UNCHANGED list
  BY DEF Next, vars
<1> QED BY <1>3, <1>4, <1>5, <1>6, <1>7 DEF Lists!Next

(* Whichever calls lists go through, the links are the ones of sequences.  *)
THEOREM LinksInvariance == Spec => []LinksInv
<1>1. Init => LinksInv
  BY ListsStart DEF Init
<1> QED BY <1>1, ListsStep, PTL DEF Spec

(* Where the links of a node lead, its own list and no other tells.        *)
LEMMA Neighbours ==
  ASSUME NEW G, Lay(next, prev, G), NEW l \in Queue, NEW n \in Node
  PROVE  /\ prev[n] = Lists!head(l) <=> Len(G[l]) > 0 /\ G[l][1] = n
         /\ next[n] = Lists!tail(l) <=> Len(G[l]) > 0 /\ G[l][Len(G[l])] = n
<1> DEFINE s == G[l]
<1>1. s \in Seq(Node) /\ Len(s) \in Nat /\ G \in [Queue -> Seq(Node)] /\ OnceIn(G)
  BY DEF Lay
<1>2. Lists!head(l) \in Lists!Link /\ Lists!tail(l) \in Lists!Link
  BY EndsDiffer
<1>3. Lists!head(l) = Pt(l, s, 0) /\ Lists!tail(l) = Pt(l, s, Len(s) + 1)
  BY <1>1 DEF Pt
<1>4. CASE ~Listed(G, n)
  <2>1. next[n] = NULL /\ prev[n] = NULL
    BY <1>4 DEF Lay
  <2>2. \A i \in 1..Len(s) : s[i] # n
    BY <1>4 DEF Listed
  <2>3. Len(s) > 0 => 1 \in 1..Len(s) /\ Len(s) \in 1..Len(s)
    BY <1>1
  <2> QED BY <2>1, <2>2, <2>3, <1>2, NodeLinks
<1>5. CASE Listed(G, n)
  <2>1. PICK k \in Queue : \E i \in 1..Len(G[k]) : G[k][i] = n
    BY <1>5 DEF Listed
  <2>2. PICK i \in 1..Len(G[k]) : G[k][i] = n
    BY <2>1
  <2> DEFINE r == G[k]
  <2>3. r \in Seq(Node) /\ Len(r) \in Nat /\ Chain(next, prev, k, r)
    BY DEF Lay
  <2>4. /\ i \in 0..Len(r) /\ i - 1 \in 0..Len(r) /\ (i - 1) + 1 = i
        /\ i + 1 \in 0..(Len(r) + 1) /\ i - 1 \in 0..(Len(r) + 1) /\ i \in 0..(Len(r) + 1)
    BY <2>3
  <2>5. Pt(k, r, i) = n
    BY <2>2, <2>3, <2>4, PtLink
  <2>6. next[n] = Pt(k, r, i + 1) /\ prev[n] = Pt(k, r, i - 1)
    BY <2>3, <2>4, <2>5 DEF Chain
  <2>7. prev[n] = Lists!head(l) <=> k = l /\ i = 1
    <3>1. 0 \in 0..(Len(s) + 1)
      BY <1>1
    <3>2. Pt(k, r, i - 1) = Pt(l, s, 0) => k = l /\ i - 1 = 0
      BY <3>1, <2>4, <1>1, PtSame
    <3>3. i - 1 = 0 <=> i = 1
      BY <2>4
    <3> QED BY <3>2, <3>3, <2>6, <1>3
  <2>8. next[n] = Lists!tail(l) <=> k = l /\ i = Len(s)
    <3>1. Len(s) + 1 \in 0..(Len(s) + 1)
      BY <1>1
    <3>2. Pt(k, r, i + 1) = Pt(l, s, Len(s) + 1) => k = l /\ i + 1 = Len(s) + 1
      BY <3>1, <2>4, <1>1, PtSame
    <3>3. i + 1 = Len(s) + 1 <=> i = Len(s)
      BY <2>4, <1>1
    <3> QED BY <3>2, <3>3, <2>6, <1>3
  <2>9. ASSUME NEW j \in 1..Len(s) PROVE s[j] = n <=> k = l /\ i = j
    BY <2>2, <1>1 DEF OnceIn
  <2>10. Len(s) > 0 => 1 \in 1..Len(s) /\ Len(s) \in 1..Len(s)
    BY <1>1
  <2>11. k = l => Len(s) > 0
    BY <2>2, <1>1
  <2> HIDE DEF s, r
  <2> QED BY <2>7, <2>8, <2>9, <2>10, <2>11 DEF s
<1> QED BY <1>4, <1>5

(* Links of lists pass every test of TwoWay. *)
LEMMA ListsTwoWay ==
  ASSUME LinksInv
  PROVE  Lists!TwoWay
<1>1. PICK G : Lay(next, prev, G)
  BY DEF LinksInv
<1>2. \A l \in Queue : Lists!Forward(l) = G[l] /\ Lists!Backward(l) = Lists!Reverse(G[l])
  BY <1>1, LayForward DEF Lists!Forward, Lists!Backward
<1>3. ASSUME NEW l \in Queue
      PROVE  /\ Lists!list_empty(l) <=> G[l] = <<>>
             /\ Lists!list_singular(l) <=> Lists!list_size(l) = 1
             /\ \A n \in Node : /\ Lists!list_ishead(l, n) <=> G[l] # <<>> /\ G[l][1] = n
                                /\ Lists!list_istail(l, n) <=> G[l] # <<>> /\ Lists!Last(G[l]) = n
  <2> DEFINE s == G[l]
  <2>1. s \in Seq(Node) /\ Len(s) \in Nat
    BY <1>1, EndLinks
  <2>2. Lists!list_empty(l) <=> Len(s) = 0
    BY <1>1, EndLinks
  <2>3. Len(s) > 0 => next[Lists!head(l)] = s[1] /\ s[1] \in Node
    BY <1>1, <2>1, EndLinks
  <2>4. \A n \in Node : /\ prev[n] = Lists!head(l) <=> Len(s) > 0 /\ s[1] = n
                        /\ next[n] = Lists!tail(l) <=> Len(s) > 0 /\ s[Len(s)] = n
    BY <1>1, Neighbours
  <2>5. \A i, j \in 1..Len(s) : s[i] = s[j] => i = j
    BY <1>1 DEF Lay, OnceIn
  <2>6. Lists!list_size(l) = Len(s)
    BY <1>2 DEF Lists!list_size
  <2> HIDE DEF s
  <2>7. s = <<>> <=> Len(s) = 0
    BY <2>1
  <2>8. Lists!list_singular(l) <=> Len(s) = 1
    <3>1. CASE Len(s) = 0
      BY <3>1, <2>2 DEF Lists!list_singular
    <3>2. CASE Len(s) > 0
      <4>1. Lists!list_singular(l) <=> next[s[1]] = Lists!tail(l)
        BY <3>2, <2>2, <2>3 DEF Lists!list_singular
      <4>2. next[s[1]] = Lists!tail(l) <=> s[Len(s)] = s[1]
        BY <3>2, <2>3, <2>4
      <4>3. 1 \in 1..Len(s) /\ Len(s) \in 1..Len(s)
        BY <3>2, <2>1
      <4>4. s[Len(s)] = s[1] <=> Len(s) = 1
        BY <4>3, <2>5
      <4> QED BY <4>1, <4>2, <4>4
    <3> QED BY <3>1, <3>2, <2>1
  <2>9. \A n \in Node : /\ Lists!list_ishead(l, n) <=> s # <<>> /\ s[1] = n
                        /\ Lists!list_istail(l, n) <=> s # <<>> /\ Lists!Last(s) = n
    <3>1. Lists!Last(s) = s[Len(s)]
      BY DEF Lists!Last
    <3>2. s # <<>> <=> Len(s) > 0
      BY <2>1, <2>7
    <3> QED BY <3>1, <3>2, <2>4 DEF Lists!list_ishead, Lists!list_istail
  <2> QED BY <2>2, <2>6, <2>7, <2>8, <2>9 DEF s
<1>4. ASSUME NEW l \in Queue, NEW n \in Node
      PROVE  Lists!list_contains(l, n) <=> \E i \in 1..Len(G[l]) : G[l][i] = n
  <2>1. G[l] \in Seq(Node) /\ DOMAIN G[l] = 1..Len(G[l])
    BY <1>1, EndLinks
  <2>2. Lists!list_contains(l, n) <=> n \in Lists!ToSet(G[l])
    BY <1>2 DEF Lists!list_contains
  <2> QED BY <2>1, <2>2 DEF Lists!ToSet
<1>5. ASSUME NEW n \in Node
      PROVE  IF Lists!NodeFree(n) THEN \A l \in Queue : ~Lists!list_contains(l, n)
             ELSE Lists!Cardinality({l \in Queue : Lists!list_contains(l, n)}) = 1
  <2>1. CASE Lists!NodeFree(n)
    <3>1. ~Listed(G, n)
      BY <2>1, <1>1, FreeListed DEF Lists!NodeFree
    <3> QED BY <2>1, <3>1, <1>4 DEF Listed
  <2>2. CASE ~Lists!NodeFree(n)
    <3>1. Listed(G, n)
      BY <2>2, <1>1, FreeListed DEF Lists!NodeFree
    <3>2. PICK k \in Queue : \E i \in 1..Len(G[k]) : G[k][i] = n
      BY <3>1 DEF Listed
    <3>3. \A l \in Queue : Lists!list_contains(l, n) <=> l = k
      BY <3>2, <1>1, <1>4 DEF Lay, OnceIn
    <3>4. {l \in Queue : Lists!list_contains(l, n)} = {k}
      BY <3>3
    <3>5. Cardinality({k}) = 1
      BY FS_Singleton
    <3>6. Lists!Cardinality({k}) = 1
      BY <3>5, Zenon DEF Lists!Cardinality, Cardinality
    <3> QED BY <2>2, <3>4, <3>6
  <2> QED BY <2>1, <2>2
<1> QED BY <1>2, <1>3, <1>5, Zenon DEF Lists!TwoWay

(* A list becomes t, the other ones stay. *)
LEMMA ListBecomes ==
  ASSUME NEW G, Lay(next, prev, G), NEW l \in Queue, NEW t, Lay(next', prev', [G EXCEPT ![l] = t])
  PROVE  /\ Lists!Forward(l) = G[l] /\ Lists!Forward(l)' = t
         /\ \A k \in Queue \ {l} : Lists!Forward(k)' = Lists!Forward(k)
<1> DEFINE H == [G EXCEPT ![l] = t]
<1>1. G \in [Queue -> Seq(Node)]
  BY DEF Lay
<1>2. H[l] = t /\ \A k \in Queue \ {l} : H[k] = G[k]
  BY <1>1
<1>3. Lay(next', prev', H)
  OBVIOUS
<1> HIDE DEF H
<1>4. \A k \in Queue : Lists!Along(next', Lists!head(k), Lists!tail(k)) = H[k]
  BY <1>3, LayForward
<1>5. \A k \in Queue : Lists!Forward(k)' = H[k]
  <2>1. \A k \in Queue : Lists!Forward(k)' = Lists!Along(next', Lists!head(k), Lists!tail(k))
    BY Zenon DEF Lists!Forward, Lists!Along, Lists!head, Lists!tail
  <2> QED BY <1>4, <2>1
<1>6. \A k \in Queue : Lists!Forward(k) = G[k]
  BY LayForward DEF Lists!Forward
<1> QED BY <1>2, <1>5, <1>6

(* The other lists keep their nodes; what each call does. *)
Alone(l) == \A k \in Queue \ {l} : Lists!Forward(k)' = Lists!Forward(k)
Called(l, n) ==
    LET s == Lists!Forward(l)
        t == Lists!Forward(l)'
        alone == \A k \in Queue \ {l} : Lists!Forward(k)' = Lists!Forward(k)
    IN  /\ Lists!list_push_front(l, n) => t = <<n>> \o s /\ alone
        /\ Lists!list_push_back(l, n) => t = Append(s, n) /\ alone
        /\ Lists!list_pop_front(l) => t = Tail(s) /\ alone
        /\ Lists!list_pop_back(l) => t = Lists!Front(s) /\ alone
        /\ Lists!list_contains(l, n) /\ Lists!list_remove(n) =>
                alone /\ \E i \in 1..Len(s) : s[i] = n /\ t = Lists!RemoveAt(s, i)
        /\ Lists!list_insert_sort(l, n) => alone /\ \E i \in 1..(Len(s) + 1) :
            /\ t = Lists!InsertAt(s, i, n)
            /\ \A j \in 1..(i - 1) : key[s[j]] < key[n]
            /\ i <= Len(s) => key[s[i]] >= key[n]

(* Called holds of every step from links of lists. *)
LEMMA ListsCalled ==
  ASSUME LinksInv, NEW l \in Queue, NEW n \in Node
  PROVE  Called(l, n)
<1>1. PICK G : Lay(next, prev, G)
  BY DEF LinksInv
<1>2. Lists!Forward(l) = G[l] /\ G \in [Queue -> Seq(Node)]
  <2>1. Lists!Forward(l) = G[l]
    BY <1>1, LayForward DEF Lists!Forward
  <2> QED BY <2>1, <1>1 DEF Lay
<1>3. ASSUME NEW t, Lay(next', prev', [G EXCEPT ![l] = t]) PROVE Lists!Forward(l)' = t /\ Alone(l)
  BY <1>1, <1>3, ListBecomes DEF Alone
<1>4. ASSUME Lists!list_push_front(l, n) PROVE Lists!Forward(l)' = <<n>> \o Lists!Forward(l) /\ Alone(l)
  BY <1>1, <1>2, <1>3, <1>4, PushFront
<1>5. ASSUME Lists!list_push_back(l, n) PROVE Lists!Forward(l)' = Append(Lists!Forward(l), n) /\ Alone(l)
  BY <1>1, <1>2, <1>3, <1>5, PushBack
<1>6. ASSUME Lists!list_pop_front(l) PROVE Lists!Forward(l)' = Tail(Lists!Forward(l)) /\ Alone(l)
  BY <1>1, <1>2, <1>3, <1>6, PopFront
<1>7. ASSUME Lists!list_pop_back(l) PROVE Lists!Forward(l)' = Lists!Front(Lists!Forward(l)) /\ Alone(l)
  BY <1>1, <1>2, <1>3, <1>7, PopBack
<1>8. ASSUME Lists!list_contains(l, n), Lists!list_remove(n)
      PROVE  /\ Alone(l)
             /\ \E i \in 1..Len(Lists!Forward(l)) :
                   Lists!Forward(l)[i] = n /\ Lists!Forward(l)' = Lists!RemoveAt(Lists!Forward(l), i)
  <2>1. PICK k \in Queue : \E p \in 1..Len(G[k]) :
           G[k][p] = n /\ Lay(next', prev', [G EXCEPT ![k] = Lists!RemoveAt(G[k], p)])
    BY <1>1, <1>8, Removal
  <2>2. PICK p \in 1..Len(G[k]) : G[k][p] = n /\ Lay(next', prev', [G EXCEPT ![k] = Lists!RemoveAt(G[k], p)])
    BY <2>1
  <2>3. n \in Lists!ToSet(G[l])
    BY <1>2, <1>8 DEF Lists!list_contains
  <2>4. DOMAIN G[l] = 1..Len(G[l])
    BY <1>2
  <2>5. \E i \in 1..Len(G[l]) : G[l][i] = n
    BY <2>3, <2>4 DEF Lists!ToSet
  <2>6. k = l
    BY <1>1, <2>2, <2>5 DEF Lay, OnceIn
  <2>7. Lists!Forward(l)' = Lists!RemoveAt(G[l], p) /\ Alone(l)
    BY <1>3, <2>2, <2>6
  <2> QED BY <1>2, <2>2, <2>6, <2>7
<1>9. ASSUME Lists!list_insert_sort(l, n)
      PROVE  /\ Alone(l)
             /\ \E i \in 1..(Len(Lists!Forward(l)) + 1) :
                   /\ Lists!Forward(l)' = Lists!InsertAt(Lists!Forward(l), i, n)
                   /\ \A j \in 1..(i - 1) : key[Lists!Forward(l)[j]] < key[n]
                   /\ i <= Len(Lists!Forward(l)) => key[Lists!Forward(l)[i]] >= key[n]
  <2>1. PICK i \in 1..(Len(G[l]) + 1) :
           /\ Lay(next', prev', [G EXCEPT ![l] = Lists!InsertAt(G[l], i, n)])
           /\ \A j \in 1..(i - 1) : key[G[l][j]] < key[n]
           /\ i <= Len(G[l]) => key[G[l][i]] >= key[n]
    BY <1>1, <1>9, InsertSort
  <2>2. Lists!Forward(l)' = Lists!InsertAt(G[l], i, n) /\ Alone(l)
    BY <1>3, <2>1
  <2> QED BY <1>2, <2>1, <2>2
<1> QED BY <1>4, <1>5, <1>6, <1>7, <1>8, <1>9, Zenon DEF Called, Alone

(* list.c keeps sequences: after any calls both ways along the links of a  *)
(* list agree, its tests are right, no node is in two lists, and each call *)
(* does to the sequence of its list what its name says, and to no other.   *)
THEOREM ListsAreExact == Spec => ListsExact
<1> DEFINE Calls == next' # next => \A l \in Queue, n \in Node : Called(l, n)
<1>1. LinksInv /\ [Next]_vars => [Calls]_Lists!vars
  BY ListsCalled
<1>2. LinksInv => (service = "list" => Lists!TwoWay)
  BY ListsTwoWay
<1> HIDE DEF Calls
<1>3. Spec => []LinksInv /\ [][Next]_vars
  BY LinksInvariance, PTL DEF Spec
<1>4. Spec => [](service = "list" => Lists!TwoWay) /\ [][Calls]_Lists!vars
  BY <1>1, <1>2, <1>3, PTL
<1>5. [][Calls]_Lists!vars => Lists!CallsExact
  BY PTL DEF Calls, Called, Lists!CallsExact
<1> QED BY <1>4, <1>5 DEF ListsExact

-----------------------------------------------------------------------------
(* The CMOS. *)

Digit == 0..(Base - 1)
Digits == [sec : Digit, min : Digit, hour : Digit]

(* The registers of a round that have been read. *)
ReadSame == /\ at > 1 => time.sec = clock.sec
            /\ at > 2 => time.min = clock.min
            /\ at > 3 => time.hour = clock.hour

(* What a time_val may hold: anything, if a register was off the bus. *)
Readings == [sec : 0..Base, min : 0..Base, hour : 0..Base]

(* The clock has been updated k times since its second was read; what was  *)
(* read is the time if k is 0.                                             *)
Round == \E k \in 0..ticks : clock.sec = (time.sec + k) % Base /\ (k = 0 => ReadSame)

(* As long as no register of the round was read during an update.          *)
CmosInv ==
    /\ clock \in Digits /\ time \in Readings
    /\ updating \in BOOLEAN /\ overlap \in BOOLEAN
    /\ at \in 1..5 /\ ticks \in 0..MaxTicks /\ (updating => ticks < MaxTicks)
    /\ at \in 2..4 /\ ~overlap => time.sec \in Digit /\ Round
    /\ at = 5 /\ ~overlap => time = clock

(* Remainders by a number that is not given. *)
LEMMA Remainders ==
  /\ Base \in Nat /\ Base > 0
  /\ \A v \in Nat : v % Base \in Digit /\ v \div Base \in Nat /\ v = Base * (v \div Base) + (v % Base)
  /\ \A v \in Digit : v % Base = v
  /\ \A v \in Nat, w \in Digit : (v * Base + w) % Base = w
<1>1. Base \in Nat /\ Base > 0
  BY ServicesAssumption
<1>2. \A v \in Nat : v % Base \in Digit /\ v \div Base \in Nat /\ v = Base * (v \div Base) + (v % Base)
  BY <1>1 DEF Digit
<1>3. ASSUME NEW v \in Nat, NEW w \in Digit PROVE (v * Base + w) % Base = w
  <2>1. v * Base = Base * v /\ w \in 0..(Base - 1)
    BY <1>1 DEF Digit
  <2>2. (Base * v + w) % Base = w
    BY <1>1, <2>1, Quotient
  <2> QED BY <2>1, <2>2
<1>4. \A v \in Digit : v % Base = v
  <2> TAKE v \in Digit
  <2>1. (0 * Base + v) % Base = v
    BY <1>3
  <2> QED BY <2>1, <1>1 DEF Digit
<1> QED BY <1>1, <1>2, <1>3, <1>4

(* One more tick since the second was read. *)
LEMMA OneTick ==
  ASSUME NEW d \in Digit, NEW k \in Nat
  PROVE  (((d + k) % Base) + 1) % Base = (d + k + 1) % Base
<1> DEFINE a == d + k
           q == a \div Base
           r == a % Base
<1>1. Base \in Nat /\ Base > 0 /\ a \in Nat
  BY Remainders DEF Digit
<1>2. q \in Nat /\ r \in Digit /\ a = Base * q + r
  BY <1>1, Remainders
<1> HIDE DEF q, r
<1>3. CASE r + 1 < Base
  <2>1. r + 1 \in Digit /\ a + 1 = q * Base + (r + 1)
    BY <1>1, <1>2, <1>3 DEF Digit
  <2>2. (q * Base + (r + 1)) % Base = r + 1 /\ (r + 1) % Base = r + 1
    BY <2>1, <1>2, Remainders
  <2> QED BY <2>1, <2>2 DEF r
<1>4. CASE r + 1 = Base
  <2>1. a + 1 = (q + 1) * Base + 0 /\ 0 \in Digit /\ r + 1 = 1 * Base + 0 /\ q + 1 \in Nat
    BY <1>1, <1>2, <1>4 DEF Digit
  <2>2. (a + 1) % Base = 0 /\ (r + 1) % Base = 0
    BY <2>1, Remainders
  <2> QED BY <2>2 DEF r
<1> QED BY <1>1, <1>2, <1>3, <1>4 DEF Digit

(* Each tick adds one to the second, whatever it carries. *)
LEMMA TickSecond ==
  ASSUME clock \in Digits
  PROVE  /\ Cmos!Time(Cmos!Value(clock) + 1) \in Digits
         /\ Cmos!Time(Cmos!Value(clock) + 1).sec = (clock.sec + 1) % Base
<1> DEFINE c1 == clock.hour * Base + clock.min
           v == Cmos!Value(clock) + 1
<1>1. clock.sec \in Digit /\ clock.min \in Digit /\ clock.hour \in Digit /\ Base \in Nat /\ Base > 0
  BY Remainders DEF Digits
<1>2. c1 \in Nat
  BY <1>1 DEF Digit
<1> HIDE DEF c1
<1>3. v = (c1 * Base + clock.sec) + 1 /\ c1 * Base \in Nat /\ v \in Nat
  BY <1>1, <1>2 DEF Digit, Cmos!Value, c1
<1>4. v % Base = (clock.sec + 1) % Base
  <2>1. CASE clock.sec + 1 < Base
    <3>1. clock.sec + 1 \in Digit /\ v = c1 * Base + (clock.sec + 1)
      BY <1>1, <1>3, <2>1 DEF Digit
    <3>2. (c1 * Base + (clock.sec + 1)) % Base = clock.sec + 1 /\ (clock.sec + 1) % Base = clock.sec + 1
      BY <3>1, <1>2, Remainders
    <3> QED BY <3>1, <3>2
  <2>2. CASE clock.sec + 1 = Base
    <3>1. v = (c1 + 1) * Base + 0 /\ 0 \in Digit /\ clock.sec + 1 = 1 * Base + 0 /\ c1 + 1 \in Nat
      BY <1>1, <1>2, <1>3, <2>2 DEF Digit
    <3> QED BY <3>1, Remainders
  <2> QED BY <1>1, <2>1, <2>2 DEF Digit
<1> HIDE DEF v
<1>5. Base * Base \in Nat /\ Base * Base > 0
  BY <1>1
<1>6. v \div Base \in Nat /\ v \div (Base * Base) \in Nat
  BY <1>1, <1>3, <1>5
<1>7. v % Base \in Digit /\ (v \div Base) % Base \in Digit /\ (v \div (Base * Base)) % Base \in Digit
  BY <1>3, <1>6, Remainders
<1>8. Cmos!Time(v) \in Digits /\ Cmos!Time(v).sec = v % Base
  BY <1>7 DEF Cmos!Time, Digits
<1> QED BY <1>4, <1>8 DEF v

(* An update adds one to the second, and so to the k of the round. *)
LEMMA CmosUpdate ==
  ASSUME CmosInv, Cmos!UpdateEnds
  PROVE  CmosInv'
<1>0. MaxTicks \in Nat /\ Base \in Nat /\ MaxTicks < Base
  BY ServicesAssumption
<1>1. clock' \in Digits /\ clock'.sec = (clock.sec + 1) % Base
  BY TickSecond DEF Cmos!UpdateEnds, CmosInv
<1>2. /\ time' = time /\ at' = at /\ at < 5 /\ ticks' = ticks + 1 /\ ticks' \in 0..MaxTicks
      /\ updating' = FALSE /\ overlap' = overlap
  BY <1>0 DEF Cmos!UpdateEnds, CmosInv
<1>3. ASSUME at \in 2..4, ~overlap PROVE Round'
  <2>1. PICK k \in 0..ticks : clock.sec = (time.sec + k) % Base
    BY <1>3 DEF CmosInv, Round
  <2>2. k \in Nat /\ k + 1 \in 0..ticks' /\ k + 1 # 0 /\ time.sec \in Digit
    BY <1>0, <1>2, <1>3 DEF CmosInv
  <2>3. clock'.sec = (time'.sec + (k + 1)) % Base
    <3>1. time.sec + k + 1 = time.sec + (k + 1)
      BY <1>0, <2>2 DEF Digit
    <3> QED BY <1>1, <1>2, <2>1, <2>2, <3>1, OneTick
  <2> QED BY <2>2, <2>3 DEF Round
<1>4. at' \in 2..4 /\ ~overlap' => time'.sec \in Digit /\ Round'
  BY <1>2, <1>3 DEF CmosInv
<1>5. clock' \in Digits /\ time' \in Readings /\ at' \in 1..5 /\ at' # 5
  BY <1>1, <1>2 DEF CmosInv
<1>6. updating' \in BOOLEAN /\ overlap' \in BOOLEAN /\ ~updating'
  BY <1>2 DEF CmosInv
<1> QED BY <1>2, <1>4, <1>5, <1>6, Zenon DEF CmosInv

(* A read outside an update gives the register.                            *)
LEMMA CmosRead ==
  ASSUME CmosInv, Cmos!Read
  PROVE  CmosInv'
<1>0. MaxTicks \in Nat /\ Base \in Nat /\ MaxTicks < Base /\ 0 \in Digit /\ Digit \subseteq 0..Base
  BY ServicesAssumption DEF Digit
<1>1. /\ at \in 1..3 /\ at' = at + 1 /\ clock' = clock /\ ticks' = ticks /\ updating' = updating
      /\ overlap' = (overlap \/ updating)
  BY DEF Cmos!Read, CmosInv
<1>2. Cmos!Registers[1] = "sec" /\ Cmos!Registers[2] = "min" /\ Cmos!Registers[3] = "hour"
  BY DEF Cmos!Registers
<1>3. PICK v \in Cmos!Reads(Cmos!Registers[at]) : time' = [time EXCEPT ![Cmos!Registers[at]] = v]
  BY DEF Cmos!Read
<1>4. v \in 0..Base
  <2>1. CASE updating
    BY <1>3, <2>1 DEF Cmos!Reads
  <2>2. CASE ~updating
    <3>1. v = clock[Cmos!Registers[at]]
      BY <1>3, <2>2 DEF Cmos!Reads
    <3>2. clock["sec"] \in Digit /\ clock["min"] \in Digit /\ clock["hour"] \in Digit
      BY DEF CmosInv, Digits
    <3>3. at = 1 \/ at = 2 \/ at = 3
      BY <1>1
    <3>4. v \in Digit
      BY <1>2, <3>1, <3>2, <3>3
    <3> QED BY <1>0, <3>4
  <2> QED BY <2>1, <2>2
<1>5. /\ at = 1 => time' = [time EXCEPT !["sec"] = v]
      /\ at = 2 => time' = [time EXCEPT !["min"] = v]
      /\ at = 3 => time' = [time EXCEPT !["hour"] = v]
  BY <1>2, <1>3
<1>6. time' \in Readings
  BY <1>1, <1>4, <1>5 DEF CmosInv, Readings
<1>7. ASSUME ~overlap' PROVE time'.sec \in Digit /\ Round'
  <2>1. ~overlap /\ ~updating /\ v = clock[Cmos!Registers[at]]
    BY <1>1, <1>3, <1>7 DEF Cmos!Reads, CmosInv
  <2>2. CASE at = 1
    <3>1. time' = [time EXCEPT !["sec"] = clock["sec"]]
      BY <1>2, <1>5, <2>1, <2>2
    <3>2. time'.sec = clock.sec /\ clock.sec \in Digit
      BY <3>1 DEF CmosInv, Readings, Digits
    <3>3. clock'.sec = (time'.sec + 0) % Base
      BY <1>0, <1>1, <3>2, Remainders DEF Digit
    <3>4. 0 \in 0..ticks' /\ ReadSame'
      BY <1>0, <1>1, <2>2, <3>2 DEF ReadSame, CmosInv
    <3> QED BY <3>2, <3>3, <3>4 DEF Round
  <2>3. CASE at \in {2, 3}
    <3>1. time' = IF at = 2 THEN [time EXCEPT !["min"] = clock["min"]] ELSE [time EXCEPT !["hour"] = clock["hour"]]
      BY <1>2, <1>5, <2>1, <2>3
    <3>2. time'.sec = time.sec /\ time.sec \in Digit
      BY <2>1, <2>3, <3>1 DEF CmosInv, Readings
    <3>3. PICK k \in 0..ticks : clock.sec = (time.sec + k) % Base /\ (k = 0 => ReadSame)
      BY <2>1, <2>3 DEF CmosInv, Round
    <3>4. k = 0 => ReadSame'
      BY <1>1, <2>3, <3>1, <3>3 DEF ReadSame, CmosInv, Readings
    <3> QED BY <1>1, <3>2, <3>3, <3>4 DEF Round
  <2> QED BY <1>1, <2>2, <2>3
<1> QED BY <1>1, <1>6, <1>7 DEF CmosInv

(* The second is the same only if there was no update in the round.        *)
LEMMA CmosTest ==
  ASSUME CmosInv, Cmos!Test
  PROVE  CmosInv'
<1>0. MaxTicks \in Nat /\ Base \in Nat /\ MaxTicks < Base
  BY ServicesAssumption
<1>1. at = 4 /\ clock' = clock /\ time' = time /\ updating' = updating
  BY DEF Cmos!Test
<1>2. PICK s \in Cmos!Reads("sec") :
        IF time.sec = s THEN at' = 5 /\ overlap' = (overlap \/ updating) /\ ticks' = ticks
        ELSE at' = 1 /\ overlap' = FALSE /\ ticks' = 0
  BY DEF Cmos!Test
<1>3. CASE time.sec = s
  <2>1. ASSUME ~overlap' PROVE time = clock
    <3>1. ~overlap /\ ~updating /\ time.sec = clock.sec
      BY <1>2, <1>3, <2>1 DEF Cmos!Reads, CmosInv
    <3>2. PICK k \in 0..ticks : clock.sec = (time.sec + k) % Base /\ (k = 0 => ReadSame)
      BY <1>1, <3>1 DEF CmosInv, Round
    <3>3. time.sec \in Digit /\ k \in Nat /\ k < Base
      BY <1>0, <1>1, <3>1 DEF CmosInv
    <3>4. k = 0
      <4>1. CASE time.sec + k < Base
        <5>1. time.sec + k \in Digit
          BY <4>1, <3>3, <1>0 DEF Digit
        <5>2. time.sec = time.sec + k
          BY <5>1, <3>1, <3>2, Remainders
        <5> QED BY <5>2, <3>3, <1>0 DEF Digit
      <4>2. CASE time.sec + k >= Base
        <5>1. (time.sec + k) - Base \in Digit /\ time.sec + k = 1 * Base + ((time.sec + k) - Base)
          BY <4>2, <3>3, <1>0 DEF Digit
        <5>2. (1 * Base + ((time.sec + k) - Base)) % Base = (time.sec + k) - Base
          BY <5>1, Remainders
        <5>3. time.sec = (time.sec + k) - Base
          BY <5>1, <5>2, <3>1, <3>2
        <5> QED BY <5>3, <3>3, <1>0 DEF Digit
      <4> QED BY <4>1, <4>2, <3>3, <1>0 DEF Digit
    <3> QED BY <1>1, <3>2, <3>4 DEF ReadSame, CmosInv, Digits, Readings
  <2>2. at' = 5 /\ overlap' = (overlap \/ updating) /\ ticks' = ticks
    BY <1>2, <1>3
  <2> QED BY <1>1, <2>1, <2>2 DEF CmosInv
<1>4. CASE time.sec # s
  <2>1. at' = 1 /\ overlap' = FALSE /\ ticks' = 0
    BY <1>2, <1>4
  <2>2. updating => 0 < MaxTicks
    BY <1>0 DEF CmosInv
  <2>3. 1 \in 1..5 /\ 1 \notin 2..4 /\ 1 # 5 /\ 0 \in 0..MaxTicks
    BY <1>0
  <2>4. clock' \in Digits /\ time' \in Readings /\ updating' \in BOOLEAN /\ overlap' \in BOOLEAN
    BY <1>1, <2>1, Zenon DEF CmosInv
  <2>5. updating' => ticks' < MaxTicks
    BY <1>1, <2>1, <2>2, Zenon
  <2> QED BY <2>1, <2>3, <2>4, <2>5, Zenon DEF CmosInv
<1> QED BY <1>3, <1>4

(* The steps of the clock and of the loop. *)
LEMMA CmosStep ==
  ASSUME CmosInv, Cmos!Next
  PROVE  CmosInv'
<1>0. MaxTicks \in Nat
  BY ServicesAssumption
<1>1. CASE Cmos!UpdateStarts
  BY <1>1 DEF Cmos!UpdateStarts, CmosInv, Round, ReadSame
<1>2. CASE Cmos!Again
  <2>1. /\ at' = 1 /\ overlap' = FALSE /\ ticks' = 0
        /\ clock' = clock /\ time' = time /\ updating' = updating
    BY <1>2 DEF Cmos!Again
  <2>2. updating => 0 < MaxTicks
    BY <1>0 DEF CmosInv
  <2>3. 1 \in 1..5 /\ 1 \notin 2..4 /\ 1 # 5 /\ 0 \in 0..MaxTicks
    BY <1>0
  <2>4. clock' \in Digits /\ time' \in Readings /\ updating' \in BOOLEAN /\ overlap' \in BOOLEAN
    BY <2>1, Zenon DEF CmosInv
  <2>5. updating' => ticks' < MaxTicks
    BY <2>1, <2>2, Zenon
  <2> QED BY <2>1, <2>3, <2>4, <2>5, Zenon DEF CmosInv
<1> QED BY <1>1, <1>2, CmosUpdate, CmosRead, CmosTest DEF Cmos!Next

-----------------------------------------------------------------------------
(* The calendar. *)

Dates == [year : 0..99, mon : 1..12, mday : 1..31, hour : 0..23, min : 0..59, sec : 0..59]

(* A day of the calendar, with the number of days that the table of mktime *)
(* leads to.                                                               *)
OnDay(t, n) ==
    /\ t \in Dates /\ t.mday <= Calendar!DaysIn(Calendar!ad_year(t.year), t.mon)
    /\ n \in Nat
    /\ Calendar!mktime(t).days = n + (IF t.mon <= 3 THEN 0 ELSE 1)

(* The time of the day n. *)
AtTime(t, n) ==
    LET s == Calendar!SecondOfDay(n)
    IN  t.hour = s \div 3600 /\ t.min = (s \div 60) % 60 /\ t.sec = s % 60

CalendarInv == OnDay(date, days) /\ AtTime(date, days)

(* Hours, minutes and seconds. *)
LEMMA Clock24 ==
  ASSUME NEW s \in Nat, s < 86400
  PROVE  /\ s \div 3600 \in 0..23 /\ (s \div 60) % 60 \in 0..59 /\ s % 60 \in 0..59
         /\ (s \div 3600) * 3600 + ((s \div 60) % 60) * 60 + (s % 60) = s
<1> DEFINE h == s \div 3600
           r == s % 3600
           a == s \div 60
           q == a \div 60
           b == a % 60
           e == s % 60
<1>1. a \in Nat /\ e \in 0..59 /\ s = 60 * a + e
  BY Division
<1>2. h \in Nat /\ r \in 0..3599 /\ s = 3600 * h + r
  BY Division
<1> HIDE DEF h, a, e, r
<1>3. q \in Nat /\ b \in 0..59 /\ a = 60 * q + b
  BY <1>1, Division
<1> HIDE DEF b, q
<1>4. s = 3600 * q + (60 * b + e) /\ 60 * b + e \in 0..3599
  BY <1>1, <1>3
<1>5. q = h
  <2> DEFINE u == 60 * b + e
  <2>0. s = 3600 * q + u /\ u \in 0..3599
    BY <1>4
  <2> HIDE DEF u
  <2>1. u \in Int /\ 0 <= u /\ u < 3600 /\ r \in Int /\ 0 <= r /\ r < 3600 /\ 3600 * q + u = 3600 * h + r
    <3>1. u \in Int /\ 0 <= u /\ u < 3600
      BY <2>0
    <3>2. r \in Int /\ 0 <= r /\ r < 3600
      BY <1>2
    <3> QED BY <3>1, <3>2, <2>0, <1>2
  <2>2. ~(q < h)
    BY <2>1, <1>2, <1>3
  <2>3. ~(q > h)
    BY <2>1, <1>2, <1>3
  <2> QED BY <2>2, <2>3, <1>2, <1>3
<1>6. h \in 0..23 /\ h * 3600 + b * 60 + e = s
  BY <1>1, <1>2, <1>3, <1>4, <1>5
<1> QED BY <1>1, <1>3, <1>6 DEF h, a, b, e

LEMMA SecondsFit ==
  ASSUME NEW n \in Nat
  PROVE  Calendar!SecondOfDay(n) \in Nat /\ Calendar!SecondOfDay(n) < 86400
<1>1. n * 6471 \in Nat
  OBVIOUS
<1>2. \A k, b \in Nat : b > 0 => k % b \in Nat /\ k % b < b
  BY Division
<1>3. (n * 6471) % 86400 \in Nat /\ (n * 6471) % 86400 < 86400
  BY <1>1, <1>2
<1> QED BY <1>3 DEF Calendar!SecondOfDay

(* In the hundred years of the CMOS every fourth year is a leap year. *)
LEMMA LeapYears ==
  ASSUME NEW yy \in 0..99
  PROVE  /\ Calendar!is_leap(Calendar!ad_year(yy)) <=> yy % 4 = 0
         /\ Calendar!ad_year(yy) % 4 = yy % 4
         /\ Calendar!ad_year(yy) % 100 = 0 => Calendar!ad_year(yy) % 400 = 0
<1>1. CASE yy >= 70
  <2>1. Calendar!ad_year(yy) = 1900 + yy
    BY <1>1 DEF Calendar!ad_year
  <2> QED BY <1>1, <2>1 DEF Calendar!is_leap
<1>2. CASE yy < 70
  <2>1. Calendar!ad_year(yy) = 2000 + yy
    BY <1>2 DEF Calendar!ad_year
  <2> QED BY <1>2, <2>1 DEF Calendar!is_leap
<1> QED BY <1>1, <1>2

(* The table, and the lengths of the months. *)
LEMMA Months ==
  /\ Calendar!month[1] = 0 /\ Calendar!month[2] = 31 /\ Calendar!month[3] = 59
  /\ Calendar!month[4] = 91 /\ Calendar!month[5] = 121 /\ Calendar!month[6] = 152
  /\ Calendar!month[7] = 182 /\ Calendar!month[8] = 213 /\ Calendar!month[9] = 244
  /\ Calendar!month[10] = 274 /\ Calendar!month[11] = 305 /\ Calendar!month[12] = 335
BY DEF Calendar!month

LEMMA MonthLengths ==
  ASSUME NEW yy \in 0..99, NEW mon \in 1..12
  PROVE  Calendar!DaysIn(Calendar!ad_year(yy), mon) =
            IF mon \in {4, 6, 9, 11} THEN 30
            ELSE IF mon = 2 THEN (IF yy % 4 = 0 THEN 29 ELSE 28) ELSE 31
<1> DEFINE year == Calendar!ad_year(yy)
<1>1. (year % 4 = 0 /\ (year % 100 = 0 => year % 400 = 0)) <=> yy % 4 = 0
  BY LeapYears
<1>2. Calendar!DaysIn(year, mon) =
         IF mon = 2 THEN IF year % 4 = 0 /\ (year % 100 = 0 => year % 400 = 0) THEN 29 ELSE 28
         ELSE IF mon \in {4, 6, 9, 11} THEN 30 ELSE 31
  BY DEF Calendar!DaysIn
<1> HIDE DEF year
<1>3. Calendar!DaysIn(year, mon) =
         IF mon = 2 THEN IF yy % 4 = 0 THEN 29 ELSE 28
         ELSE IF mon \in {4, 6, 9, 11} THEN 30 ELSE 31
  BY <1>1, <1>2, Zenon
<1> QED BY <1>3 DEF year

(* The days of the years that are over. *)
LEMMA NextYear ==
  ASSUME NEW yy \in 0..99, yy # 69
  PROVE  /\ (yy + 1) % 100 \in 0..99
         /\ Calendar!YearDays((yy + 1) % 100) = Calendar!YearDays(yy) + (IF yy % 4 = 0 THEN 366 ELSE 365)
         /\ Calendar!YearDays(yy) \in Nat
<1>1. CASE yy = 99
  BY <1>1 DEF Calendar!YearDays
<1>2. CASE yy < 99 /\ yy >= 70
  BY <1>2 DEF Calendar!YearDays
<1>3. CASE yy < 69
  BY <1>3 DEF Calendar!YearDays
<1> QED BY <1>1, <1>2, <1>3

(* What mktime adds up. *)
LEMMA DaysOf ==
  ASSUME NEW t \in Dates
  PROVE  /\ Calendar!mktime(t).days = Calendar!YearDays(t.year) + Calendar!month[t.mon]
                                      + (IF t.year % 4 = 0 /\ t.mon > 2 THEN 1 ELSE 0) + t.mday - 1
         /\ Calendar!mktime(t).secs = t.hour * 3600 + t.min * 60 + t.sec
<1>1. Calendar!LeapDay(t) = IF t.year % 4 = 0 /\ t.mon > 2 THEN 1 ELSE 0
  <2>1. t.year \in 0..99
    BY DEF Dates
  <2>2. Calendar!is_leap(Calendar!ad_year(t.year)) <=> t.year % 4 = 0
    BY <2>1, LeapYears
  <2> QED BY <2>2, Zenon DEF Calendar!LeapDay
<1> QED BY <1>1 DEF Calendar!mktime

LEMMA YearDaysFit ==
  ASSUME NEW yy \in 0..99
  PROVE  Calendar!YearDays(yy) \in Nat
<1>1. CASE yy = 69
  BY <1>1 DEF Calendar!YearDays
<1> QED BY <1>1, NextYear

(* The month that follows, in the table. *)
LEMMA MonthEnds ==
  ASSUME NEW yy \in 0..99, NEW mon \in 1..11,
         NEW d \in Int, d = Calendar!DaysIn(Calendar!ad_year(yy), mon)
  PROVE  /\ Calendar!month[mon] \in Nat /\ Calendar!month[mon + 1] \in Nat
         /\ Calendar!month[mon + 1] + (IF yy % 4 = 0 /\ mon + 1 > 2 THEN 1 ELSE 0) + (IF mon <= 3 THEN 0 ELSE 1)
            = Calendar!month[mon] + (IF yy % 4 = 0 /\ mon > 2 THEN 1 ELSE 0) + d + (IF mon + 1 <= 3 THEN 0 ELSE 1)
<1>1. d = IF mon \in {4, 6, 9, 11} THEN 30
          ELSE IF mon = 2 THEN (IF yy % 4 = 0 THEN 29 ELSE 28) ELSE 31
  BY MonthLengths
<1>2. CASE mon \in 1..3
  BY <1>1, <1>2, Months
<1>3. CASE mon \in 4..7
  BY <1>1, <1>3, Months
<1>4. CASE mon \in 8..11
  BY <1>1, <1>4, Months
<1> QED BY <1>2, <1>3, <1>4

LEMMA CalendarStep ==
  ASSUME CalendarInv, Calendar!Next
  PROVE  CalendarInv'
<1> DEFINE s == Calendar!SecondOfDay(days + 1)
           yy == date.year
           mon == date.mon
           mday == date.mday
           last == Calendar!DaysIn(Calendar!ad_year(yy), mon)
           Day(y, mo, d) == [year |-> y, mon |-> mo, mday |-> d,
                             hour |-> s \div 3600, min |-> (s \div 60) % 60, sec |-> s % 60]
<1>1. /\ date \in Dates /\ days \in Nat /\ mday <= last
      /\ Calendar!mktime(date).days = days + (IF mon <= 3 THEN 0 ELSE 1)
  BY DEF CalendarInv, OnDay
<1>2. days' = days + 1 /\ days + 1 \in Nat /\ date' = Calendar!NextDay(date)
      /\ ~(yy = 69 /\ mon = 12 /\ mday = 31)
  BY <1>1 DEF Calendar!Next
<1>3. yy \in 0..99 /\ mon \in 1..12 /\ mday \in 1..31
  BY <1>1 DEF Dates
<1>4. s \div 3600 \in 0..23 /\ (s \div 60) % 60 \in 0..59 /\ s % 60 \in 0..59
  BY <1>2, SecondsFit, Clock24
<1>5. \A y \in 0..99, mo \in 1..12, d \in 1..31 :
        /\ Day(y, mo, d) \in Dates /\ Day(y, mo, d).year = y /\ Day(y, mo, d).mon = mo /\ Day(y, mo, d).mday = d
        /\ AtTime(Day(y, mo, d), days + 1)
  BY <1>4 DEF Dates, AtTime
<1>6. date' = IF mday < last THEN Day(yy, mon, mday + 1)
              ELSE IF mon < 12 THEN Day(yy, mon + 1, 1) ELSE Day((yy + 1) % 100, 1, 1)
  BY <1>2 DEF Calendar!NextDay
<1>7. last \in 28..31 /\ (mon = 12 => last = 31)
  BY <1>3, MonthLengths
<1>8. Calendar!YearDays(yy) \in Nat /\ Calendar!month[mon] \in Nat
  BY <1>3, Months, YearDaysFit
<1>9. Calendar!YearDays(yy) + Calendar!month[mon] + (IF yy % 4 = 0 /\ mon > 2 THEN 1 ELSE 0) + mday - 1
        = days + (IF mon <= 3 THEN 0 ELSE 1)
  BY <1>1, DaysOf
<1> HIDE DEF Day, s, last
<1>10. CASE mday < last
  <2>1. mday + 1 \in 1..31 /\ date' = Day(yy, mon, mday + 1)
    BY <1>3, <1>6, <1>7, <1>10
  <2>2. date' \in Dates /\ date'.year = yy /\ date'.mon = mon /\ date'.mday = mday + 1 /\ AtTime(date', days + 1)
    <3>1. yy \in 0..99 /\ mon \in 1..12 /\ mday + 1 \in 1..31
      BY <2>1, <1>3
    <3>2. Day(yy, mon, mday + 1) \in Dates /\ Day(yy, mon, mday + 1).year = yy /\ Day(yy, mon, mday + 1).mon = mon /\ Day(yy, mon, mday + 1).mday = mday + 1 /\ AtTime(Day(yy, mon, mday + 1), days + 1)
      BY <3>1, <1>5
    <3> QED BY <2>1, <3>2
  <2>3. Calendar!mktime(date').days = (days + 1) + (IF mon <= 3 THEN 0 ELSE 1)
    <3>1. Calendar!mktime(date').days = Calendar!YearDays(yy) + Calendar!month[mon]
                                        + (IF yy % 4 = 0 /\ mon > 2 THEN 1 ELSE 0) + (mday + 1) - 1
      BY <2>2, DaysOf
    <3> QED BY <3>1, <1>1, <1>3, <1>8, <1>9
  <2>4. OnDay(date', days')
    BY <2>2, <2>3, <1>2, <1>3, <1>7, <1>10 DEF OnDay, last
  <2> QED BY <2>2, <2>4, <1>2 DEF CalendarInv
<1>11. CASE mday = last /\ mon < 12
  <2>1. mon + 1 \in 1..12 /\ mon \in 1..11 /\ date' = Day(yy, mon + 1, 1)
    BY <1>3, <1>6, <1>7, <1>11
  <2>2. date' \in Dates /\ date'.year = yy /\ date'.mon = mon + 1 /\ date'.mday = 1 /\ AtTime(date', days + 1)
    <3>1. yy \in 0..99 /\ mon + 1 \in 1..12 /\ 1 \in 1..31
      BY <2>1, <1>3
    <3>2. Day(yy, mon + 1, 1) \in Dates /\ Day(yy, mon + 1, 1).year = yy /\ Day(yy, mon + 1, 1).mon = mon + 1 /\ Day(yy, mon + 1, 1).mday = 1 /\ AtTime(Day(yy, mon + 1, 1), days + 1)
      BY <3>1, <1>5
    <3> QED BY <2>1, <3>2
  <2>3. /\ Calendar!month[mon + 1] \in Nat
        /\ Calendar!month[mon + 1] + (IF yy % 4 = 0 /\ mon + 1 > 2 THEN 1 ELSE 0) + (IF mon <= 3 THEN 0 ELSE 1)
            = Calendar!month[mon] + (IF yy % 4 = 0 /\ mon > 2 THEN 1 ELSE 0) + mday + (IF mon + 1 <= 3 THEN 0 ELSE 1)
    <3>1. mday \in Int /\ mday = Calendar!DaysIn(Calendar!ad_year(yy), mon)
      BY <1>3, <1>11 DEF last
    <3> QED BY <3>1, <2>1, <1>3, MonthEnds
  <2>4. Calendar!mktime(date').days = Calendar!YearDays(yy) + Calendar!month[mon + 1]
                                      + (IF yy % 4 = 0 /\ mon + 1 > 2 THEN 1 ELSE 0) + 1 - 1
    BY <2>2, DaysOf
  <2>5. Calendar!mktime(date').days = (days + 1) + (IF mon + 1 <= 3 THEN 0 ELSE 1)
    BY <2>3, <2>4, <1>1, <1>3, <1>8, <1>9, SMTT(30)
  <2>6. 1 <= Calendar!DaysIn(Calendar!ad_year(yy), mon + 1)
    BY <2>1, <1>3, MonthLengths
  <2>7. OnDay(date', days')
    BY <2>2, <2>5, <2>6, <1>2 DEF OnDay
  <2> QED BY <2>2, <2>7, <1>2 DEF CalendarInv
<1>12. CASE mday = last /\ mon = 12
  <2>1. mday = 31 /\ yy # 69 /\ date' = Day((yy + 1) % 100, 1, 1)
    BY <1>2, <1>3, <1>6, <1>7, <1>12
  <2>2. /\ (yy + 1) % 100 \in 0..99
        /\ Calendar!YearDays((yy + 1) % 100) = Calendar!YearDays(yy) + (IF yy % 4 = 0 THEN 366 ELSE 365)
    BY <2>1, <1>3, NextYear
  <2>3. date' \in Dates /\ date'.year = (yy + 1) % 100 /\ date'.mon = 1 /\ date'.mday = 1 /\ AtTime(date', days + 1)
    <3>1. (yy + 1) % 100 \in 0..99 /\ 1 \in 1..12 /\ 1 \in 1..31
      BY <2>2
    <3>2. Day((yy + 1) % 100, 1, 1) \in Dates /\ Day((yy + 1) % 100, 1, 1).year = (yy + 1) % 100 /\ Day((yy + 1) % 100, 1, 1).mon = 1 /\ Day((yy + 1) % 100, 1, 1).mday = 1 /\ AtTime(Day((yy + 1) % 100, 1, 1), days + 1)
      BY <3>1, <1>5
    <3> QED BY <2>1, <3>2
  <2>4. Calendar!mktime(date').days = Calendar!YearDays((yy + 1) % 100) + Calendar!month[1] + 0 + 1 - 1
    BY <2>3, DaysOf
  <2>5. Calendar!mktime(date').days = days + 1
    BY <2>1, <2>2, <2>4, <1>1, <1>3, <1>8, <1>9, <1>12, Months
  <2>6. 1 <= Calendar!DaysIn(Calendar!ad_year((yy + 1) % 100), 1)
    BY <2>2, MonthLengths
  <2>7. OnDay(date', days')
    BY <2>3, <2>5, <2>6, <1>2 DEF OnDay
  <2> QED BY <2>3, <2>7, <1>2 DEF CalendarInv
<1> QED BY <1>1, <1>3, <1>7, <1>10, <1>11, <1>12

(* Two digits in BCD and back. *)
LEMMA Bcd ==
  ASSUME NEW v \in 0..59
  PROVE  Calendar!bcd_to_bin(Calendar!bin_to_bcd(v)) = v
<1> DEFINE q == v \div 10
           r == v % 10
<1>1. q \in Nat /\ r \in 0..9 /\ v = 10 * q + r
  BY Division
<1>2. Calendar!bin_to_bcd(v) = 16 * q + r
  BY <1>1 DEF Calendar!bin_to_bcd
<1> HIDE DEF q, r
<1>3. (16 * q + r) % 16 = r /\ (16 * q + r) \div 16 = q
  BY <1>1, Quotient
<1>4. Calendar!bcd_to_bin(16 * q + r) = r + q * 10
  BY <1>3 DEF Calendar!bcd_to_bin
<1> QED BY <1>1, <1>2, <1>4

(* A digit of 60 and the carry. *)
LEMMA Carry ==
  ASSUME NEW a \in 0..119
  PROVE  a % 60 \in 0..59 /\ a = (a % 60) + 60 * (IF a >= 60 THEN 1 ELSE 0)
<1>1. CASE a < 60
  <2>1. (60 * 0 + a) % 60 = a
    BY <1>1, Quotient
  <2> QED BY <1>1, <2>1
<1>2. CASE a >= 60
  <2>1. (60 * 1 + (a - 60)) % 60 = a - 60
    BY <1>2, Quotient
  <2>2. 60 * 1 + (a - 60) = a
    OBVIOUS
  <2> QED BY <1>2, <2>1, <2>2
<1> QED BY <1>1, <1>2

(* set_alarm adds times of day. *)
LEMMA Alarm ==
  ASSUME NEW t, t.hour \in 0..23, t.min \in 0..59, t.sec \in 0..59, NEW secs \in Nat
  PROVE  LET a == Calendar!set_alarm(t, secs)
         IN  Calendar!bcd_to_bin(a.hour) * 3600 + Calendar!bcd_to_bin(a.min) * 60 + Calendar!bcd_to_bin(a.sec)
              = (t.hour * 3600 + t.min * 60 + t.sec + secs) % 86400
<1> DEFINE S == secs % 60
           q == secs \div 60
           M == q % 60
           H == secs \div 3600
           s == t.sec + S
           m == t.min + (IF s >= 60 THEN 1 ELSE 0) + M
           h == t.hour + (IF m >= 60 THEN 1 ELSE 0) + H
           a == Calendar!set_alarm(t, secs)
<1>1. S \in 0..59 /\ q \in Nat /\ secs = 60 * q + S
  BY Division
<1>2. M \in 0..59 /\ q \div 60 \in Nat /\ q = 60 * (q \div 60) + M
  BY <1>1, Division
<1>3. H = q \div 60
  <2> DEFINE g == q \div 60
  <2> HIDE DEF S, q, M, g
  <2>1. g \in Nat /\ secs = 3600 * g + (60 * M + S) /\ 60 * M + S \in 0..(3600 - 1)
    BY <1>1, <1>2 DEF g
  <2>2. \A b, v, w \in Nat : b > 0 /\ w < b => (b * v + w) \div b = v
    BY Quotient
  <2>3. 60 * M + S \in Nat /\ 60 * M + S < 3600
    BY <1>1, <1>2
  <2>4. secs \div 3600 = g
    BY <2>1, <2>2, <2>3
  <2> QED BY <2>4 DEF g
<1>4. H \in Nat /\ secs = 3600 * H + 60 * M + S
  <2> HIDE DEF S, q, M, H
  <2> QED BY <1>1, <1>2, <1>3
<1>5. a = [sec |-> Calendar!bin_to_bcd(s % 60), min |-> Calendar!bin_to_bcd(m % 60), hour |-> Calendar!bin_to_bcd(h % 24)]
  BY DEF Calendar!set_alarm
<1> HIDE DEF S, q, M, H, a
<1>6. s \in 0..119
  BY <1>1
<1>7. m \in 0..119
  BY <1>2, <1>6, SMTT(30)
<1>8. s % 60 \in 0..59 /\ s = (s % 60) + 60 * (IF s >= 60 THEN 1 ELSE 0)
  BY <1>6, Carry
<1>9. m % 60 \in 0..59 /\ m = (m % 60) + 60 * (IF m >= 60 THEN 1 ELSE 0)
  BY <1>7, Carry
<1>10. h \in Nat
  BY <1>4
<1> DEFINE cs == IF s >= 60 THEN 1 ELSE 0
           cm == IF m >= 60 THEN 1 ELSE 0
<1>11. cs \in 0..1 /\ cm \in 0..1 /\ m = t.min + cs + M /\ h = t.hour + cm + H
  OBVIOUS
<1> HIDE DEF s, m, h, cs, cm
<1>12. s = t.sec + S /\ s = (s % 60) + 60 * cs /\ m = (m % 60) + 60 * cm
  BY <1>8, <1>9 DEF s, cs, cm
<1> DEFINE low == (m % 60) * 60 + (s % 60)
           d == h \div 24
           r == h % 24
<1>13. d \in Nat /\ r \in 0..23 /\ h = 24 * d + r
  BY <1>10, Division
<1>14. low \in 0..3599
  <2> DEFINE m6 == m % 60
             s6 == s % 60
  <2>1. m6 \in 0..59 /\ s6 \in 0..59
    BY <1>8, <1>9
  <2>2. low = m6 * 60 + s6
    BY Zenon
  <2> HIDE DEF m6, s6, low
  <2> QED BY ONLY <2>1, <2>2
<1>15. t.hour * 3600 + t.min * 60 + t.sec + secs = 3600 * h + low
  <2> DEFINE m6 == m % 60
             s6 == s % 60
             t1 == t.hour
             t2 == t.min
             t3 == t.sec
  <2>1. m6 \in Int /\ s6 \in Int /\ S \in Int /\ M \in Int /\ H \in Int /\ cs \in Int /\ cm \in Int
        /\ t1 \in Int /\ t2 \in Int /\ t3 \in Int
    <3>1. S \in Int /\ M \in Int /\ H \in Int /\ cs \in Int /\ cm \in Int
      BY <1>1, <1>2, <1>4, <1>11
    <3>2. m6 \in Int /\ s6 \in Int
      BY <1>8, <1>9
    <3>3. t1 \in Int /\ t2 \in Int /\ t3 \in Int
      OBVIOUS
    <3> QED BY <3>1, <3>2, <3>3
  <2>2. t3 + S = s6 + 60 * cs /\ t2 + cs + M = m6 + 60 * cm /\ h = t1 + cm + H
        /\ secs = 3600 * H + 60 * M + S /\ low = m6 * 60 + s6
    BY <1>4, <1>11, <1>12
  <2> HIDE DEF m6, s6, t1, t2, t3, low
  <2>3. t1 * 3600 + t2 * 60 + t3 + secs = 3600 * h + low
    BY ONLY <2>1, <2>2
  <2> QED BY <2>3 DEF t1, t2, t3
<1> HIDE DEF d, r, low
<1>16. 3600 * h + low = 86400 * d + (3600 * r + low) /\ 3600 * r + low \in Nat /\ 3600 * r + low < 86400
  <2>1. d \in Int /\ r \in Int /\ 0 <= r /\ r <= 23 /\ low \in Int /\ 0 <= low /\ low < 3600 /\ h = 24 * d + r
    BY <1>13, <1>14
  <2> QED BY ONLY <2>1
<1>17. (t.hour * 3600 + t.min * 60 + t.sec + secs) % 86400 = 3600 * r + low
  <2>1. \A b, v, w \in Nat : b > 0 /\ w < b => (b * v + w) % b = w
    BY Quotient
  <2>2. (86400 * d + (3600 * r + low)) % 86400 = 3600 * r + low
    <3> DEFINE w == 3600 * r + low
    <3>1. w \in Nat /\ w < 86400
      BY <1>16
    <3> HIDE DEF w
    <3>2. (86400 * d + w) % 86400 = w
      BY <1>13, <2>1, <3>1
    <3> QED BY <3>2 DEF w
  <2> QED BY <2>2, <1>15, <1>16
<1>18. /\ Calendar!bcd_to_bin(a.hour) = r /\ Calendar!bcd_to_bin(a.min) = m % 60
       /\ Calendar!bcd_to_bin(a.sec) = s % 60
  BY <1>5, <1>8, <1>9, <1>13, Bcd DEF r
<1>19. r * 3600 + (m % 60) * 60 + (s % 60) = 3600 * r + low
  BY <1>13, <1>8, <1>9 DEF low
<1> QED BY <1>17, <1>18, <1>19 DEF a

(* What the invariant says of mktime and set_alarm. *)
LEMMA CalendarExact ==
  ASSUME CalendarInv
  PROVE  Calendar!ExactToMarch /\ Calendar!AlarmExact
<1> DEFINE s == Calendar!SecondOfDay(days)
<1>1. /\ date \in Dates /\ days \in Nat
      /\ Calendar!mktime(date).days = days + (IF date.mon <= 3 THEN 0 ELSE 1)
      /\ date.hour = s \div 3600 /\ date.min = (s \div 60) % 60 /\ date.sec = s % 60
  BY DEF CalendarInv, OnDay, AtTime
<1>2. s \in Nat /\ s < 86400
  BY <1>1, SecondsFit
<1> HIDE DEF s
<1>3. date.hour * 3600 + date.min * 60 + date.sec = s
  BY <1>1, <1>2, Clock24
<1>4. Calendar!mktime(date).secs = s
  BY <1>1, <1>3, DaysOf
<1>5. Calendar!ExactToMarch
  BY <1>1, <1>4 DEF Calendar!ExactToMarch, s
<1>6. ASSUME NEW secs \in Alarms
      PROVE  LET a == Calendar!set_alarm(date, secs)
             IN  Calendar!bcd_to_bin(a.hour) * 3600 + Calendar!bcd_to_bin(a.min) * 60 + Calendar!bcd_to_bin(a.sec)
                  = (s + secs) % 86400
  <2>1. secs \in Nat /\ date.hour \in 0..23 /\ date.min \in 0..59 /\ date.sec \in 0..59
    BY <1>1, ServicesAssumption DEF Dates
  <2> QED BY <2>1, <1>3, Alarm
<1>7. Calendar!AlarmExact
  BY <1>6 DEF Calendar!AlarmExact, s
<1> QED BY <1>5, <1>7

LEMMA CalendarStart == Calendar!Init => CalendarInv
<1> SUFFICES ASSUME Calendar!Init PROVE CalendarInv
  OBVIOUS
<1>1. date = [year |-> 70, mon |-> 1, mday |-> 1, hour |-> 0, min |-> 0, sec |-> 0] /\ days = 0
  BY DEF Calendar!Init
<1>2. date \in Dates
  BY <1>1 DEF Dates
<1>3. Calendar!SecondOfDay(0) = 0
  BY DEF Calendar!SecondOfDay
<1>4. AtTime(date, days)
  BY <1>1, <1>3 DEF AtTime
<1>5. Calendar!YearDays(70) = 0
  BY DEF Calendar!YearDays
<1>6. Calendar!mktime(date).days = 0
  BY <1>1, <1>2, <1>5, DaysOf, Months
<1>7. 1 <= Calendar!DaysIn(Calendar!ad_year(70), 1)
  BY MonthLengths
<1> QED BY <1>1, <1>2, <1>4, <1>6, <1>7 DEF CalendarInv, OnDay

LEMMA CmosStart == Cmos!Init => CmosInv
<1> SUFFICES ASSUME Cmos!Init PROVE CmosInv
  OBVIOUS
<1>1. MaxTicks \in Nat /\ Base \in Nat /\ Base > 0
  BY ServicesAssumption
<1>2. clock = Cmos!Time(0) /\ time = Cmos!Time(0) /\ at = 1 /\ ticks = 0 /\ updating = FALSE /\ overlap = FALSE
  BY DEF Cmos!Init
<1>3. Base * Base \in Nat /\ Base * Base > 0
  BY <1>1
<1>4. 0 \in Nat /\ 0 \div Base \in Nat /\ 0 \div (Base * Base) \in Nat
  BY <1>1, <1>3, Division
<1>5. 0 % Base \in Digit /\ (0 \div Base) % Base \in Digit /\ (0 \div (Base * Base)) % Base \in Digit
  BY <1>4, Remainders
<1>6. Cmos!Time(0) \in Digits /\ Cmos!Time(0) \in Readings
  <2>1. Cmos!Time(0) \in Digits
    BY <1>5 DEF Cmos!Time, Digits
  <2>2. \A d \in Digit : d \in 0..Base
    BY <1>1 DEF Digit
  <2>3. ASSUME NEW t \in Digits PROVE t \in Readings
    BY <2>2 DEF Digits, Readings
  <2> QED BY <2>1, <2>3
<1>7. 1 \in 1..5 /\ 1 \notin 2..4 /\ 1 # 5 /\ 0 \in 0..MaxTicks
  BY <1>1
<1> QED BY <1>2, <1>6, <1>7 DEF CmosInv

-----------------------------------------------------------------------------
(* Calendar and CMOS in the composition. *)

TimeInv == CalendarInv /\ CmosInv

(* mktime and set_alarm of the calendar, and the round of time_read_bcd in *)
(* the CMOS, keep what their exactness follows from.                       *)
THEOREM TimeInvariance == Spec => []TimeInv
<1>1. Init => TimeInv
  BY CalendarStart, CmosStart DEF Init, TimeInv
<1>2. TimeInv /\ [Next]_vars => TimeInv'
  <2> SUFFICES ASSUME TimeInv, [Next]_vars PROVE TimeInv'
    OBVIOUS
  <2>1. (UNCHANGED calendar \/ Calendar!Next) /\ (UNCHANGED cmos \/ Cmos!Next)
    BY DEF Next, vars
  <2>2. UNCHANGED calendar => CalendarInv'
    BY DEF calendar, TimeInv, CalendarInv, OnDay, AtTime
  <2>3. UNCHANGED cmos => CmosInv'
    BY DEF cmos, TimeInv, CmosInv, Round, ReadSame
  <2> QED BY <2>1, <2>2, <2>3, CalendarStep, CmosStep DEF TimeInv
<1> QED BY <1>1, <1>2, PTL DEF Spec

(* mktime is exact until March and within a day after it, the alarm        *)
(* registers hold the time of day asked for, and the time of time_read_bcd *)
(* is one that the clock showed, if no read fell into an update of it.     *)
THEOREM TimesExact == Spec => []TimeExact
<1>1. TimeInv => TimeExact
  BY CalendarExact DEF TimeInv, TimeExact, CmosInv, Cmos!NotTorn
<1> QED BY <1>1, TimeInvariance, PTL

-----------------------------------------------------------------------------
(* The console, for every size of the screen and of display memory. *)

W == SCR_WIDTH
H == SCR_HEIGHT
Cells == Char \cup {"_"}
Videos == [0..(CGA_MEM_SIZE - 1) -> Cells]

(* A console and its memory, and the rows that are on its screen. *)
Written(m, base, addr, x, y) ==
    [mem |-> m, c |-> [screen_base |-> base, cursor_addr |-> addr, cursor_x |-> x, cursor_y |-> y]]

View(m, base) == [r \in 1..H |-> [x \in 1..W |-> m[base + (r - 1) * W + x - 1]]]

(* The screen is at the start of memory or a row behind it, the cursor in  *)
(* its row r and column x (behind the row, before the line feed of put);   *)
(* cursor_y counts line feeds and is the row until the last one.           *)
Placed(m, base, addr, r, x, y) ==
    /\ m \in Videos /\ base \in {0, W}
    /\ r \in 0..(H - 1) /\ x \in 0..W /\ addr = base + (r * W + x)
    /\ y \in Nat /\ y >= r /\ (y = r \/ r = H - 1)

ConsoleInv ==
    \E base, addr, r, x, y :
      /\ c = [screen_base |-> base, cursor_addr |-> addr, cursor_x |-> x, cursor_y |-> y]
      /\ Placed(video, base, addr, r, x, y) /\ x < W
      /\ crt = [start |-> base, cursor |-> addr]

(* Places on the screen, numbered row by row. *)
LEMMA Numbered ==
  ASSUME NEW r \in 0..(H - 1), NEW x \in 0..(W - 1)
  PROVE  /\ r * W + x \in 0..(W * H - 1)
         /\ (r * W + x) \div W = r /\ (r * W + x) % W = x
<1>1. W \in Nat /\ W > 0 /\ H \in Nat /\ H > 0 /\ r \in Nat /\ x \in Nat
  BY ServicesAssumption DEF W, H
<1> HIDE DEF W, H
<1>2. r * W = W * r
  BY <1>1
<1>3. (r * W + x) \div W = r /\ (r * W + x) % W = x
  BY <1>1, <1>2, Quotient
<1>4. r * W + W <= W * H
  <2>1. (H - (r + 1)) * W >= 0
    BY <1>1
  <2>2. (H - (r + 1)) * W = H * W - (r * W + W)
    BY <1>1
  <2> QED BY <1>1, <2>1, <2>2
<1> QED BY <1>1, <1>3, <1>4

(* A place has one number. *)
LEMMA OnePlace ==
  ASSUME NEW r \in 0..(H - 1), NEW x \in 0..(W - 1), NEW r2 \in 0..(H - 1), NEW x2 \in 0..(W - 1),
         r * W + x = r2 * W + x2
  PROVE  r = r2 /\ x = x2
BY Numbered

(* The sizes that the assumption gives. *)
LEMMA ScreenSizes ==
  /\ W \in Nat /\ W > 0 /\ H \in Nat /\ H > 0 /\ CGA_MEM_SIZE \in Nat
  /\ W * H \in Nat /\ W * H + 2 * W < CGA_MEM_SIZE /\ Console!SCR_SIZE = W * H
BY ServicesAssumption DEF W, H, Console!SCR_SIZE

(* What is in an erased cell. *)
Erased == "_"

(* One cell is written, in memory and on the screen. *)
Over(m, i, v) == [m EXCEPT ![i] = v]
Place(base, r, x) == base + (r * W + x)
CellSet(s, r, x, v) == [s EXCEPT ![r + 1][x + 1] = v]

LEMMA CellWritten ==
  ASSUME NEW m \in Videos, NEW base \in {0, W}, NEW r \in 0..(H - 1), NEW x \in 0..(W - 1), NEW v \in Cells
  PROVE  /\ Over(m, Place(base, r, x), v) \in Videos
         /\ View(Over(m, Place(base, r, x), v), base) = CellSet(View(m, base), r, x, v)
<1> DEFINE a == base + (r * W + x)
           m2 == Over(m, a, v)
<1>1. r * W + x \in 0..(W * H - 1) /\ a \in 0..(CGA_MEM_SIZE - 1)
  BY Numbered, ScreenSizes
<1>2. m2 \in Videos /\ \A i \in 0..(CGA_MEM_SIZE - 1) : m2[i] = IF i = a THEN v ELSE m[i]
  BY <1>1 DEF Videos, Over
<1> HIDE DEF a, m2
<1>3. ASSUME NEW q \in 1..H, NEW z \in 1..W
      PROVE  m2[base + (q - 1) * W + z - 1] = IF q = r + 1 /\ z = x + 1 THEN v ELSE m[base + (q - 1) * W + z - 1]
  <2>1. q - 1 \in 0..(H - 1) /\ z - 1 \in 0..(W - 1)
    BY ScreenSizes
  <2>2. (q - 1) * W + (z - 1) \in 0..(W * H - 1)
    BY <2>1, Numbered
  <2>3. (q - 1) * W \in Int
    BY <2>1, ScreenSizes
  <2>4. base + (q - 1) * W + z - 1 = base + ((q - 1) * W + (z - 1)) /\ base + ((q - 1) * W + (z - 1)) \in 0..(CGA_MEM_SIZE - 1)
    BY <2>2, <2>3, ScreenSizes
  <2>5. base + ((q - 1) * W + (z - 1)) = a <=> q = r + 1 /\ z = x + 1
    <3>1. (q - 1) * W + (z - 1) = r * W + x => q - 1 = r /\ z - 1 = x
      BY <2>1, OnePlace
    <3>2. base \in Int /\ r * W + x \in Int /\ (q - 1) * W + (z - 1) \in Int
      BY <1>1, <2>2, ScreenSizes
    <3>3. base + ((q - 1) * W + (z - 1)) = a => (q - 1) * W + (z - 1) = r * W + x
      <4> DEFINE j == (q - 1) * W + (z - 1)
                 k == r * W + x
      <4>1. base \in Int /\ j \in Int /\ k \in Int
        BY <3>2
      <4> HIDE DEF j, k
      <4>2. base + j = base + k => j = k
        BY ONLY <4>1
      <4> QED BY <4>2 DEF a, j, k
    <3>4. ASSUME q = r + 1, z = x + 1 PROVE base + ((q - 1) * W + (z - 1)) = a
      <4>1. q - 1 = r /\ z - 1 = x
        BY <3>4
      <4> QED BY <4>1 DEF a
    <3> QED BY <3>1, <3>3, <3>4, <2>1
  <2> QED BY <2>4, <2>5, <1>2
<1> DEFINE K(q, z) == base + (q - 1) * W + z - 1
<1>4. /\ View(m, base) = [q \in 1..H |-> [z \in 1..W |-> m[K(q, z)]]]
      /\ View(m2, base) = [q \in 1..H |-> [z \in 1..W |-> m2[K(q, z)]]]
      /\ \A q \in 1..H, z \in 1..W : m2[K(q, z)] = IF q = r + 1 /\ z = x + 1 THEN v ELSE m[K(q, z)]
  BY <1>3 DEF View
<1> HIDE DEF K
<1>5. View(m2, base) = [View(m, base) EXCEPT ![r + 1][x + 1] = v]
  <2> DEFINE V == [View(m, base) EXCEPT ![r + 1][x + 1] = v]
  <2>1. V = [q \in 1..H |-> IF q = r + 1 THEN [View(m, base)[q] EXCEPT ![x + 1] = v] ELSE View(m, base)[q]]
    BY <1>4
  <2>2. ASSUME NEW q \in 1..H PROVE V[q] = [z \in 1..W |-> m2[K(q, z)]]
    <3>1. CASE q = r + 1
      <4>1. V[q] = [z \in 1..W |-> IF z = x + 1 THEN v ELSE m[K(q, z)]]
        <5>1. View(m, base)[q] = [z \in 1..W |-> m[K(q, z)]]
          BY <1>4
        <5>2. V[q] = [View(m, base)[q] EXCEPT ![x + 1] = v]
          BY <2>1, <3>1
        <5> HIDE DEF V
        <5> QED BY <5>1, <5>2
      <4> HIDE DEF V
      <4> QED BY <4>1, <3>1, <1>4
    <3>2. CASE q # r + 1
      <4>1. V[q] = [z \in 1..W |-> m[K(q, z)]]
        BY <2>1, <3>2, <1>4
      <4> HIDE DEF V
      <4> QED BY <4>1, <3>2, <1>4
    <3> QED BY <3>1, <3>2
  <2>3. DOMAIN V = 1..H /\ V = [q \in 1..H |-> V[q]]
    BY <2>1
  <2> HIDE DEF V
  <2>4. V = View(m2, base)
    BY <2>2, <2>3, <1>4
  <2> QED BY <2>4 DEF V
<1> QED BY <1>2, <1>5 DEF a, m2, Place, CellSet

(* What becomes of the rows and the cursor's row behind the last row, as   *)
(* in Terminal.                                                            *)
Blank == [x \in 1..W |-> "_"]
Lower(s, r) == IF r + 1 < H THEN s ELSE Append(Tail(s), Blank)
LowerRow(r) == IF r + 1 < H THEN r + 1 ELSE r

(* The rows move up by one and a blank one comes after them. *)
LEMMA Shifted ==
  ASSUME NEW T, NEW s \in [1..H -> T], NEW t \in [1..H -> T], \A q \in 1..(H - 1) : t[q] = s[q + 1], t[H] = Blank
  PROVE  t = Append(Tail(s), Blank)
<1> DEFINE u == Tail(s)
           v == Append(u, Blank)
<1>1. H \in Nat /\ H > 0
  BY ScreenSizes
<1>2. s \in Seq(T) /\ Len(s) = H /\ s # <<>> /\ t \in Seq(T) /\ Len(t) = H /\ Blank \in T
  BY <1>1
<1>3. u \in Seq(T) /\ Len(u) = H - 1 /\ \A q \in 1..Len(u) : u[q] = s[q + 1]
  BY <1>2, HeadTailProperties
<1> HIDE DEF u
<1>4. v \in Seq(T) /\ Len(v) = H /\ \A q \in 1..H : v[q] = IF q = H THEN Blank ELSE u[q]
  <2>1. v \in Seq(T) /\ Len(v) = Len(u) + 1 /\ (\A q \in 1..Len(u) : v[q] = u[q]) /\ v[Len(u) + 1] = Blank
    BY <1>2, <1>3, AppendProperties
  <2> HIDE DEF v
  <2> QED BY <2>1, <1>1, <1>3
<1> HIDE DEF v
<1>5. \A q \in 1..H : v[q] = t[q]
  BY <1>1, <1>3, <1>4
<1>6. v = t
  BY <1>2, <1>4, <1>5, SeqEqual
<1> QED BY <1>6 DEF u, v

(* Functions that agree everywhere are equal. *)
LEMMA SameFunction ==
  ASSUME NEW S, NEW T, NEW f \in [S -> T], NEW g \in [S -> T], \A z \in S : f[z] = g[z]
  PROVE  f = g
OBVIOUS

(* The rows on the screen are rows of cells. *)
LEMMA ViewType ==
  ASSUME NEW m \in Videos, NEW base \in {0, W}
  PROVE  View(m, base) \in [1..H -> [1..W -> Cells]]
<1>1. ASSUME NEW q \in 1..H, NEW z \in 1..W PROVE m[base + (q - 1) * W + z - 1] \in Cells
  <2>1. q - 1 \in 0..(H - 1) /\ z - 1 \in 0..(W - 1)
    BY ScreenSizes
  <2>2. (q - 1) * W + (z - 1) \in 0..(W * H - 1)
    BY <2>1, Numbered
  <2>3. (q - 1) * W \in Int
    BY <2>1, ScreenSizes
  <2>4. base + (q - 1) * W + z - 1 \in 0..(CGA_MEM_SIZE - 1)
    BY <2>2, <2>3, ScreenSizes
  <2> QED BY <2>4 DEF Videos
<1> QED BY <1>1 DEF View

(* The screen scrolls: its rows but the first are at the start of memory,  *)
(* the screen and the cursor a row behind.                                 *)
Scrolled(m, base) ==
    [i \in 0..(CGA_MEM_SIZE - 1) |-> IF i \in (W * H)..(W * H + W - 1) THEN "_"
                                     ELSE IF i < W * H THEN m[base + i] ELSE m[i]]

LEMMA ScrollEffect ==
  ASSUME NEW m \in Videos, NEW base \in {0, W}, NEW a \in Int, NEW x, NEW y
  PROVE  /\ Console!scroll_up(Written(m, base, a, x, y)) = Written(Scrolled(m, base), W, a - base, x, y)
         /\ Scrolled(m, base) \in Videos
         /\ View(Scrolled(m, base), W) = Append(Tail(View(m, base)), Blank)
<1>1. base + W * H + W < CGA_MEM_SIZE /\ Console!SCR_SIZE = W * H /\ SCR_WIDTH = W
  BY ScreenSizes DEF W
<1>2. DOMAIN m = 0..(CGA_MEM_SIZE - 1)
  BY DEF Videos
<1> DEFINE s == Written(m, base, a, x, y)
           n == Console!CopiedToStart(m, base)
           p == [mem |-> n, c |-> [s.c EXCEPT !.cursor_addr = @ - base, !.screen_base = 0]]
<1>3. Console!scroll_up(s) = Console!MovedDown(p)
  BY <1>1 DEF Console!scroll_up, Written
<1>4. n = [i \in 0..(CGA_MEM_SIZE - 1) |-> IF i < W * H THEN m[base + i] ELSE m[i]]
  BY <1>1, <1>2 DEF Console!CopiedToStart
<1> HIDE DEF n
<1>5. p = Written(n, 0, a - base, x, y)
  <2>1. s.c = [screen_base |-> base, cursor_addr |-> a, cursor_x |-> x, cursor_y |-> y]
    BY DEF Written
  <2>2. [s.c EXCEPT !.cursor_addr = @ - base, !.screen_base = 0]
          = [screen_base |-> 0, cursor_addr |-> a - base, cursor_x |-> x, cursor_y |-> y]
    <3> DEFINE d == [screen_base |-> base, cursor_addr |-> a, cursor_x |-> x, cursor_y |-> y]
               e == [screen_base |-> base, cursor_addr |-> a - base, cursor_x |-> x, cursor_y |-> y]
    <3>1. [d EXCEPT !.cursor_addr = @ - base] = e
      BY ScreenSizes
    <3>2. [e EXCEPT !.screen_base = 0] = [screen_base |-> 0, cursor_addr |-> a - base, cursor_x |-> x, cursor_y |-> y]
      OBVIOUS
    <3>3. [d EXCEPT !.cursor_addr = @ - base, !.screen_base = 0] = [[d EXCEPT !.cursor_addr = @ - base] EXCEPT !.screen_base = 0]
      OBVIOUS
    <3>4. s.c = d
      BY <2>1
    <3> HIDE DEF d, e, s
    <3> QED BY <3>1, <3>2, <3>3, <3>4
  <2> QED BY <2>2 DEF Written
<1> HIDE DEF p
<1>6. Console!MovedDown(Written(n, 0, a - base, x, y)) = Written(Scrolled(m, base), W, a - base, x, y)
  <2>1. DOMAIN n = 0..(CGA_MEM_SIZE - 1)
    BY <1>4
  <2>2. 0 + W * H = W * H /\ 0 + W = W
    BY ScreenSizes
  <2> DEFINE z == Written(n, 0, a - base, x, y)
  <2>3. z.mem = n /\ z.c = [screen_base |-> 0, cursor_addr |-> a - base, cursor_x |-> x, cursor_y |-> y]
    BY DEF Written
  <2>4. Console!MovedDown(z).mem = Scrolled(m, base)
    <3>1. Console!MovedDown(z).mem = [i \in DOMAIN z.mem |-> IF i \in (0 + W * H)..((0 + W * H) + W - 1) THEN "_" ELSE z.mem[i]]
      <4>1. z.c.screen_base = 0
        BY <2>3
      <4> HIDE DEF z
      <4>2. Console!MovedDown(z).mem = [i \in DOMAIN z.mem |->
              IF i \in (z.c.screen_base + W * H)..((z.c.screen_base + W * H) + W - 1) THEN "_" ELSE z.mem[i]]
        BY <1>1 DEF Console!MovedDown
      <4> QED BY <4>1, <4>2
    <3> HIDE DEF z
    <3>2. Console!MovedDown(z).mem = [i \in 0..(CGA_MEM_SIZE - 1) |-> IF i \in (W * H)..(W * H + W - 1) THEN "_" ELSE n[i]]
      BY <3>1, <2>1, <2>2, <2>3
    <3>3. Scrolled(m, base) = [i \in 0..(CGA_MEM_SIZE - 1) |-> IF i \in (W * H)..(W * H + W - 1) THEN "_" ELSE n[i]]
      BY <1>4 DEF Scrolled
    <3> QED BY <3>2, <3>3
  <2>5. Console!MovedDown(z).c = [screen_base |-> W, cursor_addr |-> a - base, cursor_x |-> x, cursor_y |-> y]
    BY <2>2, <2>3, <1>1 DEF Console!MovedDown
  <2>6. Console!MovedDown(z) = [mem |-> Console!MovedDown(z).mem, c |-> Console!MovedDown(z).c]
    BY DEF Console!MovedDown
  <2> QED BY <2>4, <2>5, <2>6 DEF Written
<1>7. Scrolled(m, base) \in Videos
  <2>1. ASSUME NEW i \in 0..(CGA_MEM_SIZE - 1), i < W * H PROVE base + i \in 0..(CGA_MEM_SIZE - 1)
    BY <2>1, <1>1, ScreenSizes
  <2> QED BY <2>1 DEF Scrolled, Videos, Cells
<1>8. View(Scrolled(m, base), W) = Append(Tail(View(m, base)), Blank)
  <2> DEFINE v == View(Scrolled(m, base), W)
             u == View(m, base)
  <2>1. u \in [1..H -> [1..W -> Cells]] /\ v \in [1..H -> [1..W -> Cells]]
    BY <1>7, ViewType
  <2>2. ASSUME NEW q \in 1..H, NEW z \in 1..W
        PROVE  v[q][z] = IF q = H THEN "_" ELSE u[q + 1][z]
    <3>1. q \in Int /\ z \in Int /\ H \in Int /\ W \in Int /\ q * W \in Int /\ (q - 1) * W = q * W - W /\ W * H = H * W /\ W * H \in Int
      BY ScreenSizes
    <3>2. v[q][z] = Scrolled(m, base)[W + (q - 1) * W + z - 1]
      BY DEF View
    <3> DEFINE k == q * W + (z - 1)
    <3>3. W + (q - 1) * W + z - 1 = k
      <4> DEFINE e == q * W
                 d == (q - 1) * W
      <4>1. d = e - W /\ e \in Int /\ d \in Int /\ z \in Int /\ W \in Int
        BY <3>1
      <4> HIDE DEF e, d
      <4>2. W + d + z - 1 = e + (z - 1)
        BY ONLY <4>1
      <4> QED BY <4>2 DEF e, d, k
    <3>4. CASE q = H
      <4>1. k = W * H + (z - 1) /\ k \in (W * H)..(W * H + W - 1) /\ k \in 0..(CGA_MEM_SIZE - 1)
        BY <3>1, <3>4, ScreenSizes
      <4> HIDE DEF k
      <4>2. Scrolled(m, base)[k] = "_"
        BY <4>1 DEF Scrolled
      <4> QED BY <4>2, <3>2, <3>3, <3>4
    <3>5. CASE q # H
      <4>1. q \in 0..(H - 1) /\ z - 1 \in 0..(W - 1) /\ q + 1 \in 1..H
        BY <3>5, <3>1
      <4>2. k \in 0..(W * H - 1) /\ k \in 0..(CGA_MEM_SIZE - 1) /\ ~ (k \in (W * H)..(W * H + W - 1))
        BY <4>1, Numbered, ScreenSizes
      <4>3. u[q + 1][z] = m[base + ((q + 1) - 1) * W + z - 1]
        BY <4>1 DEF View
      <4>4. base + ((q + 1) - 1) * W + z - 1 = base + k
        BY <3>1, ScreenSizes
      <4> HIDE DEF k
      <4>5. k < W * H
        BY <4>2, <3>1
      <4>6. Scrolled(m, base)[k] = m[base + k]
        BY <4>2, <4>5 DEF Scrolled
      <4> QED BY <4>3, <4>4, <4>6, <3>2, <3>3, <3>5
    <3> QED BY <3>4, <3>5
  <2> HIDE DEF u, v
  <2>3. v[H] = Blank
    <3>1. H \in 1..H /\ v[H] \in [1..W -> Cells]
      BY <2>1, ScreenSizes
    <3>2. ASSUME NEW z \in 1..W PROVE v[H][z] = "_"
      BY <3>1, <2>2
    <3> QED BY <3>1, <3>2 DEF Blank
  <2>4. ASSUME NEW q \in 1..(H - 1) PROVE v[q] = u[q + 1]
    <3>1. q \in 1..H /\ q # H /\ q + 1 \in 1..H
      BY ScreenSizes
    <3>2. v[q] \in [1..W -> Cells] /\ u[q + 1] \in [1..W -> Cells]
      BY <3>1, <2>1
    <3>3. ASSUME NEW z \in 1..W PROVE v[q][z] = u[q + 1][z]
      BY <3>1, <2>2
    <3> DEFINE f == v[q]
               g == u[q + 1]
               S == 1..W
    <3>4. f \in [S -> Cells] /\ g \in [S -> Cells] /\ \A z \in S : f[z] = g[z]
      BY <3>2, <3>3
    <3> HIDE DEF f, g, S
    <3>5. f = g
      BY <3>4, SameFunction
    <3> QED BY <3>5 DEF f, g
  <2>5. v = Append(Tail(u), Blank)
    BY <2>1, <2>3, <2>4, Shifted
  <2> QED BY <2>5 DEF u, v
<1> QED BY <1>3, <1>5, <1>6, <1>7, <1>8

(* The assignments of the commands. *)
NextRow(s) == [s EXCEPT !.c.cursor_y = @ + 1, !.c.cursor_addr = @ + W]
RowStart(s) == [s EXCEPT !.c.cursor_addr = @ - s.c.cursor_x, !.c.cursor_x = 0]
Cell(s, i, v) == [s EXCEPT !.mem[i] = v]
CellBack(s, i, v) == [s EXCEPT !.c.cursor_x = @ - 1, !.c.cursor_addr = @ - 1, !.mem[i] = v]
CellOn(s, i, v) == [s EXCEPT !.mem[i] = v, !.c.cursor_addr = @ + 1, !.c.cursor_x = @ + 1]

LEMMA WrittenLf ==
  ASSUME NEW m, NEW b, NEW a \in Int, NEW x \in Int, NEW y \in Int
  PROVE  NextRow(Written(m, b, a, x, y)) = Written(m, b, a + W, x, y + 1)
<1> DEFINE s == Written(m, b, a, x, y)
<1>0. W \in Int
  BY ScreenSizes
<1>1. [s EXCEPT !.c.cursor_y = @ + 1, !.c.cursor_addr = @ + W] = [[s EXCEPT !.c.cursor_y = @ + 1] EXCEPT !.c.cursor_addr = @ + W]
  OBVIOUS
<1>2. [s EXCEPT !.c.cursor_y = @ + 1] = Written(m, b, a, x, y + 1)
  BY DEF Written
<1>3. [Written(m, b, a, x, y + 1) EXCEPT !.c.cursor_addr = @ + W] = Written(m, b, a + W, x, y + 1)
  BY <1>0 DEF Written
<1> HIDE DEF s
<1> QED BY <1>1, <1>2, <1>3 DEF s, NextRow

LEMMA WrittenCr ==
  ASSUME NEW m, NEW b, NEW a \in Int, NEW x \in Int, NEW y \in Int
  PROVE  RowStart(Written(m, b, a, x, y)) = Written(m, b, a - x, 0, y)
<1> DEFINE s == Written(m, b, a, x, y)
<1>1. [s EXCEPT !.c.cursor_addr = @ - x, !.c.cursor_x = 0] = [[s EXCEPT !.c.cursor_addr = @ - x] EXCEPT !.c.cursor_x = 0]
  OBVIOUS
<1>2. [s EXCEPT !.c.cursor_addr = @ - x] = Written(m, b, a - x, x, y)
  BY DEF Written
<1>3. [Written(m, b, a - x, x, y) EXCEPT !.c.cursor_x = 0] = Written(m, b, a - x, 0, y)
  BY DEF Written
<1>9. s.c.cursor_x = x
  BY DEF Written
<1> HIDE DEF s
<1> QED BY <1>1, <1>2, <1>3, <1>9 DEF s, RowStart

LEMMA WrittenDel ==
  ASSUME NEW m, NEW b, NEW a, NEW x, NEW y, NEW i, NEW v
  PROVE  Cell(Written(m, b, a, x, y), i, v) = Written(Over(m, i, v), b, a, x, y)
BY DEF Written, Cell, Over

LEMMA WrittenBs ==
  ASSUME NEW m, NEW b, NEW a \in Int, NEW x \in Int, NEW y \in Int, NEW i, NEW v
  PROVE  CellBack(Written(m, b, a, x, y), i, v)
           = Written(Over(m, i, v), b, a - 1, x - 1, y)
<1> DEFINE s == Written(m, b, a, x, y)
<1>1. [s EXCEPT !.c.cursor_x = @ - 1, !.c.cursor_addr = @ - 1, !.mem[i] = v]
        = [[[s EXCEPT !.c.cursor_x = @ - 1] EXCEPT !.c.cursor_addr = @ - 1] EXCEPT !.mem[i] = v]
  OBVIOUS
<1>2. [s EXCEPT !.c.cursor_x = @ - 1] = Written(m, b, a, x - 1, y)
  BY DEF Written
<1>3. [Written(m, b, a, x - 1, y) EXCEPT !.c.cursor_addr = @ - 1] = Written(m, b, a - 1, x - 1, y)
  BY DEF Written
<1>4. [Written(m, b, a - 1, x - 1, y) EXCEPT !.mem[i] = v] = Written(Over(m, i, v), b, a - 1, x - 1, y)
  BY DEF Written, Over
<1> HIDE DEF s
<1> QED BY <1>1, <1>2, <1>3, <1>4 DEF s, CellBack

LEMMA WrittenPut ==
  ASSUME NEW m, NEW b, NEW a \in Int, NEW x \in Int, NEW y \in Int, NEW i, NEW v
  PROVE  CellOn(Written(m, b, a, x, y), i, v)
           = Written(Over(m, i, v), b, a + 1, x + 1, y)
<1> DEFINE s == Written(m, b, a, x, y)
<1>1. [s EXCEPT !.mem[i] = v, !.c.cursor_addr = @ + 1, !.c.cursor_x = @ + 1]
        = [[[s EXCEPT !.mem[i] = v] EXCEPT !.c.cursor_addr = @ + 1] EXCEPT !.c.cursor_x = @ + 1]
  OBVIOUS
<1> DEFINE n == Over(m, i, v)
<1>2. [s EXCEPT !.mem[i] = v] = Written(n, b, a, x, y)
  BY DEF Written, Over
<1> HIDE DEF n
<1>3. [Written(n, b, a, x, y) EXCEPT !.c.cursor_addr = @ + 1] = Written(n, b, a + 1, x, y)
  BY DEF Written
<1>4. [Written(n, b, a + 1, x, y) EXCEPT !.c.cursor_x = @ + 1] = Written(n, b, a + 1, x + 1, y)
  BY DEF Written
<1> HIDE DEF s
<1> QED BY <1>1, <1>2, <1>3, <1>4 DEF n, s, CellOn

(* A line feed: the row below, or the last row once the screen has moved.  *)
LEMMA LfEffect ==
  ASSUME NEW m, NEW base, NEW a, NEW r, NEW x, NEW y, Placed(m, base, a, r, x, y)
  PROVE  \E m2, b2, a2 :
           /\ Console!command_lf(Written(m, base, a, x, y)) = Written(m2, b2, a2, x, y + 1)
           /\ Placed(m2, b2, a2, LowerRow(r), x, y + 1)
           /\ View(m2, b2) = Lower(View(m, base), r)
<1> DEFINE s == Written(m, base, a, x, y)
<1>1. /\ m \in Videos /\ base \in {0, W} /\ r \in 0..(H - 1) /\ x \in 0..W /\ a = base + (r * W + x)
      /\ y \in Nat /\ y >= r /\ (y = r \/ r = H - 1) /\ r * W \in Int /\ (r + 1) * W = r * W + W
      /\ base \in Int /\ a \in Int /\ x \in Int /\ s.c.cursor_y = y /\ SCR_WIDTH = W /\ SCR_HEIGHT = H
  BY ScreenSizes DEF Placed, Written, W, H
<1>4. m \in Videos /\ base \in {0, W} /\ a \in Int /\ x \in Int /\ y \in Int
  BY <1>1
<1>2. CASE y + 1 < H
  <2>1. ~ (y + 1 >= H) /\ r + 1 < H /\ y = r /\ r + 1 \in 0..(H - 1)
    BY <1>1, <1>2, ScreenSizes
  <2>2. Console!command_lf(s) = [s EXCEPT !.c.cursor_y = @ + 1, !.c.cursor_addr = @ + W]
    BY <2>1, <1>1 DEF Console!command_lf
  <2>3. Console!command_lf(s) = Written(m, base, a + W, x, y + 1)
    <3>1. NextRow(Written(m, base, a, x, y)) = Written(m, base, a + W, x, y + 1)
      BY ONLY <1>4, WrittenLf
    <3> QED BY <2>2, <3>1 DEF NextRow
  <2>4. a + W = base + ((r + 1) * W + x)
    <3> DEFINE e == r * W
    <3>1. e \in Int /\ (r + 1) * W = e + W /\ a = base + (e + x) /\ W \in Int
      BY <1>1, ScreenSizes
    <3> HIDE DEF e
    <3> QED BY <3>1, <1>1
  <2>5. Placed(m, base, a + W, LowerRow(r), x, y + 1)
    BY <1>1, <2>1, <2>4 DEF Placed, LowerRow
  <2>6. View(m, base) = Lower(View(m, base), r)
    BY <2>1 DEF Lower
  <2> QED BY <2>3, <2>5, <2>6
<1>3. CASE ~ (y + 1 < H)
  <2>1. y + 1 >= H /\ ~ (r + 1 < H) /\ r = H - 1
    BY <1>1, <1>3, ScreenSizes
  <2> DEFINE m2 == Scrolled(m, base)
  <2>2. /\ Console!scroll_up(s) = Written(m2, W, a - base, x, y) /\ m2 \in Videos
        /\ View(m2, W) = Append(Tail(View(m, base)), Blank)
    <3> HIDE DEF s
    <3>1. Console!scroll_up(Written(m, base, a, x, y)) = Written(Scrolled(m, base), W, a - base, x, y)
      BY ONLY <1>4, ScrollEffect
    <3>2. Scrolled(m, base) \in Videos /\ View(Scrolled(m, base), W) = Append(Tail(View(m, base)), Blank)
      BY ONLY <1>4, ScrollEffect
    <3> QED BY <3>1, <3>2 DEF s
  <2>3. Console!command_lf(s) = [Console!scroll_up(s) EXCEPT !.c.cursor_y = @ + 1, !.c.cursor_addr = @ + W]
    BY <2>1, <1>1 DEF Console!command_lf
  <2> HIDE DEF s, m2
  <2>4. Console!command_lf(s) = Written(m2, W, (a - base) + W, x, y + 1)
    <3>1. y \in Int /\ a - base \in Int
      BY <1>1
    <3>2. NextRow(Written(m2, W, a - base, x, y))
            = Written(m2, W, (a - base) + W, x, y + 1)
      BY ONLY <1>4, <3>1, WrittenLf
    <3> QED BY <2>2, <2>3, <3>2 DEF NextRow
  <2>5. (a - base) + W = W + (r * W + x)
    <3> DEFINE e == r * W
    <3>1. e \in Int /\ a = base + (e + x) /\ W \in Int
      BY <1>1, ScreenSizes
    <3> HIDE DEF e
    <3>2. (a - base) + W = W + (e + x)
      BY <3>1, <1>1
    <3> QED BY <3>2 DEF e
  <2>6. Placed(m2, W, (a - base) + W, LowerRow(r), x, y + 1)
    BY <1>1, <2>1, <2>2, <2>5 DEF Placed, LowerRow
  <2>7. View(m2, W) = Lower(View(m, base), r)
    BY <2>1, <2>2 DEF Lower
  <2> QED BY <2>4, <2>6, <2>7 DEF s
<1> QED BY <1>2, <1>3

(* The start of the row. *)
LEMMA CrEffect ==
  ASSUME NEW m, NEW base, NEW a, NEW r, NEW x, NEW y, Placed(m, base, a, r, x, y)
  PROVE  /\ Console!command_cr(Written(m, base, a, x, y)) = Written(m, base, a - x, 0, y)
         /\ Placed(m, base, a - x, r, 0, y)
<1>1. /\ base \in Int /\ r * W \in Int /\ x \in Int /\ y \in Int /\ a = base + (r * W + x) /\ a \in Int
      /\ 0 \in 0..W
  BY ScreenSizes DEF Placed
<1>2. a - x = base + (r * W + 0)
  <2> DEFINE e == r * W
  <2>1. e \in Int /\ a = base + (e + x)
    BY <1>1
  <2> HIDE DEF e
  <2>2. a - x = base + (e + 0)
    BY <1>1, <2>1
  <2> QED BY <2>2 DEF e
<1>3. Placed(m, base, a - x, r, 0, y)
  BY <1>1, <1>2 DEF Placed
<1>4. Console!command_cr(Written(m, base, a, x, y)) = RowStart(Written(m, base, a, x, y))
  BY DEF Console!command_cr, RowStart
<1>5. RowStart(Written(m, base, a, x, y)) = Written(m, base, a - x, 0, y)
  BY ONLY <1>1, WrittenCr
<1> QED BY <1>3, <1>4, <1>5

(* A cell before the cursor, or at the start of the row none, is erased. *)
LEMMA BsEffect ==
  ASSUME NEW m, NEW base, NEW a, NEW r, NEW x, NEW y, Placed(m, base, a, r, x, y)
  PROVE  IF x = 0
         THEN Console!command_bs(Written(m, base, a, x, y)) = Written(m, base, a, x, y)
         ELSE \E m2 :
                /\ Console!command_bs(Written(m, base, a, x, y)) = Written(m2, base, a - 1, x - 1, y)
                /\ Placed(m2, base, a - 1, r, x - 1, y)
                /\ View(m2, base) = CellSet(View(m, base), r, x - 1, Erased)
<1> DEFINE s == Written(m, base, a, x, y)
<1>1. /\ m \in Videos /\ base \in {0, W} /\ r \in 0..(H - 1)
      /\ base \in Int /\ r * W \in Int /\ x \in 0..W /\ x \in Int /\ y \in Int /\ a = base + (r * W + x) /\ a \in Int
      /\ W \in Int /\ s.c.cursor_x = x /\ s.c.cursor_addr = a
  BY ScreenSizes DEF Placed, Written
<1>2. CASE x = 0
  <2>1. Console!command_bs(s) = s
    BY <1>1, <1>2 DEF Console!command_bs
  <2> QED BY <1>2, <2>1
<1>3. CASE x # 0
  <2> DEFINE m2 == Over(m, a - 1, "_")
  <2>1. x - 1 \in 0..(W - 1) /\ x - 1 \in 0..W
    <3>1. x \in 0..W /\ W \in Int /\ x # 0
      BY <1>1, <1>3
    <3> QED BY ONLY <3>1
  <2>2. a - 1 = base + (r * W + (x - 1))
    <3> DEFINE e == r * W
    <3>1. e \in Int /\ a = base + (e + x)
      BY <1>1
    <3> HIDE DEF e
    <3>2. a - 1 = base + (e + (x - 1))
      BY <1>1, <3>1
    <3> QED BY <3>2 DEF e
  <2>3. m2 \in Videos /\ View(m2, base) = CellSet(View(m, base), r, x - 1, Erased)
    <3>1. a - 1 = Place(base, r, x - 1) /\ "_" \in Cells
      BY <2>2 DEF Cells, Place
    <3> DEFINE z == x - 1
    <3>2. z \in 0..(W - 1)
      BY <2>1
    <3> HIDE DEF z, s, m2
    <3>3. /\ Over(m, Place(base, r, z), "_") \in Videos
          /\ View(Over(m, Place(base, r, z), "_"), base) = CellSet(View(m, base), r, z, "_")
      BY ONLY <1>1, <3>1, <3>2, CellWritten
    <3> QED BY <3>1, <3>3 DEF z, m2, Erased
  <2>5. Console!command_bs(s) = CellBack(s, a - 1, "_")
    <3>1. Console!command_bs(s) = [s EXCEPT !.c.cursor_x = @ - 1, !.c.cursor_addr = @ - 1, !.mem[s.c.cursor_addr - 1] = "_"]
      BY <1>1, <1>3 DEF Console!command_bs
    <3>2. s.c.cursor_addr - 1 = a - 1
      BY <1>1
    <3> HIDE DEF s
    <3> QED BY <3>1, <3>2 DEF CellBack
  <2>6. CellBack(s, a - 1, "_") = Written(m2, base, a - 1, x - 1, y)
    <3>1. CellBack(Written(m, base, a, x, y), a - 1, "_") = Written(Over(m, a - 1, "_"), base, a - 1, x - 1, y)
      <4> DEFINE i == a - 1
                 v == "_"
      <4> HIDE DEF i, v
      <4>1. CellBack(Written(m, base, a, x, y), i, v) = Written(Over(m, i, v), base, a - 1, x - 1, y)
        BY ONLY <1>1, WrittenBs
      <4> QED BY <4>1 DEF i, v
    <3> QED BY <3>1
  <2>7. Placed(m2, base, a - 1, r, x - 1, y)
    <3> HIDE DEF m2
    <3> QED BY <2>1, <2>2, <2>3 DEF Placed
  <2> HIDE DEF m2, s
  <2>8. Console!command_bs(s) = Written(m2, base, a - 1, x - 1, y)
    BY <2>5, <2>6
  <2> QED BY <1>3, <2>3, <2>7, <2>8 DEF s
<1> QED BY <1>2, <1>3

(* The cell under the cursor is erased. *)
LEMMA DelEffect ==
  ASSUME NEW m, NEW base, NEW a, NEW r, NEW x, NEW y, Placed(m, base, a, r, x, y), x < W
  PROVE  \E m2 :
           /\ Console!command_del(Written(m, base, a, x, y)) = Written(m2, base, a, x, y)
           /\ Placed(m2, base, a, r, x, y)
           /\ View(m2, base) = CellSet(View(m, base), r, x, Erased)
<1> DEFINE s == Written(m, base, a, x, y)
           m2 == Over(m, a, "_")
<1>1. /\ m \in Videos /\ base \in {0, W} /\ r \in 0..(H - 1) /\ x \in 0..(W - 1)
      /\ a = base + (r * W + x) /\ s.c.cursor_addr = a /\ "_" \in Cells
  BY ScreenSizes DEF Placed, Written, Cells
<1>2. m2 \in Videos /\ View(m2, base) = CellSet(View(m, base), r, x, Erased)
  <2>1. a = Place(base, r, x)
    BY <1>1 DEF Place
  <2> HIDE DEF m2, s
  <2>2. /\ Over(m, Place(base, r, x), "_") \in Videos
        /\ View(Over(m, Place(base, r, x), "_"), base) = CellSet(View(m, base), r, x, "_")
    BY ONLY <1>1, CellWritten
  <2> QED BY <2>1, <2>2 DEF m2, Erased
<1>3. Console!command_del(s) = Cell(s, a, "_")
  <2>1. Console!command_del(s) = [s EXCEPT !.mem[s.c.cursor_addr] = "_"]
    BY DEF Console!command_del
  <2>2. s.c.cursor_addr = a
    BY <1>1
  <2> HIDE DEF s
  <2> QED BY <2>1, <2>2 DEF Cell
<1>4. Cell(s, a, "_") = Written(m2, base, a, x, y)
  <2>1. Cell(Written(m, base, a, x, y), a, "_") = Written(Over(m, a, "_"), base, a, x, y)
    <3> DEFINE v == "_"
    <3> HIDE DEF v
    <3>1. Cell(Written(m, base, a, x, y), a, v) = Written(Over(m, a, v), base, a, x, y)
      BY ONLY WrittenDel
    <3> QED BY <3>1 DEF v
  <2> QED BY <2>1
<1> HIDE DEF m2
<1>5. Placed(m2, base, a, r, x, y)
  BY <1>2 DEF Placed
<1> QED BY <1>2, <1>3, <1>4, <1>5

(* A character is put under the cursor, and the next row begins behind the *)
(* last column.                                                            *)
LEMMA PutEffect ==
  ASSUME NEW m, NEW base, NEW a, NEW r, NEW x, NEW y, Placed(m, base, a, r, x, y), x < W, NEW ch \in Char,
         NEW v, v = CellSet(View(m, base), r, x, ch)
  PROVE  \E m2, b2, a2, y2 :
           /\ Console!put(Written(m, base, a, x, y), ch) = Written(m2, b2, a2, IF x + 1 = W THEN 0 ELSE x + 1, y2)
           /\ Placed(m2, b2, a2, IF x + 1 = W THEN LowerRow(r) ELSE r, IF x + 1 = W THEN 0 ELSE x + 1, y2)
           /\ View(m2, b2) = IF x + 1 = W THEN Lower(v, r) ELSE v
<1> DEFINE s == Written(m, base, a, x, y)
           n == Over(m, a, ch)
           p == Written(n, base, a + 1, x + 1, y)
<1>1. /\ m \in Videos /\ base \in {0, W} /\ base \in Int /\ r \in 0..(H - 1) /\ x \in 0..(W - 1) /\ x \in Int /\ y \in Int
      /\ a = base + (r * W + x) /\ a \in Int /\ ch \in Cells /\ W \in Int /\ r * W \in Int
      /\ s.c.cursor_addr = a
  <2>1. ch \in Cells /\ s.c.cursor_addr = a
    BY DEF Cells, Written
  <2> HIDE DEF s
  <2> QED BY <2>1, ScreenSizes DEF Placed
<1>9. p.c.cursor_x = x + 1
  BY DEF Written
<1>2. n \in Videos /\ View(n, base) = v
  <2>1. a = Place(base, r, x)
    BY <1>1 DEF Place
  <2> HIDE DEF n, s, p
  <2>2. /\ Over(m, Place(base, r, x), ch) \in Videos
        /\ View(Over(m, Place(base, r, x), ch), base) = CellSet(View(m, base), r, x, ch)
    BY ONLY <1>1, CellWritten
  <2> QED BY <2>1, <2>2 DEF n
<1>3. p = CellOn(s, a, ch)
  BY ONLY <1>1, WrittenPut DEF p, n, s
<1>4. Console!put(s, ch) = IF x + 1 >= W THEN Console!command_cr(Console!command_lf(p)) ELSE p
  <2>1. CellOn(s, a, ch) = [s EXCEPT !.mem[s.c.cursor_addr] = ch, !.c.cursor_addr = @ + 1, !.c.cursor_x = @ + 1]
    <3>1. s.c.cursor_addr = a
      BY <1>1
    <3> HIDE DEF s
    <3> QED BY <3>1 DEF CellOn
  <2> HIDE DEF s
  <2>2. Console!put(s, ch) = IF p.c.cursor_x >= W THEN Console!command_cr(Console!command_lf(p)) ELSE p
    <3> DEFINE q == [s EXCEPT !.mem[s.c.cursor_addr] = ch, !.c.cursor_addr = @ + 1, !.c.cursor_x = @ + 1]
    <3>1. Console!put(s, ch) = IF q.c.cursor_x >= SCR_WIDTH THEN Console!command_cr(Console!command_lf(q)) ELSE q
      BY DEF Console!put
    <3> HIDE DEF p, q
    <3>2. q = p
      BY <1>3, <2>1 DEF q
    <3> QED BY <3>1, <3>2 DEF W
  <2> HIDE DEF p
  <2> QED BY <2>2, <1>9
<1>5. a + 1 = base + (r * W + (x + 1)) /\ x + 1 \in 0..W
  <2> DEFINE e == r * W
  <2>1. e \in Int /\ a = base + (e + x)
    BY <1>1
  <2> HIDE DEF e
  <2>2. a + 1 = base + (e + (x + 1))
    BY <1>1, <2>1
  <2> QED BY <1>1, <2>2 DEF e
<1> HIDE DEF n
<1>6. Placed(n, base, a + 1, r, x + 1, y)
  BY <1>2, <1>5 DEF Placed
<1>7. CASE x + 1 # W
  <2>1. ~ (x + 1 >= W)
    BY <1>1, <1>7
  <2>2. Console!put(s, ch) = Written(n, base, a + 1, x + 1, y)
    BY <1>4, <2>1
  <2> HIDE DEF s
  <2> QED BY <1>2, <1>6, <1>7, <2>2 DEF s
<1>8. CASE x + 1 = W
  <2>1. x + 1 >= W
    BY <1>1, <1>8
  <2>2. Console!put(s, ch) = Console!command_cr(Console!command_lf(p))
    BY <1>4, <2>1
  <2>3. PICK m2, b2, a2 : /\ Console!command_lf(p) = Written(m2, b2, a2, x + 1, y + 1)
                          /\ Placed(m2, b2, a2, LowerRow(r), x + 1, y + 1)
                          /\ View(m2, b2) = Lower(View(n, base), r)
    BY <1>6, LfEffect
  <2>4. /\ Console!command_cr(Written(m2, b2, a2, x + 1, y + 1)) = Written(m2, b2, a2 - (x + 1), 0, y + 1)
        /\ Placed(m2, b2, a2 - (x + 1), LowerRow(r), 0, y + 1)
    BY <2>3, CrEffect
  <2> HIDE DEF p, s
  <2>5. Console!put(s, ch) = Written(m2, b2, a2 - (x + 1), 0, y + 1)
    BY <2>2, <2>3, <2>4
  <2>6. View(m2, b2) = Lower(v, r)
    BY <2>3, <1>2
  <2> QED BY <1>8, <2>4, <2>5, <2>6 DEF s
<1> QED BY <1>7, <1>8

(* The terminal that the console implements. *)
TRows == View(video, c.screen_base)
TRow == (c.cursor_addr - c.screen_base) \div W
TCol == (c.cursor_addr - c.screen_base) % W

(* What the terminal's actions say of these. *)
LEMMA TerminalSteps ==
  /\ Console!Screen!Down(TRows, 0) <=> TCol' = 0 /\ TRows' = Lower(TRows, TRow) /\ TRow' = LowerRow(TRow)
  /\ Console!Screen!Down(TRows, TCol) <=> TCol' = TCol /\ TRows' = Lower(TRows, TRow) /\ TRow' = LowerRow(TRow)
  /\ \A ch : Console!Screen!Put(ch) <=>
       IF TCol + 1 = W
       THEN TCol' = 0 /\ TRows' = Lower(CellSet(TRows, TRow, TCol, ch), TRow) /\ TRow' = LowerRow(TRow)
       ELSE TRows' = CellSet(TRows, TRow, TCol, ch) /\ TCol' = TCol + 1 /\ TRow' = TRow
  /\ Console!Screen!Return <=> TCol' = 0 /\ TRows' = TRows /\ TRow' = TRow
  /\ Console!Screen!Delete <=> TRows' = CellSet(TRows, TRow, TCol, Erased) /\ TCol' = TCol /\ TRow' = TRow
  /\ Console!Screen!Clear <=> TRows = [r \in 1..H |-> Blank] /\ TRow = 0 /\ TCol = 0
  /\ Console!Screen!Clear' <=> TRows' = [r \in 1..H |-> Blank] /\ TRow' = 0 /\ TCol' = 0
<1>1. Console!Screen!Down(TRows, 0) <=> TCol' = 0 /\ TRows' = Lower(TRows, TRow) /\ TRow' = LowerRow(TRow)
  BY DEF Console!Screen!Down, TRows, TRow, TCol, Lower, LowerRow, Blank, View, W, H
<1>7. Console!Screen!Down(TRows, TCol) <=> TCol' = TCol /\ TRows' = Lower(TRows, TRow) /\ TRow' = LowerRow(TRow)
  BY DEF Console!Screen!Down, TRows, TRow, TCol, Lower, LowerRow, Blank, View, W, H
<1>2. ASSUME NEW ch PROVE Console!Screen!Put(ch) <=>
       IF TCol + 1 = W
       THEN TCol' = 0 /\ TRows' = Lower(CellSet(TRows, TRow, TCol, ch), TRow) /\ TRow' = LowerRow(TRow)
       ELSE TRows' = CellSet(TRows, TRow, TCol, ch) /\ TCol' = TCol + 1 /\ TRow' = TRow
  BY DEF Console!Screen!Put, Console!Screen!Down, TRows, TRow, TCol, Lower, LowerRow, Blank, View, W, H, CellSet
<1>3. Console!Screen!Return <=> TCol' = 0 /\ TRows' = TRows /\ TRow' = TRow
  BY DEF Console!Screen!Return, TRows, TRow, TCol, View, W, H
<1>4. Console!Screen!Delete <=> TRows' = CellSet(TRows, TRow, TCol, Erased) /\ TCol' = TCol /\ TRow' = TRow
  BY DEF Erased, Console!Screen!Delete, TRows, TRow, TCol, View, W, H, CellSet
<1>5. Console!Screen!Clear <=> TRows = [r \in 1..H |-> Blank] /\ TRow = 0 /\ TCol = 0
  BY DEF Console!Screen!Clear, TRows, TRow, TCol, View, W, H, Blank
<1>6. Console!Screen!Clear' <=> TRows' = [r \in 1..H |-> Blank] /\ TRow' = 0 /\ TCol' = 0
  BY DEF Console!Screen!Clear, TRows, TRow, TCol, View, W, H, Blank
<1> QED BY <1>1, <1>7, <1>2, <1>3, <1>4, <1>5, <1>6

(* Row and column of the cursor, from its address. *)
LEMMA PlacedBars ==
  ASSUME NEW m, NEW base, NEW a, NEW r, NEW x, NEW y, Placed(m, base, a, r, x, y), x < W
  PROVE  (a - base) \div W = r /\ (a - base) % W = x /\ a - base \in 0..(W * H - 1) /\ x \in 0..(W - 1) /\ r \in 0..(H - 1)
<1> DEFINE k == r * W + x
<1>1. r \in 0..(H - 1) /\ x \in 0..(W - 1) /\ base \in Int /\ a = base + k
  BY ScreenSizes DEF Placed
<1>2. k \in 0..(W * H - 1) /\ k \div W = r /\ k % W = x
  BY <1>1, Numbered
<1> HIDE DEF k
<1>3. k \in Int
  BY <1>2, ScreenSizes
<1>4. a - base = k
  BY ONLY <1>1, <1>3
<1> QED BY <1>1, <1>2, <1>4

(* What the terminal looks like. *)
LEMMA Looks ==
  ASSUME NEW b, NEW a, NEW r, NEW x, NEW y,
         c = [screen_base |-> b, cursor_addr |-> a, cursor_x |-> x, cursor_y |-> y],
         Placed(video, b, a, r, x, y), x < W
  PROVE  TRows = View(video, b) /\ TRow = r /\ TCol = x
<1>1. c.screen_base = b /\ c.cursor_addr = a
  OBVIOUS
<1>2. (a - b) \div W = r /\ (a - b) % W = x
  BY PlacedBars
<1> QED BY <1>1, <1>2 DEF TRows, TRow, TCol

(* The state that a call leaves, and what the terminal looks like then. *)
LEMMA BecomesStep ==
  ASSUME NEW m, NEW b, NEW a, NEW r, NEW x, NEW y,
         Console!Becomes(Written(m, b, a, x, y)), Placed(m, b, a, r, x, y), x < W
  PROVE  ConsoleInv' /\ TRows' = View(m, b) /\ TRow' = r /\ TCol' = x
<1> DEFINE s == Written(m, b, a, x, y)
<1>1. s.mem = m /\ s.c = [screen_base |-> b, cursor_addr |-> a, cursor_x |-> x, cursor_y |-> y]
      /\ s.c.screen_base = b /\ s.c.cursor_addr = a
  BY DEF Written
<1> HIDE DEF s
<1>2. Console!Becomes(s)
  BY DEF s
<1>3. video' = m /\ c' = [screen_base |-> b, cursor_addr |-> a, cursor_x |-> x, cursor_y |-> y]
      /\ crt' = [start |-> b, cursor |-> a]
  BY <1>1, <1>2 DEF Console!Becomes
<1>4. c'.screen_base = b /\ c'.cursor_addr = a
  BY <1>3
<1>5. TRows' = View(m, b)
  BY <1>3, <1>4 DEF TRows, View
<1>6. TRow' = r /\ TCol' = x
  BY <1>4, PlacedBars DEF TRow, TCol
<1>7. ConsoleInv'
  BY <1>3 DEF ConsoleInv, Placed
<1> QED BY <1>5, <1>6, <1>7

(* A character of console_write is a step of the terminal. *)
LEMMA WriteStep ==
  ASSUME ConsoleInv, NEW ch \in {"LF", "FF", "CR", "BS", "DEL"} \cup Char, Console!console_write(ch)
  PROVE  ConsoleInv' /\ (Console!Screen!Next \/ (TRows' = TRows /\ TRow' = TRow /\ TCol' = TCol))
<1>1. PICK base, a, r, x, y :
        /\ c = [screen_base |-> base, cursor_addr |-> a, cursor_x |-> x, cursor_y |-> y]
        /\ Placed(video, base, a, r, x, y) /\ x < W
        /\ crt = [start |-> base, cursor |-> a]
  BY DEF ConsoleInv
<1>2. TRows = View(video, base) /\ TRow = r /\ TCol = x
  BY <1>1, Looks
<1>3. x \in 0..(W - 1) /\ r \in 0..(H - 1)
  BY <1>1, PlacedBars
<1> DEFINE s == Written(video, base, a, x, y)
<1>4. Console!State = s
  BY <1>1 DEF Console!State, Written
<1> HIDE DEF s
<1>5. \/ ch = "LF" /\ Console!Becomes(Console!command_cr(Console!command_lf(s)))
      \/ ch = "FF" /\ Console!Becomes(Console!command_lf(s))
      \/ ch = "CR" /\ Console!Becomes(Console!command_cr(s))
      \/ ch = "BS" /\ Console!Becomes(Console!command_bs(s))
      \/ ch = "DEL" /\ Console!Becomes(Console!command_del(s))
      \/ ch \in Char /\ Console!Becomes(Console!put(s, ch))
  BY <1>4 DEF Console!console_write
<1>6. PICK m2, b2, a2 : /\ Console!command_lf(s) = Written(m2, b2, a2, x, y + 1)
                        /\ Placed(m2, b2, a2, LowerRow(r), x, y + 1)
                        /\ View(m2, b2) = Lower(View(video, base), r)
  BY <1>1, LfEffect DEF s
<1>7. CASE Console!Becomes(Console!command_cr(Console!command_lf(s)))
  <2>1. /\ Console!command_cr(Written(m2, b2, a2, x, y + 1)) = Written(m2, b2, a2 - x, 0, y + 1)
        /\ Placed(m2, b2, a2 - x, LowerRow(r), 0, y + 1)
    BY <1>6, CrEffect
  <2>2. Console!Becomes(Written(m2, b2, a2 - x, 0, y + 1)) /\ 0 < W
    BY <1>6, <1>7, <2>1, ScreenSizes
  <2>3. ConsoleInv' /\ TRows' = View(m2, b2) /\ TRow' = LowerRow(r) /\ TCol' = 0
    BY <2>1, <2>2, BecomesStep
  <2>4. Console!Screen!Down(TRows, 0)
    BY <2>3, <1>2, <1>6, TerminalSteps
  <2> QED BY <2>3, <2>4 DEF Console!Screen!Next, TRows, View, W, H
<1>8. CASE Console!Becomes(Console!command_lf(s))
  <2>1. Console!Becomes(Written(m2, b2, a2, x, y + 1))
    BY <1>6, <1>8
  <2>3. ConsoleInv' /\ TRows' = View(m2, b2) /\ TRow' = LowerRow(r) /\ TCol' = x
    BY <1>1, <1>6, <2>1, BecomesStep
  <2>4. Console!Screen!Down(TRows, TCol)
    BY <2>3, <1>2, <1>6, TerminalSteps
  <2> QED BY <2>3, <2>4 DEF Console!Screen!Next, TRows, TCol, View, W, H
<1>9. CASE Console!Becomes(Console!command_cr(s))
  <2>1. /\ Console!command_cr(s) = Written(video, base, a - x, 0, y)
        /\ Placed(video, base, a - x, r, 0, y)
    BY <1>1, CrEffect DEF s
  <2>2. Console!Becomes(Written(video, base, a - x, 0, y)) /\ 0 < W
    BY <1>9, <2>1, ScreenSizes
  <2>3. ConsoleInv' /\ TRows' = View(video, base) /\ TRow' = r /\ TCol' = 0
    BY <2>1, <2>2, BecomesStep
  <2>4. Console!Screen!Return
    BY <2>3, <1>2, TerminalSteps
  <2> QED BY <2>3, <2>4 DEF Console!Screen!Next
<1>10. CASE Console!Becomes(Console!command_bs(s))
  <2>1. CASE x = 0
    <3>1. Console!command_bs(s) = s
      BY <1>1, <2>1, BsEffect DEF s
    <3>2. Console!Becomes(Written(video, base, a, x, y))
      BY <1>10, <3>1 DEF s
    <3>3. ConsoleInv' /\ TRows' = View(video, base) /\ TRow' = r /\ TCol' = x
      BY <1>1, <3>2, BecomesStep
    <3> QED BY <3>3, <1>2
  <2>2. CASE x # 0
    <3>1. PICK m3 : /\ Console!command_bs(s) = Written(m3, base, a - 1, x - 1, y)
                    /\ Placed(m3, base, a - 1, r, x - 1, y)
                    /\ View(m3, base) = CellSet(View(video, base), r, x - 1, Erased)
      BY <1>1, <2>2, BsEffect DEF s
    <3>6. x - 1 < W /\ (x - 1) + 1 = x /\ x > 0
      BY <1>3, <2>2, ScreenSizes
    <3>2. Console!Becomes(Written(m3, base, a - 1, x - 1, y))
      BY <1>10, <3>1
    <3>3. ConsoleInv' /\ TRows' = View(m3, base) /\ TRow' = r /\ TCol' = x - 1
      BY <3>1, <3>2, <3>6, BecomesStep
    <3>4. TRows' = [TRows EXCEPT ![TRow + 1][TCol] = "_"] /\ TRow' = TRow /\ TCol' = TCol - 1 /\ TCol > 0
      BY <3>1, <3>6, <3>3, <1>2 DEF CellSet, Erased
    <3>5. Console!Screen!Backspace
      BY <3>4 DEF Console!Screen!Backspace, TRows, TRow, TCol, View, W, H
    <3> QED BY <3>3, <3>5 DEF Console!Screen!Next
  <2> QED BY <2>1, <2>2
<1>11. CASE Console!Becomes(Console!command_del(s))
  <2>1. PICK m3 : /\ Console!command_del(s) = Written(m3, base, a, x, y)
                  /\ Placed(m3, base, a, r, x, y)
                  /\ View(m3, base) = CellSet(View(video, base), r, x, Erased)
    BY <1>1, DelEffect DEF s
  <2>2. Console!Becomes(Written(m3, base, a, x, y))
    BY <1>11, <2>1
  <2>3. ConsoleInv' /\ TRows' = View(m3, base) /\ TRow' = r /\ TCol' = x
    BY <1>1, <2>1, <2>2, BecomesStep
  <2>4. Console!Screen!Delete
    BY <2>1, <2>3, <1>2, TerminalSteps
  <2> QED BY <2>3, <2>4 DEF Console!Screen!Next
<1>12. CASE ch \in Char /\ Console!Becomes(Console!put(s, ch))
  <2> DEFINE v == CellSet(View(video, base), r, x, ch)
             x2 == IF x + 1 = W THEN 0 ELSE x + 1
             r2 == IF x + 1 = W THEN LowerRow(r) ELSE r
  <2>1. PICK m3, b3, a3, y3 :
           /\ Console!put(s, ch) = Written(m3, b3, a3, x2, y3)
           /\ Placed(m3, b3, a3, r2, x2, y3)
           /\ View(m3, b3) = IF x + 1 = W THEN Lower(v, r) ELSE v
    BY <1>1, <1>12, PutEffect DEF s
  <2>2. Console!Becomes(Written(m3, b3, a3, x2, y3)) /\ x2 < W
    BY <1>3, <1>12, <2>1, ScreenSizes
  <2> HIDE DEF v, x2, r2
  <2>3. ConsoleInv' /\ TRows' = View(m3, b3) /\ TRow' = r2 /\ TCol' = x2
    BY <2>1, <2>2, BecomesStep
  <2>4. Console!Screen!Put(ch)
    BY <2>1, <2>3, <1>2, TerminalSteps DEF v, x2, r2
  <2> QED BY <2>3, <2>4, <1>12 DEF Console!Screen!Next
<1> QED BY <1>5, <1>7, <1>8, <1>9, <1>10, <1>11, <1>12

(* Display memory after console_clear, and the screen in it. *)
Blanked == [i \in 0..(CGA_MEM_SIZE - 1) |-> "_"]

LEMMA BlankView ==
  Blanked \in Videos /\ View(Blanked, 0) = [r \in 1..H |-> Blank] /\ Placed(Blanked, 0, 0, 0, 0, 0)
<1>1. Blanked \in Videos
  BY DEF Blanked, Videos, Cells
<1>2. ASSUME NEW q \in 1..H, NEW z \in 1..W PROVE Blanked[0 + (q - 1) * W + z - 1] = "_"
  <2>1. q - 1 \in 0..(H - 1) /\ z - 1 \in 0..(W - 1)
    BY ScreenSizes
  <2>2. (q - 1) * W + (z - 1) \in 0..(W * H - 1)
    BY <2>1, Numbered
  <2>3. (q - 1) * W \in Int
    BY <2>1, ScreenSizes
  <2>4. 0 + (q - 1) * W + z - 1 \in 0..(CGA_MEM_SIZE - 1)
    BY <2>2, <2>3, ScreenSizes
  <2> QED BY <2>4 DEF Blanked
<1>3. View(Blanked, 0) = [r \in 1..H |-> Blank]
  BY <1>2 DEF View, Blank
<1>4. Placed(Blanked, 0, 0, 0, 0, 0)
  BY <1>1, ScreenSizes DEF Placed
<1> QED BY <1>1, <1>3, <1>4

(* Console!Init is a clear terminal. *)
LEMMA ConsoleStarts == Console!Init => ConsoleInv /\ Console!Screen!Clear
<1> SUFFICES ASSUME Console!Init PROVE ConsoleInv /\ Console!Screen!Clear
  OBVIOUS
<1>1. /\ video = Blanked
      /\ c = [screen_base |-> 0, cursor_addr |-> 0, cursor_x |-> 0, cursor_y |-> 0]
      /\ crt = [start |-> 0, cursor |-> 0] /\ 0 < W
  BY ScreenSizes DEF Console!Init, Console!Home, Blanked
<1>2. View(video, 0) = [r \in 1..H |-> Blank] /\ Placed(video, 0, 0, 0, 0, 0)
  BY <1>1, BlankView
<1>3. ConsoleInv
  BY <1>1, <1>2 DEF ConsoleInv
<1>4. TRows = View(video, 0) /\ TRow = 0 /\ TCol = 0
  BY <1>1, <1>2, Looks
<1> QED BY <1>1, <1>2, <1>3, <1>4, TerminalSteps

(* console_clear clears the terminal. *)
LEMMA ClearStep ==
  ASSUME ConsoleInv, Console!console_clear
  PROVE  ConsoleInv' /\ Console!Screen!Clear'
<1>1. DOMAIN video = 0..(CGA_MEM_SIZE - 1)
  BY DEF ConsoleInv, Placed, Videos
<1>2. /\ video' = Blanked
      /\ c' = [screen_base |-> 0, cursor_addr |-> 0, cursor_x |-> 0, cursor_y |-> 0]
      /\ crt' = [start |-> 0, cursor |-> 0] /\ 0 < W
  BY <1>1, ScreenSizes DEF Console!console_clear, Console!Home, Blanked
<1>3. View(video', 0) = [r \in 1..H |-> Blank] /\ Placed(video', 0, 0, 0, 0, 0)
  BY <1>2, BlankView
<1>4. ConsoleInv'
  BY <1>2, <1>3 DEF ConsoleInv, Placed
<1>5. c'.screen_base = 0 /\ c'.cursor_addr = 0
  BY <1>2
<1>6. (0 - 0) \div W = 0 /\ (0 - 0) % W = 0
  BY <1>2, <1>3, PlacedBars
<1>7. TRows' = View(video', 0) /\ TRow' = 0 /\ TCol' = 0
  BY <1>5, <1>6 DEF TRows, TRow, TCol, View
<1> QED BY <1>2, <1>3, <1>4, <1>7, TerminalSteps

TerminalVars == <<TRows, TRow, TCol>>

(* A step of the kernel is a step of the terminal or leaves it as it is.   *)
LEMMA ConsoleStep == ConsoleInv /\ [Next]_vars => ConsoleInv' /\ (Console!Screen!Next \/ UNCHANGED TerminalVars)
<1> SUFFICES ASSUME ConsoleInv, [Next]_vars PROVE ConsoleInv' /\ (Console!Screen!Next \/ UNCHANGED TerminalVars)
  OBVIOUS
<1>1. CASE UNCHANGED console
  <2>1. video' = video /\ c' = c /\ crt' = crt
    BY <1>1 DEF console
  <2>2. ConsoleInv'
    BY <2>1 DEF ConsoleInv, Placed
  <2>3. TRows' = TRows /\ TRow' = TRow /\ TCol' = TCol
    BY <2>1 DEF TRows, TRow, TCol, View
  <2> QED BY <2>2, <2>3 DEF TerminalVars
<1>2. CASE Console!Next
  <2>1. CASE Console!console_clear
    BY <2>1, ClearStep DEF Console!Screen!Next
  <2>2. CASE \E ch \in {"LF", "FF", "CR", "BS", "DEL"} \cup Char : Console!console_write(ch)
    BY <2>2, WriteStep DEF TerminalVars
  <2> QED BY <1>2, <2>1, <2>2 DEF Console!Next
<1>3. UNCHANGED console \/ Console!Next
  BY DEF Next, vars
<1> QED BY <1>1, <1>2, <1>3

(* What ConsoleInv says of the registers and of the bounds of memory. *)
LEMMA ConsoleInvShown == ConsoleInv => Console!Shown
<1> SUFFICES ASSUME ConsoleInv PROVE Console!Shown
  OBVIOUS
<1>1. PICK base, a, r, x, y :
        /\ c = [screen_base |-> base, cursor_addr |-> a, cursor_x |-> x, cursor_y |-> y]
        /\ Placed(video, base, a, r, x, y) /\ x < W
        /\ crt = [start |-> base, cursor |-> a]
  BY DEF ConsoleInv
<1>2. (a - base) % W = x /\ a - base \in 0..(W * H - 1)
  BY <1>1, PlacedBars
<1>3. c.screen_base = base /\ c.cursor_addr = a /\ c.cursor_x = x
  BY <1>1
<1>4. base \in {0, W} /\ a \in Int
  BY <1>1, ScreenSizes DEF Placed
<1>5. base + W * H <= CGA_MEM_SIZE /\ a \in base..(base + W * H - 1)
  <2> DEFINE k == W * H
  <2>1. k \in Int /\ k + 2 * W < CGA_MEM_SIZE /\ a - base \in 0..(k - 1) /\ W \in Nat /\ CGA_MEM_SIZE \in Int
    BY <1>2, ScreenSizes
  <2> HIDE DEF k
  <2>2. base + k <= CGA_MEM_SIZE /\ a \in base..(base + k - 1)
    BY <1>4, <2>1
  <2> QED BY <2>2 DEF k
<1> HIDE DEF Console!Shown
<1> QED BY <1>1, <1>2, <1>3, <1>5, ScreenSizes DEF Console!Shown, W

(* In every behaviour of console_write and console_clear the screen is at  *)
(* the start of display memory or a row behind it and the cursor on it,    *)
(* with the CRT's registers set to them.                                   *)
THEOREM ConsoleInvariance == Spec => []ConsoleInv
<1>1. Init => ConsoleInv
  BY ConsoleStarts DEF Init
<1>2. ConsoleInv /\ [Next]_vars => ConsoleInv'
  BY ConsoleStep
<1> QED BY <1>1, <1>2, PTL DEF Spec

(* console.c is a terminal: whatever console_write is given, scrolling and *)
(* display memory's end included, rows and cursor change as Terminal says, *)
(* and the CRT shows them.                                                 *)
THEOREM ConsoleIsTerminal == Spec => ConsoleExact
<1>1. Init => ConsoleInv /\ Console!Screen!Clear
  BY ConsoleStarts DEF Init
<1>2. ConsoleInv /\ [Next]_vars => ConsoleInv' /\ (Console!Screen!Next \/ UNCHANGED TerminalVars)
  BY ConsoleStep
<1>3. ConsoleInv => Console!Shown
  BY ConsoleInvShown
<1>4. Spec => Console!Screen!Clear /\ [][Console!Screen!Next]_TerminalVars /\ []Console!Shown
  BY <1>1, <1>2, <1>3, PTL DEF Spec
<1>5. Console!Screen!Clear /\ [][Console!Screen!Next]_TerminalVars => Console!Screen!Spec
  BY DEF Console!Screen!Spec, TerminalVars, TRows, TRow, TCol, View, W, H
<1>6. []Console!Shown => [](service = "console" => Console!Shown)
  <2>1. Console!Shown => (service = "console" => Console!Shown)
    OBVIOUS
  <2> QED BY <2>1, PTL
<1> QED BY <1>4, <1>5, <1>6 DEF ConsoleExact, Console!IsTerminal

-----------------------------------------------------------------------------
(* The table of the devices. *)

Parts == 0..ATA_PARTITION_NR
Record(type, subtype, dev) == [type |-> type, subtype |-> subtype, dev |-> dev]
Block(d, p) == Record("DEV_BLOCK", IF p = 0 THEN "DEV_ATA_DISK" ELSE "DEV_ATA_PART", <<d, p>>)

(* Drive d, as number 0, and its partitions are to be installed when they  *)
(* are there; the loops have passed the ones before drive and pidx.        *)
Due(d, p) == Devices!Answers(attached[d]) /\ (p # 0 => attached[d].table[p].count # 0)
Past(d, p) == step = "booted" \/ (step = "install" /\ (d < drive \/ (d = drive /\ p < pidx)))
Probed(d) == step \in {"install", "booted"} \/ (step = "probe" /\ d < drive)

(* Where the start-up is. *)
StepInv ==
    /\ step \in {"console", "keyboard", "probe", "install", "booted"}
    /\ drive \in Devices!Drive /\ pidx \in Parts
    /\ pidx # 0 => step = "install" /\ Devices!Answers(attached[drive])
    /\ step \in {"console", "keyboard"} => drive = 0

DrivesInv ==
    /\ attached \in [Devices!Drive -> Drives]
    /\ drives = [d \in Devices!Drive |->
                    IF Probed(d) THEN Devices!ata_partition(attached[d]) ELSE Devices!NoDisk]

(* The entries are used from the first one on, without a gap. *)
EntriesUsed == Len(installed)
TableInv ==
    /\ EntriesUsed \in 0..DEV_NR /\ installed = [k \in 1..EntriesUsed |-> k - 1]
    /\ devices = [i \in Devices!Dev |-> devices[i]]
    /\ \A i \in Devices!Dev : i >= EntriesUsed => devices[i] = Devices!Unused
    /\ EntriesUsed > 0 => devices[0] = Record("DEV_CHAR", "DEV_CONSOLE", NULL)
    /\ EntriesUsed > 1 => devices[1] = Record("DEV_CHAR", "DEV_KEYBOARD", NULL)

CountInv ==
    /\ step = "console" => EntriesUsed = 0
    /\ step = "keyboard" => EntriesUsed = 1
    /\ step \notin {"console", "keyboard"} => EntriesUsed > 1

(* Behind the console and the keyboard there is every drive and partition  *)
(* that the loops have passed, once, and nothing else.                     *)
BlocksInv ==
    /\ \A i \in 2..(EntriesUsed - 1) : \E d \in Devices!Drive, p \in Parts :
          Due(d, p) /\ Past(d, p) /\ devices[i] = Block(d, p)
    /\ \A d \in Devices!Drive, p \in Parts :
          Due(d, p) /\ Past(d, p) => \E i \in 2..(EntriesUsed - 1) : devices[i] = Block(d, p)
    /\ \A i, j \in 2..(EntriesUsed - 1) : i # j => devices[i].dev # devices[j].dev

DevicesInv == StepInv /\ DrivesInv /\ TableInv /\ CountInv /\ BlocksInv

(* There is a drive 0. *)
LEMMA FirstDrive == 0 \in Devices!Drive /\ \A d \in Devices!Drive : d \in Nat /\ 0..d \subseteq Devices!Drive
<1> DEFINE n == ATA_BUS_NR * ATA_DISK_NR
<1>1. n \in Nat /\ n > 0
  BY DevicesAssumption
<1> HIDE DEF n
<1>2. Devices!Drive = 0..(n - 1)
  BY DEF n, Devices!Drive
<1> QED BY <1>1, <1>2

(* get_null_dev finds the entry behind those in use. *)
LEMMA InstallEffect ==
  ASSUME TableInv, \A i \in Devices!Dev : i < EntriesUsed => devices[i].type # "DEV_NULL",
         NEW type, NEW subtype, NEW dev, Devices!dev_install(type, subtype, dev)
  PROVE  /\ EntriesUsed \in Devices!Dev /\ EntriesUsed' = EntriesUsed + 1
         /\ installed' = [k \in 1..(EntriesUsed + 1) |-> k - 1]
         /\ devices' = [devices EXCEPT ![EntriesUsed] = Record(type, subtype, dev)]
<1> DEFINE free == {i \in Devices!Dev : devices[i].type = "DEV_NULL"}
           vdev == CHOOSE i \in free : \A j \in free : i <= j
           n == EntriesUsed
<1>1. DEV_NR \in Nat /\ n \in 0..DEV_NR /\ installed = [k \in 1..n |-> k - 1] /\ Len(installed) = n
  BY DevicesAssumption DEF TableInv, EntriesUsed
<1>2. free = {i \in Devices!Dev : i >= n}
  <2>1. \A i \in Devices!Dev : i >= n => devices[i].type = "DEV_NULL"
    BY DEF TableInv, Devices!Unused
  <2> QED BY <2>1, <1>1 DEF Devices!Dev
<1>3. free # {} /\ devices' = [devices EXCEPT ![vdev] = [type |-> type, subtype |-> subtype, dev |-> dev]]
         /\ installed' = Append(installed, vdev)
  BY DEF Devices!dev_install
<1> HIDE DEF n
<1>4. n \in Devices!Dev
  BY <1>1, <1>2, <1>3 DEF Devices!Dev
<1>5. vdev = n
  BY <1>1, <1>2, <1>4 DEF Devices!Dev
<1> HIDE DEF vdev, free
<1>6. installed \in Seq(Nat)
  BY <1>1
<1>7. Len(installed') = n + 1 /\ installed' = [k \in 1..(n + 1) |-> k - 1]
  BY <1>1, <1>3, <1>5, <1>6
<1> QED BY <1>3, <1>4, <1>5, <1>7 DEF n, EntriesUsed, Record

(* What an installation does to the table. *)
LEMMA TableStep ==
  ASSUME TableInv, NEW e, EntriesUsed \in Devices!Dev, EntriesUsed' = EntriesUsed + 1,
         installed' = [k \in 1..(EntriesUsed + 1) |-> k - 1],
         devices' = [devices EXCEPT ![EntriesUsed] = e],
         EntriesUsed = 0 => e = Record("DEV_CHAR", "DEV_CONSOLE", NULL),
         EntriesUsed = 1 => e = Record("DEV_CHAR", "DEV_KEYBOARD", NULL)
  PROVE  /\ TableInv' /\ devices'[EntriesUsed] = e
         /\ \A i \in Devices!Dev : i # EntriesUsed => devices'[i] = devices[i]
<1> DEFINE n == EntriesUsed
<1>1. DEV_NR \in Nat /\ n \in 0..DEV_NR /\ n \in Devices!Dev /\ 0 <= n /\ n < DEV_NR
  BY DevicesAssumption DEF TableInv, Devices!Dev
<1>2. devices = [i \in Devices!Dev |-> devices[i]]
  BY DEF TableInv
<1>3. devices' = [i \in Devices!Dev |-> IF i = n THEN e ELSE devices[i]]
  BY <1>2
<1>4. devices' = [i \in Devices!Dev |-> devices'[i]] /\ devices'[n] = e
      /\ \A i \in Devices!Dev : i # n => devices'[i] = devices[i]
  BY <1>1, <1>3
<1>5. \A i \in Devices!Dev : i >= n + 1 => devices'[i] = Devices!Unused
  BY <1>1, <1>4 DEF TableInv, Devices!Dev
<1>6. 0 \in Devices!Dev /\ (n > 0 => 0 # n) /\ (n > 1 => 1 # n /\ 1 \in Devices!Dev)
  BY <1>1 DEF Devices!Dev
<1>7. devices'[0] = Record("DEV_CHAR", "DEV_CONSOLE", NULL)
  <2>1. CASE n = 0
    BY <2>1, <1>4
  <2>2. CASE n > 0
    BY <2>2, <1>4, <1>6 DEF TableInv
  <2> QED BY <2>1, <2>2, <1>1
<1>8. n + 1 > 1 => devices'[1] = Record("DEV_CHAR", "DEV_KEYBOARD", NULL)
  <2>1. CASE n = 1
    BY <2>1, <1>4
  <2>2. CASE n > 1
    BY <2>2, <1>4, <1>6 DEF TableInv
  <2> QED BY <2>1, <2>2, <1>1
<1>9. n + 1 \in 0..DEV_NR
  BY <1>1
<1> QED BY <1>4, <1>5, <1>7, <1>8, <1>9 DEF TableInv, Devices!Unused, Record

(* The entries in use are not free. *)
LEMMA InUse ==
  ASSUME TableInv, BlocksInv
  PROVE  \A i \in Devices!Dev : i < EntriesUsed => devices[i].type # "DEV_NULL"
<1> SUFFICES ASSUME NEW i \in Devices!Dev, i < EntriesUsed PROVE devices[i].type # "DEV_NULL"
  OBVIOUS
<1>1. i \in Nat /\ EntriesUsed \in Nat
  BY DevicesAssumption DEF Devices!Dev, TableInv
<1>2. CASE i = 0
  BY <1>1, <1>2 DEF TableInv, Record
<1>3. CASE i = 1
  BY <1>1, <1>3 DEF TableInv, Record
<1>4. CASE i >= 2
  <2>1. i \in 2..(EntriesUsed - 1)
    BY <1>1, <1>4
  <2>2. PICK d, p : devices[i] = Block(d, p)
    BY <2>1 DEF BlocksInv
  <2> QED BY <2>2 DEF Block, Record
<1> QED BY <1>1, <1>2, <1>3, <1>4

-----------------------------------------------------------------------------
(* The steps of the start-up. *)

(* NextDrive goes to the next drive or, behind the last, to what follows.  *)
LEMMA Onward ==
  ASSUME StepInv, NEW then, Devices!NextDrive(then)
  PROVE  /\ drive' \in Devices!Drive
         /\ \/ step' = step /\ drive' = drive + 1
            \/ step' = then /\ drive' = 0 /\ \A d \in Devices!Drive : d <= drive
<1> DEFINE n == ATA_BUS_NR * ATA_DISK_NR
<1>1. n \in Nat /\ n > 0
  BY DevicesAssumption
<1> HIDE DEF n
<1>2. Devices!Drive = 0..(n - 1)
  BY DEF n, Devices!Drive
<1>3. drive \in 0..(n - 1)
  BY <1>2 DEF StepInv
<1>4. CASE drive + 1 \in 0..(n - 1)
  BY <1>2, <1>4 DEF Devices!NextDrive
<1>5. CASE drive + 1 \notin 0..(n - 1)
  BY <1>1, <1>2, <1>3, <1>5 DEF Devices!NextDrive
<1> QED BY <1>4, <1>5

(* Nothing is passed while drives are probed or before. *)
LEMMA NonePast ==
  ASSUME NEW s \in {"console", "keyboard", "probe"}, step = s, NEW d, NEW p
  PROVE  ~Past(d, p)
BY DEF Past

(* kernel_init installs the console, which is entry 0, ... *)
LEMMA ConsoleInstalled ==
  ASSUME DevicesInv, Devices!console_init
  PROVE  DevicesInv'
<1>1. StepInv /\ DrivesInv /\ TableInv /\ CountInv /\ BlocksInv
  BY DEF DevicesInv
<1>2. /\ step = "console" /\ step' = "keyboard" /\ UNCHANGED <<attached, drives, drive, pidx>>
      /\ Devices!dev_install("DEV_CHAR", "DEV_CONSOLE", NULL)
  BY DEF Devices!console_init
<1>3. EntriesUsed = 0
  BY <1>1, <1>2 DEF CountInv
<1> DEFINE e == Record("DEV_CHAR", "DEV_CONSOLE", NULL)
<1>4. /\ EntriesUsed \in Devices!Dev /\ EntriesUsed' = EntriesUsed + 1
      /\ installed' = [k \in 1..(EntriesUsed + 1) |-> k - 1] /\ devices' = [devices EXCEPT ![EntriesUsed] = e]
  BY <1>1, <1>2, InUse, InstallEffect
<1>4a. /\ EntriesUsed = 0 => e = Record("DEV_CHAR", "DEV_CONSOLE", NULL)
       /\ EntriesUsed = 1 => e = Record("DEV_CHAR", "DEV_KEYBOARD", NULL)
  BY <1>3
<1> HIDE DEF e
<1>5. TableInv'
  BY <1>1, <1>4, <1>4a, TableStep
<1>6. EntriesUsed' = 1
  BY <1>3, <1>4
<1>7. StepInv'
  BY <1>1, <1>2 DEF StepInv
<1>8. CountInv'
  BY <1>2, <1>6 DEF CountInv
<1>9. DrivesInv'
  BY <1>1, <1>2 DEF DrivesInv, Probed
<1>10. BlocksInv'
  BY <1>2, <1>6 DEF BlocksInv, Past
<1> QED BY <1>5, <1>7, <1>8, <1>9, <1>10 DEF DevicesInv

(* ... and the keyboard, entry 1. *)
LEMMA KeyboardInstalled ==
  ASSUME DevicesInv, Devices!keyboard_init
  PROVE  DevicesInv'
<1>1. StepInv /\ DrivesInv /\ TableInv /\ CountInv /\ BlocksInv
  BY DEF DevicesInv
<1>2. /\ step = "keyboard" /\ step' = "probe" /\ UNCHANGED <<attached, drives, drive, pidx>>
      /\ Devices!dev_install("DEV_CHAR", "DEV_KEYBOARD", NULL)
  BY DEF Devices!keyboard_init
<1>3. EntriesUsed = 1
  BY <1>1, <1>2 DEF CountInv
<1> DEFINE e == Record("DEV_CHAR", "DEV_KEYBOARD", NULL)
<1>4. /\ EntriesUsed \in Devices!Dev /\ EntriesUsed' = EntriesUsed + 1
      /\ installed' = [k \in 1..(EntriesUsed + 1) |-> k - 1] /\ devices' = [devices EXCEPT ![EntriesUsed] = e]
  BY <1>1, <1>2, InUse, InstallEffect
<1>4a. /\ EntriesUsed = 0 => e = Record("DEV_CHAR", "DEV_CONSOLE", NULL)
       /\ EntriesUsed = 1 => e = Record("DEV_CHAR", "DEV_KEYBOARD", NULL)
  BY <1>3
<1> HIDE DEF e
<1>5. TableInv'
  BY <1>1, <1>4, <1>4a, TableStep
<1>6. EntriesUsed' = 2
  BY <1>3, <1>4
<1>7. StepInv' /\ drive = 0
  BY <1>1, <1>2 DEF StepInv
<1>8. CountInv'
  BY <1>2, <1>6 DEF CountInv
<1>9. DrivesInv'
  BY <1>1, <1>2, <1>7, FirstDrive DEF DrivesInv, Probed
<1>10. BlocksInv'
  BY <1>2, <1>6 DEF BlocksInv, Past
<1> QED BY <1>5, <1>7, <1>8, <1>9, <1>10 DEF DevicesInv

(* A probe fills in what disks[] says of one drive. *)
LEMMA ProbeStep ==
  ASSUME DevicesInv, Devices!ata_bus_init
  PROVE  DevicesInv'
<1>1. StepInv /\ DrivesInv /\ TableInv /\ CountInv /\ BlocksInv
  BY DEF DevicesInv
<1>2. /\ step = "probe" /\ Devices!NextDrive("install")
      /\ drives' = [drives EXCEPT ![drive] = Devices!ata_partition(attached[drive])]
      /\ UNCHANGED <<attached, devices, installed, pidx>>
  BY DEF Devices!ata_bus_init
<1>3. /\ drive \in Devices!Drive /\ drive' \in Devices!Drive /\ pidx = 0
      /\ \/ step' = step /\ drive' = drive + 1
         \/ step' = "install" /\ drive' = 0 /\ \A d \in Devices!Drive : d <= drive
  BY <1>1, <1>2, Onward DEF StepInv
<1>4. EntriesUsed' = EntriesUsed /\ TableInv'
  BY <1>1, <1>2 DEF TableInv, EntriesUsed, Devices!Unused, Record
<1>5. StepInv'
  BY <1>1, <1>2, <1>3 DEF StepInv, Parts
<1>6. CountInv'
  BY <1>1, <1>2, <1>3, <1>4 DEF CountInv
<1>7. \A d \in Devices!Drive : Probed(d)' <=> Probed(d) \/ d = drive
  <2> SUFFICES ASSUME NEW d \in Devices!Drive PROVE Probed(d)' <=> Probed(d) \/ d = drive
    OBVIOUS
  <2>1. d \in Nat /\ drive \in Nat
    BY <1>3, FirstDrive
  <2>2. CASE step' = step /\ drive' = drive + 1
    BY <1>2, <2>1, <2>2 DEF Probed
  <2>3. CASE step' = "install" /\ d <= drive
    <3>1. d < drive \/ d = drive
      BY <2>1, <2>3
    <3>2. Probed(d)'
      BY <2>3 DEF Probed
    <3> QED BY <1>2, <3>1, <3>2 DEF Probed
  <2> QED BY <1>3, <2>2, <2>3
<1>8. DrivesInv'
  <2>1. attached' \in [Devices!Drive -> Drives]
    BY <1>1, <1>2 DEF DrivesInv
  <2>2. drives' = [d \in Devices!Drive |->
                     IF Probed(d)' THEN Devices!ata_partition(attached[d]) ELSE Devices!NoDisk]
    BY <1>1, <1>2, <1>3, <1>7 DEF DrivesInv
  <2> QED BY <1>2, <2>1, <2>2 DEF DrivesInv, Devices!ata_partition, Devices!Answers, Devices!NoDisk
<1>9. \A d \in Devices!Drive, p \in Parts : ~Past(d, p) /\ ~Past(d, p)'
  <2> SUFFICES ASSUME NEW d \in Devices!Drive, NEW p \in Parts PROVE ~Past(d, p) /\ ~Past(d, p)'
    OBVIOUS
  <2>1. d \in Nat /\ p \in Nat
    BY FirstDrive, DevicesAssumption DEF Parts
  <2>2. pidx' = 0 /\ (step' = "probe" \/ (step' = "install" /\ drive' = 0))
    BY <1>2, <1>3
  <2> QED BY <1>2, <2>1, <2>2 DEF Past
<1>10. BlocksInv'
  BY <1>1, <1>2, <1>4, <1>9 DEF BlocksInv, Block, Record, Due
<1> QED BY <1>4, <1>5, <1>6, <1>8, <1>10 DEF DevicesInv

(* In a drive's round its next part is passed, ... *)
LEMMA PastPart ==
  ASSUME StepInv, step = "install", step' = step, drive' = drive, pidx' = pidx + 1
  PROVE  \A d \in Devices!Drive, p \in Parts : Past(d, p)' <=> Past(d, p) \/ (d = drive /\ p = pidx)
<1> SUFFICES ASSUME NEW d \in Devices!Drive, NEW p \in Parts
             PROVE  Past(d, p)' <=> Past(d, p) \/ (d = drive /\ p = pidx)
  OBVIOUS
<1>1. d \in Nat /\ drive \in Nat /\ p \in Nat /\ pidx \in Nat
  BY FirstDrive, DevicesAssumption DEF StepInv, Parts
<1>2. Past(d, p) <=> (d < drive \/ (d = drive /\ p < pidx))
  BY DEF Past
<1>3. Past(d, p)' <=> (d < drive \/ (d = drive /\ p < pidx + 1))
  BY DEF Past
<1> QED BY <1>1, <1>2, <1>3

(* ... and at its end all of the drive. *)
LEMMA PastDrive ==
  ASSUME StepInv, step = "install", Devices!NextDrive("booted"), pidx' = 0
  PROVE  \A d \in Devices!Drive, p \in Parts : Past(d, p)' <=> Past(d, p) \/ (d = drive /\ p >= pidx)
<1> SUFFICES ASSUME NEW d \in Devices!Drive, NEW p \in Parts
             PROVE  Past(d, p)' <=> Past(d, p) \/ (d = drive /\ p >= pidx)
  OBVIOUS
<1>1. d \in Nat /\ drive \in Nat /\ p \in Nat /\ pidx \in Nat
  BY FirstDrive, DevicesAssumption DEF StepInv, Parts
<1>2. Past(d, p) <=> (d < drive \/ (d = drive /\ p < pidx))
  BY DEF Past
<1>3. CASE step' = step /\ drive' = drive + 1
  <2>1. Past(d, p)' <=> (d < drive + 1 \/ (d = drive + 1 /\ p < 0))
    BY <1>3 DEF Past
  <2> QED BY <1>1, <1>2, <2>1
<1>4. CASE step' = "booted" /\ d <= drive
  <2>1. Past(d, p)'
    BY <1>4 DEF Past
  <2> QED BY <1>1, <1>2, <1>4, <2>1
<1> QED BY <1>3, <1>4, Onward

(* What is due is installed when it is passed. *)
LEMMA BlockStep ==
  ASSUME TableInv, BlocksInv, EntriesUsed > 1, attached' = attached,
         drive \in Devices!Drive, pidx \in Parts, Due(drive, pidx), ~Past(drive, pidx),
         NEW subtype, subtype = IF pidx = 0 THEN "DEV_ATA_DISK" ELSE "DEV_ATA_PART",
         Devices!dev_install("DEV_BLOCK", subtype, <<drive, pidx>>),
         \A d \in Devices!Drive, p \in Parts :
            Due(d, p) => (Past(d, p)' <=> Past(d, p) \/ (d = drive /\ p = pidx))
  PROVE  TableInv' /\ BlocksInv' /\ EntriesUsed' = EntriesUsed + 1
<1> DEFINE n == EntriesUsed
           e == Record("DEV_BLOCK", subtype, <<drive, pidx>>)
<1>1. /\ n \in Devices!Dev /\ EntriesUsed' = n + 1
      /\ installed' = [k \in 1..(n + 1) |-> k - 1] /\ devices' = [devices EXCEPT ![n] = e]
  BY InUse, InstallEffect
<1>2. n \in Nat /\ n > 1 /\ DEV_NR \in Nat /\ n < DEV_NR
  BY <1>1, DevicesAssumption DEF TableInv, Devices!Dev
<1>3. e = Block(drive, pidx)
  BY DEF Block
<1> HIDE DEF e
<1>4a. /\ EntriesUsed = 0 => e = Record("DEV_CHAR", "DEV_CONSOLE", NULL)
       /\ EntriesUsed = 1 => e = Record("DEV_CHAR", "DEV_KEYBOARD", NULL)
  BY <1>2
<1>4. TableInv' /\ devices'[n] = e /\ \A i \in Devices!Dev : i # n => devices'[i] = devices[i]
  BY <1>1, <1>4a, TableStep
<1> HIDE DEF n
<1>5. \A i \in 2..(n - 1) : devices'[i] = devices[i]
  BY <1>2, <1>4 DEF Devices!Dev
<1>6. /\ \A i \in 2..(n - 1) : \E d \in Devices!Drive, p \in Parts :
            Due(d, p) /\ Past(d, p) /\ devices[i] = Block(d, p)
      /\ \A d \in Devices!Drive, p \in Parts :
            Due(d, p) /\ Past(d, p) => \E i \in 2..(n - 1) : devices[i] = Block(d, p)
      /\ \A i, j \in 2..(n - 1) : i # j => devices[i].dev # devices[j].dev
  BY DEF BlocksInv, n
<1>7. \A d, p : Due(d, p)' <=> Due(d, p)
  BY DEF Due, Devices!Answers
<1>8. \A i \in 2..n : i = n \/ i \in 2..(n - 1)
  BY <1>2
<1>9. n \in 2..n /\ \A i \in 2..(n - 1) : i \in 2..n
  BY <1>2
<1>10. ASSUME NEW i \in 2..n
       PROVE  \E d \in Devices!Drive, p \in Parts : Due(d, p)' /\ Past(d, p)' /\ devices'[i] = Block(d, p)
  <2>1. CASE i = n
    BY <2>1, <1>3, <1>4, <1>7
  <2>2. CASE i \in 2..(n - 1)
    <3>1. PICK d \in Devices!Drive, p \in Parts : Due(d, p) /\ Past(d, p) /\ devices[i] = Block(d, p)
      BY <2>2, <1>6
    <3> QED BY <3>1, <2>2, <1>5, <1>7
  <2> QED BY <2>1, <2>2, <1>8
<1>11. ASSUME NEW d \in Devices!Drive, NEW p \in Parts, Due(d, p)', Past(d, p)'
       PROVE  \E i \in 2..n : devices'[i] = Block(d, p)
  <2>1. CASE d = drive /\ p = pidx
    BY <2>1, <1>3, <1>4, <1>9
  <2>2. CASE Past(d, p)
    <3>1. PICK i \in 2..(n - 1) : devices[i] = Block(d, p)
      BY <2>2, <1>6, <1>7, <1>11
    <3> QED BY <3>1, <1>5, <1>9
  <2> QED BY <2>1, <2>2, <1>7, <1>11
<1>12. ASSUME NEW i \in 2..(n - 1)
       PROVE  devices'[i].dev # devices'[n].dev
  <2>1. PICK d \in Devices!Drive, p \in Parts : Past(d, p) /\ devices[i] = Block(d, p)
    BY <1>6
  <2>2. devices'[i].dev = <<d, p>>
    BY <2>1, <1>5 DEF Block, Record
  <2>3. devices'[n].dev = <<drive, pidx>>
    BY <1>3, <1>4 DEF Block, Record
  <2>4. d # drive \/ p # pidx
    BY <2>1
  <2> QED BY <2>2, <2>3, <2>4
<1>13. \A i, j \in 2..n : i # j => devices'[i].dev # devices'[j].dev
  <2> SUFFICES ASSUME NEW i \in 2..n, NEW j \in 2..n, i # j PROVE devices'[i].dev # devices'[j].dev
    OBVIOUS
  <2>1. CASE i = n
    BY <2>1, <1>8, <1>12
  <2>2. CASE j = n
    BY <2>2, <1>8, <1>12
  <2>3. CASE i \in 2..(n - 1) /\ j \in 2..(n - 1)
    BY <2>3, <1>5, <1>6
  <2> QED BY <2>1, <2>2, <2>3, <1>8
<1>14. 2..(EntriesUsed' - 1) = 2..n
  BY <1>1, <1>2
<1>15. BlocksInv'
  <2>1. \A i \in 2..(EntriesUsed' - 1) : \E d \in Devices!Drive, p \in Parts :
            Due(d, p)' /\ Past(d, p)' /\ devices'[i] = Block(d, p)
    BY <1>10, <1>14
  <2>2. \A d \in Devices!Drive, p \in Parts :
            Due(d, p)' /\ Past(d, p)' => \E i \in 2..(EntriesUsed' - 1) : devices'[i] = Block(d, p)
    BY <1>11, <1>14
  <2>3. \A i, j \in 2..(EntriesUsed' - 1) : i # j => devices'[i].dev # devices'[j].dev
    BY <1>13, <1>14
  <2> QED BY <2>1, <2>2, <2>3 DEF BlocksInv
<1> QED BY <1>1, <1>4, <1>15 DEF n

(* Nothing is installed when nothing due is passed. *)
LEMMA SameTable ==
  ASSUME TableInv, BlocksInv, UNCHANGED <<attached, devices, installed>>,
         \A d \in Devices!Drive, p \in Parts : Due(d, p) => (Past(d, p)' <=> Past(d, p))
  PROVE  TableInv' /\ BlocksInv' /\ EntriesUsed' = EntriesUsed
<1>1. \A d, p : Due(d, p)' <=> Due(d, p)
  BY DEF Due, Devices!Answers
<1>2. EntriesUsed' = EntriesUsed
  BY DEF EntriesUsed
<1>3. TableInv'
  BY <1>2 DEF TableInv, Devices!Unused, Record
<1>4. BlocksInv'
  BY <1>1, <1>2 DEF BlocksInv, Block, Record
<1> QED BY <1>2, <1>3, <1>4

(* What the probes have left in disks[]. *)
LEMMA ProbedDisk ==
  ASSUME DrivesInv, NEW d \in Devices!Drive, Probed(d)
  PROVE  /\ Devices!Answers(attached[d]) =>
              drives[d].total_lba = attached[d].total_lba /\ drives[d].parts = attached[d].table
         /\ drives[d].total_lba = 0 <=> ~Devices!Answers(attached[d])
<1>1. drives[d] = Devices!ata_partition(attached[d])
  BY DEF DrivesInv
<1> QED BY <1>1 DEF Devices!ata_partition, Devices!NoDisk, Devices!Answers

(* The drives stay as they were probed. *)
LEMMA SameDrives ==
  ASSUME DrivesInv, attached' = attached, drives' = drives,
         step \in {"install", "booted"}, step' \in {"install", "booted"}
  PROVE  DrivesInv'
<1>1. \A d : Probed(d) /\ Probed(d)'
  BY DEF Probed
<1> QED BY <1>1 DEF DrivesInv, Devices!ata_partition, Devices!NoDisk, Devices!Answers

(* A drive is installed if it is there, and otherwise passed with all of   *)
(* its parts.                                                              *)
LEMMA DiskStep ==
  ASSUME DevicesInv, Devices!install_disk
  PROVE  DevicesInv'
<1>1. StepInv /\ DrivesInv /\ TableInv /\ CountInv /\ BlocksInv
  BY DEF DevicesInv
<1>2. step = "install" /\ pidx = 0 /\ attached' = attached /\ drives' = drives
  BY DEF Devices!install_disk
<1>3. drive \in Devices!Drive /\ drive \in Nat /\ 0 \in Parts /\ 1 \in Parts /\ \A p \in Parts : p >= 0
  BY <1>1, FirstDrive, DevicesAssumption DEF StepInv, Parts
<1>4. /\ EntriesUsed > 1 /\ Probed(drive)
      /\ drives[drive].total_lba = 0 <=> ~Devices!Answers(attached[drive])
  BY <1>1, <1>2, <1>3, ProbedDisk DEF CountInv, Probed
<1>5. CASE drives[drive].total_lba = 0
  <2>1. Devices!NextDrive("booted") /\ UNCHANGED <<devices, installed, pidx>>
    BY <1>5 DEF Devices!install_disk
  <2>2. \A d \in Devices!Drive, p \in Parts : Past(d, p)' <=> Past(d, p) \/ (d = drive /\ p >= pidx)
    BY <1>1, <1>2, <2>1, PastDrive
  <2>3. \A p : ~Due(drive, p)
    BY <1>4, <1>5 DEF Due
  <2>4. TableInv' /\ BlocksInv' /\ EntriesUsed' = EntriesUsed
    BY <1>1, <1>2, <2>1, <2>2, <2>3, SameTable
  <2>5. drive' \in Devices!Drive /\ step' \in {"install", "booted"} /\ pidx' = 0
    BY <1>1, <1>2, <2>1, Onward
  <2>6. StepInv' /\ CountInv'
    BY <1>3, <1>4, <2>4, <2>5 DEF StepInv, CountInv, Parts
  <2> QED BY <1>1, <1>2, <2>4, <2>5, <2>6, SameDrives DEF DevicesInv
<1>6. CASE drives[drive].total_lba # 0
  <2>1. /\ Devices!dev_install("DEV_BLOCK", "DEV_ATA_DISK", <<drive, pidx>>)
        /\ pidx' = 1 /\ step' = step /\ drive' = drive
    BY <1>2, <1>6 DEF Devices!install_disk
  <2>2. \A d \in Devices!Drive, p \in Parts : Past(d, p)' <=> Past(d, p) \/ (d = drive /\ p = pidx)
    BY <1>1, <1>2, <2>1, PastPart
  <2>3. Devices!Answers(attached[drive]) /\ Due(drive, pidx)
    BY <1>2, <1>4, <1>6 DEF Due
  <2>4. ~Past(drive, pidx)
    BY <1>2, <1>3 DEF Past
  <2>5. "DEV_ATA_DISK" = IF pidx = 0 THEN "DEV_ATA_DISK" ELSE "DEV_ATA_PART"
    BY <1>2
  <2>6. TableInv' /\ BlocksInv' /\ EntriesUsed' = EntriesUsed + 1
    BY <1>1, <1>2, <1>3, <1>4, <2>1, <2>2, <2>3, <2>4, <2>5, BlockStep
  <2>7. EntriesUsed' > 1
    BY <1>1, <1>4, <2>6 DEF TableInv
  <2>8. StepInv' /\ CountInv'
    BY <1>1, <1>2, <1>3, <2>1, <2>3, <2>7 DEF StepInv, CountInv, Parts, Devices!Answers
  <2> QED BY <1>1, <1>2, <2>1, <2>6, <2>8, SameDrives DEF DevicesInv
<1> QED BY <1>5, <1>6

(* A partition is installed unless it is empty. *)
LEMMA PartStep ==
  ASSUME DevicesInv, Devices!install_part
  PROVE  DevicesInv'
<1>1. StepInv /\ DrivesInv /\ TableInv /\ CountInv /\ BlocksInv
  BY DEF DevicesInv
<1>2. step = "install" /\ pidx # 0 /\ attached' = attached /\ drives' = drives /\ Devices!NextPart
  BY DEF Devices!install_part
<1>3. /\ drive \in Devices!Drive /\ drive \in Nat /\ pidx \in Parts /\ pidx \in Nat
      /\ ATA_PARTITION_NR \in Nat /\ \A p \in Parts : p \in Nat /\ p <= ATA_PARTITION_NR
  BY <1>1, FirstDrive, DevicesAssumption DEF StepInv, Parts
<1>4. /\ EntriesUsed > 1 /\ Probed(drive) /\ Devices!Answers(attached[drive])
  BY <1>1, <1>2 DEF CountInv, Probed, StepInv
<1>5. drives[drive].parts = attached[drive].table
  BY <1>1, <1>3, <1>4, ProbedDisk
<1>6. /\ \A d \in Devices!Drive, p \in Parts : Past(d, p)' <=> Past(d, p) \/ (d = drive /\ p = pidx)
      /\ drive' \in Devices!Drive /\ pidx' \in Parts /\ step' \in {"install", "booted"}
      /\ pidx' # 0 => step' = "install" /\ drive' = drive
  <2>1. CASE pidx < ATA_PARTITION_NR
    <3>1. pidx' = pidx + 1 /\ step' = step /\ drive' = drive
      BY <1>2, <2>1 DEF Devices!NextPart
    <3>2. pidx' \in Parts
      BY <1>3, <2>1, <3>1 DEF Parts
    <3> QED BY <1>1, <1>2, <1>3, <3>1, <3>2, PastPart
  <2>2. CASE ~(pidx < ATA_PARTITION_NR)
    <3>1. pidx' = 0 /\ Devices!NextDrive("booted")
      BY <1>2, <2>2 DEF Devices!NextPart
    <3>2. \A p \in Parts : p >= pidx <=> p = pidx
      BY <1>3, <2>2
    <3>3. pidx' \in Parts
      BY <1>3, <3>1 DEF Parts
    <3> QED BY <1>1, <1>2, <3>1, <3>2, <3>3, PastDrive, Onward
  <2> QED BY <2>1, <2>2
<1>7. ~Past(drive, pidx)
  BY <1>2, <1>3 DEF Past
<1>8. Due(drive, pidx) <=> drives[drive].parts[pidx].count # 0
  BY <1>2, <1>4, <1>5 DEF Due
<1>9. TableInv' /\ BlocksInv' /\ (EntriesUsed' = EntriesUsed \/ EntriesUsed' = EntriesUsed + 1)
  <2>1. CASE drives[drive].parts[pidx].count = 0
    <3>1. UNCHANGED <<attached, devices, installed>>
      BY <1>2, <2>1 DEF Devices!install_part
    <3>2. \A d \in Devices!Drive, p \in Parts : Due(d, p) => (Past(d, p)' <=> Past(d, p))
      BY <1>6, <1>8, <2>1
    <3> QED BY <1>1, <3>1, <3>2, SameTable
  <2>2. CASE drives[drive].parts[pidx].count # 0
    <3>1. Devices!dev_install("DEV_BLOCK", "DEV_ATA_PART", <<drive, pidx>>)
      BY <2>2 DEF Devices!install_part
    <3>2. "DEV_ATA_PART" = IF pidx = 0 THEN "DEV_ATA_DISK" ELSE "DEV_ATA_PART"
      BY <1>2
    <3> QED BY <1>1, <1>2, <1>3, <1>4, <1>6, <1>7, <1>8, <2>2, <3>1, <3>2, BlockStep
  <2> QED BY <2>1, <2>2
<1>10. EntriesUsed' > 1
  BY <1>1, <1>4, <1>9 DEF TableInv
<1>11. StepInv' /\ CountInv'
  BY <1>2, <1>4, <1>6, <1>10 DEF StepInv, CountInv, Devices!Answers
<1> QED BY <1>1, <1>2, <1>6, <1>9, <1>11, SameDrives DEF DevicesInv

-----------------------------------------------------------------------------
(* Before kernel_init the table is empty and nothing is probed. *)
LEMMA DevicesStart == Init => DevicesInv
<1> SUFFICES ASSUME Init PROVE DevicesInv
  OBVIOUS
<1>1. /\ attached \in [Devices!Drive -> Drives] /\ drives = [d \in Devices!Drive |-> Devices!NoDisk]
      /\ devices = [i \in Devices!Dev |-> Devices!Unused] /\ installed = <<>>
      /\ step = "console" /\ drive = 0 /\ pidx = 0
  BY DEF Init, Devices!Init
<1>2. EntriesUsed = 0 /\ DEV_NR \in Nat /\ 0 \in Parts
  BY <1>1, DevicesAssumption DEF EntriesUsed, Parts
<1>3. StepInv /\ CountInv
  BY <1>1, <1>2, FirstDrive DEF StepInv, CountInv
<1>4. DrivesInv
  BY <1>1 DEF DrivesInv, Probed
<1>5. TableInv
  BY <1>1, <1>2 DEF TableInv, Devices!Unused
<1>6. BlocksInv
  BY <1>1, <1>2 DEF BlocksInv, Past
<1> QED BY <1>3, <1>4, <1>5, <1>6 DEF DevicesInv

(* Every step keeps the invariant. *)
LEMMA DevicesStep ==
  ASSUME DevicesInv, [Next]_vars
  PROVE  DevicesInv'
<1>1. CASE Devices!Next
  BY <1>1, ConsoleInstalled, KeyboardInstalled, ProbeStep, DiskStep, PartStep DEF Devices!Next
<1>2. CASE UNCHANGED startup
  <2>1. UNCHANGED <<attached, drives, devices, installed, step, drive, pidx>>
    BY <1>2 DEF startup
  <2>2. StepInv' /\ DrivesInv'
    BY <2>1 DEF DevicesInv, StepInv, DrivesInv, Probed, Devices!Answers, Devices!ata_partition, Devices!NoDisk
  <2>3. \A d, p : Past(d, p)' <=> Past(d, p)
    BY <2>1 DEF Past
  <2>4. TableInv' /\ BlocksInv' /\ EntriesUsed' = EntriesUsed
    BY <2>1, <2>3, SameTable DEF DevicesInv
  <2>5. CountInv'
    BY <2>1, <2>4 DEF DevicesInv, CountInv
  <2> QED BY <2>2, <2>4, <2>5 DEF DevicesInv
<1> QED BY <1>1, <1>2 DEF Next, vars

(* However many buses, drives and partitions there are: the table has what *)
(* the loops of the start-up have passed, once, in their order, and no     *)
(* gaps, until it is full.                                                 *)
THEOREM DevicesInvariance == Spec => []DevicesInv
<1> QED BY DevicesStart, DevicesStep, PTL DEF Spec

-----------------------------------------------------------------------------
(* What follows from the invariant. *)

(* The block devices are the entries from 2 on. *)
LEMMA BlockEntry ==
  ASSUME DevicesInv
  PROVE  /\ 2..(EntriesUsed - 1) \subseteq Devices!Dev
         /\ \A i \in Devices!Dev : devices[i].type = "DEV_BLOCK" => i \in 2..(EntriesUsed - 1)
         /\ \A i \in Devices!Dev : devices[i].type = "DEV_CHAR" => i \in 0..1
<1>1. TableInv /\ BlocksInv /\ DEV_NR \in Nat /\ EntriesUsed \in 0..DEV_NR
  BY DevicesAssumption DEF DevicesInv, TableInv
<1>2. 2..(EntriesUsed - 1) \subseteq Devices!Dev
  BY <1>1 DEF Devices!Dev
<1>3. ASSUME NEW i \in Devices!Dev
      PROVE  /\ devices[i].type = "DEV_BLOCK" => i \in 2..(EntriesUsed - 1)
             /\ devices[i].type = "DEV_CHAR" => i \in 0..1
  <2>1. i \in Nat
    BY <1>1 DEF Devices!Dev
  <2>2. CASE i >= EntriesUsed
    BY <1>1, <2>2 DEF TableInv, Devices!Unused
  <2>3. CASE i < EntriesUsed /\ i = 0
    BY <1>1, <2>3 DEF TableInv, Record
  <2>4. CASE i < EntriesUsed /\ i = 1
    BY <1>1, <2>4 DEF TableInv, Record
  <2>5. CASE i \in 2..(EntriesUsed - 1)
    <3>1. PICK d, p : devices[i] = Block(d, p)
      BY <1>1, <2>5 DEF BlocksInv
    <3> QED BY <3>1, <2>5 DEF Block, Record
  <2> QED BY <1>1, <2>1, <2>2, <2>3, <2>4, <2>5
<1> QED BY <1>2, <1>3

(* Every drive and partition is a device once. *)
LEMMA AllInstalled == DevicesInv => Devices!DrivesInstalled
<1> SUFFICES ASSUME DevicesInv, step = "booted" PROVE Devices!DrivesInstalled
  BY DEF Devices!DrivesInstalled
<1> DEFINE there == {d \in Devices!Drive : Devices!Answers(attached[d])}
           Of(subtype) == {devices[i].dev : i \in Devices!Blocks(subtype)}
           parts == {x \in there \X (1..ATA_PARTITION_NR) : attached[x[1]].table[x[2]].count # 0}
<1>1. /\ \A i \in 2..(EntriesUsed - 1) : \E d \in Devices!Drive, p \in Parts :
            Due(d, p) /\ devices[i] = Block(d, p)
      /\ \A d \in Devices!Drive, p \in Parts :
            Due(d, p) => \E i \in 2..(EntriesUsed - 1) : devices[i] = Block(d, p)
      /\ \A i, j \in 2..(EntriesUsed - 1) : i # j => devices[i].dev # devices[j].dev
  BY DEF DevicesInv, BlocksInv, Past
<1>2. 0 \in Parts /\ \A p \in Parts : p # 0 => p \in 1..ATA_PARTITION_NR
  BY DevicesAssumption DEF Parts
<1>3. \A p \in 1..ATA_PARTITION_NR : p \in Parts /\ p # 0
  BY DevicesAssumption DEF Parts
<1>4. ASSUME NEW d \in there PROVE <<d, 0>> \in Of("DEV_ATA_DISK")
  <2>1. PICK i \in 2..(EntriesUsed - 1) : devices[i] = Block(d, 0)
    BY <1>1, <1>2 DEF Due
  <2>2. i \in Devices!Blocks("DEV_ATA_DISK") /\ devices[i].dev = <<d, 0>>
    BY <2>1, BlockEntry DEF Devices!Blocks, Block, Record
  <2> QED BY <2>2
<1>5. ASSUME NEW d \in there, NEW p \in 1..ATA_PARTITION_NR, attached[d].table[p].count # 0
      PROVE  <<d, p>> \in Of("DEV_ATA_PART")
  <2>1. PICK i \in 2..(EntriesUsed - 1) : devices[i] = Block(d, p)
    BY <1>1, <1>3, <1>5 DEF Due
  <2>2. i \in Devices!Blocks("DEV_ATA_PART") /\ devices[i].dev = <<d, p>>
    BY <1>3, <2>1, BlockEntry DEF Devices!Blocks, Block, Record
  <2> QED BY <2>2
<1>6. ASSUME NEW i \in Devices!Blocks("DEV_ATA_DISK") PROVE \E d \in there : devices[i].dev = <<d, 0>>
  <2>1. i \in 2..(EntriesUsed - 1) /\ devices[i].subtype = "DEV_ATA_DISK"
    BY BlockEntry DEF Devices!Blocks
  <2>2. PICK d \in Devices!Drive, p \in Parts : Due(d, p) /\ devices[i] = Block(d, p)
    BY <1>1, <2>1
  <2>3. p = 0 /\ devices[i].dev = <<d, p>>
    BY <2>1, <2>2 DEF Block, Record
  <2> QED BY <2>2, <2>3 DEF Due
<1>7. ASSUME NEW i \in Devices!Blocks("DEV_ATA_PART")
      PROVE  \E d \in there, p \in 1..ATA_PARTITION_NR :
                attached[d].table[p].count # 0 /\ devices[i].dev = <<d, p>>
  <2>1. i \in 2..(EntriesUsed - 1) /\ devices[i].subtype = "DEV_ATA_PART"
    BY BlockEntry DEF Devices!Blocks
  <2>2. PICK d \in Devices!Drive, p \in Parts : Due(d, p) /\ devices[i] = Block(d, p)
    BY <1>1, <2>1
  <2>3. p # 0 /\ devices[i].dev = <<d, p>>
    BY <2>1, <2>2 DEF Block, Record
  <2> QED BY <1>2, <2>2, <2>3 DEF Due
<1>8. Of("DEV_ATA_DISK") = {<<d, 0>> : d \in there}
  BY <1>4, <1>6
<1>9. Of("DEV_ATA_PART") = parts
  <2>1. ASSUME NEW x \in Of("DEV_ATA_PART") PROVE x \in parts
    <3>1. PICK i \in Devices!Blocks("DEV_ATA_PART") : x = devices[i].dev
      OBVIOUS
    <3>2. PICK d \in there, p \in 1..ATA_PARTITION_NR : attached[d].table[p].count # 0 /\ x = <<d, p>>
      BY <3>1, <1>7
    <3>3. x \in there \X (1..ATA_PARTITION_NR) /\ x[1] = d /\ x[2] = p
      BY <3>2
    <3> QED BY <3>2, <3>3
  <2>2. ASSUME NEW x \in parts PROVE x \in Of("DEV_ATA_PART")
    <3>1. PICK d \in there, p \in 1..ATA_PARTITION_NR : x = <<d, p>> /\ attached[d].table[p].count # 0
      OBVIOUS
    <3> QED BY <3>1, <1>5
  <2> QED BY <2>1, <2>2
<1>10. \A i, j \in Devices!Dev :
          /\ devices[i].type = "DEV_CHAR" => i \in 0..1
          /\ i # j /\ devices[i].type = "DEV_BLOCK" /\ devices[j].type = "DEV_BLOCK" =>
                devices[i].dev # devices[j].dev
  BY <1>1, BlockEntry
<1> QED BY <1>8, <1>9, <1>10 DEF Devices!DrivesInstalled

(* A drive that answers has a table that fits. *)
LEMMA TableFits ==
  ASSUME DevicesInv, NEW d \in Devices!Drive, Devices!Answers(attached[d])
  PROVE  attached[d].total_lba \in 0..LBA_NR /\ attached[d].table \in Table(attached[d].total_lba)
<1>1. attached[d] \in Drives /\ attached[d].status = "ready"
  BY DEF DevicesInv, DrivesInv, Devices!Answers
<1>2. PICK size \in 0..LBA_NR : \E t \in Table(size) : attached[d] = [status |-> "ready", total_lba |-> size, table |-> t]
  BY <1>1 DEF Drives
<1> QED BY <1>2

(* Where the sectors of a partition are. *)
LEMMA PartEntry ==
  ASSUME DevicesInv, NEW i \in Devices!Blocks("DEV_ATA_PART")
  PROVE  \E d \in Devices!Drive, p \in 1..ATA_PARTITION_NR :
            /\ devices[i].dev = <<d, p>> /\ Devices!Answers(attached[d]) /\ attached[d].table[p].count # 0
            /\ drives[d].total_lba = attached[d].total_lba
            /\ Devices!Extent(d, p).count = attached[d].table[p].count
            /\ \A idx : Devices!Sector(i, idx) = <<d, attached[d].table[p].start + idx>>
<1>1. i \in 2..(EntriesUsed - 1) /\ devices[i].subtype = "DEV_ATA_PART"
  BY BlockEntry DEF Devices!Blocks
<1>2. PICK d \in Devices!Drive, p \in Parts : Due(d, p) /\ Past(d, p) /\ devices[i] = Block(d, p)
  BY <1>1 DEF DevicesInv, BlocksInv
<1>3. p # 0 /\ devices[i].dev = <<d, p>>
  BY <1>1, <1>2 DEF Block, Record
<1>4. p \in 1..ATA_PARTITION_NR
  BY <1>3, DevicesAssumption DEF Parts
<1>5. Probed(d) /\ Devices!Answers(attached[d]) /\ attached[d].table[p].count # 0
  BY <1>2, <1>3 DEF Past, Probed, Due
<1>6. drives[d].total_lba = attached[d].total_lba /\ drives[d].parts = attached[d].table
  BY <1>5, ProbedDisk DEF DevicesInv
<1>7. Devices!Extent(d, p).count = attached[d].table[p].count /\ Devices!Extent(d, p).start = attached[d].table[p].start
  BY <1>3, <1>6 DEF Devices!Extent
<1>8. \A idx : Devices!Sector(i, idx) = <<d, attached[d].table[p].start + idx>>
  BY <1>3, <1>7 DEF Devices!Sector
<1> QED BY <1>3, <1>4, <1>5, <1>6, <1>7, <1>8

(* The sectors of two partitions differ, because their drives do or their  *)
(* extents do not meet.                                                    *)
LEMMA ApartSectors == DevicesInv => Devices!PartitionsApart
<1> SUFFICES ASSUME DevicesInv,
                    NEW i \in Devices!Blocks("DEV_ATA_PART"), NEW j \in Devices!Blocks("DEV_ATA_PART")
             PROVE  LET Reach(k) == {Devices!Sector(k, idx) :
                           idx \in 0..(Devices!Extent(devices[k].dev[1], devices[k].dev[2]).count - 1)}
                    IN  /\ i # j => Reach(i) \cap Reach(j) = {}
                        /\ \A s \in Reach(i) : s[2] < drives[s[1]].total_lba
  BY DEF Devices!PartitionsApart
<1> DEFINE Reach(k) == {Devices!Sector(k, idx) :
              idx \in 0..(Devices!Extent(devices[k].dev[1], devices[k].dev[2]).count - 1)}
<1>1. PICK d \in Devices!Drive, p \in 1..ATA_PARTITION_NR :
            /\ devices[i].dev = <<d, p>> /\ Devices!Answers(attached[d]) /\ attached[d].table[p].count # 0
            /\ drives[d].total_lba = attached[d].total_lba
            /\ Devices!Extent(d, p).count = attached[d].table[p].count
            /\ \A idx : Devices!Sector(i, idx) = <<d, attached[d].table[p].start + idx>>
  BY PartEntry
<1>2. PICK e \in Devices!Drive, q \in 1..ATA_PARTITION_NR :
            /\ devices[j].dev = <<e, q>> /\ Devices!Answers(attached[e]) /\ attached[e].table[q].count # 0
            /\ drives[e].total_lba = attached[e].total_lba
            /\ Devices!Extent(e, q).count = attached[e].table[q].count
            /\ \A idx : Devices!Sector(j, idx) = <<e, attached[e].table[q].start + idx>>
  BY PartEntry
<1> DEFINE x == attached[d].table[p]
           y == attached[e].table[q]
<1>3. /\ attached[d].total_lba \in 0..LBA_NR /\ attached[d].table \in Table(attached[d].total_lba)
      /\ attached[e].total_lba \in 0..LBA_NR /\ attached[e].table \in Table(attached[e].total_lba)
  BY <1>1, <1>2, TableFits
<1>4. /\ x.start \in Nat /\ x.count \in Nat /\ x.start + x.count <= attached[d].total_lba
      /\ y.start \in Nat /\ y.count \in Nat
      /\ attached[d].total_lba \in Nat
  <2>1. x \in Entry /\ y \in Entry /\ x.start + x.count <= attached[d].total_lba
    BY <1>3 DEF Table
  <2> HIDE DEF x, y
  <2>2. LBA_NR \in Nat
    BY DevicesAssumption
  <2> QED BY <1>3, <2>1, <2>2 DEF Entry
<1>5. ASSUME NEW s \in Reach(i)
      PROVE  \E k \in 0..(x.count - 1) : s = <<d, x.start + k>>
  BY <1>1, <1>5
<1>6. ASSUME NEW s \in Reach(j)
      PROVE  \E k \in 0..(y.count - 1) : s = <<e, y.start + k>>
  BY <1>2, <1>6
<1>7. ASSUME i # j PROVE d # e \/ Apart(x, y)
  <2>1. devices[i].dev # devices[j].dev
    <3>1. i \in 2..(EntriesUsed - 1) /\ j \in 2..(EntriesUsed - 1)
      BY BlockEntry DEF Devices!Blocks
    <3> QED BY <1>7, <3>1 DEF DevicesInv, BlocksInv
  <2>2. d # e \/ p # q
    BY <1>1, <1>2, <2>1
  <2> QED BY <1>1, <1>2, <1>3, <2>2 DEF Table
<1> HIDE DEF Reach, x, y
<1>8. ASSUME i # j, NEW s \in Reach(i) \cap Reach(j) PROVE FALSE
  <2>1. PICK k \in 0..(x.count - 1) : s = <<d, x.start + k>>
    BY <1>5, <1>8
  <2>2. PICK l \in 0..(y.count - 1) : s = <<e, y.start + l>>
    BY <1>6, <1>8
  <2>3. d = e /\ x.start + k = y.start + l
    BY <2>1, <2>2
  <2>4. Apart(x, y)
    BY <1>7, <1>8, <2>3
  <2> QED BY <1>4, <2>3, <2>4 DEF Apart
<1>9. ASSUME NEW s \in Reach(i) PROVE s[2] < drives[s[1]].total_lba
  <2>1. PICK k \in 0..(x.count - 1) : s = <<d, x.start + k>>
    BY <1>5, <1>9
  <2>2. s[2] = x.start + k /\ drives[s[1]].total_lba = attached[d].total_lba
    BY <1>1, <2>1
  <2> QED BY <1>4, <2>2
<1> QED BY <1>8, <1>9 DEF Reach

(* The number of installed devices is counted as everywhere. *)
LEMMA DevicesCount == \A S : Devices!Cardinality(S) = Cardinality(S)
BY Zenon DEF Devices!Cardinality, Cardinality

(* In a set of numbers fewer stand before i than are in a part of it that  *)
(* has these and i.                                                        *)
LEMMA BeforeGrows ==
  ASSUME NEW S, IsFiniteSet(S), NEW i \in S, NEW T \in SUBSET S,
         Devices!Before(S, i) \subseteq T, i \in T, i \in Nat
  PROVE  Cardinality(Devices!Before(S, i)) # Cardinality(T)
<1> DEFINE B == Devices!Before(S, i)
<1>1. IsFiniteSet(T)
  BY FS_Subset
<1>2. B \in SUBSET T /\ i \notin B
  BY DEF Devices!Before
<1> HIDE DEF B
<1>3. B # T
  BY <1>2
<1> QED BY <1>1, <1>2, <1>3, FS_Subset DEF B

(* dev_find with the number of those before a device answers this device.  *)
LEMMA FindsDevice ==
  ASSUME NEW subtype, NEW i \in Devices!Dev, devices[i].subtype = subtype
  PROVE  LET found == {j \in Devices!Dev : devices[j].subtype = subtype}
         IN  Devices!dev_find(subtype, Devices!Cardinality(Devices!Before(found, i))) = i
<1> DEFINE found == {j \in Devices!Dev : devices[j].subtype = subtype}
           idx == Devices!Cardinality(Devices!Before(found, i))
<1>1. IsFiniteSet(found) /\ \A j \in found : j \in Nat
  <2>1. IsFiniteSet(Devices!Dev) /\ \A j \in Devices!Dev : j \in Nat
    BY FS_Interval, DevicesAssumption DEF Devices!Dev
  <2> QED BY <2>1, FS_Subset
<1> HIDE DEF found
<1>2. i \in found
  BY DEF found
<1>3. ASSUME NEW j \in found, NEW k \in found, j < k
      PROVE  Cardinality(Devices!Before(found, j)) # Cardinality(Devices!Before(found, k))
  <2>1. /\ j \in Nat /\ k \in Nat /\ \A l \in found : l \in Nat
    BY <1>1
  <2>2. Devices!Before(found, k) \in SUBSET found /\ j \in Devices!Before(found, k)
    BY <1>3 DEF Devices!Before
  <2>3. Devices!Before(found, j) \subseteq Devices!Before(found, k)
    <3> SUFFICES ASSUME NEW l \in found, l < j PROVE l < k
      BY DEF Devices!Before
    <3> QED BY <1>3, <2>1
  <2> QED BY <2>3, <1>1, <2>1, <2>2, BeforeGrows
<1>4. \A j \in found : Devices!Cardinality(Devices!Before(found, j)) = idx => j = i
  <2> SUFFICES ASSUME NEW j \in found, Devices!Cardinality(Devices!Before(found, j)) = idx PROVE j = i
    OBVIOUS
  <2>1. Cardinality(Devices!Before(found, j)) = Cardinality(Devices!Before(found, i))
    BY DevicesCount
  <2>2. ~(j < i) /\ ~(i < j)
    BY <1>2, <1>3, <2>1
  <2> QED BY <1>1, <1>2, <2>2
<1>5. Devices!dev_find(subtype, idx) =
         IF \E j \in found : Devices!Cardinality(Devices!Before(found, j)) = idx
         THEN CHOOSE j \in found : Devices!Cardinality(Devices!Before(found, j)) = idx ELSE NULL
  BY DEF Devices!dev_find, found
<1> HIDE DEF idx
<1>6. \E j \in found : Devices!Cardinality(Devices!Before(found, j)) = idx
  BY <1>2 DEF idx
<1> QED BY <1>4, <1>5, <1>6 DEF idx, found

(* Devices are found in the order of their installation. *)
LEMMA FoundInOrder == DevicesInv => Devices!FindExact
<1> SUFFICES ASSUME DevicesInv PROVE Devices!FindExact
  OBVIOUS
<1> DEFINE Earlier(k, subtype) == {i \in {installed[j] : j \in 1..(k - 1)} : devices[i].subtype = subtype}
           Found(subtype) == {j \in Devices!Dev : devices[j].subtype = subtype}
           n == Len(installed)
<1>1. n \in Nat /\ DEV_NR \in Nat /\ n <= DEV_NR /\ installed = [k \in 1..n |-> k - 1]
  BY DevicesAssumption DEF DevicesInv, TableInv, EntriesUsed
<1>2. \A i \in Devices!Dev : i >= n => devices[i] = Devices!Unused
  BY DEF DevicesInv, TableInv, EntriesUsed
<1> HIDE DEF n
<1>3. ASSUME NEW k \in 1..n
      PROVE  LET subtype == devices[installed[k]].subtype
             IN  Devices!dev_find(subtype, Devices!Cardinality(Earlier(k, subtype))) = installed[k]
  <2> DEFINE i == k - 1
             subtype == devices[i].subtype
  <2>1. installed[k] = i /\ i \in Devices!Dev
    BY <1>1 DEF Devices!Dev
  <2>2. \A j \in 1..(k - 1) : installed[j] = j - 1 /\ j - 1 \in Devices!Dev /\ j - 1 < i
    BY <1>1 DEF Devices!Dev
  <2>3. \A j \in Devices!Dev : j < i => j + 1 \in 1..(k - 1) /\ installed[j + 1] = j
    BY <1>1 DEF Devices!Dev
  <2> HIDE DEF i, subtype
  <2>4. Earlier(k, subtype) = Devices!Before(Found(subtype), i)
    <3>1. ASSUME NEW x \in Earlier(k, subtype) PROVE x \in Devices!Before(Found(subtype), i)
      BY <2>2 DEF Devices!Before
    <3>2. ASSUME NEW x \in Devices!Before(Found(subtype), i) PROVE x \in Earlier(k, subtype)
      BY <2>3 DEF Devices!Before
    <3> QED BY <3>1, <3>2
  <2>5. Devices!dev_find(subtype, Devices!Cardinality(Devices!Before(Found(subtype), i))) = i
    BY <2>1, FindsDevice DEF subtype
  <2> HIDE DEF Earlier, Found
  <2>6. Devices!dev_find(subtype, Devices!Cardinality(Earlier(k, subtype))) = i
    BY <2>4, <2>5
  <2> QED BY <2>1, <2>6 DEF subtype
<1>4. ASSUME NEW subtype \in {"DEV_KEYBOARD", "DEV_ATA_DISK", "DEV_ATA_PART"}
      PROVE  Devices!dev_find(subtype, Devices!Cardinality(Earlier(n + 1, subtype))) = NULL
  <2> DEFINE F == Found(subtype)
  <2>1. Earlier(n + 1, subtype) = F
    <3>1. \A j \in 1..n : installed[j] = j - 1 /\ j - 1 \in Devices!Dev
      BY <1>1 DEF Devices!Dev
    <3>2. \A j \in Devices!Dev : j < n => j + 1 \in 1..n /\ installed[j + 1] = j
      BY <1>1 DEF Devices!Dev
    <3>3. \A j \in Devices!Dev : j >= n => devices[j].subtype # subtype
      BY <1>2, <1>4 DEF Devices!Unused
    <3>4. \A j \in Devices!Dev : j < n \/ j >= n
      BY <1>1 DEF Devices!Dev
    <3>5. (n + 1) - 1 = n
      BY <1>1
    <3>6. ASSUME NEW x \in Earlier(n + 1, subtype) PROVE x \in F
      BY <3>1, <3>5
    <3>7. ASSUME NEW x \in F PROVE x \in Earlier(n + 1, subtype)
      BY <3>2, <3>3, <3>4, <3>5
    <3> QED BY <3>6, <3>7
  <2>2. IsFiniteSet(F) /\ \A j \in F : j \in Nat
    <3>1. IsFiniteSet(Devices!Dev) /\ \A j \in Devices!Dev : j \in Nat
      BY FS_Interval, DevicesAssumption DEF Devices!Dev
    <3> QED BY <3>1, FS_Subset
  <2>3. \A idx : Devices!dev_find(subtype, idx) =
            IF \E i \in F : Devices!Cardinality(Devices!Before(F, i)) = idx
            THEN CHOOSE i \in F : Devices!Cardinality(Devices!Before(F, i)) = idx ELSE NULL
    BY DEF Devices!dev_find
  <2> HIDE DEF F
  <2>4. \A i \in F : Cardinality(Devices!Before(F, i)) # Cardinality(F)
    <3> SUFFICES ASSUME NEW i \in F PROVE Cardinality(Devices!Before(F, i)) # Cardinality(F)
      OBVIOUS
    <3>1. Devices!Before(F, i) \subseteq F /\ F \in SUBSET F /\ i \in Nat
      BY <2>2 DEF Devices!Before
    <3> QED BY <2>2, <3>1, BeforeGrows
  <2>5. ~\E i \in F : Devices!Cardinality(Devices!Before(F, i)) = Devices!Cardinality(F)
    BY <2>4, DevicesCount
  <2>6. Devices!dev_find(subtype, Devices!Cardinality(F)) = NULL
    BY <2>3, <2>5
  <2> HIDE DEF Earlier
  <2> QED BY <2>1, <2>6
<1> QED BY <1>3, <1>4 DEF Devices!FindExact, n

(* All drives that answer and all their partitions are devices, dev_find   *)
(* counts them in the order of installation, and no sector belongs to two  *)
(* partitions (device.c, ata.c).                                           *)
THEOREM DevicesAreSound == Spec => []DevicesSound
<1>1. DevicesInv => DevicesSound
  BY AllInstalled, FoundInOrder, ApartSectors DEF DevicesSound
<1> QED BY <1>1, DevicesInvariance, PTL

-----------------------------------------------------------------------------
(* The kernel heap is sound: for any number and size of pages, any sizes   *)
(* of blocks and any sizes asked for.  The page is the unit of the         *)
(* argument: each call changes one page, or the pages of one large block,  *)
(* and the frame lemmas keep the others as they were.                      *)

(* A map, as the heap and the file system search it. *)
MapOf(bits, size, offset) == [bits |-> bits, size |-> size, offset |-> offset]

(* What the loop of bitmap_insert_nbits counts: the run of free bits that  *)
(* ends before bit i.                                                      *)
Counts(C, bits, size) == \A i \in 0..size : C[i] = IF i = 0 \/ i - 1 \in bits THEN 0 ELSE C[i - 1] + 1
EndsOf(C, size, n) == {i \in 1..size : C[i] = n}
FirstEnd(C, size, n) == CHOOSE i \in EndsOf(C, size, n) : \A j \in EndsOf(C, size, n) : i <= j

ScanBy(C, bits, size, offset, n) ==
    /\ Counts(C, bits, size)
    /\ Heap!Scan(MapOf(bits, size, offset), n) =
         IF EndsOf(C, size, n) = {} THEN Heap!EOF ELSE offset + FirstEnd(C, size, n) - n

(* The counter of the loop of bitmap_insert_nbits has a value at each      *)
(* bit.                                                                    *)
LEMMA ScanCounts ==
  ASSUME NEW bits, NEW size \in Nat, NEW offset \in Int, NEW n
  PROVE  \E C : ScanBy(C, bits, size, offset, n)
<1> DEFINE map == MapOf(bits, size, offset)
           In(i) == Heap!bitmap_contains(map, map.offset + i - 1)
           Is(g, m) == g = [i \in 0..m |-> IF i = 0 \/ In(i) THEN 0 ELSE g[i - 1] + 1]
           C == CHOOSE g : Is(g, map.size)
           Not == {m \in 0..size : ~ \E g : Is(g, m)}
<1>1. Heap!Scan(map, n) = IF EndsOf(C, map.size, n) = {} THEN Heap!EOF
        ELSE map.offset + FirstEnd(C, map.size, n) - n
  BY Zenon DEF Heap!Scan, EndsOf, FirstEnd
<1>2. map.size = size /\ map.offset = offset /\ map.bits = bits
  BY DEF MapOf
<1>3. \A i \in 0..size : In(i) <=> i - 1 \in bits
  <2> SUFFICES ASSUME NEW i \in 0..size PROVE In(i) <=> i - 1 \in bits
    OBVIOUS
  <2>1. In(i) <=> (offset + i - 1) - offset \in bits
    BY <1>2 DEF Heap!bitmap_contains
  <2>2. (offset + i - 1) - offset = i - 1
    OBVIOUS
  <2> HIDE DEF In
  <2> QED BY <2>1, <2>2
<1> HIDE DEF map, In
<1>4. ASSUME Not # {} PROVE FALSE
  <2>0. Not \subseteq Nat
    OBVIOUS
  <2>1. PICK m \in Not : \A k \in Not : m <= k
    BY <1>4, <2>0, LeastOne
  <2>2. CASE m = 0
    <3>1. Is([i \in 0..0 |-> 0], 0)
      OBVIOUS
    <3> QED BY <2>2, <3>1
  <2>3. CASE m # 0
    <3>1. m - 1 \in 0..size /\ m - 1 \notin Not
      <4>1. m \in 0..size
        OBVIOUS
      <4> HIDE DEF Not
      <4> QED BY <4>1, <2>1, <2>3
    <3>2. PICK g : Is(g, m - 1)
      BY <3>1
    <3> DEFINE h == [i \in 0..m |-> IF i = m THEN IF In(m) THEN 0 ELSE g[m - 1] + 1 ELSE g[i]]
    <3>3. Is(h, m)
      <4>1. m \in Nat /\ m > 0
        BY <2>3
      <4>2. \A i \in 0..m : h[i] = IF i = 0 \/ In(i) THEN 0 ELSE h[i - 1] + 1
        BY <3>2, <4>1
      <4> QED BY <4>2
    <3> QED BY <3>3
  <2> QED BY <2>2, <2>3
<1>5. \E g : Is(g, map.size)
  <2>1. size \in 0..size /\ size \notin Not
    <3> HIDE DEF Not
    <3> QED BY <1>4
  <2> HIDE DEF Is
  <2> QED BY <1>2, <2>1 DEF Not
<1>6. Is(C, map.size)
  <2> HIDE DEF Is
  <2> QED BY <1>5, Zenon
<1> HIDE DEF C
<1>7. Counts(C, bits, size)
  BY <1>2, <1>3, <1>6 DEF Counts
<1> QED BY <1>1, <1>2, <1>7 DEF map, ScanBy

(* The n bits from r on are free. *)
FreeRun(bits, size, r, n) == \A j \in r..(r + n - 1) : j \in 0..(size - 1) /\ j \notin bits

(* The count is the length of the run, and no more bits are free before.   *)
CountAt(C, bits, i) ==
    /\ C[i] \in 0..i /\ \A j \in (i - C[i])..(i - 1) : j \notin bits
    /\ C[i] = i \/ (i - C[i] - 1) \in bits

(* The counter is the length of the run of free bits before each bit. *)
LEMMA CountsRuns ==
  ASSUME NEW bits, NEW size \in Nat, NEW C, Counts(C, bits, size)
  PROVE  \A i \in 0..size : CountAt(C, bits, i)
<1> DEFINE Not == {i \in 0..size : ~CountAt(C, bits, i)}
<1>1. ASSUME Not # {} PROVE FALSE
  <2>0. Not \subseteq Nat
    OBVIOUS
  <2>1. PICK m \in Not : \A k \in Not : m <= k
    BY <1>1, <2>0, LeastOne
  <2>2. m \in 0..size /\ ~CountAt(C, bits, m)
    OBVIOUS
  <2>3. CASE m = 0
    <3>1. C[0] = 0
      BY DEF Counts
    <3> QED BY <3>1, <2>2, <2>3 DEF CountAt
  <2>4. CASE m # 0
    <3>1. m - 1 \in 0..size /\ CountAt(C, bits, m - 1)
      <4>1. m - 1 \in 0..size /\ m - 1 \notin Not
        <5> HIDE DEF Not
        <5> QED BY <2>1, <2>2, <2>4
      <4> QED BY <4>1
    <3>2. CASE m - 1 \in bits
      <4>1. C[m] = 0
        BY <2>2, <3>2 DEF Counts
      <4> QED BY <4>1, <2>2, <3>2, <2>4 DEF CountAt
    <3>3. CASE m - 1 \notin bits
      <4>1. C[m] = C[m - 1] + 1
        BY <2>2, <2>4, <3>3 DEF Counts
      <4> DEFINE k == C[m - 1]
      <4>2. k \in 0..(m - 1) /\ (\A j \in (m - 1 - k)..(m - 2) : j \notin bits) /\ (k = m - 1 \/ (m - 1 - k - 1) \in bits)
        BY <3>1, <2>2 DEF CountAt
      <4> HIDE DEF k
      <4>3. C[m] = k + 1 /\ m - (k + 1) = m - 1 - k /\ m - (k + 1) - 1 = m - 1 - k - 1
        BY <4>1, <4>2, <2>2 DEF k
      <4>4. \A j \in (m - (k + 1))..(m - 1) : j \notin bits
        BY <4>2, <2>2, <3>3
      <4>5. k + 1 \in 0..m /\ (k + 1 = m \/ (m - (k + 1) - 1) \in bits)
        BY <4>2, <4>3, <2>2, <2>4
      <4> QED BY <2>2, <4>3, <4>4, <4>5 DEF CountAt
    <3> QED BY <3>2, <3>3
  <2> QED BY <2>3, <2>4
<1> QED BY <1>1

(* bitmap_insert_nbits finds the first run of n free bits, if there is one.*)
LEMMA ScanFirst ==
  ASSUME NEW bits, NEW size \in Nat, NEW offset \in Nat, NEW n \in Nat \ {0}
  PROVE  \/ /\ Heap!Scan(MapOf(bits, size, offset), n) = Heap!EOF
            /\ \A r \in Nat : ~FreeRun(bits, size, r, n)
         \/ \E r \in Nat : /\ Heap!Scan(MapOf(bits, size, offset), n) = offset + r
                           /\ FreeRun(bits, size, r, n)
                           /\ \A q \in Nat : FreeRun(bits, size, q, n) => r <= q
<1> DEFINE s == Heap!Scan(MapOf(bits, size, offset), n)
<1>1. PICK C : /\ Counts(C, bits, size)
               /\ s = IF EndsOf(C, size, n) = {} THEN Heap!EOF
                      ELSE offset + FirstEnd(C, size, n) - n
  <2>1. \E C : ScanBy(C, bits, size, offset, n)
    BY ScanCounts
  <2> QED BY <2>1 DEF ScanBy
<1> HIDE DEF s
<1>2. \A i \in 0..size : CountAt(C, bits, i)
  BY <1>1, CountsRuns
<1>3. ASSUME NEW q \in Nat, FreeRun(bits, size, q, n)
      PROVE  \E e \in EndsOf(C, size, n) : e <= q + n
  <2>1. q + n \in 0..size
    <3>1. q + n - 1 \in q..(q + n - 1)
      OBVIOUS
    <3>2. q + n - 1 \in 0..(size - 1)
      BY <3>1, <1>3 DEF FreeRun
    <3> QED BY <3>2
  <2> DEFINE Many == {i \in 0..size : C[i] >= n}
  <2>2. q + n \in Many
    <3> DEFINE k == C[q + n]
    <3>1. k \in 0..(q + n) /\ (k = q + n \/ (q + n - k - 1) \in bits)
      BY <2>1, <1>2 DEF CountAt
    <3> HIDE DEF k
    <3>2. ASSUME k < n PROVE FALSE
      <4>1. q + n - k - 1 \in q..(q + n - 1) /\ k # q + n
        BY <3>1, <3>2
      <4> QED BY <4>1, <3>1, <1>3 DEF FreeRun
    <3> QED BY <3>1, <3>2, <2>1 DEF k
  <2>3. PICK e \in Many : \A i \in Many : e <= i
    <3>1. Many \subseteq Nat /\ Many # {}
      BY <2>2
    <3> HIDE DEF Many
    <3> QED BY <3>1, LeastOne
  <2>4. e \in 0..size /\ C[e] >= n /\ C[e] \in 0..e
    BY <1>2 DEF CountAt
  <2>5. e > 0
    BY <2>4
  <2>6. C[e] = C[e - 1] + 1 /\ C[e - 1] \in 0..(e - 1)
    BY <1>1, <1>2, <2>4, <2>5 DEF Counts, CountAt
  <2>7. ~ (C[e - 1] >= n)
    <3>1. e - 1 \notin Many
      <4> HIDE DEF Many
      <4> QED BY <2>3, <2>4
    <3> QED BY <3>1, <2>4, <2>5
  <2>8. C[e] = n
    BY <2>4, <2>5, <2>6, <2>7
  <2>9. e \in EndsOf(C, size, n)
    BY <2>4, <2>5, <2>8 DEF EndsOf
  <2> QED BY <2>2, <2>3, <2>9
<1>4. CASE EndsOf(C, size, n) = {}
  BY <1>1, <1>3, <1>4 DEF s
<1>5. CASE EndsOf(C, size, n) # {}
  <2>1. EndsOf(C, size, n) \subseteq Nat
    BY DEF EndsOf
  <2> DEFINE e == FirstEnd(C, size, n)
  <2>2. e \in EndsOf(C, size, n) /\ \A j \in EndsOf(C, size, n) : e <= j
    <3>1. \E i \in EndsOf(C, size, n) : \A j \in EndsOf(C, size, n) : i <= j
      BY <1>5, <2>1, LeastOne
    <3> QED BY <3>1 DEF FirstEnd
  <2>3. s = offset + e - n
    BY <1>1, <1>5
  <2> HIDE DEF e
  <2>4. e \in 1..size /\ C[e] = n
    BY <2>2 DEF EndsOf
  <2>5. n \in 0..e /\ \A j \in (e - n)..(e - 1) : j \notin bits
    BY <2>4, <1>2 DEF CountAt
  <2>6. FreeRun(bits, size, e - n, n)
    BY <2>4, <2>5 DEF FreeRun
  <2>7. ASSUME NEW q \in Nat, FreeRun(bits, size, q, n) PROVE e - n <= q
    <3>1. PICK f \in EndsOf(C, size, n) : f <= q + n
      BY <2>7, <1>3
    <3>2. e <= f /\ f \in Nat
      BY <2>2, <2>1
    <3> QED BY <3>1, <3>2, <2>4
  <2>8. e - n \in Nat /\ s = offset + (e - n)
    BY <2>3, <2>4, <2>5
  <2> QED BY <2>6, <2>7, <2>8 DEF s
<1> QED BY <1>4, <1>5

-----------------------------------------------------------------------------
(* Free lists: what is in them, each block once. *)
Elems(s) == {s[k] : k \in 1..Len(s)}
Distinct(s) == \A j \in 1..Len(s), k \in 1..Len(s) : s[j] = s[k] => j = k

(* What Append adds to a free list. *)
LEMMA Appended ==
  ASSUME NEW S, NEW s \in Seq(S), NEW e \in S
  PROVE  /\ Append(s, e) \in Seq(S) /\ Elems(Append(s, e)) = Elems(s) \cup {e}
         /\ Distinct(s) /\ e \notin Elems(s) => Distinct(Append(s, e))
<1> DEFINE t == Append(s, e)
<1>1. /\ t \in Seq(S) /\ Len(t) = Len(s) + 1 /\ Len(s) \in Nat
      /\ (\A k \in 1..Len(s) : t[k] = s[k]) /\ t[Len(s) + 1] = e
  BY AppendProperties
<1> HIDE DEF t
<1>2. Elems(t) = Elems(s) \cup {e}
  <2>1. ASSUME NEW b \in Elems(t) PROVE b \in Elems(s) \cup {e}
    BY <1>1, <2>1 DEF Elems
  <2>2. ASSUME NEW k \in 1..Len(s) PROVE s[k] \in Elems(t)
    <3>1. k \in 1..Len(t) /\ t[k] = s[k]
      BY <1>1
    <3> QED BY <3>1 DEF Elems
  <2>3. e \in Elems(t)
    <3>1. Len(s) + 1 \in 1..Len(t)
      BY <1>1
    <3> QED BY <1>1, <3>1 DEF Elems
  <2> QED BY <2>1, <2>2, <2>3 DEF Elems
<1>3. ASSUME Distinct(s), e \notin Elems(s) PROVE Distinct(t)
  <2> SUFFICES ASSUME NEW j \in 1..Len(t), NEW k \in 1..Len(t), t[j] = t[k] PROVE j = k
    BY DEF Distinct
  <2>1. \A i \in 1..Len(s) : s[i] # e
    BY <1>3 DEF Elems
  <2> QED BY <1>1, <1>3, <2>1 DEF Distinct
<1> QED BY <1>1, <1>2, <1>3 DEF t

(* What is left of a free list when its first block is taken. *)
LEMMA Tailed ==
  ASSUME NEW S, NEW s \in Seq(S), s # <<>>
  PROVE  /\ s[1] \in S /\ s[1] \in Elems(s) /\ Tail(s) \in Seq(S)
         /\ Distinct(s) => Distinct(Tail(s)) /\ Elems(Tail(s)) = Elems(s) \ {s[1]}
<1> DEFINE t == Tail(s)
<1>1. /\ t \in Seq(S) /\ Len(t) = Len(s) - 1 /\ Len(s) \in Nat /\ Len(s) > 0
      /\ \A k \in 1..Len(t) : t[k] = s[k + 1]
  BY HeadTailProperties
<1> HIDE DEF t
<1>2. s[1] \in S /\ s[1] \in Elems(s)
  BY <1>1 DEF Elems
<1>3. ASSUME Distinct(s) PROVE Distinct(t) /\ Elems(t) = Elems(s) \ {s[1]}
  <2>1. Distinct(t)
    BY <1>1, <1>3 DEF Distinct
  <2>2. ASSUME NEW k \in 1..Len(t) PROVE t[k] \in Elems(s) \ {s[1]}
    <3>1. k + 1 \in 1..Len(s) /\ 1 \in 1..Len(s) /\ k + 1 # 1
      BY <1>1
    <3>2. s[k + 1] # s[1]
      BY <1>3, <3>1 DEF Distinct
    <3> QED BY <1>1, <3>1, <3>2 DEF Elems
  <2>3. ASSUME NEW k \in 1..Len(s), s[k] # s[1] PROVE s[k] \in Elems(t)
    <3>1. k - 1 \in 1..Len(t) /\ (k - 1) + 1 = k
      BY <1>1, <2>3
    <3>2. t[k - 1] = s[k]
      BY <1>1, <3>1
    <3> QED BY <3>1, <3>2 DEF Elems
  <2>4. Elems(t) \subseteq Elems(s) \ {s[1]}
    BY <2>2 DEF Elems
  <2>5. Elems(s) \ {s[1]} \subseteq Elems(t)
    <3> SUFFICES ASSUME NEW b \in Elems(s), b # s[1] PROVE b \in Elems(t)
      OBVIOUS
    <3>1. PICK k \in 1..Len(s) : b = s[k]
      BY DEF Elems
    <3> QED BY <3>1, <2>3
  <2> QED BY <2>1, <2>4, <2>5
<1> QED BY <1>1, <1>2, <1>3 DEF t

(* What is left of a free list when the blocks of page p go. *)
LEMMA WithoutSteps ==
  ASSUME NEW S, NEW lst \in Seq(S), NEW p
  PROVE  \E R : /\ R[0] = <<>>
                /\ \A i \in 1..Len(lst) : R[i] = IF Heap!get_arena_from_block(lst[i]) = p THEN R[i - 1]
                                                  ELSE Append(R[i - 1], lst[i])
                /\ Heap!Without(lst, p) = R[Len(lst)]
<1> DEFINE N == Len(lst)
           Out(i) == Heap!get_arena_from_block(lst[i]) = p
           F(v, i) == IF Out(i) THEN v ELSE Append(v, lst[i])
           Start == <<>>
           Is(g, m) == g = [i \in 0..m |-> IF i = 0 THEN Start ELSE F(g[i - 1], i)]
           R == CHOOSE g : Is(g, N)
           Not == {m \in 0..N : ~ \E g : Is(g, m)}
<1>1. Heap!Without(lst, p) = R[N]
  BY Zenon DEF Heap!Without
<1>2. N \in Nat
  OBVIOUS
<1> HIDE DEF N, Out, F, Start
<1>4. ASSUME Not # {} PROVE FALSE
  <2>0. Not \subseteq Nat
    BY <1>2
  <2>1. PICK m \in Not : \A k \in Not : m <= k
    BY <1>4, <2>0, LeastOne
  <2>2. CASE m = 0
    <3>1. Is([i \in 0..0 |-> Start], 0)
      OBVIOUS
    <3> QED BY <2>2, <3>1
  <2>3. CASE m # 0
    <3>1. m - 1 \in 0..N /\ m - 1 \notin Not
      <4>1. m \in 0..N
        OBVIOUS
      <4> HIDE DEF Not
      <4> QED BY <4>1, <2>1, <2>3, <1>2
    <3>2. PICK g : Is(g, m - 1)
      BY <3>1
    <3> DEFINE h == [i \in 0..m |-> IF i = m THEN F(g[m - 1], m) ELSE g[i]]
    <3>3. Is(h, m)
      <4>1. m \in Nat /\ m > 0
        BY <2>3, <1>2
      <4>2. \A i \in 0..m : h[i] = IF i = 0 THEN Start ELSE F(h[i - 1], i)
        BY <3>2, <4>1
      <4> QED BY <4>2
    <3> QED BY <3>3
  <2> QED BY <2>2, <2>3
<1>5. \E g : Is(g, N)
  <2>1. N \in 0..N /\ N \notin Not
    <3> HIDE DEF Not
    <3> QED BY <1>2, <1>4
  <2> HIDE DEF Is
  <2> QED BY <2>1 DEF Not
<1>6. Is(R, N)
  <2> HIDE DEF Is
  <2> QED BY <1>5, Zenon
<1> HIDE DEF R
<1>7. R[0] = Start /\ \A i \in 1..N : R[i] = F(R[i - 1], i)
  BY <1>2, <1>6
<1> QED BY <1>1, <1>7 DEF N, Out, F, Start

(* Exactly the blocks of the page are taken out. *)
LEMMA WithoutIs ==
  ASSUME NEW S, NEW lst \in Seq(S), NEW p, Distinct(lst)
  PROVE  /\ Heap!Without(lst, p) \in Seq(S) /\ Distinct(Heap!Without(lst, p))
         /\ Elems(Heap!Without(lst, p)) = {b \in Elems(lst) : Heap!get_arena_from_block(b) # p}
<1>1. PICK R : /\ R[0] = <<>>
               /\ \A i \in 1..Len(lst) : R[i] = IF Heap!get_arena_from_block(lst[i]) = p THEN R[i - 1]
                                                 ELSE Append(R[i - 1], lst[i])
               /\ Heap!Without(lst, p) = R[Len(lst)]
  BY WithoutSteps
<1> DEFINE N == Len(lst)
           Out(i) == Heap!get_arena_from_block(lst[i]) = p
           Holds(i) == /\ R[i] \in Seq(S) /\ Distinct(R[i])
                       /\ Elems(R[i]) = {lst[j] : j \in {k \in 1..i : ~Out(k)}}
           Not == {i \in 0..N : ~Holds(i)}
<1>2. N \in Nat /\ \A i \in 1..N : lst[i] \in S
  OBVIOUS
<1>3. R[0] = <<>> /\ \A i \in 1..N : R[i] = IF Out(i) THEN R[i - 1] ELSE Append(R[i - 1], lst[i])
  BY <1>1
<1>4. \A j \in 1..N, k \in 1..N : lst[j] = lst[k] => j = k
  BY DEF Distinct
<1> HIDE DEF N, Out
<1>5. ASSUME Not # {} PROVE FALSE
  <2>0. Not \subseteq Nat
    BY <1>2
  <2>1. PICK m \in Not : \A k \in Not : m <= k
    BY <1>5, <2>0, LeastOne
  <2>2. m \in 0..N /\ ~Holds(m)
    OBVIOUS
  <2>3. CASE m = 0
    <3>1. R[m] \in Seq(S) /\ Len(R[m]) = 0
      <4>1. R[m] = <<>>
        BY <1>3, <2>3
      <4>2. <<>> \in Seq(S) /\ Len(<<>>) = 0
        OBVIOUS
      <4> QED BY <4>1, <4>2
    <3>2. Distinct(R[m]) /\ Elems(R[m]) = {}
      BY <3>1 DEF Distinct, Elems
    <3> QED BY <2>2, <2>3, <3>1, <3>2
  <2>4. CASE m # 0
    <3>1. m - 1 \in 0..N /\ m \in 1..N /\ m - 1 \notin Not
      <4> HIDE DEF Not
      <4> QED BY <2>1, <2>2, <2>4, <1>2
    <3>2. Holds(m - 1)
      BY <3>1
    <3> DEFINE q == R[m - 1]
    <3>3. q \in Seq(S) /\ Distinct(q) /\ Elems(q) = {lst[j] : j \in {k \in 1..(m - 1) : ~Out(k)}}
      BY <3>2
    <3> HIDE DEF q
    <3>4. CASE Out(m)
      <4>1. R[m] = q
        BY <1>3, <3>1, <3>4 DEF q
      <4>2. {k \in 1..(m - 1) : ~Out(k)} = {k \in 1..m : ~Out(k)}
        BY <3>1, <3>4, <1>2
      <4> QED BY <2>2, <3>3, <4>1, <4>2
    <3>5. CASE ~Out(m)
      <4>1. R[m] = Append(q, lst[m])
        BY <1>3, <3>1, <3>5 DEF q
      <4>2. {k \in 1..m : ~Out(k)} = {k \in 1..(m - 1) : ~Out(k)} \cup {m}
        BY <3>1, <3>5, <1>2
      <4>3. {lst[j] : j \in {k \in 1..m : ~Out(k)}} = Elems(q) \cup {lst[m]}
        BY <4>2, <3>3
      <4>4. lst[m] \notin Elems(q)
        <5> SUFFICES ASSUME NEW j \in 1..(m - 1), lst[m] = lst[j] PROVE FALSE
          BY <3>3
        <5>1. j \in 1..N /\ j # m
          BY <3>1, <1>2
        <5> QED BY <5>1, <3>1, <1>4
      <4>5. Append(q, lst[m]) \in Seq(S) /\ Elems(Append(q, lst[m])) = Elems(q) \cup {lst[m]} /\ Distinct(Append(q, lst[m]))
        BY <3>1, <3>3, <4>4, <1>2, Appended
      <4> QED BY <2>2, <4>1, <4>3, <4>5
    <3> QED BY <3>4, <3>5
  <2> QED BY <2>3, <2>4
<1>6. Holds(N)
  <2>1. N \in 0..N /\ N \notin Not
    <3> HIDE DEF Not
    <3> QED BY <1>2, <1>5
  <2> HIDE DEF Holds
  <2> QED BY <2>1 DEF Not
<1>7. {lst[j] : j \in {k \in 1..N : ~Out(k)}} = {b \in Elems(lst) : Heap!get_arena_from_block(b) # p}
  BY DEF N, Out, Elems
<1> QED BY <1>1, <1>6, <1>7 DEF N

-----------------------------------------------------------------------------
(* Where blocks and pages are. *)
Arena(b) == Heap!get_arena_from_block(b)
BlockAt(p, d, i) == Heap!get_block_from_arena(p, d, i)
Size(d) == Heap!block_size(d)
Total(d) == Heap!total_block(d)

(* The numbers of HeapAssumption. *)
LEMMA HeapSizes ==
  /\ PAGE_SIZE \in Nat /\ PAGE_SIZE > 0 /\ ARENA_SIZE \in Nat /\ ARENA_SIZE < PAGE_SIZE
  /\ START \in Nat /\ PAGES \in Nat
  /\ \A s \in Sizes : s \in Nat /\ s > 0
BY HeapAssumption

(* Blocks have a size, a page has some, and they fit behind the arena_t.   *)
LEMMA BlockSizes ==
  ASSUME NEW d \in Heap!Desc
  PROVE  /\ Size(d) \in Nat /\ Size(d) > 0 /\ Total(d) \in Nat /\ Total(d) > 0
         /\ ARENA_SIZE + Total(d) * Size(d) <= PAGE_SIZE
<1> DEFINE b == Size(d)
           k == PAGE_SIZE - ARENA_SIZE
           q == k \div b
<1>1. b \in Nat /\ b > 0 /\ k \in Nat /\ b <= k
  BY HeapAssumption, HeapSizes DEF Size
<1>2. Total(d) = q
  BY DEF Total, Size, Heap!total_block
<1> HIDE DEF b
<1>3. q \in Nat /\ k % b \in 0..(b - 1) /\ k = b * q + (k % b)
  BY <1>1, Division
<1>4. q > 0
  <2>1. CASE q = 0
    <3>1. b * q = 0
      BY <1>1, <2>1
    <3> QED BY <1>1, <1>3, <3>1, HeapSizes
  <2> QED BY <2>1, <1>3
<1>5. ARENA_SIZE + q * b <= PAGE_SIZE
  <2>0. q \in Nat /\ b \in Nat
    BY <1>1, <1>3
  <2>1. q * b = b * q /\ b * q \in Nat
    <3> HIDE DEF q
    <3> QED BY <2>0
  <2> DEFINE z == b * q
             r == k % b
  <2>2. z \in Nat /\ r \in Nat /\ PAGE_SIZE - ARENA_SIZE = z + r
    BY <1>1, <1>3, <2>1
  <2> HIDE DEF z, r
  <2>3. ARENA_SIZE + z <= PAGE_SIZE
    BY <2>2, HeapSizes
  <2> QED BY <2>1, <2>3 DEF z
<1> QED BY <1>1, <1>2, <1>3, <1>4, <1>5 DEF b

(* Byte k of block i of page p is in that page, behind the arena_t.        *)
LEMMA BlockBytes ==
  ASSUME NEW p \in Nat, NEW d \in Heap!Desc, NEW i \in 0..(Total(d) - 1), NEW k \in 0..(Size(d) - 1)
  PROVE  /\ BlockAt(p, d, i) \in Nat
         /\ (BlockAt(p, d, i) + k) \div PAGE_SIZE = p
         /\ (BlockAt(p, d, i) + k) % PAGE_SIZE >= ARENA_SIZE
<1> DEFINE b == Size(d)
           t == Total(d)
           e == i * b
           w == ARENA_SIZE + e + k
<1>1. b \in Nat /\ b > 0 /\ t \in Nat /\ t > 0 /\ ARENA_SIZE + t * b <= PAGE_SIZE /\ i \in 0..(t - 1) /\ k \in 0..(b - 1)
  BY BlockSizes
<1> HIDE DEF b, t
<1>2. e \in Nat /\ e + b <= t * b /\ t * b \in Nat
  <2>1. e + b = (i + 1) * b
    BY <1>1
  <2>2. t - (i + 1) \in Nat
    BY <1>1
  <2>3. (t - (i + 1)) * b \in Nat
    BY <2>2, <1>1
  <2>4. (t - (i + 1)) * b = t * b - (i + 1) * b
    BY <1>1
  <2>5. t * b \in Nat /\ (i + 1) * b \in Nat /\ e \in Nat
    BY <1>1
  <2> DEFINE x == t * b
             y == (i + 1) * b
  <2> HIDE DEF x, y, e
  <2>6. y <= x
    BY <2>3, <2>4, <2>5 DEF x, y
  <2> QED BY <2>1, <2>5, <2>6 DEF x, y
<1>3. w \in 0..(PAGE_SIZE - 1) /\ w >= ARENA_SIZE
  <2> DEFINE x == t * b
  <2> HIDE DEF x, e
  <2>1. ARENA_SIZE + x <= PAGE_SIZE /\ e \in Nat /\ e + b <= x /\ x \in Nat /\ k \in 0..(b - 1) /\ b \in Nat
    BY <1>1, <1>2 DEF x
  <2> QED BY <2>1, HeapSizes
<1>4. BlockAt(p, d, i) + k = PAGE_SIZE * p + w
  <2>1. BlockAt(p, d, i) = p * PAGE_SIZE + ARENA_SIZE + i * b
    BY DEF BlockAt, Heap!get_block_from_arena, b, Size
  <2>2. p * PAGE_SIZE = PAGE_SIZE * p /\ p * PAGE_SIZE \in Nat
    BY HeapSizes
  <2> DEFINE z == p * PAGE_SIZE
  <2>3. z \in Nat /\ e \in Nat /\ k \in Nat
    BY <2>2, <1>2, <1>1
  <2> HIDE DEF z, e
  <2>4. z + ARENA_SIZE + e + k = z + (ARENA_SIZE + e + k)
    BY <2>3, HeapSizes
  <2> QED BY <2>1, <2>2, <2>4 DEF z, e
<1>5. BlockAt(p, d, i) \in Nat
  <2>1. p * PAGE_SIZE \in Nat /\ i * b \in Nat
    BY HeapSizes, <1>1
  <2> QED BY <2>1, HeapSizes DEF BlockAt, Heap!get_block_from_arena, b, Size
<1> HIDE DEF w
<1>6. (PAGE_SIZE * p + w) \div PAGE_SIZE = p /\ (PAGE_SIZE * p + w) % PAGE_SIZE = w
  BY <1>3, HeapSizes, Quotient
<1> QED BY <1>3, <1>4, <1>5, <1>6

(* A block is in the page it is cut from. *)
LEMMA BlockArena ==
  ASSUME NEW p \in Nat, NEW d \in Heap!Desc, NEW i \in 0..(Total(d) - 1)
  PROVE  BlockAt(p, d, i) \in Nat /\ Arena(BlockAt(p, d, i)) = p
<1>1. 0 \in 0..(Size(d) - 1)
  BY BlockSizes
<1>2. BlockAt(p, d, i) \in Nat /\ (BlockAt(p, d, i) + 0) \div PAGE_SIZE = p
  BY <1>1, BlockBytes
<1> QED BY <1>2 DEF Arena, Heap!get_arena_from_block

(* Blocks of a page do not overlap. *)
LEMMA BlocksDiffer ==
  ASSUME NEW p \in Nat, NEW d \in Heap!Desc, NEW i \in 0..(Total(d) - 1), NEW j \in 0..(Total(d) - 1),
         NEW k \in 0..(Size(d) - 1), NEW l \in 0..(Size(d) - 1), BlockAt(p, d, i) + k = BlockAt(p, d, j) + l
  PROVE  i = j
<1> DEFINE b == Size(d)
           e == i * b
           f == j * b
           z == p * PAGE_SIZE + ARENA_SIZE
<1>1. b \in Nat /\ b > 0 /\ i \in Nat /\ j \in Nat /\ k \in 0..(b - 1) /\ l \in 0..(b - 1)
  BY BlockSizes
<1>2. BlockAt(p, d, i) = z + e /\ BlockAt(p, d, j) = z + f
  BY DEF BlockAt, Heap!get_block_from_arena, Size
<1>3. z \in Nat
  BY HeapSizes
<1> HIDE DEF b, z
<1>4. e \in Nat /\ f \in Nat /\ e = b * i /\ f = b * j
  BY <1>1
<1>5. e + k = f + l
  <2> HIDE DEF e, f
  <2> QED BY <1>1, <1>2, <1>3, <1>4
<1>6. (b * i + k) \div b = i /\ (b * j + l) \div b = j
  BY <1>1, Quotient
<1> HIDE DEF e, f
<1> QED BY <1>4, <1>5, <1>6
-----------------------------------------------------------------------------
(* A page as the heap uses it: free, cut in blocks of one size, or part of *)
(* one large block.  B are the bits of kernel_vmap, A the arenas, F the    *)
(* free lists, L what the callers have.                                    *)
Behind(p) == p * PAGE_SIZE + ARENA_SIZE
Home(m) == Arena(m.addr)
Taken(B, p) == p - START \in B
Used(L, p) == {m \in L : p \in Heap!PagesOf(m)}
In(F, d, p) == {b \in Elems(F[d]) : Arena(b) = p}
BlocksIn(p, d) == {BlockAt(p, d, i) : i \in 0..(Total(d) - 1)}
Addrs(M) == {m.addr : m \in M}

FreePage(B, F, L, p) ==
    /\ ~Taken(B, p) /\ Used(L, p) = {}
    /\ \A d \in Heap!Desc : In(F, d, p) = {}

(* Each block is in use, by one caller, or in the free list of its size.   *)
SmallPage(B, A, F, L, p) ==
    LET d == A[p].desc
        U == Used(L, p)
    IN  /\ Taken(B, p) /\ A[p].large = FALSE /\ U # {}
        /\ \A m \in U : m.size <= Size(d)
        /\ \A m \in U, o \in U : m.addr = o.addr => m = o
        /\ Addrs(U) \cup In(F, d, p) = BlocksIn(p, d) /\ Addrs(U) \cap In(F, d, p) = {}
        /\ \A e \in Heap!Desc \ {d} : In(F, e, p) = {}
        /\ A[p].count = Cardinality(In(F, d, p))

(* The pages of a large block are those its first page counts. *)
Spans(A, m) ==
    LET p == Home(m)
    IN  /\ A[p].large = TRUE /\ m.addr = Behind(p) /\ A[p].count > 0
        /\ p + A[p].count - 1 \in Heap!Page
        /\ Heap!PagesOf(m) = p..(p + A[p].count - 1)

LargePage(B, A, F, L, p) ==
    /\ Taken(B, p)
    /\ \E m \in L : Used(L, p) = {m} /\ Spans(A, m)
    /\ \A d \in Heap!Desc : In(F, d, p) = {}

PageKept(B, A, F, L, p) == FreePage(B, F, L, p) \/ SmallPage(B, A, F, L, p) \/ LargePage(B, A, F, L, p)

Allocation == [addr : Nat, size : Nat \ {0}]
Arenas == [large : BOOLEAN, count : Nat, desc : Heap!Desc]

ArenaMaps == [Heap!Page -> Arenas]
ListMaps == [Heap!Desc -> Seq(Nat)]

HeapTyped(B, A, F, L) ==
    /\ B \subseteq 0..(PAGES - 1)
    /\ A \in ArenaMaps
    /\ F \in ListMaps
    /\ \A d \in Heap!Desc : Distinct(F[d]) /\ \A b \in Elems(F[d]) : Arena(b) \in Heap!Page
    /\ L \subseteq Allocation /\ \A m \in L : Home(m) \in Heap!Page

HeapKept(B, A, F, L) == HeapTyped(B, A, F, L) /\ \A p \in Heap!Page : PageKept(B, A, F, L, p)

(* The invariant of the heap. *)
HeapInv ==
    /\ kernel_vmap = MapOf(kernel_vmap.bits, PAGES, START)
    /\ HeapKept(kernel_vmap.bits, arena, free_list, live)
-----------------------------------------------------------------------------
(* The bytes of page q start at Times(q). *)
Times(q) == q * PAGE_SIZE

(* Pages follow each other. *)
LEMMA PageSteps ==
  ASSUME NEW q \in Nat, NEW u \in Nat
  PROVE  /\ Times(q) \in Nat /\ Times(q + u) = Times(q) + Times(u) /\ Times(q + 1) = Times(q) + PAGE_SIZE
         /\ q <= u => Times(q) <= Times(u)
         /\ q < u => Times(q) + PAGE_SIZE <= Times(u)
<1> DEFINE S == PAGE_SIZE
<1>1. S \in Nat /\ S > 0
  BY HeapSizes
<1> HIDE DEF S
<1>2. \A x \in Nat, y \in Nat : x * S \in Nat /\ (x + y) * S = x * S + y * S
  BY <1>1
<1>3. \A x \in Nat : (x + 1) * S = x * S + S
  BY <1>1
<1>4. \A x \in Nat : Times(x) = x * S
  BY DEF Times, S
<1>5. q <= u => Times(q) <= Times(u)
  <2> SUFFICES ASSUME q <= u PROVE Times(q) <= Times(u)
    OBVIOUS
  <2>1. u - q \in Nat /\ q + (u - q) = u
    OBVIOUS
  <2>2. u * S = q * S + (u - q) * S /\ (u - q) * S \in Nat /\ q * S \in Nat
    BY <2>1, <1>2
  <2> QED BY <2>2, <1>4
<1>6. q < u => Times(q) + S <= Times(u)
  <2> SUFFICES ASSUME q < u PROVE Times(q) + S <= Times(u)
    OBVIOUS
  <2>1. u - (q + 1) \in Nat /\ (q + 1) + (u - (q + 1)) = u /\ q + 1 \in Nat
    OBVIOUS
  <2>2. u * S = (q + 1) * S + (u - (q + 1)) * S /\ (u - (q + 1)) * S \in Nat
    BY <2>1, <1>2
  <2>3. (q + 1) * S = q * S + S /\ q * S \in Nat
    BY <1>2, <1>3
  <2> QED BY <2>2, <2>3, <1>4, <1>1
<1>7. Times(q) \in Nat /\ Times(q + u) = Times(q) + Times(u)
  <2>1. q + u \in Nat
    OBVIOUS
  <2> QED BY <2>1, <1>2, <1>4
<1>8. Times(q + 1) = Times(q) + S
  <2>1. q + 1 \in Nat
    OBVIOUS
  <2> QED BY <2>1, <1>2, <1>3, <1>4
<1> QED BY <1>5, <1>6, <1>7, <1>8 DEF S

(* The page of a byte. *)
LEMMA InPage ==
  ASSUME NEW a \in Nat, NEW q \in Nat
  PROVE  /\ a \div PAGE_SIZE \in Nat
         /\ a \div PAGE_SIZE = q <=> Times(q) <= a /\ a < Times(q) + PAGE_SIZE
<1> DEFINE u == a \div PAGE_SIZE
           r == a % PAGE_SIZE
<1>1. u \in Nat /\ r \in 0..(PAGE_SIZE - 1) /\ a = PAGE_SIZE * u + r
  BY Division, HeapSizes
<1>2. PAGE_SIZE \in Nat /\ PAGE_SIZE > 0
  BY HeapSizes
<1> HIDE DEF u, r
<1>3. PAGE_SIZE * u = Times(u)
  BY <1>1, <1>2 DEF Times
<1>4. Times(u) \in Nat /\ Times(q) \in Nat /\ (u < q => Times(u) + PAGE_SIZE <= Times(q))
      /\ (q < u => Times(q) + PAGE_SIZE <= Times(u))
  BY <1>1, PageSteps
<1>5. u = q <=> Times(q) <= a /\ a < Times(q) + PAGE_SIZE
  BY <1>1, <1>2, <1>3, <1>4
<1> QED BY <1>1, <1>5 DEF u

(* An allocation is in the page of its first byte. *)
LEMMA HomePage ==
  ASSUME NEW m \in Allocation
  PROVE  Home(m) \in Nat /\ Home(m) \in Heap!PagesOf(m)
<1>1. m.addr \in Nat /\ m.size \in Nat /\ m.size > 0
  BY DEF Allocation
<1>2. m.addr \div PAGE_SIZE \in Nat
  BY <1>1, InPage
<1>3. m.addr \in Heap!Bytes(m.addr, m.size)
  BY <1>1 DEF Heap!Bytes
<1> QED BY <1>2, <1>3 DEF Home, Arena, Heap!get_arena_from_block, Heap!PagesOf

(* A block is in the page it is cut from. *)
LEMMA SmallSpan ==
  ASSUME NEW p \in Nat, NEW d \in Heap!Desc, NEW m \in Allocation, m.addr \in BlocksIn(p, d), m.size <= Size(d)
  PROVE  Heap!PagesOf(m) = {p} /\ Home(m) = p
<1>1. PICK i \in 0..(Total(d) - 1) : m.addr = BlockAt(p, d, i)
  BY DEF BlocksIn
<1>2. m.addr \in Nat /\ m.size \in Nat /\ m.size > 0
  BY DEF Allocation
<1>3. Size(d) \in Nat
  BY BlockSizes
<1>4. \A a \in Heap!Bytes(m.addr, m.size) : a \div PAGE_SIZE = p
  <2> SUFFICES ASSUME NEW a \in Heap!Bytes(m.addr, m.size) PROVE a \div PAGE_SIZE = p
    OBVIOUS
  <2>1. a - m.addr \in 0..(Size(d) - 1) /\ m.addr + (a - m.addr) = a
    BY <1>2, <1>3 DEF Heap!Bytes
  <2> QED BY <2>1, <1>1, BlockBytes
<1>5. Home(m) = p
  BY <1>1, BlockArena DEF Home
<1>6. p \in Heap!PagesOf(m)
  BY <1>5, HomePage
<1> QED BY <1>4, <1>5, <1>6 DEF Heap!PagesOf

(* A large block is in as many pages as kmalloc takes for it. *)
LEMMA RoundUp ==
  ASSUME NEW s \in Nat \ {0}
  PROVE  LET n == Heap!div_round_up(s, PAGE_SIZE)
         IN  n \in Nat /\ n > 0 /\ s <= Times(n) /\ Times(n - 1) < s
<1> DEFINE n == Heap!div_round_up(s, PAGE_SIZE)
           a == s + PAGE_SIZE - 1
<1>1. PAGE_SIZE \in Nat /\ PAGE_SIZE > 0 /\ s \in Nat /\ s > 0
  BY HeapSizes
<1>2. a \in Nat /\ a >= PAGE_SIZE
  BY <1>1
<1>3. n = a \div PAGE_SIZE
  BY DEF Heap!div_round_up
<1> HIDE DEF n
<1>4. n \in Nat /\ Times(n) <= a /\ a < Times(n) + PAGE_SIZE
  BY <1>2, <1>3, InPage
<1>5. n > 0
  <2>1. CASE n = 0
    <3>1. Times(n) = 0
      BY <2>1, <1>1 DEF Times
    <3> QED BY <3>1, <1>4, <1>2, <1>1
  <2> QED BY <2>1, <1>4
<1>6. n - 1 \in Nat /\ Times(n) = Times(n - 1) + PAGE_SIZE /\ Times(n - 1) \in Nat
  <2>1. n - 1 \in Nat /\ (n - 1) + 1 = n
    BY <1>4, <1>5
  <2>2. Times(n - 1) \in Nat /\ Times((n - 1) + 1) = Times(n - 1) + PAGE_SIZE
    BY ONLY <2>1, PageSteps
  <2> QED BY <2>1, <2>2
<1> QED BY <1>1, <1>4, <1>5, <1>6 DEF n

(* A large block fills the pages that were taken for it, and no other. *)
LEMMA LargeSpan ==
  ASSUME NEW p \in Nat, NEW n \in Nat, n > 0, NEW m \in Allocation, m.addr = Behind(p),
         m.size + ARENA_SIZE <= Times(n), Times(n - 1) < m.size + ARENA_SIZE
  PROVE  Heap!PagesOf(m) = p..(p + n - 1) /\ Home(m) = p
<1> DEFINE s == m.size
           T == Times(p)
<1>1. s \in Nat /\ s > 0 /\ ARENA_SIZE \in Nat /\ ARENA_SIZE < PAGE_SIZE /\ PAGE_SIZE \in Nat
  BY HeapSizes DEF Allocation
<1>2. m.addr = T + ARENA_SIZE
  BY DEF Behind, Times
<1>3. n - 1 \in Nat /\ p + n \in Nat /\ p + (n - 1) \in Nat
  OBVIOUS
<1>4. T \in Nat /\ Times(p + n) = T + Times(n) /\ Times(n) \in Nat
  BY PageSteps
<1>5. Times(p + (n - 1)) = T + Times(n - 1) /\ Times(n - 1) \in Nat
  BY <1>3, PageSteps
<1> HIDE DEF s, T
<1>6. Heap!Bytes(m.addr, m.size) = (T + ARENA_SIZE)..(T + ARENA_SIZE + s - 1)
  BY <1>2 DEF Heap!Bytes, s
<1>7. ASSUME NEW a \in (T + ARENA_SIZE)..(T + ARENA_SIZE + s - 1)
      PROVE  a \div PAGE_SIZE \in p..(p + n - 1)
  <2> DEFINE q == a \div PAGE_SIZE
  <2>1. a \in Nat
    BY <1>4, <1>1
  <2>2. q \in Nat /\ Times(q) <= a /\ a < Times(q) + PAGE_SIZE
    BY <2>1, InPage
  <2> HIDE DEF q
  <2>3. Times(q) \in Nat /\ (q < p => Times(q) + PAGE_SIZE <= T) /\ (p + n <= q => Times(p + n) <= Times(q))
    BY <2>2, <1>3, PageSteps DEF T
  <2>4. ~(q < p)
    BY <2>2, <2>3, <1>1, <1>4
  <2>5. s + ARENA_SIZE <= Times(n)
    BY DEF s
  <2>6. ~(p + n <= q)
    BY <2>2, <2>3, <2>5, <1>1, <1>4
  <2> QED BY <2>2, <2>4, <2>6 DEF q
<1>8. ASSUME NEW q \in p..(p + n - 1)
      PROVE  \E a \in (T + ARENA_SIZE)..(T + ARENA_SIZE + s - 1) : q = a \div PAGE_SIZE
  <2>0. q \in Nat
    OBVIOUS
  <2>1. CASE q = p
    <3>1. T + ARENA_SIZE \in Nat /\ T + ARENA_SIZE \in (T + ARENA_SIZE)..(T + ARENA_SIZE + s - 1)
      BY <1>1, <1>4
    <3>2. T <= T + ARENA_SIZE /\ T + ARENA_SIZE < T + PAGE_SIZE
      BY <1>1, <1>4
    <3>3. (T + ARENA_SIZE) \div PAGE_SIZE = p
      BY <3>1, <3>2, InPage DEF T
    <3> QED BY <2>1, <3>1, <3>3
  <2>2. CASE q # p
    <3>1. p < q /\ q <= p + (n - 1)
      BY <2>2
    <3>2. Times(q) \in Nat /\ T + PAGE_SIZE <= Times(q) /\ Times(q) <= Times(p + (n - 1))
      BY <2>0, <3>1, <1>3, PageSteps DEF T
    <3>3. Times(n - 1) < s + ARENA_SIZE
      BY DEF s
    <3>4. Times(q) \in (T + ARENA_SIZE)..(T + ARENA_SIZE + s - 1)
      BY <3>2, <3>3, <1>1, <1>4, <1>5
    <3>5. Times(q) \div PAGE_SIZE = q
      BY <3>2, <2>0, InPage, <1>1
    <3> QED BY <3>4, <3>5
  <2> QED BY <2>1, <2>2
<1>9. Heap!PagesOf(m) = p..(p + n - 1)
  <2> SUFFICES ASSUME NEW q PROVE q \in Heap!PagesOf(m) <=> q \in p..(p + n - 1)
    OBVIOUS
  <2>1. q \in Heap!PagesOf(m) <=> \E a \in (T + ARENA_SIZE)..(T + ARENA_SIZE + s - 1) : q = a \div PAGE_SIZE
    BY <1>6 DEF Heap!PagesOf
  <2> QED BY <2>1, <1>7, <1>8
<1>10. Home(m) = p
  <2>1. m.addr \in Nat /\ T <= m.addr /\ m.addr < T + PAGE_SIZE
    BY <1>1, <1>2, <1>4
  <2>2. m.addr \div PAGE_SIZE = p
    BY <2>1, InPage DEF T
  <2> QED BY <2>2 DEF Home, Arena, Heap!get_arena_from_block
<1> QED BY <1>9, <1>10
-----------------------------------------------------------------------------
(* What the invariant says of the page of an allocation. *)
LEMMA PageNumbers == /\ Heap!Page \subseteq Nat
                     /\ \A p \in Heap!Page, q \in Heap!Page : p..q \subseteq Heap!Page
BY HeapSizes DEF Heap!Page

(* What is in use in a page cut in blocks is a block of it. *)
LEMMA InSmall ==
  ASSUME NEW B, NEW A, NEW F, NEW L, HeapTyped(B, A, F, L), NEW p \in Heap!Page, SmallPage(B, A, F, L, p),
         NEW m \in Used(L, p)
  PROVE  m.addr \in BlocksIn(p, A[p].desc) /\ Heap!PagesOf(m) = {p} /\ Home(m) = p
<1>1. p \in Nat /\ A[p].desc \in Heap!Desc
  BY PageNumbers DEF HeapTyped, ArenaMaps, Arenas
<1>2. m \in Allocation
  BY DEF HeapTyped, Used
<1>3. m.addr \in BlocksIn(p, A[p].desc) /\ m.size <= Size(A[p].desc)
  BY DEF SmallPage, Addrs
<1> QED BY <1>1, <1>2, <1>3, SmallSpan

(* What is in use in another page does not start in a page cut in blocks. *)
LEMMA OtherHome ==
  ASSUME NEW B, NEW A, NEW F, NEW L, HeapTyped(B, A, F, L), NEW p \in Heap!Page, SmallPage(B, A, F, L, p),
         NEW q \in Heap!Page, q # p, NEW m \in Used(L, q)
  PROVE  Home(m) # p
<1> SUFFICES ASSUME Home(m) = p PROVE FALSE
  OBVIOUS
<1>1. m \in L /\ q \in Heap!PagesOf(m) /\ m \in Allocation
  BY DEF Used, HeapTyped
<1>2. p \in Heap!PagesOf(m)
  BY <1>1, HomePage
<1>3. m \in Used(L, p)
  BY <1>1, <1>2 DEF Used
<1>4. Heap!PagesOf(m) = {p}
  BY <1>3, InSmall
<1> QED BY <1>1, <1>4

(* An allocation in a block of its page, one in pages of its own. *)
SmallIn(B, A, F, L, m) ==
    A[Home(m)].large = FALSE /\ SmallPage(B, A, F, L, Home(m)) /\ Heap!PagesOf(m) = {Home(m)}
LargeIn(B, A, F, L, m) ==
    /\ A[Home(m)].large = TRUE /\ Spans(A, m)
    /\ \A q \in Heap!PagesOf(m) : LargePage(B, A, F, L, q) /\ Used(L, q) = {m}

(* An allocation is small or large as the arena_t of its page says. *)
LEMMA InHeap ==
  ASSUME NEW B, NEW A, NEW F, NEW L, HeapKept(B, A, F, L), NEW m \in L
  PROVE  /\ m \in Allocation /\ Home(m) \in Heap!Page /\ m \in Used(L, Home(m))
         /\ SmallIn(B, A, F, L, m) \/ LargeIn(B, A, F, L, m)
         /\ \A q \in Heap!PagesOf(m) : q \in Heap!Page /\ Taken(B, q)
<1> DEFINE h == Home(m)
<1>0. HeapTyped(B, A, F, L) /\ \A p \in Heap!Page : PageKept(B, A, F, L, p)
  BY DEF HeapKept
<1>1. m \in Allocation /\ h \in Heap!Page /\ h \in Heap!PagesOf(m) /\ m \in Used(L, h)
  BY <1>0, HomePage DEF HeapTyped, Used
<1> HIDE DEF h
<1>2. ~FreePage(B, F, L, h)
  BY <1>1 DEF FreePage
<1>3. CASE SmallPage(B, A, F, L, h)
  <2>1. Heap!PagesOf(m) = {h}
    BY <1>0, <1>1, <1>3, InSmall
  <2>2. A[h].large = FALSE /\ Taken(B, h)
    BY <1>3, Zenon DEF SmallPage
  <2>3. SmallIn(B, A, F, L, m)
    BY <1>3, <2>1, <2>2 DEF h, SmallIn
  <2> QED BY <1>1, <2>1, <2>2, <2>3 DEF h
<1>4. CASE LargePage(B, A, F, L, h)
  <2>1. Spans(A, m)
    BY <1>1, <1>4 DEF LargePage
  <2>2. A[h].large = TRUE /\ h + A[h].count - 1 \in Heap!Page /\ Heap!PagesOf(m) = h..(h + A[h].count - 1)
    BY <2>1 DEF Spans, h
  <2>3. Heap!PagesOf(m) \subseteq Heap!Page
    BY <2>2, <1>1, PageNumbers
  <2>4. ASSUME NEW q \in Heap!PagesOf(m)
        PROVE  LargePage(B, A, F, L, q) /\ Used(L, q) = {m} /\ Taken(B, q)
    <3>1. q \in Heap!Page /\ m \in Used(L, q)
      BY <2>3 DEF Used
    <3>2. PageKept(B, A, F, L, q) /\ ~FreePage(B, F, L, q)
      BY <3>1, <1>0 DEF FreePage
    <3>3. ASSUME SmallPage(B, A, F, L, q) PROVE FALSE
      <4>1. Home(m) = q
        BY <3>1, <3>3, <1>0, InSmall
      <4> QED BY <4>1, <3>3, <2>2 DEF SmallPage, h
    <3>4. LargePage(B, A, F, L, q)
      BY <3>2, <3>3 DEF PageKept
    <3> QED BY <3>1, <3>4 DEF LargePage
  <2>5. LargeIn(B, A, F, L, m)
    BY <2>1, <2>2, <2>4 DEF h, LargeIn
  <2> QED BY <1>1, <2>3, <2>4, <2>5 DEF h
<1> QED BY <1>0, <1>1, <1>2, <1>3, <1>4 DEF PageKept

(* One to one and onto: as many. *)
LEMMA SameNumber ==
  ASSUME NEW S, NEW T, NEW f \in [S -> T], \A x \in S, y \in S : f[x] = f[y] => x = y,
         \A z \in T : \E x \in S : f[x] = z, IsFiniteSet(S) \/ IsFiniteSet(T)
  PROVE  IsFiniteSet(S) /\ IsFiniteSet(T) /\ Cardinality(S) = Cardinality(T)
<1>1. f \in Bijection(S, T)
  BY DEF Bijection, Injection, Surjection, IsInjective
<1>2. ExistsBijection(S, T)
  BY <1>1 DEF ExistsBijection
<1>3. ExistsBijection(T, S)
  BY <1>2, Fun_ExistsBijSymmetric
<1> QED BY <1>2, <1>3, FS_Bijection

(* total_block is the number of blocks of a page. *)
LEMMA BlockCount ==
  ASSUME NEW p \in Nat, NEW d \in Heap!Desc
  PROVE  IsFiniteSet(BlocksIn(p, d)) /\ Cardinality(BlocksIn(p, d)) = Total(d)
<1> DEFINE t == Total(d)
           S == 0..(t - 1)
           f == [i \in S |-> BlockAt(p, d, i)]
<1>1. t \in Nat /\ t > 0 /\ 0 \in 0..(Size(d) - 1)
  BY BlockSizes
<1>2. IsFiniteSet(S) /\ Cardinality(S) = t
  BY <1>1, FS_Interval
<1>3. f \in [S -> BlocksIn(p, d)] /\ \A z \in BlocksIn(p, d) : \E i \in S : f[i] = z
  BY DEF BlocksIn
<1>4. \A i \in S, j \in S : f[i] = f[j] => i = j
  <2> SUFFICES ASSUME NEW i \in S, NEW j \in S, BlockAt(p, d, i) = BlockAt(p, d, j) PROVE i = j
    OBVIOUS
  <2>1. BlockAt(p, d, i) + 0 = BlockAt(p, d, j) + 0
    OBVIOUS
  <2> QED BY <2>1, <1>1, BlocksDiffer
<1> HIDE DEF f, S
<1> QED BY <1>2, <1>3, <1>4, SameNumber DEF t

(* The blocks of a page are in use or free, and a->count of them are free. *)
LEMMA CountsAgree ==
  ASSUME NEW B, NEW A, NEW F, NEW L, HeapTyped(B, A, F, L), NEW p \in Heap!Page, SmallPage(B, A, F, L, p)
  PROVE  /\ IsFiniteSet(Used(L, p)) /\ Cardinality(Used(L, p)) \in Nat
         /\ IsFiniteSet(In(F, A[p].desc, p)) /\ A[p].count \in Nat
         /\ A[p].count + Cardinality(Used(L, p)) = Total(A[p].desc)
<1> DEFINE d == A[p].desc
           U == Used(L, p)
           Fr == In(F, d, p)
           V == Addrs(U)
           f == [m \in U |-> m.addr]
<1>1. p \in Nat /\ d \in Heap!Desc
  BY PageNumbers DEF HeapTyped, ArenaMaps, Arenas
<1>2. V \cup Fr = BlocksIn(p, d) /\ V \cap Fr = {} /\ A[p].count = Cardinality(Fr)
  BY DEF SmallPage
<1>3. IsFiniteSet(V) /\ IsFiniteSet(Fr)
  <2>1. IsFiniteSet(BlocksIn(p, d)) /\ V \in SUBSET BlocksIn(p, d) /\ Fr \in SUBSET BlocksIn(p, d)
    BY <1>1, <1>2, BlockCount
  <2> HIDE DEF V, Fr
  <2> QED BY <2>1, FS_Subset
<1>4. IsFiniteSet(U) /\ Cardinality(U) = Cardinality(V)
  <2>1. f \in [U -> V] /\ \A z \in V : \E m \in U : f[m] = z
    BY DEF Addrs
  <2>2. \A m \in U, o \in U : f[m] = f[o] => m = o
    BY DEF SmallPage
  <2> HIDE DEF f, U, V
  <2> QED BY <1>3, <2>1, <2>2, SameNumber
<1> HIDE DEF U, V, Fr
<1>5. Cardinality(V \cup Fr) = Cardinality(V) + Cardinality(Fr) - Cardinality(V \cap Fr)
  BY <1>3, FS_Union
<1>6. Cardinality(V \cap Fr) = 0
  BY <1>2, FS_EmptySet
<1>7. Cardinality(V) \in Nat /\ Cardinality(Fr) \in Nat
  BY <1>3, FS_CardinalityType
<1>8. Cardinality(BlocksIn(p, d)) = Total(d)
  BY <1>1, BlockCount
<1>10. Total(d) \in Nat
  BY <1>1, BlockSizes
<1> HIDE DEF d
<1>9. Cardinality(Fr) + Cardinality(U) = Total(d)
  <2> DEFINE w == Cardinality(Fr)
             v == Cardinality(V)
             z == Cardinality(V \cap Fr)
  <2>1. v \in Nat /\ w \in Nat /\ z = 0 /\ Total(d) = v + w - z /\ Cardinality(U) = v
    BY <1>2, <1>4, <1>5, <1>6, <1>7, <1>8
  <2>2. w + Cardinality(U) = Total(d)
    <3> HIDE DEF v, w, z
    <3> QED BY <2>1
  <2> QED BY <2>2
<1> QED BY <1>2, <1>3, <1>4, <1>7, <1>9 DEF d, U, Fr
-----------------------------------------------------------------------------
(* What a call leaves alone.  The state after it is B2, A2, F2, L2. *)
SamePage(B, A, F, L, B2, A2, F2, L2, p) ==
    /\ Taken(B2, p) <=> Taken(B, p)
    /\ Used(L2, p) = Used(L, p)
    /\ \A d \in Heap!Desc : In(F2, d, p) = In(F, d, p)
    /\ A2[p] = A[p]
    /\ \A m \in Used(L, p) : A2[Home(m)] = A[Home(m)]

(* A page that a call leaves alone stays what it was. *)
LEMMA PageFrame ==
  ASSUME NEW B, NEW A, NEW F, NEW L, NEW B2, NEW A2, NEW F2, NEW L2, NEW p, A[p].desc \in Heap!Desc,
         PageKept(B, A, F, L, p), SamePage(B, A, F, L, B2, A2, F2, L2, p)
  PROVE  PageKept(B2, A2, F2, L2, p)
<1>1. /\ Taken(B2, p) <=> Taken(B, p)
      /\ Used(L2, p) = Used(L, p)
      /\ \A d \in Heap!Desc : In(F2, d, p) = In(F, d, p)
      /\ A2[p] = A[p]
      /\ \A m \in Used(L, p) : A2[Home(m)] = A[Home(m)]
  BY DEF SamePage
<1>2. CASE FreePage(B, F, L, p)
  <2>1. FreePage(B2, F2, L2, p)
    BY <1>1, <1>2 DEF FreePage
  <2> QED BY <2>1 DEF PageKept
<1>3. CASE SmallPage(B, A, F, L, p)
  <2>1. A2[p].desc = A[p].desc /\ In(F2, A[p].desc, p) = In(F, A[p].desc, p)
    BY <1>1
  <2>2. SmallPage(B2, A2, F2, L2, p)
    BY <1>1, <1>3, <2>1 DEF SmallPage
  <2> QED BY <2>2 DEF PageKept
<1>4. CASE LargePage(B, A, F, L, p)
  <2>1. PICK m \in L : Used(L, p) = {m} /\ Spans(A, m)
    BY <1>4 DEF LargePage
  <2>2. A2[Home(m)] = A[Home(m)] /\ m \in L2 /\ Used(L2, p) = {m}
    <3>1. m \in Used(L, p) /\ m \in Used(L2, p)
      BY <2>1, <1>1
    <3> QED BY <3>1, <2>1, <1>1 DEF Used
  <2>3. Spans(A2, m)
    BY <2>1, <2>2 DEF Spans
  <2>4. LargePage(B2, A2, F2, L2, p)
    BY <1>1, <1>4, <2>2, <2>3 DEF LargePage
  <2> QED BY <2>4 DEF PageKept
<1> QED BY <1>2, <1>3, <1>4 DEF PageKept

(* A call that keeps its pages R, and leaves the others alone, keeps the   *)
(* heap.                                                                   *)
LEMMA HeapFrame ==
  ASSUME NEW B, NEW A, NEW F, NEW L, NEW B2, NEW A2, NEW F2, NEW L2, HeapKept(B, A, F, L),
         HeapTyped(B2, A2, F2, L2), NEW R,
         \A p \in Heap!Page \ R : SamePage(B, A, F, L, B2, A2, F2, L2, p),
         \A p \in Heap!Page : p \in R => PageKept(B2, A2, F2, L2, p)
  PROVE  HeapKept(B2, A2, F2, L2)
<1> SUFFICES ASSUME NEW p \in Heap!Page PROVE PageKept(B2, A2, F2, L2, p)
  BY DEF HeapKept
<1>1. CASE p \in R
  BY <1>1
<1>2. CASE p \notin R
  <2>1. PageKept(B, A, F, L, p) /\ A[p].desc \in Heap!Desc
    BY DEF HeapKept, HeapTyped, ArenaMaps, Arenas
  <2>2. SamePage(B, A, F, L, B2, A2, F2, L2, p)
    BY <1>2
  <2> QED BY <2>1, <2>2, PageFrame
<1> QED BY <1>1, <1>2

(* The bits of pages p to p + n - 1. *)
Run(p, n) == {p - START + i : i \in 0..(n - 1)}

(* Setting or clearing the bits of a run takes or frees its pages. *)
LEMMA RunIs ==
  ASSUME NEW B, NEW p \in Heap!Page, NEW n \in Nat, n > 0, NEW q \in Heap!Page
  PROVE  /\ Taken(B \cup Run(p, n), q) <=> Taken(B, q) \/ q \in p..(p + n - 1)
         /\ Taken(B \ Run(p, n), q) <=> Taken(B, q) /\ q \notin p..(p + n - 1)
<1>1. p \in Nat /\ q \in Nat /\ START \in Nat
  BY PageNumbers, HeapSizes
<1>2. q - START \in Run(p, n) <=> q \in p..(p + n - 1)
  <2>1. ASSUME q - START \in Run(p, n) PROVE q \in p..(p + n - 1)
    BY <2>1, <1>1 DEF Run
  <2>2. ASSUME q \in p..(p + n - 1) PROVE q - START \in Run(p, n)
    <3>1. q - p \in 0..(n - 1) /\ q - START = p - START + (q - p)
      BY <2>2, <1>1
    <3> QED BY <3>1 DEF Run
  <2> QED BY <2>1, <2>2
<1> QED BY <1>2 DEF Taken

(* The bits of pages of the heap are bits of the map. *)
LEMMA RunFits ==
  ASSUME NEW p \in Heap!Page, NEW n \in Nat, n > 0, p + n - 1 \in Heap!Page
  PROVE  Run(p, n) \subseteq 0..(PAGES - 1) /\ p..(p + n - 1) \subseteq Heap!Page /\ p \in p..(p + n - 1)
BY HeapSizes DEF Run, Heap!Page

(* One arena_t changes, one free list changes. *)
LEMMA ArenaOver ==
  ASSUME NEW A \in ArenaMaps, NEW p \in Heap!Page, NEW a \in Arenas
  PROVE  Over(A, p, a) \in ArenaMaps /\ Over(A, p, a)[p] = a /\ \A q \in Heap!Page : q # p => Over(A, p, a)[q] = A[q]
BY DEF Over, ArenaMaps

(* The same for a free list. *)
LEMMA ListOver ==
  ASSUME NEW F \in ListMaps, NEW d \in Heap!Desc, NEW s \in Seq(Nat)
  PROVE  Over(F, d, s) \in ListMaps /\ Over(F, d, s)[d] = s /\ \A e \in Heap!Desc : e # d => Over(F, d, s)[e] = F[e]
BY DEF Over, ListMaps

(* What is in use in a page when m comes or goes. *)
LEMMA UsedAfter ==
  ASSUME NEW L, NEW m, NEW p
  PROVE  /\ Used(L \cup {m}, p) = IF p \in Heap!PagesOf(m) THEN Used(L, p) \cup {m} ELSE Used(L, p)
         /\ Used(L \ {m}, p) = Used(L, p) \ {m}
         /\ p \notin Heap!PagesOf(m) => Used(L \ {m}, p) = Used(L, p)
BY DEF Used

(* kmalloc of a large block. *)
LEMMA LargeTaken ==
  ASSUME NEW B, NEW A, NEW F, NEW L, HeapKept(B, A, F, L), NEW p \in Heap!Page, NEW n \in Nat, n > 0,
         p + n - 1 \in Heap!Page, \A q \in p..(p + n - 1) : ~Taken(B, q),
         NEW m \in Allocation, m.addr = Behind(p), Heap!PagesOf(m) = p..(p + n - 1), Home(m) = p,
         NEW a \in Arenas, a.large = TRUE, a.count = n
  PROVE  HeapKept(B \cup Run(p, n), Over(A, p, a), F, L \cup {m})
<1> DEFINE B2 == B \cup Run(p, n)
           A2 == Over(A, p, a)
           L2 == L \cup {m}
           R == p..(p + n - 1)
<1>1. HeapTyped(B, A, F, L)
  BY DEF HeapKept
<1>2. A2 \in ArenaMaps /\ A2[p] = a /\ \A q \in Heap!Page : q # p => A2[q] = A[q]
  BY <1>1, ArenaOver DEF HeapTyped
<1>3. Run(p, n) \subseteq 0..(PAGES - 1) /\ R \subseteq Heap!Page /\ p \in R
  BY RunFits
<1>4. \A q \in Heap!Page : Taken(B2, q) <=> Taken(B, q) \/ q \in R
  BY RunIs
<1>5. \A q : Used(L2, q) = IF q \in R THEN Used(L, q) \cup {m} ELSE Used(L, q)
  BY UsedAfter
<1> HIDE DEF A2, B2, L2, R
<1>6. HeapTyped(B2, A2, F, L2)
  <2>1. B2 \subseteq 0..(PAGES - 1)
    BY <1>1, <1>3 DEF B2, HeapTyped
  <2>2. L2 \subseteq Allocation /\ \A o \in L2 : Home(o) \in Heap!Page
    BY <1>1 DEF L2, HeapTyped
  <2> QED BY <2>1, <2>2, <1>1, <1>2 DEF HeapTyped
<1>7. \A q \in R : q \in Heap!Page /\ FreePage(B, F, L, q)
  <2> SUFFICES ASSUME NEW q \in R PROVE FreePage(B, F, L, q)
    BY <1>3
  <2>1. PageKept(B, A, F, L, q) /\ ~Taken(B, q)
    BY <1>3 DEF HeapKept, R
  <2> QED BY <2>1 DEF PageKept, SmallPage, LargePage
<1>8. ASSUME NEW q \in Heap!Page \ R PROVE SamePage(B, A, F, L, B2, A2, F, L2, q)
  <2>1. \A o \in Used(L, q) : A2[Home(o)] = A[Home(o)]
    <3> SUFFICES ASSUME NEW o \in Used(L, q) PROVE A2[Home(o)] = A[Home(o)]
      OBVIOUS
    <3>1. o \in L
      BY DEF Used
    <3>2. Home(o) \in Heap!Page /\ o \in Used(L, Home(o))
      BY <3>1, InHeap
    <3>3. Home(o) # p
      BY <3>2, <1>3, <1>7 DEF FreePage
    <3> QED BY <3>2, <3>3, <1>2
  <2>2. A2[q] = A[q]
    BY <1>2, <1>3
  <2> QED BY <2>1, <2>2, <1>4, <1>5 DEF SamePage
<1>9. ASSUME NEW q \in Heap!Page, q \in R PROVE PageKept(B2, A2, F, L2, q)
  <2>1. Used(L, q) = {} /\ \A d \in Heap!Desc : In(F, d, q) = {}
    BY <1>7, <1>9 DEF FreePage
  <2>2. Used(L2, q) = {m} /\ Taken(B2, q) /\ m \in L2
    BY <2>1, <1>4, <1>5, <1>9 DEF L2
  <2>3. Spans(A2, m)
    BY <1>2 DEF Spans
  <2>4. LargePage(B2, A2, F, L2, q)
    BY <2>1, <2>2, <2>3 DEF LargePage
  <2> QED BY <2>4 DEF PageKept
<1>10. HeapKept(B2, A2, F, L2)
  BY <1>6, <1>8, <1>9, HeapFrame
<1> QED BY <1>10 DEF A2, B2, L2

(* kfree of a large block. *)
LEMMA LargeFreed ==
  ASSUME NEW B, NEW A, NEW F, NEW L, HeapKept(B, A, F, L), NEW m \in L, A[Home(m)].large = TRUE
  PROVE  HeapKept(B \ Run(Home(m), A[Home(m)].count), A, F, L \ {m})
<1> DEFINE p == Home(m)
           n == A[p].count
           R == p..(p + n - 1)
           B2 == B \ Run(p, n)
           L2 == L \ {m}
<1>1. HeapTyped(B, A, F, L)
  BY DEF HeapKept
<1>2. p \in Heap!Page /\ ~(A[p].large = FALSE)
  BY InHeap
<1>3. Spans(A, m) /\ \A q \in Heap!PagesOf(m) : LargePage(B, A, F, L, q) /\ Used(L, q) = {m}
  <2>1. LargeIn(B, A, F, L, m)
    BY InHeap, <1>2 DEF SmallIn
  <2> QED BY <2>1, Zenon DEF LargeIn
<1>4. n \in Nat /\ n > 0 /\ Heap!PagesOf(m) = R
  BY <1>1, <1>2, <1>3 DEF Spans, HeapTyped, ArenaMaps, Arenas
<1> HIDE DEF p, n
<1>5. \A q \in Heap!Page : Taken(B2, q) <=> Taken(B, q) /\ q \notin R
  BY <1>2, <1>4, RunIs
<1>6. \A q : Used(L2, q) = Used(L, q) \ {m} /\ (q \notin R => Used(L2, q) = Used(L, q))
  BY <1>4, UsedAfter
<1>7. HeapTyped(B2, A, F, L2)
  BY <1>1 DEF HeapTyped
<1> HIDE DEF R, B2, L2
<1>8. \A q \in Heap!Page \ R : SamePage(B, A, F, L, B2, A, F, L2, q)
  BY <1>5, <1>6 DEF SamePage
<1>9. ASSUME NEW q \in Heap!Page, q \in R PROVE PageKept(B2, A, F, L2, q)
  <2>1. LargePage(B, A, F, L, q) /\ Used(L, q) = {m}
    BY <1>3, <1>4, <1>9
  <2>2. FreePage(B2, F, L2, q)
    BY <2>1, <1>5, <1>6, <1>9 DEF FreePage, LargePage
  <2> QED BY <2>2 DEF PageKept
<1>10. HeapKept(B2, A, F, L2)
  BY <1>7, <1>8, <1>9, HeapFrame
<1> QED BY <1>10 DEF B2, L2, p, n
-----------------------------------------------------------------------------
(* The calls for small blocks change one page and one free list. *)
LEMMA InOver ==
  ASSUME NEW F \in ListMaps, NEW d \in Heap!Desc, NEW s \in Seq(Nat), NEW e \in Heap!Desc, NEW q
  PROVE  In(Over(F, d, s), e, q) = IF e = d THEN {b \in Elems(s) : Arena(b) = q} ELSE In(F, e, q)
<1>1. CASE e = d
  BY <1>1, ListOver DEF In
<1>2. CASE e # d
  <2>1. Over(F, d, s)[e] = F[e]
    BY <1>2, ListOver
  <2> QED BY <1>2, <2>1 DEF In
<1> QED BY <1>1, <1>2

(* A call that keeps its page p, and leaves the others alone, keeps the    *)
(* heap.                                                                   *)
LEMMA SmallFrame ==
  ASSUME NEW B, NEW A, NEW F, NEW L, NEW B2, NEW A2, NEW F2, NEW L2, HeapKept(B, A, F, L),
         HeapTyped(B2, A2, F2, L2), NEW p \in Heap!Page,
         \A q \in Heap!Page : q # p => \A o \in Used(L, q) : Home(o) # p,
         \A q \in Heap!Page : q # p => /\ Taken(B2, q) <=> Taken(B, q)
                                       /\ Used(L2, q) = Used(L, q)
                                       /\ \A e \in Heap!Desc : In(F2, e, q) = In(F, e, q)
                                       /\ A2[q] = A[q],
         PageKept(B2, A2, F2, L2, p)
  PROVE  HeapKept(B2, A2, F2, L2)
<1> DEFINE R == {p}
<1>1. ASSUME NEW q \in Heap!Page \ R PROVE SamePage(B, A, F, L, B2, A2, F2, L2, q)
  <2>1. q \in Heap!Page /\ q # p
    OBVIOUS
  <2>2. \A o \in Used(L, q) : A2[Home(o)] = A[Home(o)]
    <3> SUFFICES ASSUME NEW o \in Used(L, q) PROVE A2[Home(o)] = A[Home(o)]
      OBVIOUS
    <3>1. Home(o) # p
      BY <2>1
    <3>2. o \in L
      BY DEF Used
    <3>3. Home(o) \in Heap!Page
      BY <3>2, InHeap
    <3> QED BY <3>1, <3>3
  <2> QED BY <2>1, <2>2 DEF SamePage
<1>2. \A q \in Heap!Page : q \in R => PageKept(B2, A2, F2, L2, q)
  OBVIOUS
<1> HIDE DEF R
<1> QED BY <1>1, <1>2, HeapFrame

(* A free block is in a page cut in blocks of its size. *)
LEMMA FreeBlock ==
  ASSUME NEW B, NEW A, NEW F, NEW L, HeapKept(B, A, F, L), NEW d \in Heap!Desc, NEW b \in Elems(F[d])
  PROVE  /\ Arena(b) \in Heap!Page /\ SmallPage(B, A, F, L, Arena(b)) /\ A[Arena(b)].desc = d
         /\ b \in In(F, d, Arena(b)) /\ A[Arena(b)].count > 0
<1> DEFINE p == Arena(b)
<1>0. HeapTyped(B, A, F, L)
  BY DEF HeapKept
<1>1. p \in Heap!Page /\ b \in In(F, d, p)
  BY <1>0 DEF HeapTyped, In
<1> HIDE DEF p
<1>2. PageKept(B, A, F, L, p) /\ ~FreePage(B, F, L, p) /\ ~LargePage(B, A, F, L, p)
  BY <1>1 DEF HeapKept, FreePage, LargePage
<1>3. SmallPage(B, A, F, L, p)
  BY <1>2 DEF PageKept
<1>4. A[p].desc = d
  BY <1>1, <1>3 DEF SmallPage
<1>5. IsFiniteSet(In(F, d, p)) /\ A[p].count \in Nat
  BY <1>0, <1>1, <1>3, <1>4, CountsAgree
<1>6. A[p].count = Cardinality(In(F, d, p))
  BY <1>3, <1>4 DEF SmallPage
<1>7. A[p].count # 0
  BY <1>1, <1>5, <1>6, FS_EmptySet
<1>8. A[p].count > 0
  <2> DEFINE k == A[p].count
  <2>1. k \in Nat /\ k # 0
    BY <1>5, <1>7
  <2> HIDE DEF k
  <2>2. k > 0
    BY <2>1
  <2> QED BY <2>2 DEF k
<1> QED BY <1>1, <1>3, <1>4, <1>8 DEF p

(* kmalloc of a block of the free list. *)
LEMMA BlockTaken ==
  ASSUME NEW B, NEW A, NEW F, NEW L, HeapKept(B, A, F, L), NEW d \in Heap!Desc, F[d] # <<>>,
         NEW m \in Allocation, m.addr = F[d][1], m.size <= Size(d),
         NEW a \in Arenas, a.large = FALSE, a.desc = A[Home(m)].desc, a.count = A[Home(m)].count - 1
  PROVE  HeapKept(B, Over(A, Home(m), a), Over(F, d, Tail(F[d])), L \cup {m})
<1> DEFINE p == Home(m)
           b == m.addr
           A2 == Over(A, p, a)
           s == Tail(F[d])
           F2 == Over(F, d, s)
           L2 == L \cup {m}
           U == Used(L, p)
           Fr == In(F, d, p)
<1>0. HeapTyped(B, A, F, L)
  BY DEF HeapKept
<1>1. F[d] \in Seq(Nat) /\ Distinct(F[d])
  BY <1>0 DEF HeapTyped, ListMaps
<1>2. b \in Elems(F[d]) /\ s \in Seq(Nat) /\ Distinct(s) /\ Elems(s) = Elems(F[d]) \ {b}
  BY <1>1, Tailed
<1> HIDE DEF s
<1>3. p \in Heap!Page /\ SmallPage(B, A, F, L, p) /\ A[p].desc = d /\ b \in Fr
  BY <1>2, FreeBlock DEF Home
<1>4. Arena(b) = p
  BY DEF Home
<1>5. A2 \in ArenaMaps /\ A2[p] = a /\ \A q \in Heap!Page : q # p => A2[q] = A[q]
  BY <1>0, <1>3, ArenaOver DEF HeapTyped
<1>6. F2 \in ListMaps /\ F2[d] = s /\ \A e \in Heap!Desc : e # d => F2[e] = F[e]
  BY <1>0, <1>2, ListOver DEF HeapTyped
<1>7. \A e \in Heap!Desc : \A q : In(F2, e, q) = IF e = d THEN In(F, d, q) \ {b} ELSE In(F, e, q)
  <2> SUFFICES ASSUME NEW e \in Heap!Desc, NEW q
               PROVE  In(F2, e, q) = IF e = d THEN In(F, d, q) \ {b} ELSE In(F, e, q)
    OBVIOUS
  <2>1. F \in ListMaps
    BY <1>0 DEF HeapTyped
  <2>2. In(F2, e, q) = IF e = d THEN {x \in Elems(s) : Arena(x) = q} ELSE In(F, e, q)
    BY <2>1, <1>2, InOver
  <2>3. {x \in Elems(s) : Arena(x) = q} = In(F, d, q) \ {b}
    BY <1>2 DEF In
  <2> QED BY <2>2, <2>3
<1>8. Heap!PagesOf(m) = {p} /\ b \in BlocksIn(p, d)
  <2>1. b \in BlocksIn(p, d)
    BY <1>3 DEF SmallPage
  <2>2. p \in Nat
    BY <1>3, PageNumbers
  <2> QED BY <2>1, <2>2, SmallSpan
<1>9. \A q : Used(L2, q) = IF q = p THEN Used(L, q) \cup {m} ELSE Used(L, q)
  BY <1>8, UsedAfter
<1>10. \A q \in Heap!Page : q # p => \A o \in Used(L, q) : Home(o) # p
  BY <1>0, <1>3, OtherHome
<1> HIDE DEF A2, F2, L2, p
<1>11. HeapTyped(B, A2, F2, L2)
  <2>1. \A e \in Heap!Desc : Distinct(F2[e]) /\ \A x \in Elems(F2[e]) : Arena(x) \in Heap!Page
    BY <1>0, <1>2, <1>6 DEF HeapTyped
  <2>2. L2 \subseteq Allocation /\ \A o \in L2 : Home(o) \in Heap!Page
    BY <1>0, <1>3 DEF HeapTyped, L2, p
  <2> QED BY <1>0, <1>5, <1>6, <2>1, <2>2 DEF HeapTyped
<1>12. SmallPage(B, A2, F2, L2, p)
  <2>1. /\ Taken(B, p)
        /\ \A o \in U : o.size <= Size(d)
        /\ \A n \in U, o \in U : n.addr = o.addr => n = o
        /\ Addrs(U) \cup Fr = BlocksIn(p, d) /\ Addrs(U) \cap Fr = {}
        /\ \A e \in Heap!Desc \ {d} : In(F, e, p) = {}
        /\ A[p].count = Cardinality(Fr)
    BY <1>3 DEF SmallPage
  <2>2. Used(L2, p) = U \cup {m} /\ In(F2, d, p) = Fr \ {b}
    BY <1>7, <1>9
  <2>3. a.desc = d /\ a.count = A[p].count - 1
    BY <1>3 DEF p
  <2>4. Addrs(U \cup {m}) = Addrs(U) \cup {b} /\ b \notin Addrs(U)
    BY <2>1, <1>3 DEF Addrs
  <2>5. \A n \in U \cup {m}, o \in U \cup {m} : n.addr = o.addr => n = o
    BY <2>1, <2>4 DEF Addrs
  <2>6. IsFiniteSet(Fr)
    BY <1>0, <1>3, CountsAgree
  <2>7. Cardinality(Fr \ {b}) = Cardinality(Fr) - 1
    BY <2>6, <1>3, FS_RemoveElement
  <2>8. \A e \in Heap!Desc \ {d} : In(F2, e, p) = {}
    BY <2>1, <1>7
  <2>9. Addrs(Used(L2, p)) \cup In(F2, d, p) = BlocksIn(p, d) /\ Addrs(Used(L2, p)) \cap In(F2, d, p) = {}
    <3> DEFINE V == Addrs(U)
               K == BlocksIn(p, d)
    <3>1. V \cup Fr = K /\ V \cap Fr = {} /\ b \in Fr
      BY <2>1, <1>3
    <3>2. Addrs(Used(L2, p)) = V \cup {b} /\ In(F2, d, p) = Fr \ {b}
      BY <2>2, <2>4
    <3> HIDE DEF V, Fr, K, b
    <3>3. (V \cup {b}) \cup (Fr \ {b}) = K /\ (V \cup {b}) \cap (Fr \ {b}) = {}
      BY <3>1
    <3> QED BY <3>2, <3>3 DEF K
  <2> HIDE DEF U, Fr
  <2>10. a.count = Cardinality(In(F2, d, p))
    BY <2>1, <2>2, <2>3, <2>7
  <2>11. Used(L2, p) # {} /\ \A o \in Used(L2, p) : o.size <= Size(d)
    BY <2>1, <2>2
  <2> QED BY <2>1, <2>2, <2>3, <2>5, <2>8, <2>9, <2>10, <2>11, <1>5 DEF SmallPage
<1>13. \A q \in Heap!Page : q # p => /\ Used(L2, q) = Used(L, q)
                                     /\ \A e \in Heap!Desc : In(F2, e, q) = In(F, e, q)
                                     /\ A2[q] = A[q]
  <2> SUFFICES ASSUME NEW q \in Heap!Page, q # p
               PROVE  /\ Used(L2, q) = Used(L, q) /\ A2[q] = A[q]
                      /\ \A e \in Heap!Desc : In(F2, e, q) = In(F, e, q)
    OBVIOUS
  <2>1. In(F, d, q) \ {b} = In(F, d, q)
    BY <1>4 DEF In
  <2>2. \A e \in Heap!Desc : In(F2, e, q) = In(F, e, q)
    BY <2>1, <1>7
  <2> QED BY <2>2, <1>5, <1>9
<1>14. PageKept(B, A2, F2, L2, p)
  BY <1>12 DEF PageKept
<1>15. HeapKept(B, A2, F2, L2)
  BY <1>3, <1>10, <1>11, <1>13, <1>14, SmallFrame
<1> QED BY <1>15 DEF A2, F2, L2, p, s
(* A small allocation that is freed was in its page, with a block that is  *)
(* not free.                                                               *)
LEMMA SmallBlock ==
  ASSUME NEW B, NEW A, NEW F, NEW L, HeapKept(B, A, F, L), NEW m \in L, A[Home(m)].large = FALSE
  PROVE  /\ Home(m) \in Heap!Page /\ SmallPage(B, A, F, L, Home(m)) /\ Heap!PagesOf(m) = {Home(m)}
         /\ m \in Used(L, Home(m)) /\ A[Home(m)].desc \in Heap!Desc /\ m.addr \in Nat
         /\ m.addr \notin Elems(F[A[Home(m)].desc])
<1> DEFINE p == Home(m)
           d == A[p].desc
<1>0. HeapTyped(B, A, F, L)
  BY DEF HeapKept
<1>1. p \in Heap!Page /\ m \in Used(L, p) /\ m \in Allocation
  BY InHeap
<1>2. SmallIn(B, A, F, L, m)
  <2>1. ~(A[p].large = TRUE)
    OBVIOUS
  <2> QED BY <2>1, InHeap DEF LargeIn
<1>3. SmallPage(B, A, F, L, p) /\ Heap!PagesOf(m) = {p}
  BY <1>2 DEF SmallIn
<1>4. d \in Heap!Desc /\ m.addr \in Nat
  BY <1>0, <1>1 DEF HeapTyped, ArenaMaps, Arenas, Allocation
<1>5. m.addr \in Addrs(Used(L, p))
  BY <1>1 DEF Addrs
<1>6. m.addr \notin In(F, d, p)
  BY <1>3, <1>5 DEF SmallPage
<1>7. Arena(m.addr) = p
  BY DEF Home
<1>8. m.addr \notin Elems(F[d])
  BY <1>6, <1>7 DEF In
<1> QED BY <1>1, <1>3, <1>4, <1>8

(* kfree of a block of a page where more is in use. *)
LEMMA BlockFreed ==
  ASSUME NEW B, NEW A, NEW F, NEW L, HeapKept(B, A, F, L), NEW m \in L, A[Home(m)].large = FALSE,
         NEW d, d = A[Home(m)].desc, A[Home(m)].count + 1 # Total(d),
         NEW a \in Arenas, a.large = FALSE, a.desc = d, a.count = A[Home(m)].count + 1
  PROVE  HeapKept(B, Over(A, Home(m), a), Over(F, d, Append(F[d], m.addr)), L \ {m})
<1> DEFINE p == Home(m)
           b == m.addr
           s == Append(F[d], b)
           A2 == Over(A, p, a)
           F2 == Over(F, d, s)
           L2 == L \ {m}
           U == Used(L, p)
           Fr == In(F, d, p)
<1>0. HeapTyped(B, A, F, L)
  BY DEF HeapKept
<1>1. /\ p \in Heap!Page /\ SmallPage(B, A, F, L, p) /\ Heap!PagesOf(m) = {p} /\ m \in U
      /\ d \in Heap!Desc /\ b \in Nat /\ b \notin Elems(F[d])
  <2>1. HeapKept(B, A, F, L) /\ m \in L /\ A[p].large = FALSE /\ d = A[p].desc
    OBVIOUS
  <2> QED BY ONLY <2>1, SmallBlock
<1>2. F[d] \in Seq(Nat) /\ Distinct(F[d])
  BY <1>0, <1>1 DEF HeapTyped, ListMaps
<1>3. s \in Seq(Nat) /\ Distinct(s) /\ Elems(s) = Elems(F[d]) \cup {b}
  BY <1>1, <1>2, Appended
<1> HIDE DEF s
<1>4. Arena(b) = p
  BY DEF Home
<1>5. A2 \in ArenaMaps /\ A2[p] = a /\ \A q \in Heap!Page : q # p => A2[q] = A[q]
  BY <1>0, <1>1, ArenaOver DEF HeapTyped
<1>6. F2 \in ListMaps /\ F2[d] = s /\ \A e \in Heap!Desc : e # d => F2[e] = F[e]
  BY <1>0, <1>1, <1>3, ListOver DEF HeapTyped
<1>7. \A e \in Heap!Desc : \A q : In(F2, e, q) = IF e = d /\ q = p THEN In(F, d, q) \cup {b} ELSE In(F, e, q)
  <2> SUFFICES ASSUME NEW e \in Heap!Desc, NEW q
               PROVE  In(F2, e, q) = IF e = d /\ q = p THEN In(F, d, q) \cup {b} ELSE In(F, e, q)
    OBVIOUS
  <2>1. F \in ListMaps /\ d \in Heap!Desc /\ s \in Seq(Nat) /\ e \in Heap!Desc
    BY <1>0, <1>1, <1>3 DEF HeapTyped
  <2>2. In(F2, e, q) = IF e = d THEN {x \in Elems(s) : Arena(x) = q} ELSE In(F, e, q)
    BY ONLY <2>1, InOver
  <2>3. {x \in Elems(s) : Arena(x) = q} = IF q = p THEN In(F, d, q) \cup {b} ELSE In(F, d, q)
    BY <1>3, <1>4 DEF In
  <2> QED BY <2>2, <2>3
<1>8. \A q : Used(L2, q) = Used(L, q) \ {m} /\ (q # p => Used(L2, q) = Used(L, q))
  BY <1>1 DEF Used
<1>9. \A q \in Heap!Page : q # p => \A o \in Used(L, q) : Home(o) # p
  BY <1>0, <1>1, OtherHome
<1> HIDE DEF A2, F2, L2, p
<1>10. HeapTyped(B, A2, F2, L2)
  <2>1. \A e \in Heap!Desc : Distinct(F2[e]) /\ \A x \in Elems(F2[e]) : Arena(x) \in Heap!Page
    <3> SUFFICES ASSUME NEW e \in Heap!Desc
                 PROVE  Distinct(F2[e]) /\ \A x \in Elems(F2[e]) : Arena(x) \in Heap!Page
      OBVIOUS
    <3>1. Distinct(F[e]) /\ \A x \in Elems(F[e]) : Arena(x) \in Heap!Page
      BY <1>0 DEF HeapTyped
    <3>2. CASE e = d
      <4>1. F2[e] = s /\ Elems(s) = Elems(F[e]) \cup {b}
        BY <3>2, <1>3, <1>6
      <4> QED BY <4>1, <3>1, <1>1, <1>3, <1>4
    <3>3. CASE e # d
      BY <3>1, <3>3, <1>6
    <3> QED BY <3>2, <3>3
  <2>2. L2 \subseteq Allocation /\ \A o \in L2 : Home(o) \in Heap!Page
    BY <1>0 DEF HeapTyped, L2
  <2> QED BY <1>0, <1>5, <1>6, <2>1, <2>2 DEF HeapTyped
<1>11. SmallPage(B, A2, F2, L2, p)
  <2>0. A[p].desc = d
    BY DEF p
  <2>1. /\ Taken(B, p)
        /\ \A o \in U : o.size <= Size(d)
        /\ \A n \in U, o \in U : n.addr = o.addr => n = o
        /\ Addrs(U) \cup Fr = BlocksIn(p, d) /\ Addrs(U) \cap Fr = {}
        /\ \A e \in Heap!Desc \ {d} : In(F, e, p) = {}
        /\ A[p].count = Cardinality(Fr)
    BY <1>1, <2>0 DEF SmallPage
  <2>2. Used(L2, p) = U \ {m} /\ In(F2, d, p) = Fr \cup {b}
    BY <1>1, <1>7, <1>8
  <2>3. a.count = A[p].count + 1 /\ A[p].count + 1 # Total(d)
    BY DEF p
  <2>4. Addrs(U \ {m}) = Addrs(U) \ {b} /\ b \in Addrs(U)
    BY <2>1, <1>1 DEF Addrs
  <2>5. /\ IsFiniteSet(Fr) /\ IsFiniteSet(U) /\ A[p].count \in Nat /\ Cardinality(U) \in Nat
        /\ A[p].count + Cardinality(U) = Total(d)
    BY <1>0, <1>1, <2>0, CountsAgree
  <2>6. b \notin Fr
    BY <2>1, <2>4
  <2>7. Cardinality(Fr \cup {b}) = Cardinality(Fr) + 1
    BY <2>5, <2>6, FS_AddElement
  <2>8. \A e \in Heap!Desc \ {d} : In(F2, e, p) = {}
    BY <2>1, <1>7
  <2>9. Addrs(Used(L2, p)) \cup In(F2, d, p) = BlocksIn(p, d) /\ Addrs(Used(L2, p)) \cap In(F2, d, p) = {}
    <3> DEFINE V == Addrs(U)
               K == BlocksIn(p, d)
    <3>1. V \cup Fr = K /\ V \cap Fr = {} /\ b \in V
      BY <2>1, <2>4
    <3>2. Addrs(Used(L2, p)) = V \ {b} /\ In(F2, d, p) = Fr \cup {b}
      BY <2>2, <2>4
    <3> HIDE DEF V, Fr, K, b
    <3>3. (V \ {b}) \cup (Fr \cup {b}) = K /\ (V \ {b}) \cap (Fr \cup {b}) = {}
      BY <3>1
    <3> QED BY <3>2, <3>3 DEF K
  <2>10. U \ {m} # {}
    <3> SUFFICES ASSUME U \ {m} = {} PROVE FALSE
      OBVIOUS
    <3>1. U = {m}
      BY <1>1
    <3>2. Cardinality(U) = 1
      BY <3>1, FS_Singleton
    <3> QED BY <2>3, <2>5, <3>2
  <2> HIDE DEF U, Fr
  <2>11. a.count = Cardinality(In(F2, d, p))
    BY <2>1, <2>2, <2>3, <2>7
  <2>12. /\ Used(L2, p) # {} /\ \A o \in Used(L2, p) : o.size <= Size(d)
         /\ \A n \in Used(L2, p), o \in Used(L2, p) : n.addr = o.addr => n = o
    BY <2>1, <2>2, <2>10
  <2> QED BY <2>1, <2>8, <2>9, <2>11, <2>12, <1>5 DEF SmallPage
<1>12. \A q \in Heap!Page : q # p => /\ Used(L2, q) = Used(L, q)
                                     /\ \A e \in Heap!Desc : In(F2, e, q) = In(F, e, q)
                                     /\ A2[q] = A[q]
  BY <1>5, <1>7, <1>8
<1>13. PageKept(B, A2, F2, L2, p)
  BY <1>11 DEF PageKept
<1>14. HeapKept(B, A2, F2, L2)
  BY <1>1, <1>9, <1>10, <1>12, <1>13, SmallFrame
<1> QED BY <1>14 DEF A2, F2, L2, p, s

(* kfree of the last block in use of a page. *)
LEMMA LastFreed ==
  ASSUME NEW B, NEW A, NEW F, NEW L, HeapKept(B, A, F, L), NEW m \in L, A[Home(m)].large = FALSE,
         NEW d, d = A[Home(m)].desc, A[Home(m)].count + 1 = Total(d),
         NEW a \in Arenas, NEW s, s = Heap!Without(Append(F[d], m.addr), Home(m))
  PROVE  HeapKept(B \ Run(Home(m), 1), Over(A, Home(m), a), Over(F, d, s), L \ {m})
<1> DEFINE p == Home(m)
           b == m.addr
           B2 == B \ Run(p, 1)
           A2 == Over(A, p, a)
           F2 == Over(F, d, s)
           L2 == L \ {m}
           U == Used(L, p)
<1>0. HeapTyped(B, A, F, L)
  BY DEF HeapKept
<1>1. /\ p \in Heap!Page /\ SmallPage(B, A, F, L, p) /\ Heap!PagesOf(m) = {p} /\ m \in U
      /\ d \in Heap!Desc /\ b \in Nat /\ b \notin Elems(F[d])
  <2>1. HeapKept(B, A, F, L) /\ m \in L /\ A[p].large = FALSE /\ d = A[p].desc
    OBVIOUS
  <2> QED BY ONLY <2>1, SmallBlock
<1>2. F[d] \in Seq(Nat) /\ Distinct(F[d])
  BY <1>0, <1>1 DEF HeapTyped, ListMaps
<1>4. Arena(b) = p
  BY DEF Home
<1>3. s \in Seq(Nat) /\ Distinct(s) /\ Elems(s) = {x \in Elems(F[d]) : Arena(x) # p}
  <2> DEFINE t == Append(F[d], b)
  <2>1. t \in Seq(Nat) /\ Distinct(t) /\ Elems(t) = Elems(F[d]) \cup {b}
    BY <1>1, <1>2, Appended
  <2>2. s = Heap!Without(t, p)
    OBVIOUS
  <2> HIDE DEF t
  <2>3. s \in Seq(Nat) /\ Distinct(s) /\ Elems(s) = {x \in Elems(t) : Heap!get_arena_from_block(x) # p}
    BY <2>1, <2>2, WithoutIs
  <2>4. {x \in Elems(t) : Heap!get_arena_from_block(x) # p} = {x \in Elems(F[d]) : Arena(x) # p}
    BY <2>1, <1>4 DEF Arena
  <2> QED BY <2>3, <2>4
<1>5. A2 \in ArenaMaps /\ A2[p] = a /\ \A q \in Heap!Page : q # p => A2[q] = A[q]
  BY <1>0, <1>1, ArenaOver DEF HeapTyped
<1>6. F2 \in ListMaps /\ F2[d] = s /\ \A e \in Heap!Desc : e # d => F2[e] = F[e]
  BY <1>0, <1>1, <1>3, ListOver DEF HeapTyped
<1>7. /\ \A e \in Heap!Desc, q \in Heap!Page : q # p => In(F2, e, q) = In(F, e, q)
      /\ In(F2, d, p) = {}
      /\ \A e \in Heap!Desc : e # d => In(F2, e, p) = In(F, e, p)
  <2>1. F \in ListMaps
    BY <1>0 DEF HeapTyped
  <2>2. \A e \in Heap!Desc : \A q : In(F2, e, q) = IF e = d THEN {x \in Elems(s) : Arena(x) = q} ELSE In(F, e, q)
    <3> SUFFICES ASSUME NEW e \in Heap!Desc, NEW q
                 PROVE  In(F2, e, q) = IF e = d THEN {x \in Elems(s) : Arena(x) = q} ELSE In(F, e, q)
      OBVIOUS
    <3>1. F \in ListMaps /\ d \in Heap!Desc /\ s \in Seq(Nat) /\ e \in Heap!Desc
      BY <2>1, <1>1, <1>3
    <3> QED BY ONLY <3>1, InOver
  <2>3. \A q : {x \in Elems(s) : Arena(x) = q} = IF q = p THEN {} ELSE In(F, d, q)
    BY <1>3 DEF In
  <2> QED BY <2>2, <2>3, <1>1
<1>8. \A q : Used(L2, q) = Used(L, q) \ {m} /\ (q # p => Used(L2, q) = Used(L, q))
  BY <1>1 DEF Used
<1>9. \A q \in Heap!Page : q # p => \A o \in Used(L, q) : Home(o) # p
  BY <1>0, <1>1, OtherHome
<1>10. \A q \in Heap!Page : Taken(B2, q) <=> Taken(B, q) /\ q # p
  <2> DEFINE n == 1
  <2>1. n \in Nat /\ n > 0 /\ B2 = B \ Run(p, n)
    OBVIOUS
  <2>2. p \in Nat
    BY <1>1, PageNumbers
  <2>3. p..(p + n - 1) = {p}
    BY <2>2
  <2> HIDE DEF n, p
  <2>4. \A q \in Heap!Page : Taken(B2, q) <=> Taken(B, q) /\ q \notin p..(p + n - 1)
    BY <1>1, <2>1, RunIs
  <2> QED BY <2>3, <2>4
<1> HIDE DEF A2, F2, L2, B2, p
<1>11. HeapTyped(B2, A2, F2, L2)
  <2>1. \A e \in Heap!Desc : Distinct(F2[e]) /\ \A x \in Elems(F2[e]) : Arena(x) \in Heap!Page
    <3> SUFFICES ASSUME NEW e \in Heap!Desc
                 PROVE  Distinct(F2[e]) /\ \A x \in Elems(F2[e]) : Arena(x) \in Heap!Page
      OBVIOUS
    <3>1. Distinct(F[e]) /\ \A x \in Elems(F[e]) : Arena(x) \in Heap!Page
      BY <1>0 DEF HeapTyped
    <3>2. CASE e = d
      BY <3>2, <3>1, <1>3, <1>6
    <3>3. CASE e # d
      BY <3>1, <3>3, <1>6
    <3> QED BY <3>2, <3>3
  <2>2. L2 \subseteq Allocation /\ \A o \in L2 : Home(o) \in Heap!Page
    BY <1>0 DEF HeapTyped, L2
  <2>3. B2 \subseteq 0..(PAGES - 1)
    BY <1>0 DEF HeapTyped, B2
  <2> QED BY <1>5, <1>6, <2>1, <2>2, <2>3 DEF HeapTyped
<1>12. FreePage(B2, F2, L2, p)
  <2>0. A[p].desc = d /\ A[p].count + 1 = Total(d)
    BY DEF p
  <2>1. \A e \in Heap!Desc \ {d} : In(F, e, p) = {}
    BY <1>1, <2>0 DEF SmallPage
  <2>2. \A e \in Heap!Desc : In(F2, e, p) = {}
    BY <2>1, <1>7
  <2>3. /\ IsFiniteSet(U) /\ A[p].count \in Nat /\ Cardinality(U) \in Nat
        /\ A[p].count + Cardinality(U) = Total(d)
    BY <1>0, <1>1, <2>0, CountsAgree
  <2>4. Cardinality(U) = 1
    BY <2>0, <2>3
  <2>5. U = {m}
    <3>1. PICK x : U = {x}
      BY <2>3, <2>4, FS_Singleton
    <3> QED BY <3>1, <1>1
  <2>6. Used(L2, p) = {}
    BY <2>5, <1>8
  <2> QED BY <2>2, <2>6, <1>1, <1>10 DEF FreePage
<1>13. \A q \in Heap!Page : q # p => /\ Taken(B2, q) <=> Taken(B, q)
                                     /\ Used(L2, q) = Used(L, q)
                                     /\ \A e \in Heap!Desc : In(F2, e, q) = In(F, e, q)
                                     /\ A2[q] = A[q]
  BY <1>5, <1>7, <1>8, <1>10
<1>14. PageKept(B2, A2, F2, L2, p)
  BY <1>12 DEF PageKept
<1>15. HeapKept(B2, A2, F2, L2)
  BY <1>1, <1>9, <1>11, <1>13, <1>14, SmallFrame
<1> QED BY <1>15 DEF A2, F2, L2, B2, p
(* The blocks that a page is cut in. *)
LEMMA BlocksSeq ==
  ASSUME NEW p \in Nat, NEW d \in Heap!Desc
  PROVE  /\ Heap!Blocks(p, d) \in Seq(Nat) /\ Heap!Blocks(p, d) # <<>> /\ Distinct(Heap!Blocks(p, d))
         /\ Elems(Heap!Blocks(p, d)) = BlocksIn(p, d) /\ Heap!Blocks(p, d)[1] = BlockAt(p, d, 0)
         /\ \A x \in BlocksIn(p, d) : Arena(x) = p
<1> DEFINE t == Total(d)
           f == [i \in 1..t |-> BlockAt(p, d, i - 1)]
<1>1. t \in Nat /\ t > 0 /\ 0 \in 0..(Size(d) - 1)
  BY BlockSizes
<1>2. Heap!Blocks(p, d) = f
  BY DEF Heap!Blocks, BlockAt, Total
<1>3. \A i \in 0..(t - 1) : BlockAt(p, d, i) \in Nat /\ Arena(BlockAt(p, d, i)) = p
  BY BlockArena
<1>4. \A i \in 0..(t - 1), j \in 0..(t - 1) : BlockAt(p, d, i) = BlockAt(p, d, j) => i = j
  <2> SUFFICES ASSUME NEW i \in 0..(t - 1), NEW j \in 0..(t - 1), BlockAt(p, d, i) = BlockAt(p, d, j) PROVE i = j
    OBVIOUS
  <2>1. BlockAt(p, d, i) + 0 = BlockAt(p, d, j) + 0
    OBVIOUS
  <2> QED BY <2>1, <1>1, BlocksDiffer
<1>5. \A x \in BlocksIn(p, d) : Arena(x) = p
  BY <1>3 DEF BlocksIn
<1>6. BlocksIn(p, d) = {BlockAt(p, d, i) : i \in 0..(t - 1)}
  BY DEF BlocksIn
<1> HIDE DEF t
<1>7. f \in Seq(Nat) /\ Len(f) = t /\ \A k \in 1..t : f[k] = BlockAt(p, d, k - 1)
  <2>1. \A k \in 1..t : BlockAt(p, d, k - 1) \in Nat
    BY <1>1, <1>3
  <2>2. f \in [1..t -> Nat]
    BY <2>1
  <2> QED BY <2>2, <1>1
<1> HIDE DEF f
<1>8. f # <<>> /\ f[1] = BlockAt(p, d, 0)
  <2>1. 1 \in 1..t /\ 1 - 1 = 0
    BY <1>1
  <2>2. f[1] = BlockAt(p, d, 1 - 1)
    BY <2>1, <1>7
  <2>3. Len(<<>>) = 0
    OBVIOUS
  <2>4. f # <<>>
    BY <2>3, <1>1, <1>7
  <2> QED BY <2>1, <2>2, <2>4
<1>9. Distinct(f)
  <2> SUFFICES ASSUME NEW j \in 1..t, NEW k \in 1..t, f[j] = f[k] PROVE j = k
    BY <1>7 DEF Distinct
  <2>1. j - 1 \in 0..(t - 1) /\ k - 1 \in 0..(t - 1) /\ BlockAt(p, d, j - 1) = BlockAt(p, d, k - 1)
    BY <1>1, <1>7
  <2>2. j - 1 = k - 1
    BY <2>1, <1>4
  <2> QED BY <2>2, <1>1
<1>10. Elems(f) = BlocksIn(p, d)
  <2>1. Elems(f) = {f[k] : k \in 1..t}
    BY <1>7 DEF Elems
  <2>2. ASSUME NEW k \in 1..t PROVE f[k] \in BlocksIn(p, d)
    <3>1. k - 1 \in 0..(t - 1) /\ f[k] = BlockAt(p, d, k - 1)
      BY <1>1, <1>7
    <3> QED BY <3>1, <1>6
  <2>3. ASSUME NEW i \in 0..(t - 1) PROVE \E k \in 1..t : f[k] = BlockAt(p, d, i)
    <3>1. i + 1 \in 1..t /\ (i + 1) - 1 = i
      BY <1>1
    <3>2. f[i + 1] = BlockAt(p, d, (i + 1) - 1)
      BY <3>1, <1>7
    <3> QED BY <3>1, <3>2
  <2> QED BY <2>1, <2>2, <2>3, <1>6
<1> QED BY <1>2, <1>5, <1>7, <1>8, <1>9, <1>10

(* kmalloc of the first block of a new page. *)
LEMMA PageCut ==
  ASSUME NEW B, NEW A, NEW F, NEW L, HeapKept(B, A, F, L), NEW p \in Heap!Page, ~Taken(B, p),
         NEW d \in Heap!Desc, F[d] = <<>>,
         NEW m \in Allocation, m.addr = BlockAt(p, d, 0), m.size <= Size(d),
         NEW a \in Arenas, a.large = FALSE, a.desc = d, a.count = Total(d) - 1,
         NEW s, s = Tail(Heap!Blocks(p, d))
  PROVE  HeapKept(B \cup Run(p, 1), Over(A, p, a), Over(F, d, s), L \cup {m})
<1> DEFINE b == m.addr
           B2 == B \cup Run(p, 1)
           A2 == Over(A, p, a)
           F2 == Over(F, d, s)
           L2 == L \cup {m}
           K == BlocksIn(p, d)
<1>0. HeapTyped(B, A, F, L)
  BY DEF HeapKept
<1>1. p \in Nat /\ Total(d) \in Nat /\ Total(d) > 0
  BY PageNumbers, BlockSizes
<1>2. s \in Seq(Nat) /\ Distinct(s) /\ Elems(s) = K \ {b} /\ b \in K /\ \A x \in K : Arena(x) = p
  <2> DEFINE t == Heap!Blocks(p, d)
  <2>1. t \in Seq(Nat) /\ t # <<>> /\ Distinct(t) /\ Elems(t) = K /\ t[1] = b /\ \A x \in K : Arena(x) = p
    BY <1>1, BlocksSeq
  <2> HIDE DEF t
  <2>2. t[1] \in Elems(t) /\ Tail(t) \in Seq(Nat) /\ Distinct(Tail(t)) /\ Elems(Tail(t)) = Elems(t) \ {t[1]}
    BY <2>1, Tailed
  <2> QED BY <2>1, <2>2 DEF t
<1>3. Heap!PagesOf(m) = {p} /\ Home(m) = p
  BY <1>1, <1>2, SmallSpan
<1>4. FreePage(B, F, L, p)
  BY DEF HeapKept, PageKept, SmallPage, LargePage
<1>5. A2 \in ArenaMaps /\ A2[p] = a /\ \A q \in Heap!Page : q # p => A2[q] = A[q]
  BY <1>0, ArenaOver DEF HeapTyped
<1>6. F2 \in ListMaps /\ F2[d] = s /\ \A e \in Heap!Desc : e # d => F2[e] = F[e]
  <2>1. F \in ListMaps /\ s \in Seq(Nat) /\ d \in Heap!Desc
    BY <1>0, <1>2 DEF HeapTyped
  <2> QED BY ONLY <2>1, ListOver
<1>7. /\ \A e \in Heap!Desc, q \in Heap!Page : q # p => In(F2, e, q) = In(F, e, q)
      /\ In(F2, d, p) = K \ {b}
      /\ \A e \in Heap!Desc : e # d => In(F2, e, p) = In(F, e, p)
  <2>1. F \in ListMaps
    BY <1>0 DEF HeapTyped
  <2>2. \A e \in Heap!Desc : \A q : In(F2, e, q) = IF e = d THEN {x \in Elems(s) : Arena(x) = q} ELSE In(F, e, q)
    <3> SUFFICES ASSUME NEW e \in Heap!Desc, NEW q
                 PROVE  In(F2, e, q) = IF e = d THEN {x \in Elems(s) : Arena(x) = q} ELSE In(F, e, q)
      OBVIOUS
    <3>1. F \in ListMaps /\ d \in Heap!Desc /\ s \in Seq(Nat) /\ e \in Heap!Desc
      BY <2>1, <1>2
    <3> QED BY ONLY <3>1, InOver
  <2>3. \A q : {x \in Elems(s) : Arena(x) = q} = IF q = p THEN K \ {b} ELSE {}
    BY <1>2
  <2>4. \A q : In(F, d, q) = {}
    <3>1. Len(F[d]) = 0
      OBVIOUS
    <3>2. Elems(F[d]) = {}
      BY <3>1 DEF Elems
    <3> QED BY <3>2 DEF In
  <2> HIDE DEF F2, K
  <2>5. \A q : In(F2, d, q) = IF q = p THEN K \ {b} ELSE {}
    <3> SUFFICES ASSUME NEW q PROVE In(F2, d, q) = IF q = p THEN K \ {b} ELSE {}
      OBVIOUS
    <3>1. In(F2, d, q) = {x \in Elems(s) : Arena(x) = q}
      BY <2>2
    <3> QED BY <3>1, <2>3
  <2>6. \A e \in Heap!Desc : \A q : e # d => In(F2, e, q) = In(F, e, q)
    BY <2>2
  <2> QED BY <2>4, <2>5, <2>6
<1>8. \A q : Used(L2, q) = IF q = p THEN Used(L, q) \cup {m} ELSE Used(L, q)
  BY <1>3 DEF Used
<1>9. \A q \in Heap!Page : q # p => \A o \in Used(L, q) : Home(o) # p
  <2> SUFFICES ASSUME NEW o \in L, Home(o) = p PROVE FALSE
    BY DEF Used
  <2>1. o \in Used(L, p)
    BY InHeap
  <2> QED BY <2>1, <1>4 DEF FreePage
<1>10. Run(p, 1) \subseteq 0..(PAGES - 1) /\ \A q \in Heap!Page : Taken(B2, q) <=> Taken(B, q) \/ q = p
  <2> DEFINE n == 1
  <2>1. n \in Nat /\ n > 0 /\ p + n - 1 = p /\ B2 = B \cup Run(p, n)
    BY <1>1
  <2>2. p..(p + n - 1) = {p}
    BY <1>1
  <2> HIDE DEF n
  <2>3. Run(p, n) \subseteq 0..(PAGES - 1)
    BY <2>1, RunFits
  <2>4. \A q \in Heap!Page : Taken(B2, q) <=> Taken(B, q) \/ q \in p..(p + n - 1)
    BY <2>1, RunIs
  <2> QED BY <2>2, <2>3, <2>4 DEF n
<1> HIDE DEF A2, F2, L2, B2, K
<1>11. HeapTyped(B2, A2, F2, L2)
  <2>1. \A e \in Heap!Desc : Distinct(F2[e]) /\ \A x \in Elems(F2[e]) : Arena(x) \in Heap!Page
    <3> SUFFICES ASSUME NEW e \in Heap!Desc
                 PROVE  Distinct(F2[e]) /\ \A x \in Elems(F2[e]) : Arena(x) \in Heap!Page
      OBVIOUS
    <3>1. Distinct(F[e]) /\ \A x \in Elems(F[e]) : Arena(x) \in Heap!Page
      BY <1>0 DEF HeapTyped
    <3>2. CASE e = d
      BY <3>2, <1>2, <1>6
    <3>3. CASE e # d
      BY <3>1, <3>3, <1>6
    <3> QED BY <3>2, <3>3
  <2>2. L2 \subseteq Allocation /\ \A o \in L2 : Home(o) \in Heap!Page
    BY <1>0, <1>3 DEF HeapTyped, L2
  <2>3. B2 \subseteq 0..(PAGES - 1)
    BY <1>0, <1>10 DEF HeapTyped, B2
  <2> QED BY <1>5, <1>6, <2>1, <2>2, <2>3 DEF HeapTyped
<1>12. SmallPage(B2, A2, F2, L2, p)
  <2>1. Used(L2, p) = {m} /\ In(F2, d, p) = K \ {b} /\ Taken(B2, p)
    BY <1>4, <1>7, <1>8, <1>10 DEF FreePage
  <2>2. \A e \in Heap!Desc \ {d} : In(F2, e, p) = {}
    BY <1>4, <1>7 DEF FreePage
  <2>3. Addrs(Used(L2, p)) = {b}
    BY <2>1 DEF Addrs
  <2>4. IsFiniteSet(K) /\ Cardinality(K) = Total(d)
    BY <1>1, BlockCount DEF K
  <2>5. Cardinality(K \ {b}) = Total(d) - 1
    BY <2>4, <1>2, FS_RemoveElement
  <2>6. Addrs(Used(L2, p)) \cup In(F2, d, p) = K /\ Addrs(Used(L2, p)) \cap In(F2, d, p) = {}
    BY <2>1, <2>3, <1>2
  <2>7. a.count = Cardinality(In(F2, d, p))
    BY <2>1, <2>5
  <2>8. /\ Used(L2, p) # {} /\ \A o \in Used(L2, p) : o.size <= Size(d)
        /\ \A n \in Used(L2, p), o \in Used(L2, p) : n.addr = o.addr => n = o
    BY <2>1
  <2> QED BY <2>1, <2>2, <2>6, <2>7, <2>8, <1>5 DEF SmallPage, K
<1>13. \A q \in Heap!Page : q # p => /\ Taken(B2, q) <=> Taken(B, q)
                                     /\ Used(L2, q) = Used(L, q)
                                     /\ \A e \in Heap!Desc : In(F2, e, q) = In(F, e, q)
                                     /\ A2[q] = A[q]
  BY <1>5, <1>7, <1>8, <1>10
<1>14. PageKept(B2, A2, F2, L2, p)
  BY <1>12 DEF PageKept
<1>15. HeapKept(B2, A2, F2, L2)
  BY <1>9, <1>11, <1>13, <1>14, SmallFrame
<1> QED BY <1>15 DEF A2, F2, L2, B2
-----------------------------------------------------------------------------
(* Where kalloc_page finds pages, and what it does to kernel_vmap. *)
Found(B, n) == Heap!Scan(MapOf(B, PAGES, START), n)

(* kalloc_page finds free pages and takes them, or changes nothing. *)
LEMMA PagesFound ==
  ASSUME NEW B, NEW n \in Nat, n > 0
  PROVE  \/ Found(B, n) = Heap!EOF /\ Heap!bitmap_insert_nbits(MapOf(B, PAGES, START), n) = MapOf(B, PAGES, START)
         \/ /\ Found(B, n) # Heap!EOF /\ Found(B, n) \in Heap!Page /\ Found(B, n) + n - 1 \in Heap!Page
            /\ \A q \in Found(B, n)..(Found(B, n) + n - 1) : ~Taken(B, q)
            /\ Heap!bitmap_insert_nbits(MapOf(B, PAGES, START), n) = MapOf(B \cup Run(Found(B, n), n), PAGES, START)
<1> DEFINE v == MapOf(B, PAGES, START)
           p == Found(B, n)
<1>1. PAGES \in Nat /\ START \in Nat /\ n \in Nat \ {0} /\ Heap!EOF = -1
  BY HeapSizes DEF Heap!EOF
<1>2. v.offset = START /\ v.bits = B /\ v = [bits |-> B, size |-> PAGES, offset |-> START]
  BY DEF MapOf
<1>3. p = Heap!Scan(v, n)
  BY DEF Found
<1>4. Heap!bitmap_insert_nbits(v, n)
        = IF p = Heap!EOF THEN v ELSE [v EXCEPT !.bits = @ \cup {p - v.offset + i : i \in 0..(n - 1)}]
  BY <1>3 DEF Heap!bitmap_insert_nbits
<1> HIDE DEF p, v
<1>5. [v EXCEPT !.bits = @ \cup {p - v.offset + i : i \in 0..(n - 1)}] = MapOf(B \cup Run(p, n), PAGES, START)
  <2>1. v.bits \cup {p - v.offset + i : i \in 0..(n - 1)} = B \cup Run(p, n)
    BY <1>2 DEF Run
  <2>2. \A X : [v EXCEPT !.bits = X] = MapOf(X, PAGES, START)
    BY <1>2 DEF MapOf
  <2> QED BY <2>1, <2>2
<1>6. \/ p = Heap!EOF
      \/ \E r \in Nat : p = START + r /\ FreeRun(B, PAGES, r, n)
  BY <1>1, <1>3, ScanFirst DEF v
<1>7. CASE p = Heap!EOF
  BY <1>4, <1>7 DEF p, v
<1>8. ASSUME NEW r \in Nat, p = START + r, FreeRun(B, PAGES, r, n)
      PROVE  /\ p # Heap!EOF /\ p \in Heap!Page /\ p + n - 1 \in Heap!Page
             /\ \A q \in p..(p + n - 1) : ~Taken(B, q)
  <2>1. \A j \in r..(r + n - 1) : j \in 0..(PAGES - 1) /\ j \notin B
    BY <1>8 DEF FreeRun
  <2>2. r \in r..(r + n - 1) /\ r + n - 1 \in r..(r + n - 1)
    BY <1>1
  <2>3. r \in 0..(PAGES - 1) /\ r + n - 1 \in 0..(PAGES - 1)
    BY <2>1, <2>2
  <2>4. p # Heap!EOF /\ p \in Heap!Page /\ p + n - 1 \in Heap!Page
    BY <1>1, <1>8, <2>3 DEF Heap!Page
  <2>5. ASSUME NEW q \in p..(p + n - 1) PROVE ~Taken(B, q)
    <3>1. q - START \in r..(r + n - 1)
      BY <1>1, <1>8
    <3> QED BY <3>1, <2>1 DEF Taken
  <2> QED BY <2>4, <2>5
<1>9. CASE p # Heap!EOF
  <2>1. PICK r \in Nat : p = START + r /\ FreeRun(B, PAGES, r, n)
    BY <1>6, <1>9
  <2>2. Heap!bitmap_insert_nbits(v, n) = MapOf(B \cup Run(p, n), PAGES, START)
    BY <1>4, <1>5, <1>9
  <2> QED BY <2>1, <2>2, <1>8 DEF p, v
<1> QED BY <1>7, <1>9

(* The same for one page. *)
LEMMA PageFound ==
  ASSUME NEW B
  PROVE  \/ Found(B, 1) = Heap!EOF /\ Heap!bitmap_insert_nbits(MapOf(B, PAGES, START), 1) = MapOf(B, PAGES, START)
         \/ /\ Found(B, 1) # Heap!EOF /\ Found(B, 1) \in Heap!Page /\ ~Taken(B, Found(B, 1))
            /\ Heap!bitmap_insert_nbits(MapOf(B, PAGES, START), 1) = MapOf(B \cup Run(Found(B, 1), 1), PAGES, START)
<1> DEFINE n == 1
           p == Found(B, n)
           w == Heap!bitmap_insert_nbits(MapOf(B, PAGES, START), n)
<1>1. n \in Nat /\ n > 0 /\ \A x \in Nat : x \in x..(x + n - 1)
  OBVIOUS
<1> HIDE DEF n
<1>2. \/ p = Heap!EOF /\ w = MapOf(B, PAGES, START)
      \/ /\ p # Heap!EOF /\ p \in Heap!Page /\ \A q \in p..(p + n - 1) : ~Taken(B, q)
         /\ w = MapOf(B \cup Run(p, n), PAGES, START)
  BY <1>1, PagesFound
<1> HIDE DEF p, w
<1>3. \/ p = Heap!EOF /\ w = MapOf(B, PAGES, START)
      \/ p # Heap!EOF /\ p \in Heap!Page /\ ~Taken(B, p) /\ w = MapOf(B \cup Run(p, n), PAGES, START)
  <2>1. p \in Heap!Page => p \in p..(p + n - 1)
    BY <1>1, PageNumbers
  <2> QED BY <1>2, <2>1
<1> QED BY <1>3 DEF p, w, n

(* Setting a->count. *)
LEMMA CountSet ==
  ASSUME NEW A \in ArenaMaps, NEW p \in Heap!Page, NEW k
  PROVE  [A EXCEPT ![p].count = k] = Over(A, p, [large |-> A[p].large, count |-> k, desc |-> A[p].desc])
<1>1. A[p] \in Arenas
  BY DEF ArenaMaps
<1>2. [A[p] EXCEPT !.count = k] = [large |-> A[p].large, count |-> k, desc |-> A[p].desc]
  BY <1>1 DEF Arenas
<1> QED BY <1>2 DEF Over

(* The last of two writes to an arena_t stays. *)
LEMMA OverTwice ==
  ASSUME NEW A \in ArenaMaps, NEW p \in Heap!Page, NEW a, NEW e
  PROVE  Over(Over(A, p, a), p, e) = Over(A, p, e)
BY DEF Over, ArenaMaps

(* The blocks that kmalloc chooses. *)
LEMMA DescFound ==
  ASSUME NEW s \in Nat, ~(s > Heap!MAX_BLOCK_SIZE)
  PROVE  Heap!DescFor(s) \in Heap!Desc /\ s <= Size(Heap!DescFor(s))
<1> DEFINE D == {d \in Heap!Desc : Heap!block_size(d) >= s}
           P(d) == Heap!block_size(d) >= s /\ \A e \in 0..(d - 1) : Heap!block_size(e) < s
<1>1. ARENA_DESC_COUNT \in Nat /\ ARENA_DESC_COUNT > 0 /\ \A d \in Heap!Desc : Heap!block_size(d) \in Nat
  BY HeapAssumption, BlockSizes DEF Size
<1>2. Heap!Desc = 0..(ARENA_DESC_COUNT - 1)
  BY DEF Heap!Desc
<1>3. ARENA_DESC_COUNT - 1 \in D
  BY <1>1, <1>2 DEF Heap!MAX_BLOCK_SIZE
<1>4. D \subseteq Nat /\ D # {}
  BY <1>1, <1>2, <1>3
<1>5. PICK d \in D : \A e \in D : d <= e
  <2> HIDE DEF D
  <2> QED BY <1>4, LeastOne
<1>6. d \in Heap!Desc /\ P(d)
  <2>1. ASSUME NEW e \in 0..(d - 1) PROVE Heap!block_size(e) < s
    <3>1. e \in Heap!Desc /\ ~(d <= e)
      BY <1>1, <1>2
    <3>2. e \notin D
      BY <3>1, <1>5
    <3> QED BY <3>1, <3>2, <1>1
  <2> QED BY <2>1
<1>7. Heap!DescFor(s) = CHOOSE e \in Heap!Desc : P(e)
  BY DEF Heap!DescFor
<1>8. Heap!DescFor(s) \in Heap!Desc /\ P(Heap!DescFor(s))
  <2> HIDE DEF P
  <2> QED BY <1>6, <1>7, Zenon
<1>9. Size(Heap!DescFor(s)) \in Nat
  BY <1>1, <1>8 DEF Size
<1> QED BY <1>8, <1>9 DEF Size
-----------------------------------------------------------------------------
(* The calls keep the invariant. *)
LEMMA LargeStep ==
  ASSUME HeapInv, NEW s \in Nat, s > 0, Heap!kmallocLarge(s)
  PROVE  HeapInv'
<1> DEFINE B == kernel_vmap.bits
           n == Heap!div_round_up(s + ARENA_SIZE, PAGE_SIZE)
           p == Found(B, n)
           a == [large |-> TRUE, count |-> n, desc |-> 0]
           m == [addr |-> p * PAGE_SIZE + ARENA_SIZE, size |-> s]
<1>1. kernel_vmap = MapOf(B, PAGES, START) /\ HeapKept(B, arena, free_list, live)
  BY DEF HeapInv
<1>2. n \in Nat /\ n > 0 /\ s + ARENA_SIZE <= Times(n) /\ Times(n - 1) < s + ARENA_SIZE
  <2>1. s + ARENA_SIZE \in Nat \ {0}
    BY HeapSizes
  <2> QED BY <2>1, RoundUp
<1>3. Heap!Scan(kernel_vmap, n) = p
  BY <1>1 DEF Found
<1>4. /\ kernel_vmap' = Heap!bitmap_insert_nbits(kernel_vmap, n)
      /\ p = Heap!EOF => arena' = arena /\ live' = live
      /\ p # Heap!EOF => arena' = [arena EXCEPT ![p] = a] /\ live' = live \cup {m}
      /\ free_list' = free_list
  BY <1>3 DEF Heap!kmallocLarge, Heap!kalloc_page
<1> HIDE DEF n, B
<1>5. CASE p = Heap!EOF
  <2>1. kernel_vmap' = kernel_vmap
    BY <1>1, <1>2, <1>4, <1>5, PagesFound
  <2> QED BY <2>1, <1>4, <1>5 DEF HeapInv
<1>6. CASE p # Heap!EOF
  <2>1. /\ p \in Heap!Page /\ p + n - 1 \in Heap!Page /\ \A q \in p..(p + n - 1) : ~Taken(B, q)
        /\ kernel_vmap' = MapOf(B \cup Run(p, n), PAGES, START)
    BY <1>1, <1>2, <1>4, <1>6, PagesFound
  <2> HIDE DEF p
  <2>2. p \in Nat /\ Behind(p) \in Nat /\ Behind(p) = p * PAGE_SIZE + ARENA_SIZE
    <3>1. p \in Nat
      BY <2>1, PageNumbers
    <3>2. p * PAGE_SIZE \in Nat
      BY <3>1, HeapSizes
    <3> QED BY <3>1, <3>2, HeapSizes DEF Behind
  <2>3. m \in Allocation /\ m.addr = Behind(p) /\ m.size = s
    BY <2>2 DEF Allocation
  <2>4. a \in Arenas /\ a.large = TRUE /\ a.count = n
    <3>1. 0 \in Heap!Desc
      BY HeapAssumption DEF Heap!Desc
    <3> QED BY <3>1, <1>2 DEF Arenas
  <2> HIDE DEF m, a
  <2>5. Heap!PagesOf(m) = p..(p + n - 1) /\ Home(m) = p
    BY <1>2, <2>2, <2>3, LargeSpan
  <2>6. HeapKept(B \cup Run(p, n), Over(arena, p, a), free_list, live \cup {m})
    BY <1>1, <1>2, <2>1, <2>3, <2>4, <2>5, LargeTaken
  <2>7. arena' = Over(arena, p, a) /\ live' = live \cup {m} /\ free_list' = free_list
    BY <1>4, <1>6 DEF Over
  <2>8. kernel_vmap'.bits = B \cup Run(p, n)
    BY <2>1 DEF MapOf
  <2> QED BY <2>1, <2>6, <2>7, <2>8 DEF HeapInv
<1> QED BY <1>5, <1>6

(* kmalloc of a small block, from the free list or a new page. *)
LEMMA SmallStep ==
  ASSUME HeapInv, NEW s \in Nat, s > 0, ~(s > Heap!MAX_BLOCK_SIZE), Heap!kmallocSmall(s)
  PROVE  HeapInv'
<1> DEFINE B == kernel_vmap.bits
           d == Heap!DescFor(s)
           p == Found(B, 1)
<1>1. kernel_vmap = MapOf(B, PAGES, START) /\ HeapKept(B, arena, free_list, live)
  BY DEF HeapInv
<1>2. d \in Heap!Desc /\ s <= Size(d)
  BY DescFound
<1>3. arena \in ArenaMaps /\ free_list \in ListMaps /\ free_list[d] \in Seq(Nat)
  BY <1>1, <1>2 DEF HeapKept, HeapTyped, ListMaps
<1>4. Heap!Scan(kernel_vmap, 1) = p
  BY <1>1 DEF Found
<1>5. CASE free_list[d] # <<>>
  <2> DEFINE b == free_list[d][1]
             h == Arena(b)
             m == [addr |-> b, size |-> s]
             a == [large |-> arena[h].large, count |-> arena[h].count - 1, desc |-> arena[h].desc]
  <2>1. /\ free_list' = [free_list EXCEPT ![d] = Tail(free_list[d])]
        /\ arena' = [arena EXCEPT ![h].count = @ - 1]
        /\ live' = live \cup {m} /\ kernel_vmap' = kernel_vmap
    BY <1>5 DEF Heap!kmallocSmall, Heap!Take, Arena
  <2>2. b \in Nat /\ b \in Elems(free_list[d])
    BY <1>3, <1>5, Tailed
  <2>3. h \in Heap!Page /\ SmallPage(B, arena, free_list, live, h) /\ arena[h].count > 0
    BY <1>1, <1>2, <2>2, FreeBlock
  <2>4. arena[h] \in Arenas /\ arena[h].large = FALSE
    BY <1>3, <2>3 DEF ArenaMaps, SmallPage
  <2>5. a \in Arenas /\ a.large = FALSE /\ a.desc = arena[h].desc /\ a.count = arena[h].count - 1
    BY <2>3, <2>4 DEF Arenas
  <2>6. m \in Allocation /\ m.addr = free_list[d][1] /\ m.size <= Size(d) /\ Home(m) = h
    BY <1>2, <2>2 DEF Allocation, Home
  <2>7. arena' = Over(arena, h, a)
    <3>1. arena' = [arena EXCEPT ![h].count = arena[h].count - 1]
      BY <2>1
    <3> QED BY <3>1, <1>3, <2>3, CountSet
  <2> HIDE DEF a, m, h
  <2>8. HeapKept(B, Over(arena, Home(m), a), Over(free_list, d, Tail(free_list[d])), live \cup {m})
    BY <1>1, <1>2, <1>5, <2>5, <2>6, BlockTaken
  <2>9. free_list' = Over(free_list, d, Tail(free_list[d]))
    BY <2>1 DEF Over
  <2> QED BY <1>1, <2>1, <2>6, <2>7, <2>8, <2>9 DEF HeapInv
<1>6. CASE free_list[d] = <<>>
  <2>1. /\ kernel_vmap' = Heap!bitmap_insert_nbits(kernel_vmap, 1)
        /\ p = Heap!EOF => arena' = arena /\ live' = live /\ free_list' = free_list
        /\ p # Heap!EOF => Heap!Take(d, Heap!Blocks(p, d),
             [arena EXCEPT ![p] = [large |-> FALSE, count |-> Total(d), desc |-> d]], s)
    BY <1>4, <1>6 DEF Heap!kmallocSmall, Heap!kalloc_page, Total
  <2>2. CASE p = Heap!EOF
    <3>1. kernel_vmap' = kernel_vmap
      BY <1>1, <2>1, <2>2, PageFound
    <3> QED BY <3>1, <2>1, <2>2 DEF HeapInv
  <2>3. CASE p # Heap!EOF
    <3>1. p \in Heap!Page /\ ~Taken(B, p) /\ kernel_vmap' = MapOf(B \cup Run(p, 1), PAGES, START)
      BY <1>1, <2>1, <2>3, PageFound
    <3>2. p \in Nat
      BY <3>1, PageNumbers
    <3> DEFINE t == Heap!Blocks(p, d)
               b == BlockAt(p, d, 0)
               m == [addr |-> b, size |-> s]
               k == Total(d)
               e == [large |-> FALSE, count |-> k, desc |-> d]
               a == [large |-> FALSE, count |-> k - 1, desc |-> d]
    <3> HIDE DEF p
    <3>3. t[1] = b /\ b \in Nat /\ Arena(b) = p
      <4>1. t[1] \in Nat /\ t[1] = b /\ b \in BlocksIn(p, d) /\ \A x \in BlocksIn(p, d) : Arena(x) = p
        <5>1. /\ t \in Seq(Nat) /\ t # <<>> /\ t[1] = BlockAt(p, d, 0) /\ Elems(t) = BlocksIn(p, d)
              /\ \A x \in BlocksIn(p, d) : Arena(x) = p
          BY <1>2, <3>2, BlocksSeq
        <5> HIDE DEF t
        <5>2. t[1] \in Nat /\ t[1] \in Elems(t)
          BY <5>1, Tailed
        <5> QED BY <5>1, <5>2
      <4> QED BY <4>1
    <3>4. /\ free_list' = [free_list EXCEPT ![d] = Tail(t)]
          /\ arena' = [[arena EXCEPT ![p] = e] EXCEPT ![p].count = @ - 1]
          /\ live' = live \cup {m}
      BY <2>1, <2>3, <3>3 DEF Heap!Take, Arena
    <3>5. k \in Nat /\ k > 0
      BY <1>2, BlockSizes
    <3> HIDE DEF k
    <3>6. e \in Arenas /\ a \in Arenas /\ a.large = FALSE /\ a.desc = d /\ a.count = k - 1
      BY <1>2, <3>5 DEF Arenas
    <3>7. arena' = Over(arena, p, a)
      <4> DEFINE A2 == Over(arena, p, e)
      <4>1. A2 \in ArenaMaps /\ A2[p] = e
        BY <1>3, <3>1, <3>6, ArenaOver
      <4>2. arena' = [A2 EXCEPT ![p].count = A2[p].count - 1]
        BY <3>4 DEF Over
      <4>3. [A2 EXCEPT ![p].count = k - 1]
              = Over(A2, p, [large |-> A2[p].large, count |-> k - 1, desc |-> A2[p].desc])
        <5> HIDE DEF A2
        <5> QED BY <3>1, <4>1, CountSet
      <4>4. A2[p].large = FALSE /\ A2[p].count = k /\ A2[p].desc = d
        BY <4>1
      <4>5. arena' = Over(A2, p, a)
        BY <4>2, <4>3, <4>4
      <4> QED BY <4>5, <1>3, <3>1, OverTwice
    <3>8. m \in Allocation /\ m.addr = BlockAt(p, d, 0) /\ m.size <= Size(d)
      BY <1>2, <3>3 DEF Allocation
    <3> HIDE DEF m, a
    <3>9. HeapKept(B \cup Run(p, 1), Over(arena, p, a), Over(free_list, d, Tail(t)), live \cup {m})
      BY <1>1, <1>2, <1>6, <3>1, <3>2, <3>6, <3>8, PageCut DEF k
    <3>10. free_list' = Over(free_list, d, Tail(t)) /\ live' = live \cup {m}
      BY <3>4 DEF Over
    <3>11. kernel_vmap'.bits = B \cup Run(p, 1)
      BY <3>1 DEF MapOf
    <3> QED BY <3>1, <3>7, <3>9, <3>10, <3>11 DEF HeapInv
  <2> QED BY <2>2, <2>3
<1> QED BY <1>5, <1>6
(* kfree. *)
LEMMA FreeStep ==
  ASSUME HeapInv, NEW m \in live, Heap!kfree(m)
  PROVE  HeapInv'
<1> DEFINE B == kernel_vmap.bits
           p == Home(m)
           e == arena[p]
           d == e.desc
           t == Append(free_list[d], m.addr)
           s == Heap!Without(t, p)
           a == [large |-> e.large, count |-> e.count + 1, desc |-> e.desc]
           full == e.count + 1 = Total(d)
<1>1. /\ kernel_vmap = MapOf(B, PAGES, START) /\ HeapKept(B, arena, free_list, live)
      /\ arena \in ArenaMaps /\ free_list \in ListMaps
  BY DEF HeapInv, HeapKept, HeapTyped
<1>2. p \in Heap!Page /\ e \in Arenas
  <2>1. p \in Heap!Page
    BY <1>1, InHeap
  <2> QED BY <2>1, <1>1 DEF ArenaMaps
<1>3. \A n \in Nat : Heap!kfree_page(p, n) => kernel_vmap'.bits = B \ Run(p, n)
                                              /\ kernel_vmap' = MapOf(kernel_vmap'.bits, PAGES, START)
  <2> SUFFICES ASSUME NEW n \in Nat, Heap!kfree_page(p, n)
               PROVE  kernel_vmap' = MapOf(B \ Run(p, n), PAGES, START)
    BY DEF MapOf
  <2>1. kernel_vmap' = [kernel_vmap EXCEPT !.bits = @ \ Run(p, n)]
    BY DEF Heap!kfree_page, Run
  <2> HIDE DEF p, B
  <2> QED BY <2>1, <1>1 DEF MapOf
<1>4. live' = live \ {m}
  BY DEF Heap!kfree
<1>5. CASE e.large = TRUE
  <2>1. Heap!kfree_page(p, e.count) /\ arena' = arena /\ free_list' = free_list
    BY <1>5 DEF Heap!kfree, Home, Arena
  <2>2. e.count \in Nat
    BY <1>2 DEF Arenas
  <2>3. HeapKept(B \ Run(p, e.count), arena, free_list, live \ {m})
    BY <1>1, <1>5, LargeFreed
  <2>4. kernel_vmap'.bits = B \ Run(p, e.count) /\ kernel_vmap' = MapOf(kernel_vmap'.bits, PAGES, START)
    BY <1>3, <2>1, <2>2
  <2> HIDE DEF B, p, e
  <2> QED BY <1>4, <2>1, <2>3, <2>4 DEF HeapInv
<1>6. CASE e.large = FALSE
  <2>1. /\ arena' = [arena EXCEPT ![p].count = @ + 1]
        /\ free_list' = [free_list EXCEPT ![d] = IF full THEN s ELSE t]
        /\ IF full THEN Heap!kfree_page(p, 1) ELSE kernel_vmap' = kernel_vmap
    <3>1. e.large # TRUE
      BY <1>6
    <3> QED BY <3>1 DEF Heap!kfree, Home, Arena, Total
  <2>2. a \in Arenas /\ a.large = FALSE /\ a.desc = d /\ a.count = e.count + 1 /\ d \in Heap!Desc
    BY <1>2, <1>6 DEF Arenas
  <2>3. arena' = Over(arena, p, a)
    <3>1. arena' = [arena EXCEPT ![p].count = e.count + 1]
      BY <2>1
    <3> HIDE DEF p
    <3> QED BY <3>1, <1>1, <1>2, CountSet
  <2>4. CASE full
    <3>1. free_list' = Over(free_list, d, s)
      BY <2>1, <2>4 DEF Over
    <3>2. kernel_vmap'.bits = B \ Run(p, 1) /\ kernel_vmap' = MapOf(kernel_vmap'.bits, PAGES, START)
      <4>1. 1 \in Nat /\ Heap!kfree_page(p, 1)
        BY <2>1, <2>4
      <4> HIDE DEF p, B
      <4> QED BY <4>1, <1>3
    <3>3. HeapKept(B \ Run(p, 1), Over(arena, p, a), Over(free_list, d, s), live \ {m})
      <4> HIDE DEF B, a
      <4>1. e.large = FALSE /\ e.count + 1 = Total(d) /\ s = Heap!Without(Append(free_list[d], m.addr), p)
        BY <1>6, <2>4
      <4> HIDE DEF s
      <4> QED BY <4>1, <1>1, <2>2, LastFreed
    <3> HIDE DEF B, p, a, s, d
    <3> QED BY <1>4, <2>3, <3>1, <3>2, <3>3 DEF HeapInv
  <2>5. CASE ~full
    <3>1. free_list' = Over(free_list, d, t) /\ kernel_vmap' = kernel_vmap
      BY <2>1, <2>5 DEF Over
    <3>2. HeapKept(B, Over(arena, p, a), Over(free_list, d, t), live \ {m})
      <4> HIDE DEF B, a
      <4>1. e.large = FALSE /\ e.count + 1 # Total(d)
        BY <1>6, <2>5
      <4> QED BY <4>1, <1>1, <2>2, BlockFreed
    <3> HIDE DEF p, a, t, d
    <3> QED BY <1>1, <1>4, <2>3, <3>1, <3>2 DEF HeapInv
  <2> QED BY <2>4, <2>5
<1>7. e.large = TRUE \/ e.large = FALSE
  BY <1>2 DEF Arenas
<1> QED BY <1>5, <1>6, <1>7

(* After arena_init. *)
LEMMA HeapStart == Heap!Init => HeapInv
<1> SUFFICES ASSUME Heap!Init PROVE HeapInv
  OBVIOUS
<1>1. /\ kernel_vmap = MapOf({}, PAGES, START) /\ arena = [p \in Heap!Page |-> Heap!NoArena]
      /\ free_list = [d \in Heap!Desc |-> <<>>] /\ live = {}
  BY DEF Heap!Init, Heap!bitmap_init, Heap!bitmap_new, MapOf
<1>2. kernel_vmap.bits = {}
  BY <1>1 DEF MapOf
<1>3. arena \in ArenaMaps
  <2>1. 0 \in Heap!Desc
    BY HeapAssumption DEF Heap!Desc
  <2>2. Heap!NoArena \in Arenas
    BY <2>1 DEF Heap!NoArena, Arenas
  <2> QED BY <1>1, <2>2 DEF ArenaMaps
<1>4. free_list \in ListMaps /\ \A d \in Heap!Desc : Elems(free_list[d]) = {} /\ Distinct(free_list[d])
  <2>1. <<>> \in Seq(Nat) /\ Len(<<>>) = 0
    OBVIOUS
  <2>2. \A d \in Heap!Desc : free_list[d] = <<>>
    BY <1>1
  <2>3. Elems(<<>>) = {} /\ Distinct(<<>>)
    BY <2>1 DEF Elems, Distinct
  <2>4. free_list \in ListMaps
    BY <1>1, <2>1 DEF ListMaps
  <2> QED BY <2>2, <2>3, <2>4
<1>5. HeapTyped({}, arena, free_list, live)
  BY <1>1, <1>3, <1>4 DEF HeapTyped
<1>6. \A p \in Heap!Page : FreePage({}, free_list, live, p)
  BY <1>1, <1>4 DEF FreePage, Taken, Used, In
<1> QED BY <1>1, <1>2, <1>5, <1>6 DEF HeapInv, HeapKept, PageKept

(* The other services do not touch the heap. *)
LEMMA HeapUnchanged == HeapInv /\ UNCHANGED heap => HeapInv'
BY DEF HeapInv, heap

(* Every step of the kernel keeps the invariant. *)
LEMMA HeapStep == HeapInv /\ [Next]_vars => HeapInv'
<1> SUFFICES ASSUME HeapInv, [Next]_vars PROVE HeapInv'
  OBVIOUS
<1>1. CASE Heap!Next
  <2>1. ASSUME NEW s \in Sizes, Heap!kmalloc(s) PROVE HeapInv'
    <3>1. s \in Nat /\ s > 0
      BY HeapSizes
    <3>2. CASE s > Heap!MAX_BLOCK_SIZE
      BY <2>1, <3>1, <3>2, LargeStep DEF Heap!kmalloc
    <3>3. CASE ~(s > Heap!MAX_BLOCK_SIZE)
      BY <2>1, <3>1, <3>3, SmallStep DEF Heap!kmalloc
    <3> QED BY <3>2, <3>3
  <2>2. ASSUME NEW m \in live, Heap!kfree(m) PROVE HeapInv'
    BY <2>2, FreeStep
  <2> QED BY <1>1, <2>1, <2>2 DEF Heap!Next
<1>2. CASE UNCHANGED heap
  BY <1>2, HeapUnchanged
<1> QED BY <1>1, <1>2 DEF Next, vars

(* The invariant of the heap: each page is free, is cut in blocks of one   *)
(* size that are in use or in the free list, or belongs to one large block *)
(* (kmalloc, kfree, kalloc_page, kfree_page), whatever the sizes.          *)
THEOREM HeapInvariance == Spec => []HeapInv
<1>1. Init => HeapInv
  BY HeapStart DEF Init
<1> QED BY <1>1, HeapStep, PTL DEF Spec
-----------------------------------------------------------------------------
(* What the invariant says to the callers. *)
LEMMA SameBlock ==
  ASSUME NEW p \in Nat, NEW d \in Heap!Desc, NEW b \in BlocksIn(p, d), NEW f \in BlocksIn(p, d),
         NEW k \in Nat, NEW l \in Nat, k <= Size(d), l <= Size(d),
         NEW x \in Heap!Bytes(b, k), x \in Heap!Bytes(f, l)
  PROVE  b = f /\ x \div PAGE_SIZE = p
<1>1. PICK i \in 0..(Total(d) - 1), j \in 0..(Total(d) - 1) : b = BlockAt(p, d, i) /\ f = BlockAt(p, d, j)
  BY DEF BlocksIn
<1>2. b \in Nat /\ f \in Nat /\ Size(d) \in Nat
  BY <1>1, BlockArena, BlockSizes
<1>3. x - b \in 0..(Size(d) - 1) /\ x - f \in 0..(Size(d) - 1) /\ b + (x - b) = x /\ f + (x - f) = x
  BY <1>2 DEF Heap!Bytes
<1>4. i = j
  <2>1. BlockAt(p, d, i) + (x - b) = BlockAt(p, d, j) + (x - f)
    BY <1>1, <1>3
  <2> DEFINE y == x - b
             z == x - f
  <2>2. y \in 0..(Size(d) - 1) /\ z \in 0..(Size(d) - 1) /\ BlockAt(p, d, i) + y = BlockAt(p, d, j) + z
    BY <1>3, <2>1
  <2> HIDE DEF y, z
  <2> QED BY <2>2, BlocksDiffer
<1>5. x \div PAGE_SIZE = p
  <2> DEFINE y == x - b
  <2>1. y \in 0..(Size(d) - 1) /\ BlockAt(p, d, i) + y = x
    BY <1>1, <1>3
  <2> HIDE DEF y
  <2> QED BY <2>1, BlockBytes
<1> QED BY <1>1, <1>4, <1>5

(* The free blocks are those of the free lists. *)
LEMMA FreeIn ==
  ASSUME HeapInv, NEW o \in Heap!FreeBlocks
  PROVE  \E d \in Heap!Desc : /\ o = [addr |-> o.addr, size |-> Size(d)] /\ o.addr \in Elems(free_list[d])
<1>1. PICK d \in Heap!Desc : o \in {[addr |-> b, size |-> Heap!block_size(d)] : b \in Heap!ToSet(free_list[d])}
  BY DEF Heap!FreeBlocks
<1>2. free_list[d] \in Seq(Nat)
  BY DEF HeapInv, HeapKept, HeapTyped, ListMaps
<1>3. Heap!ToSet(free_list[d]) = Elems(free_list[d])
  BY <1>2 DEF Heap!ToSet, Elems
<1> QED BY <1>1, <1>3 DEF Size

(* No allocation overlaps another one, a free block or an arena_t. *)
LEMMA HeapApart == HeapInv => Heap!Apart
<1> SUFFICES ASSUME HeapInv, NEW m \in live PROVE
      /\ \A o \in (live \cup Heap!FreeBlocks) \ {m} : Heap!Bytes(m.addr, m.size) \cap Heap!Bytes(o.addr, o.size) = {}
      /\ m.addr % PAGE_SIZE >= ARENA_SIZE
      /\ \A p \in Heap!PagesOf(m) : Heap!bitmap_contains(kernel_vmap, p)
  BY DEF Heap!Apart
<1> DEFINE B == kernel_vmap.bits
           h == Home(m)
<1>1. kernel_vmap = MapOf(B, PAGES, START) /\ HeapKept(B, arena, free_list, live) /\ HeapTyped(B, arena, free_list, live)
  BY DEF HeapInv, HeapKept
<1>2. /\ m \in Allocation /\ h \in Heap!Page /\ h \in Nat
      /\ SmallIn(B, arena, free_list, live, m) \/ LargeIn(B, arena, free_list, live, m)
      /\ \A q \in Heap!PagesOf(m) : q \in Heap!Page /\ Taken(B, q)
  <2>1. h \in Heap!Page
    BY <1>1, InHeap
  <2> QED BY <2>1, <1>1, InHeap, PageNumbers
<1>3. \A p \in Heap!PagesOf(m) : Heap!bitmap_contains(kernel_vmap, p)
  <2>1. kernel_vmap.offset = START
    BY <1>1 DEF MapOf
  <2> QED BY <2>1, <1>2 DEF Taken, Heap!bitmap_contains
<1>4. m.addr % PAGE_SIZE >= ARENA_SIZE
  <2>1. CASE SmallIn(B, arena, free_list, live, m)
    <3>1. SmallPage(B, arena, free_list, live, h) /\ m \in Used(live, h)
      BY <2>1, <1>1, InHeap DEF SmallIn
    <3>2. m.addr \in BlocksIn(h, arena[h].desc) /\ arena[h].desc \in Heap!Desc
      BY <3>1, <1>1, <1>2, InSmall DEF HeapTyped, ArenaMaps, Arenas
    <3> DEFINE d == arena[h].desc
               k == 0
    <3>3. PICK i \in 0..(Total(d) - 1) : m.addr = BlockAt(h, d, i)
      BY <3>2 DEF BlocksIn
    <3>4. k \in 0..(Size(d) - 1) /\ \A x \in Nat : x + k = x
      BY <3>2, BlockSizes
    <3> HIDE DEF k, h, d
    <3>5. (BlockAt(h, d, i) + k) % PAGE_SIZE >= ARENA_SIZE /\ BlockAt(h, d, i) \in Nat
      BY <3>2, <3>4, <1>2, BlockBytes DEF d
    <3> QED BY <3>3, <3>4, <3>5
  <2>2. CASE LargeIn(B, arena, free_list, live, m)
    <3>1. m.addr = Behind(h)
      BY <2>2 DEF LargeIn, Spans
    <3>2. Behind(h) = PAGE_SIZE * h + ARENA_SIZE
      BY <1>2, HeapSizes DEF Behind
    <3>3. ARENA_SIZE \in 0..(PAGE_SIZE - 1) /\ PAGE_SIZE \in Nat /\ PAGE_SIZE > 0
      BY HeapSizes
    <3> HIDE DEF h
    <3>4. (PAGE_SIZE * h + ARENA_SIZE) % PAGE_SIZE = ARENA_SIZE
      BY <3>3, <1>2, Quotient
    <3> QED BY <3>1, <3>2, <3>3, <3>4
  <2> QED BY <1>2, <2>1, <2>2
<1>5. ASSUME NEW o \in (live \cup Heap!FreeBlocks) \ {m},
             NEW x \in Heap!Bytes(m.addr, m.size), x \in Heap!Bytes(o.addr, o.size)
      PROVE  FALSE
  <2> DEFINE q == x \div PAGE_SIZE
  <2>1. q \in Heap!PagesOf(m) /\ q \in Heap!PagesOf(o)
    BY <1>5 DEF Heap!PagesOf
  <2>2. m \in Used(live, q) /\ q \in Heap!Page /\ q \in Nat
    <3>1. q \in Heap!Page
      BY <1>2, <2>1
    <3> QED BY <3>1, <2>1, PageNumbers DEF Used
  <2> DEFINE d == arena[q].desc
  <2>3. d \in Heap!Desc
    BY <1>1, <2>2 DEF HeapTyped, ArenaMaps, Arenas
  <2>4. CASE o \in live
    <3>1. o \in Used(live, q) /\ o # m
      BY <2>1, <2>4 DEF Used
    <3>2. SmallPage(B, arena, free_list, live, q)
      <4>1. CASE SmallIn(B, arena, free_list, live, m)
        BY <4>1, <2>1 DEF SmallIn
      <4>2. CASE LargeIn(B, arena, free_list, live, m)
        <5>1. Used(live, q) = {m}
          BY <4>2, <2>1 DEF LargeIn
        <5> QED BY <5>1, <3>1
      <4> QED BY <1>2, <4>1, <4>2
    <3>3. m.addr \in BlocksIn(q, d) /\ o.addr \in BlocksIn(q, d)
      BY <3>1, <3>2, <2>2, <1>1, InSmall
    <3>4. m.size <= Size(d) /\ o.size <= Size(d) /\ (m.addr = o.addr => m = o)
      BY <3>1, <3>2, <2>2 DEF SmallPage
    <3>5. m.size \in Nat /\ o.size \in Nat
      BY <1>1, <2>4 DEF HeapTyped, Allocation
    <3> HIDE DEF q, d
    <3>6. m.addr = o.addr
      BY <3>3, <3>4, <3>5, <2>2, <2>3, <1>5, SameBlock
    <3> QED BY <3>1, <3>4, <3>6
  <2>5. CASE o \in Heap!FreeBlocks
    <3>1. PICK e \in Heap!Desc : o = [addr |-> o.addr, size |-> Size(e)] /\ o.addr \in Elems(free_list[e])
      BY <2>5, FreeIn
    <3> DEFINE p == Arena(o.addr)
    <3>2. /\ p \in Heap!Page /\ SmallPage(B, arena, free_list, live, p) /\ arena[p].desc = e
          /\ o.addr \in In(free_list, e, p)
      BY <3>1, <1>1, FreeBlock
    <3>3. o.addr \in BlocksIn(p, e) /\ p \in Nat
      BY <3>2, PageNumbers DEF SmallPage
    <3>4. o.size = Size(e) /\ Size(e) \in Nat /\ Size(e) <= Size(e)
      <4>1. o.size = Size(e)
        BY <3>1
      <4> QED BY <4>1, BlockSizes
    <3>5. q = p
      <4> HIDE DEF p
      <4> QED BY <3>3, <3>4, <1>5, SameBlock DEF q
    <3>6. m.addr \in BlocksIn(p, e) /\ m.size <= Size(e) /\ m.addr \in Addrs(Used(live, p))
      <4>1. m \in Used(live, p)
        BY <2>2, <3>5
      <4> QED BY <4>1, <3>2, <1>1, InSmall DEF SmallPage, Addrs
    <3>7. m.size \in Nat
      BY <1>2 DEF Allocation
    <3>8. m.addr = o.addr
      <4> HIDE DEF p
      <4> QED BY <3>3, <3>4, <3>6, <3>7, <1>5, SameBlock
    <3> QED BY <3>2, <3>6, <3>8 DEF SmallPage
  <2> QED BY <2>4, <2>5
<1> QED BY <1>3, <1>4, <1>5
(* Heap counts with the Cardinality of FiniteSets. *)
LEMMA CardinalityIs == ASSUME NEW S PROVE Heap!Cardinality(S) = Cardinality(S)
BY Zenon DEF Heap!Cardinality, Cardinality

(* A page is taken exactly while it is in use, and the counts agree. *)
LEMMA HeapNoLeak == HeapInv => Heap!NoLeak
<1> SUFFICES ASSUME HeapInv, NEW p \in Heap!Page PROVE
      LET used == {m \in live : p \in Heap!PagesOf(m)}
          a == arena[p]
          free == {b \in Heap!FreeBlocks : Heap!get_arena_from_block(b.addr) = p}
      IN  /\ Heap!bitmap_contains(kernel_vmap, p) <=> used # {}
          /\ used = {} => free = {}
          /\ (\E m \in used : Heap!get_arena_from_block(m.addr) = p) /\ ~a.large =>
              a.count = Cardinality(free) /\ a.count + Cardinality(used) = Heap!total_block(a.desc)
  BY CardinalityIs DEF Heap!NoLeak
<1> DEFINE B == kernel_vmap.bits
           used == {m \in live : p \in Heap!PagesOf(m)}
           a == arena[p]
           d == a.desc
           free == {b \in Heap!FreeBlocks : Heap!get_arena_from_block(b.addr) = p}
           Fr == In(free_list, d, p)
           f == [b \in Fr |-> [addr |-> b, size |-> Size(d)]]
<1>1. /\ kernel_vmap = MapOf(B, PAGES, START) /\ HeapTyped(B, arena, free_list, live)
      /\ PageKept(B, arena, free_list, live, p)
  BY DEF HeapInv, HeapKept
<1>2. used = Used(live, p)
  BY DEF Used
<1>3. Heap!bitmap_contains(kernel_vmap, p) <=> Taken(B, p)
  <2>1. kernel_vmap.offset = START
    BY <1>1 DEF MapOf
  <2> QED BY <2>1 DEF Taken, Heap!bitmap_contains
<1>4. \A o \in free : \E e \in Heap!Desc : o.addr \in In(free_list, e, p) /\ o = [addr |-> o.addr, size |-> Size(e)]
  BY FreeIn DEF In, Arena
<1>5. d \in Heap!Desc
  BY <1>1 DEF HeapTyped, ArenaMaps, Arenas
<1>6. \A b \in Fr : [addr |-> b, size |-> Size(d)] \in free
  <2> SUFFICES ASSUME NEW b \in Fr PROVE [addr |-> b, size |-> Size(d)] \in free
    OBVIOUS
  <2>1. b \in Elems(free_list[d]) /\ Arena(b) = p
    BY DEF In
  <2>2. free_list[d] \in Seq(Nat)
    BY <1>1, <1>5 DEF HeapTyped, ListMaps
  <2>3. b \in Heap!ToSet(free_list[d])
    BY <2>1, <2>2 DEF Elems, Heap!ToSet
  <2>4. [addr |-> b, size |-> Size(d)] \in Heap!FreeBlocks
    BY <2>3, <1>5 DEF Heap!FreeBlocks, Size
  <2> QED BY <2>1, <2>4 DEF Arena
<1> HIDE DEF used, free, Fr
<1>7. CASE FreePage(B, free_list, live, p)
  <2>1. ~Taken(B, p) /\ used = {} /\ \A e \in Heap!Desc : In(free_list, e, p) = {}
    BY <1>2, <1>7 DEF FreePage
  <2>2. free = {}
    BY <2>1, <1>4
  <2> QED BY <2>1, <2>2, <1>3 DEF used, free
<1>8. CASE SmallPage(B, arena, free_list, live, p)
  <2>1. Taken(B, p) /\ used # {} /\ (\A e \in Heap!Desc \ {d} : In(free_list, e, p) = {}) /\ a.count = Cardinality(Fr)
    BY <1>2, <1>8 DEF SmallPage, Fr
  <2>2. IsFiniteSet(Fr) /\ a.count + Cardinality(used) = Total(d)
    BY <1>1, <1>2, <1>8, CountsAgree DEF Fr
  <2>3. f \in [Fr -> free]
    BY <1>6
  <2>4. \A x \in Fr, y \in Fr : f[x] = f[y] => x = y
    OBVIOUS
  <2>5. \A z \in free : \E x \in Fr : f[x] = z
    <3> SUFFICES ASSUME NEW z \in free PROVE \E x \in Fr : f[x] = z
      OBVIOUS
    <3>1. PICK e \in Heap!Desc : z.addr \in In(free_list, e, p) /\ z = [addr |-> z.addr, size |-> Size(e)]
      BY <1>4
    <3>2. e = d /\ z.addr \in Fr
      BY <3>1, <2>1 DEF Fr
    <3>3. f[z.addr] = [addr |-> z.addr, size |-> Size(d)]
      BY <3>2
    <3> QED BY <3>1, <3>2, <3>3
  <2>6. Cardinality(Fr) = Cardinality(free)
    <3> HIDE DEF f
    <3> QED BY <2>2, <2>3, <2>4, <2>5, SameNumber
  <2> QED BY <2>1, <2>2, <2>6, <1>3 DEF used, free, Total
<1>9. CASE LargePage(B, arena, free_list, live, p)
  <2>1. PICK m \in live : used = {m} /\ Spans(arena, m)
    BY <1>2, <1>9 DEF LargePage
  <2>2. Taken(B, p)
    BY <1>9 DEF LargePage
  <2>3. ~((\E o \in used : Heap!get_arena_from_block(o.addr) = p) /\ ~a.large)
    BY <2>1 DEF Spans, Home, Arena
  <2>4. used # {}
    BY <2>1
  <2> QED BY <2>2, <2>3, <2>4, <1>3 DEF used, free
<1> QED BY <1>1, <1>7, <1>8, <1>9 DEF PageKept

(* The first run of free pages is found. *)
LEMMA HeapFirstFit == HeapInv => Heap!FirstFit
<1> SUFFICES ASSUME HeapInv, NEW n \in 1..PAGES PROVE
      LET runs == {i \in Heap!Page : \A j \in i..(i + n - 1) :
                     j \in Heap!Page /\ ~Heap!bitmap_contains(kernel_vmap, j)}
          start == Heap!Scan(kernel_vmap, n)
      IN  IF runs = {} THEN start = Heap!EOF ELSE start \in runs /\ \A i \in runs : start <= i
  BY DEF Heap!FirstFit
<1> DEFINE B == kernel_vmap.bits
           runs == {i \in Heap!Page : \A j \in i..(i + n - 1) :
                      j \in Heap!Page /\ ~Heap!bitmap_contains(kernel_vmap, j)}
           start == Heap!Scan(kernel_vmap, n)
<1>1. kernel_vmap = MapOf(B, PAGES, START)
  BY DEF HeapInv
<1>2. PAGES \in Nat /\ START \in Nat /\ n \in Nat \ {0}
  BY HeapSizes
<1>3. \A j : Heap!bitmap_contains(kernel_vmap, j) <=> j - START \in B
  <2>1. kernel_vmap.offset = START
    BY <1>1 DEF MapOf
  <2> QED BY <2>1 DEF Heap!bitmap_contains
<1>4. \/ start = Heap!EOF /\ \A r \in Nat : ~FreeRun(B, PAGES, r, n)
      \/ \E r \in Nat : /\ start = START + r /\ FreeRun(B, PAGES, r, n)
                        /\ \A q \in Nat : FreeRun(B, PAGES, q, n) => r <= q
  BY <1>1, <1>2, ScanFirst
<1> HIDE DEF B, start
<1>5. \A r \in Nat : FreeRun(B, PAGES, r, n) => START + r \in runs
  <2> SUFFICES ASSUME NEW r \in Nat, FreeRun(B, PAGES, r, n) PROVE START + r \in runs
    OBVIOUS
  <2>1. \A j \in r..(r + n - 1) : j \in 0..(PAGES - 1) /\ j \notin B
    BY DEF FreeRun
  <2>2. START + r \in Heap!Page
    <3>1. r \in r..(r + n - 1)
      BY <1>2
    <3> QED BY <3>1, <2>1, <1>2 DEF Heap!Page
  <2>3. ASSUME NEW j \in (START + r)..(START + r + n - 1)
        PROVE  j \in Heap!Page /\ ~Heap!bitmap_contains(kernel_vmap, j)
    <3>1. j - START \in r..(r + n - 1)
      BY <1>2
    <3>2. j - START \in 0..(PAGES - 1) /\ j - START \notin B
      BY <3>1, <2>1
    <3> QED BY <3>2, <1>2, <1>3 DEF Heap!Page
  <2> QED BY <2>2, <2>3
<1>6. \A i \in runs : i - START \in Nat /\ FreeRun(B, PAGES, i - START, n)
  <2> SUFFICES ASSUME NEW i \in runs PROVE i - START \in Nat /\ FreeRun(B, PAGES, i - START, n)
    OBVIOUS
  <2>1. i \in Heap!Page /\ \A j \in i..(i + n - 1) : j \in Heap!Page /\ ~Heap!bitmap_contains(kernel_vmap, j)
    OBVIOUS
  <2>2. i \in Nat /\ i - START \in Nat
    BY <2>1, <1>2 DEF Heap!Page
  <2>3. ASSUME NEW k \in (i - START)..(i - START + n - 1) PROVE k \in 0..(PAGES - 1) /\ k \notin B
    <3> DEFINE j == START + k
    <3>1. j \in i..(i + n - 1) /\ j - START = k /\ k \in Int
      BY <2>2, <1>2
    <3> HIDE DEF j
    <3>2. j \in Heap!Page /\ ~(j - START \in B)
      BY <3>1, <2>1, <1>3
    <3> QED BY <3>1, <3>2, <1>2 DEF Heap!Page
  <2> QED BY <2>2, <2>3 DEF FreeRun
<1> HIDE DEF runs
<1>7. CASE start = Heap!EOF /\ \A r \in Nat : ~FreeRun(B, PAGES, r, n)
  <2>1. runs = {}
    BY <1>6, <1>7
  <2> QED BY <2>1, <1>7 DEF runs, start
<1>8. ASSUME NEW r \in Nat, start = START + r, FreeRun(B, PAGES, r, n),
             \A q \in Nat : FreeRun(B, PAGES, q, n) => r <= q
      PROVE  start \in runs /\ \A i \in runs : start <= i
  <2>1. start \in runs
    BY <1>5, <1>8
  <2>2. ASSUME NEW i \in runs PROVE start <= i
    <3>1. r <= i - START /\ i - START \in Nat /\ i \in Heap!Page
      BY <1>6, <1>8 DEF runs
    <3>2. i \in Nat
      BY <3>1, PageNumbers
    <3> QED BY <3>1, <3>2, <1>2, <1>8
  <2> QED BY <2>1, <2>2
<1>9. CASE start # Heap!EOF \/ \E r \in Nat : FreeRun(B, PAGES, r, n)
  <2>1. start \in runs /\ \A i \in runs : start <= i
    BY <1>4, <1>8, <1>9
  <2> QED BY <2>1 DEF runs, start
<1> QED BY <1>7, <1>9

(* kmalloc gives what no other allocation, free block or arena_t overlaps, *)
(* kfree gives pages back exactly when nothing in them is in use, and      *)
(* kalloc_page finds the first run of free pages, whatever the number of   *)
(* pages, their size and the sizes of the blocks.                          *)
THEOREM HeapIsSound == Spec => []HeapSound
<1>1. HeapInv => HeapSound
  BY HeapApart, HeapNoLeak, HeapFirstFit DEF HeapSound
<1> QED BY <1>1, HeapInvariance, PTL
=============================================================================
