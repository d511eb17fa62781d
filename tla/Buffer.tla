------------------------------- MODULE Buffer -------------------------------
(***************************************************************************)
(* The block buffer cache of kernel/buffer.c: bread, bwrite and brelse, as *)
(* called by tasks in system calls.  The code runs with interrupts off, so *)
(* a step is everything between two points where a task can be suspended:  *)
(* in dev_request while a block is transferred, and in task_block while it *)
(* waits for a free buffer.                                                *)
(*                                                                         *)
(* A block stands for a pair of device and block number.  The contents of  *)
(* a block are a version number; a transfer moves a whole block at some    *)
(* moment of the call of dev_request.  A failed assert stops the kernel.   *)
(***************************************************************************)
EXTENDS Naturals, Sequences, FiniteSets, SequencesExt

CONSTANTS Task, Block,
          NBUF,         \* buffers that fit between buffer_ptr and buffer_data
          MaxRefs,      \* bound: references that one task holds
          MaxVersion    \* bound: modifications of buffers

ASSUME BufferAssumption == NBUF \in Nat \ {0} /\ MaxRefs \in Nat /\ MaxVersion \in Nat

Buf == 1..NBUF

VARIABLES
    buf,         \* the buffer_t records, up to buff_cnt in use
    buff_cnt,
    hash_table,  \* buffers in the hash table, the last inserted first
    free_list,   \* unused buffers, the last released first
    wait_list,   \* tasks waiting for a free buffer
    disk,        \* contents of the blocks on the device
    pc,          \* where a task is: "out" of the cache or suspended in it
    io,          \* the transfer a task is suspended in: buffer and block
    held,        \* held[t][b]: references to b that bread has given to t
    halted,      \* an assert has failed
    version, latest, raced  \* history: last modification, of each block;
                            \* a buffer was modified, or a write of it
                            \* begun, during a transfer of it

vars == <<buf, buff_cnt, hash_table, free_list, wait_list, disk, pc, io, held,
          halted, version, latest, raced>>
history == <<version, latest, raced>>

Reading == {"read", "read_done"}
Writing == {"write", "write_done", "release", "release_done"}

(* Suspended in a transfer of buffer b. *)
Transfers(b) == {t \in Task : pc[t] \in Reading \cup Writing /\ io[t].buf = b}

NoIo == [buf |-> 0, block |-> 0]

Init ==
    /\ buf = [b \in Buf |-> [block |-> 0, count |-> 0, dirty |-> FALSE, valid |-> FALSE, data |-> 0]]
    /\ buff_cnt = 0 /\ version = 0 /\ halted = FALSE /\ raced = FALSE
    /\ hash_table = <<>> /\ free_list = <<>> /\ wait_list = <<>>
    /\ disk = [k \in Block |-> 0] /\ latest = [k \in Block |-> 0]
    /\ pc = [t \in Task |-> "out"]
    /\ io = [t \in Task |-> NoIo]
    /\ held = [t \in Task |-> [b \in Buf |-> 0]]

-----------------------------------------------------------------------------
(* The places of a block in the hash table, and the buffer at the first of *)
(* them, which get_from_hash_table finds.                                  *)
Cached(k) == {i \in DOMAIN hash_table : buf[hash_table[i]].block = k}

Found(k) == hash_table[Min(Cached(k))]

(* list_remove of the node of b, if it is in the list. *)
Without(s, b) ==
    LET k == CHOOSE i \in DOMAIN s : s[i] = b
    IN  IF ~Contains(s, b) THEN s
        ELSE [i \in 1..(Len(s) - 1) |-> IF i < k THEN s[i] ELSE s[i + 1]]

References(t) == FoldFunction(+, 0, held[t])

CanCall(t) == ~halted /\ pc[t] = "out"

(* bread once getblk has buffer b for block k, with fields f: it is done   *)
(* when the contents are valid and asks the device otherwise.              *)
Got(t, b, k, f) ==
    /\ buf' = [buf EXCEPT ![b] = f]
    /\ IF f.valid
       THEN /\ held' = [held EXCEPT ![t][b] = @ + 1]
            /\ UNCHANGED <<pc, io>>
       ELSE /\ pc' = [pc EXCEPT ![t] = "read"]
            /\ io' = [io EXCEPT ![t] = [buf |-> b, block |-> k]]
            /\ UNCHANGED held

(* Mutant of BreadHit: the buffer stays on the free list. *)
BreadHitKeepsFree(t, k) ==
    /\ CanCall(t) /\ References(t) < MaxRefs /\ Cached(k) # {}
    /\ LET b == Found(k) IN Got(t, b, k, [buf[b] EXCEPT !.count = @ + 1])
    /\ UNCHANGED <<buff_cnt, hash_table, free_list, wait_list, disk, halted, history>>

(* bread of a cached block, whether its contents have arrived or not. *)
BreadHit(t, k) ==
    /\ CanCall(t) /\ References(t) < MaxRefs /\ Cached(k) # {}
    /\ LET b == Found(k)
       IN  /\ Got(t, b, k, [buf[b] EXCEPT !.count = @ + 1])
           /\ free_list' = Without(free_list, b)
    /\ UNCHANGED <<buff_cnt, hash_table, wait_list, disk, halted, history>>

(* bread of another block takes a new buffer as long as there is room. *)
BreadNew(t, k) ==
    /\ CanCall(t) /\ References(t) < MaxRefs /\ Cached(k) = {} /\ buff_cnt < NBUF
    /\ LET b == buff_cnt + 1
       IN  /\ buff_cnt' = b
           /\ Got(t, b, k, [block |-> k, count |-> 1, dirty |-> FALSE, valid |-> FALSE, data |-> buf[b].data])
           /\ hash_table' = <<b>> \o hash_table
    /\ UNCHANGED <<free_list, wait_list, disk, halted, history>>

(* Mutant of Reused: the old contents count as valid. *)
ReusedValid(b, k) == [buf[b] EXCEPT !.block = k, !.count = 1]

(* What is left of the buffer that a block had, when it is taken again. *)
Reused(b, k) == [buf[b] EXCEPT !.block = k, !.count = 1, !.valid = FALSE]

(* Mutant of BreadReuse: the old hash entry stays. *)
BreadReuseHashed(t, k) ==
    /\ CanCall(t) /\ References(t) < MaxRefs /\ Cached(k) = {} /\ buff_cnt = NBUF
    /\ free_list # <<>>
    /\ LET b == Last(free_list)
       IN  /\ free_list' = Front(free_list)
           /\ Got(t, b, k, Reused(b, k))
           /\ hash_table' = <<b>> \o hash_table
           /\ halted' = buf[b].dirty
    /\ UNCHANGED <<buff_cnt, wait_list, disk, history>>

(* Then it takes the buffer released longest ago; getblk asserts that the  *)
(* buffer is not dirty.                                                    *)
BreadReuse(t, k) ==
    /\ CanCall(t) /\ References(t) < MaxRefs /\ Cached(k) = {} /\ buff_cnt = NBUF
    /\ free_list # <<>>
    /\ LET b == Last(free_list)
       IN  /\ free_list' = Front(free_list)
           /\ halted' = buf[b].dirty
           /\ IF buf[b].dirty
              THEN /\ buf' = [buf EXCEPT ![b].valid = FALSE]
                   /\ hash_table' = Without(hash_table, b)
                   /\ UNCHANGED <<held, pc, io>>
              ELSE /\ Got(t, b, k, Reused(b, k))
                   /\ hash_table' = <<b>> \o Without(hash_table, b)
    /\ UNCHANGED <<buff_cnt, wait_list, disk, history>>

(* With every buffer in use the task waits.  Nobody ever goes on from here *)
(* (see Wake), so the loop of get_free_buffer has no second round.         *)
BreadWait(t, k) ==
    /\ CanCall(t) /\ References(t) < MaxRefs /\ Cached(k) = {} /\ buff_cnt = NBUF
    /\ free_list = <<>>
    /\ wait_list' = Append(wait_list, t)
    /\ pc' = [pc EXCEPT ![t] = "wait"]
    /\ UNCHANGED <<buf, buff_cnt, hash_table, free_list, disk, io, held, halted, history>>

(* The read that bread asked for has returned. *)
BreadReturn(t) ==
    /\ ~halted /\ pc[t] = "read_done"
    /\ buf' = [buf EXCEPT ![io[t].buf].dirty = FALSE, ![io[t].buf].valid = TRUE]
    /\ held' = [held EXCEPT ![t][io[t].buf] = @ + 1]
    /\ pc' = [pc EXCEPT ![t] = "out"]
    /\ io' = [io EXCEPT ![t] = NoIo]
    /\ UNCHANGED <<buff_cnt, hash_table, free_list, wait_list, disk, halted, history>>

-----------------------------------------------------------------------------
(* A task changes the data of a buffer it holds and marks it dirty. *)
Modify(t, b) ==
    /\ CanCall(t) /\ held[t][b] > 0 /\ version < MaxVersion
    /\ version' = version + 1
    /\ latest' = [latest EXCEPT ![buf[b].block] = version + 1]
    /\ raced' = (raced \/ Transfers(b) # {})
    /\ buf' = [buf EXCEPT ![b].data = version + 1, ![b].dirty = TRUE]
    /\ UNCHANGED <<buff_cnt, hash_table, free_list, wait_list, disk, pc, io, held, halted>>

(* bwrite of a dirty buffer; of a clean one it does nothing. *)
Bwrite(t, b) ==
    /\ CanCall(t) /\ held[t][b] > 0 /\ buf[b].dirty
    /\ pc' = [pc EXCEPT ![t] = "write"]
    /\ io' = [io EXCEPT ![t] = [buf |-> b, block |-> buf[b].block]]
    /\ raced' = (raced \/ Transfers(b) # {})
    /\ UNCHANGED <<buf, buff_cnt, hash_table, free_list, wait_list, disk, held, halted, version, latest>>

(* The device serves the request of t, at some time of its call. *)
Transfer(t) ==
    /\ ~halted
    /\ \/ /\ pc[t] = "read"
          /\ buf' = [buf EXCEPT ![io[t].buf].data = disk[io[t].block]]
          /\ pc' = [pc EXCEPT ![t] = "read_done"]
          /\ UNCHANGED disk
       \/ /\ pc[t] \in {"write", "release"}
          /\ disk' = [disk EXCEPT ![io[t].block] = buf[io[t].buf].data]
          /\ pc' = [pc EXCEPT ![t] = IF @ = "write" THEN "write_done" ELSE "release_done"]
          /\ UNCHANGED buf
    /\ UNCHANGED <<buff_cnt, hash_table, free_list, wait_list, io, held, halted, history>>

(* The end of bwrite: the flags are set after the transfer. *)
Written(b) == [buf EXCEPT ![b].dirty = FALSE, ![b].valid = TRUE]

BwriteReturn(t) ==
    /\ ~halted /\ pc[t] = "write_done"
    /\ buf' = Written(io[t].buf)
    /\ pc' = [pc EXCEPT ![t] = "out"]
    /\ io' = [io EXCEPT ![t] = NoIo]
    /\ UNCHANGED <<buff_cnt, hash_table, free_list, wait_list, disk, held, halted, history>>

(* The end of brelse.  A waiter is taken out of wait_list and passed to    *)
(* task_unblock, which removes its node once more: list_remove asserts     *)
(* that the node is in a list, and it is not.                              *)
Wake ==
    /\ halted' = (wait_list # <<>>)
    /\ wait_list' = IF wait_list = <<>> THEN <<>> ELSE Tail(wait_list)

BrelseShared(t, b) ==
    /\ CanCall(t) /\ held[t][b] > 0 /\ buf[b].count > 1
    /\ buf' = [buf EXCEPT ![b].count = @ - 1]
    /\ held' = [held EXCEPT ![t][b] = @ - 1]
    /\ UNCHANGED <<buff_cnt, hash_table, free_list, wait_list, disk, pc, io, halted, history>>

(* The last release puts the buffer on the free list, and only then writes *)
(* it if it is dirty.                                                      *)
BrelseLast(t, b) ==
    /\ CanCall(t) /\ held[t][b] > 0 /\ buf[b].count = 1
    /\ buf' = [buf EXCEPT ![b].count = 0]
    /\ held' = [held EXCEPT ![t][b] = @ - 1]
    /\ free_list' = <<b>> \o free_list
    /\ \/ /\ buf[b].dirty
          /\ pc' = [pc EXCEPT ![t] = "release"]
          /\ io' = [io EXCEPT ![t] = [buf |-> b, block |-> buf[b].block]]
          /\ raced' = (raced \/ Transfers(b) # {})
          /\ UNCHANGED <<wait_list, halted>>
       \/ /\ ~buf[b].dirty
          /\ Wake
          /\ UNCHANGED <<pc, io, raced>>
    /\ UNCHANGED <<buff_cnt, hash_table, disk, version, latest>>

BrelseReturn(t) ==
    /\ ~halted /\ pc[t] = "release_done"
    /\ buf' = Written(io[t].buf)
    /\ pc' = [pc EXCEPT ![t] = "out"]
    /\ io' = [io EXCEPT ![t] = NoIo]
    /\ Wake
    /\ UNCHANGED <<buff_cnt, hash_table, free_list, disk, held, history>>

Next == \E t \in Task :
    \/ \E k \in Block : BreadHit(t, k) \/ BreadNew(t, k) \/ BreadReuse(t, k) \/ BreadWait(t, k)
    \/ \E b \in Buf : Modify(t, b) \/ Bwrite(t, b) \/ BrelseShared(t, b) \/ BrelseLast(t, b)
    \/ BreadReturn(t) \/ Transfer(t) \/ BwriteReturn(t) \/ BrelseReturn(t)

Spec == Init /\ [][Next]_vars

-----------------------------------------------------------------------------
(* Types and ranges of the fields of buffer.c. *)
TypeOK ==
    /\ buf \in [Buf -> [block : Block \cup {0}, count : Nat,
                        dirty : BOOLEAN, valid : BOOLEAN, data : 0..MaxVersion]]
    /\ buff_cnt \in 0..NBUF /\ version \in 0..MaxVersion
    /\ hash_table \in Seq(Buf) /\ free_list \in Seq(Buf) /\ wait_list \in Seq(Task)
    /\ disk \in [Block -> 0..MaxVersion] /\ latest \in [Block -> 0..MaxVersion]
    /\ pc \in [Task -> {"out", "wait"} \cup Reading \cup Writing]
    /\ io \in [Task -> [buf : Buf \cup {0}, block : Block \cup {0}]]
    /\ held \in [Task -> [Buf -> Nat]]
    /\ halted \in BOOLEAN /\ raced \in BOOLEAN

(* The references to b: the number 0 is the one that t is about to get.    *)
Refs(b) == UNION {{t} \X ((IF pc[t] \in Reading /\ io[t].buf = b THEN 0 ELSE 1)..held[t][b]) : t \in Task}

(* The count of a buffer is the number of references that callers of bread *)
(* have or are about to get, and the free list holds exactly the buffers   *)
(* without one, each once: no buffer in use is ever given to another block *)
(* and none is lost (getblk, brelse).                                      *)
RefsCounted ==
    ~halted => /\ \A b \in Buf : buf[b].count = Cardinality(Refs(b))
               /\ ToSet(free_list) = {b \in 1..buff_cnt : buf[b].count = 0}
               /\ IsInjective(free_list)

(* A block has at most one buffer, and every buffer is in the hash table   *)
(* once: two tasks that ask for one block share a buffer, also when the    *)
(* first is still reading it (getblk, hash_insert, hash_remove).           *)
OneBufferPerBlock ==
    ~halted => /\ ToSet(hash_table) = 1..buff_cnt
               /\ IsInjective(hash_table)
               /\ \A a, b \in 1..buff_cnt : buf[a].block = buf[b].block => a = b

(* A transfer in flight moves the block that its buffer still stands for:  *)
(* bwrite writes the data of a buffer to its own place on the device       *)
(* (buffer.c:159).  It does not hold: of two overlapping writes of a       *)
(* released buffer the first to return clears the dirty flag, the buffer   *)
(* is taken for another block, and the second writes it to the old place.  *)
TransfersOwnBlock ==
    ~halted => \A t \in Task : pc[t] \in Reading \cup Writing => buf[io[t].buf].block = io[t].block

(* The contents a reader of block k gets, or would get from the disk. *)
Contents(k) ==
    LET there == {b \in 1..buff_cnt : buf[b].block = k /\ buf[b].valid}
    IN  IF there = {} THEN disk[k] ELSE buf[CHOOSE b \in there : TRUE].data

(* As long as nobody modifies a buffer, or starts to write it, while a     *)
(* transfer of it is under way, no modification is lost: through every     *)
(* sharing, release, delayed write and reuse of buffers each block reads   *)
(* as it was last written (bread, bwrite, brelse).                         *)
Coherent == (~halted /\ ~raced) => \A k \in Block : Contents(k) = latest[k]

(* A clean, valid buffer of which no transfer is under way equals its      *)
(* block on the disk.                                                      *)
CleanIsOnDisk ==
    (~halted /\ ~raced) => \A b \in 1..buff_cnt :
        (buf[b].valid /\ ~buf[b].dirty /\ Transfers(b) = {}) => buf[b].data = disk[buf[b].block]

(* A task that leaves wait_list goes on: brelse wakes it (the comment at   *)
(* buffer.c:194, 081_bcache.md).  The kernel stops instead.                *)
WaitersWoken == [][\A t \in Task : (Contains(wait_list, t) /\ ~Contains(wait_list', t)) => ~halted']_vars
=============================================================================
