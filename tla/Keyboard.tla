------------------------------ MODULE Keyboard ------------------------------
(***************************************************************************)
(* The keyboard driver: keyboard_handler and keyboard_read of              *)
(* kernel/keyboard.c on the ring buffer of lib/fifo.c.  The handler and    *)
(* the readers (system calls) run with interrupts off: a step is one       *)
(* interrupt, or what a reader does until it blocks.                       *)
(*                                                                         *)
(* A scan code is a key, a flag for the prefix 0xe0 and one for make or    *)
(* break.  A character is a key and the column of keymap it comes from;    *)
(* what is kept of it in the ring is a running number, modulo Numbers, by  *)
(* which bytes are told apart.                                             *)
(***************************************************************************)
EXTENDS Naturals, Sequences, FiniteSets, SequencesExt

CONSTANTS Task, NULL,
          Keys,         \* the keys pressed, a subset of AllKeys
          BUFFER_SIZE,
          MaxCount,     \* bound: bytes asked for in one call
          Numbers       \* bound: running numbers of bytes

AllKeys == {"a", "1", "slash", "pad_1", "shift_l", "shift_r", "ctrl", "alt", "capslock", "numlock", "scrlock"}

ASSUME KeyboardAssumption ==
    /\ NULL \notin Task /\ Keys \subseteq AllKeys
    /\ BUFFER_SIZE \in Nat \ {0, 1} /\ MaxCount \in Nat \ {0} /\ Numbers \in Nat \ {0}

VARIABLES
    key_state,    \* keys (with their prefix) that keymap says are down
    extcode,      \* the last byte was the prefix
    locks,        \* capslock, numlock, scrlock: those that are on
    ctrl, alt, shift,
    fifo,         \* head, tail and buf of the ring
    waiter,       \* the task that waits for a character
    holder, lockq,  \* the lock: its holder, the queue of tasks blocked for it
    pc, want, got,  \* readers: where they are, bytes asked for, bytes read
    down, prefix, typed   \* the keyboard: keys down, half of a scan code
                          \* sent; the number of the next byte

reader == <<holder, lockq, pc, want, got>>
modifiers == <<locks, ctrl, alt, shift>>
vars == <<key_state, extcode, modifiers, fifo, waiter, reader, down, prefix, typed>>

INV == [key |-> "none", column |-> 0]
Alpha == {"a"}
Extended == {"slash", "pad_1", "ctrl", "alt"}  \* keys that exist with the prefix, too
Lock == {"capslock", "numlock", "scrlock"}
Invisible == Lock \cup {"shift_l", "shift_r", "ctrl", "alt"}

(* keymap: the character in column 0 or 1 of a key. *)
keycap(key, column) ==
    IF key \in Invisible \/ (key = "pad_1" /\ column = 1) THEN INV
    ELSE [key |-> key, column |-> column]

-----------------------------------------------------------------------------
fifo_index_next(i) == (i + 1) % BUFFER_SIZE
fifo_full(f) == fifo_index_next(f.tail) = f.head
fifo_empty(f) == f.head = f.tail

(* Mutant of fifo_put: a full ring is not emptied first. *)
fifo_putFull(f, byte) ==
    [f EXCEPT !.buf[f.tail] = byte, !.tail = fifo_index_next(f.tail)]

fifo_put(f, byte) ==
    LET g == IF fifo_full(f) THEN [f EXCEPT !.head = fifo_index_next(@)] ELSE f
    IN  [g EXCEPT !.buf[f.tail] = byte, !.tail = fifo_index_next(f.tail)]

fifo_get(f) == [f EXCEPT !.head = fifo_index_next(@)]

(* The bytes in the ring, the oldest first. *)
Contents(f) ==
    LET n == (f.tail + BUFFER_SIZE - f.head) % BUFFER_SIZE
    IN  [i \in 1..n |-> f.buf[(f.head + i - 1) % BUFFER_SIZE]]

Byte == 0..(Numbers - 1)

Init ==
    /\ key_state = {} /\ extcode = FALSE /\ locks = {}
    /\ ctrl = FALSE /\ alt = FALSE /\ shift = FALSE
    /\ fifo = [head |-> 0, tail |-> 0, buf |-> [i \in 0..(BUFFER_SIZE - 1) |-> 0]]
    /\ waiter = NULL /\ holder = NULL /\ lockq = <<>>
    /\ pc = [t \in Task |-> "out"]
    /\ want = [t \in Task |-> 0] /\ got = [t \in Task |-> 0]
    /\ down = {} /\ prefix = FALSE /\ typed = 0

-----------------------------------------------------------------------------
(* The keyboard interrupts. *)

(* Mutant of Wakes: the waiter is forgotten and stays blocked. *)
WakesNobody(w) == UNCHANGED pc

Wakes(w) == IF w = NULL THEN UNCHANGED pc ELSE pc' = [pc EXCEPT ![w] = "woken"]

(* The end of keyboard_handler: a visible character goes into the ring and *)
(* the waiter, if any, is unblocked.                                       *)
PutChar(ch) ==
    IF ch = INV
    THEN UNCHANGED <<fifo, waiter, pc, typed>>
    ELSE /\ fifo' = fifo_put(fifo, typed)
         /\ typed' = (typed + 1) % Numbers
         /\ Wakes(waiter)
         /\ waiter' = NULL

(* Mutant of Column: capslock works on every key. *)
ColumnAllKeys(key, ext, sh, lk) ==
    IF ext THEN IF key = "slash" THEN 0 ELSE 1
    ELSE IF ("capslock" \in lk) = sh THEN 0 ELSE 1

(* The column of keymap that is typed. *)
Column(key, ext, sh, lk) ==
    IF ext THEN IF key = "slash" THEN 0 ELSE 1
    ELSE IF (key \in Alpha /\ "capslock" \in lk) = sh THEN 0 ELSE 1

(* The prefix 0xe0. *)
PrefixByte ==
    /\ ~prefix /\ prefix' = TRUE
    /\ extcode' = TRUE
    /\ UNCHANGED <<key_state, modifiers, fifo, waiter, reader, down, typed>>

(* A key goes down, or repeats.  Locks are switched, modifiers computed    *)
(* from the keys that are down, and the character is typed.                *)
MakeCode(key) ==
    /\ (prefix => key \in Extended) /\ prefix' = FALSE /\ down' = down \cup {<<key, prefix>>}
    /\ extcode' = FALSE
    /\ key_state' = key_state \cup {<<key, extcode>>}
    /\ locks' = IF key \notin Lock THEN locks
                ELSE IF key \in locks THEN locks \ {key} ELSE locks \cup {key}
    /\ ctrl' = (<<"ctrl", FALSE>> \in key_state' \/ <<"ctrl", TRUE>> \in key_state')
    /\ alt' = (<<"alt", FALSE>> \in key_state' \/ <<"alt", TRUE>> \in key_state')
    /\ shift' = (<<"shift_l", FALSE>> \in key_state' \/ <<"shift_r", FALSE>> \in key_state')
    /\ PutChar(keycap(key, Column(key, extcode, shift', locks')))
    /\ UNCHANGED <<holder, lockq, want, got>>

(* A key goes up: the handler returns before the modifiers are computed. *)
BreakCode(key) ==
    /\ <<key, prefix>> \in down
    /\ prefix' = FALSE /\ down' = down \ {<<key, prefix>>}
    /\ extcode' = FALSE
    /\ key_state' = key_state \ {<<key, extcode>>}
    /\ UNCHANGED <<modifiers, fifo, waiter, reader, typed>>

(* A byte that is no key, like the answer to a command or a part of Pause. *)
IllegalCode ==
    /\ prefix' = FALSE /\ extcode' = FALSE
    /\ UNCHANGED <<key_state, modifiers, fifo, waiter, reader, down, typed>>

-----------------------------------------------------------------------------
(* mutexlock_release at the end of keyboard_read: the first task that is   *)
(* blocked for the lock is woken.                                          *)
Release(t) ==
    /\ holder' = NULL
    /\ IF lockq = <<>>
       THEN pc' = [pc EXCEPT ![t] = "out"] /\ UNCHANGED lockq
       ELSE /\ pc' = [pc EXCEPT ![t] = "out", ![Head(lockq)] = "try"]
            /\ lockq' = Tail(lockq)

(* keyboard_read with the lock held: bytes are taken until the call has    *)
(* what it wants or the ring is empty and the task blocks.                 *)
ReadLoop(t, n, had) ==
    LET there == Len(Contents(fifo))
        k == IF there < n - had THEN there ELSE n - had
        have == had + k
    IN  /\ fifo' = [fifo EXCEPT !.head = (@ + k) % BUFFER_SIZE]
        /\ want' = [want EXCEPT ![t] = n]
        /\ got' = [got EXCEPT ![t] = have]
        /\ \/ /\ have < n
              /\ waiter' = t /\ holder' = t
              /\ pc' = [pc EXCEPT ![t] = "wait"]
              /\ UNCHANGED lockq
           \/ /\ have = n
              /\ Release(t)
              /\ UNCHANGED waiter

keyboard == <<key_state, extcode, modifiers, down, prefix, typed>>

(* mutexlock_acquire at the start of keyboard_read, or again after the     *)
(* task was woken for the lock.                                            *)
Acquire(t, n) ==
    \/ /\ holder = NULL
       /\ ReadLoop(t, n, 0)
    \/ /\ holder # NULL
       /\ lockq' = Append(lockq, t)
       /\ pc' = [pc EXCEPT ![t] = "lock"]
       /\ want' = [want EXCEPT ![t] = n]
       /\ got' = [got EXCEPT ![t] = 0]
       /\ UNCHANGED <<fifo, waiter, holder>>

Read(t, n) == pc[t] = "out" /\ Acquire(t, n) /\ UNCHANGED keyboard

Retry(t) == pc[t] = "try" /\ Acquire(t, want[t]) /\ UNCHANGED keyboard

(* A reader that was woken tests the ring again. *)
Resume(t) == pc[t] = "woken" /\ ReadLoop(t, want[t], got[t]) /\ UNCHANGED keyboard

Next ==
    \/ PrefixByte \/ IllegalCode
    \/ \E key \in Keys : MakeCode(key) \/ BreakCode(key)
    \/ \E t \in Task : Retry(t) \/ Resume(t) \/ \E n \in 1..MaxCount : Read(t, n)

Spec == Init /\ [][Next]_vars

(* The CPU goes on executing some reader that is ready; it is not assumed  *)
(* that task_search ever picks a particular one.                           *)
FairSpec == Spec /\ WF_vars(\E t \in Task : Retry(t) \/ Resume(t))

-----------------------------------------------------------------------------
(* Types, and the indices of the ring stay inside it. *)
TypeOK ==
    /\ key_state \subseteq Keys \X BOOLEAN /\ down \subseteq Keys \X BOOLEAN
    /\ locks \subseteq Lock /\ {extcode, ctrl, alt, shift, prefix} \subseteq BOOLEAN
    /\ fifo.head \in 0..(BUFFER_SIZE - 1) /\ fifo.tail \in 0..(BUFFER_SIZE - 1)
    /\ \A i \in 0..(BUFFER_SIZE - 1) : fifo.buf[i] \in Byte
    /\ waiter \in Task \cup {NULL} /\ holder \in Task \cup {NULL}
    /\ lockq \in Seq(Task)
    /\ pc \in [Task -> {"out", "lock", "try", "wait", "woken"}]
    /\ want \in [Task -> 0..MaxCount] /\ typed \in Byte
    /\ \A t \in Task : got[t] \in 0..want[t]

(* Between interrupts the driver's picture of the keys is the keyboard's,  *)
(* through every interleaving of prefixes, repeats and releases.           *)
KeysInSync == key_state = down /\ extcode = prefix

(* The column that the keys held in this moment ask for. *)
HeldColumn(key) ==
    LET held == {"shift_l", "shift_r"} \cap {x[1] : x \in down'} # {}
        upper == IF key \in Alpha THEN held # ("capslock" \in locks') ELSE held
    IN  IF upper THEN 1 ELSE 0

AsHeld ==
    \A key \in Keys : MakeCode(key) /\ ~prefix =>
        Column(key, extcode, shift', locks') = HeldColumn(key)

(* A character is typed with the shift keys and the capslock of that       *)
(* moment, although keyboard.shift is not brought up to date by a release, *)
(* and capslock counts for letters only (keyboard_handler).                *)
TypedAsHeld == [][AsHeld]_vars

(* A reader is blocked for a character exactly when it is the waiter, it   *)
(* holds the lock then, and the ring is empty: the interrupt that brings a *)
(* character never misses it (keyboard_read against keyboard_handler).     *)
NoLostWakeup ==
    /\ \A t \in Task : pc[t] = "wait" <=> waiter = t
    /\ waiter # NULL => holder = waiter /\ fifo_empty(fifo)
    /\ \A t \in Task : pc[t] = "woken" => ~fifo_empty(fifo) /\ holder = t
    /\ \A t \in Task : pc[t] = "lock" <=> t \in ToSet(lockq)

(* The ring buffer is a queue that drops its oldest byte. *)
Ring == INSTANCE DropQueue WITH queue <- Contents(fifo), number <- typed, Size <- BUFFER_SIZE - 1
IsQueue == Ring!Spec

(* While characters keep coming, a reader that is blocked for one ends its *)
(* call, however often the ring is full or empty in between.               *)
Types == \E key \in Keys : MakeCode(key) /\ fifo' # fifo
ReaderServed == []<><<Types>>_vars => \A t \in Task : pc[t] = "wait" ~> pc[t] = "out"

(* Somebody waits for the lock only while somebody else has it or is about *)
(* to get it.                                                              *)
LockMoves == \A t \in Task : pc[t] = "lock" => holder # NULL \/ \E u \in Task : pc[u] = "try"
=============================================================================
