---------------------------- MODULE MutexProofs ----------------------------
(***************************************************************************)
(* The mutex and the lock are correct for any number of tasks, whatever    *)
(* the scheduler does.                                                     *)
(***************************************************************************)
EXTENDS Mutex, TLAPS, SequenceTheorems

(* The labels between irq_disable and set_irq_state. *)
Atomic == {"test", "blocked", "take", "restore", "free", "wake", "leave"}

(* Only a task inside task_block hangs in the queue, and it hangs there once. *)
WaitersBlocked ==
    /\ \A t \in Task : Waiting(t) => pc[t] = "blocked"
    /\ \A i, j \in 1 .. Len(waiters) : waiters[i] = waiters[j] => i = j

(* Interrupts are off in the atomic parts, and irq remembers the flag. *)
IrqOff ==
    \A t \in Task : pc[t] \in Atomic => ~ iff[t] /\ irq[t] = (t \notin Syscall)

(* Between the test of semphore and semphore-- the task keeps the CPU. *)
TakeAlone == \A t \in Task : pc[t] = "take" => current = t /\ semphore = 1

(* semphore is 0 exactly when some task owns the mutex. *)
SemphoreOwned == semphore = 0 <=> \E t \in Task : Owns(t)

(* The task the fields of the lock speak of. *)
Named(t) == pc[t] \in {"repeat", "again", "release"} \/ (pc[t] = "out" /\ nest[t] > 0)
Counted(t) == pc[t] \in {"again", "release", "clear"} \/ (pc[t] = "out" /\ nest[t] > 0)

HolderNamed == \A t \in Task : holder = t <=> Named(t)

RepeatCounted ==
    /\ \A t \in Task : Counted(t) => repeat = nest[t] /\ nest[t] > 0
    /\ repeat # 0 => \E t \in Task : Counted(t)
    /\ \A t \in Task : pc[t] = "clear" => repeat = 1

(* How deep the calls of a task nest at each label. *)
NestAt ==
    \A t \in Task :
        /\ pc[t] \in {"disable", "test", "blocked", "take", "restore", "holder", "repeat",
                      "wake", "leave"} => nest[t] = 0
        /\ pc[t] \in {"give", "free"} => nest[t] = 1
        /\ pc[t] = "again" => nest[t] < MaxRepeat

MInv ==
    /\ TypeOK
    /\ WaitersBlocked
    /\ IrqOff
    /\ IrqRestored
    /\ TakeAlone
    /\ SemphoreOwned
    /\ MutualExclusion
    /\ HolderNamed
    /\ RepeatCounted
    /\ NestAt
    /\ NoLostWakeup

(* mutexlock_init establishes the invariant. *)
LEMMA InitMInv == Init => MInv
<1> SUFFICES ASSUME Init PROVE MInv
  OBVIOUS
<1> USE DEF Init, Waiting
<1>1. TypeOK
  BY RepeatAssumption DEF TypeOK, Label
<1>2. WaitersBlocked /\ IrqOff /\ IrqRestored /\ TakeAlone
  BY DEF WaitersBlocked, IrqOff, IrqRestored, TakeAlone, Atomic
<1>3. SemphoreOwned /\ MutualExclusion
  BY DEF SemphoreOwned, MutualExclusion, Owns
<1>4. HolderNamed /\ RepeatCounted /\ NestAt
  BY TaskAssumption DEF HolderNamed, RepeatCounted, NestAt, Named, Counted
<1>5. NoLostWakeup
  BY DEF NoLostWakeup
<1>6. QED
  BY <1>1, <1>2, <1>3, <1>4, <1>5 DEF MInv

(* AcquireCall keeps the invariant. *)
LEMMA AcquireCallMInv == ASSUME NEW t \in Task PROVE MInv /\ AcquireCall(t) => MInv'
<1> SUFFICES ASSUME MInv, AcquireCall(t) PROVE MInv'
  OBVIOUS
<1> USE DEF MInv, AcquireCall, Goto
<1>1. TypeOK'
  BY DEF TypeOK, Label
<1>2. WaitersBlocked'
  BY DEF TypeOK, WaitersBlocked, Waiting
<1>3. IrqOff' /\ IrqRestored'
  BY DEF TypeOK, IrqOff, IrqRestored, Atomic
<1>4. TakeAlone'
  BY TaskAssumption DEF TypeOK, TakeAlone, IrqOff, Atomic, CanRun
<1>5. SemphoreOwned' /\ MutualExclusion'
  BY DEF TypeOK, SemphoreOwned, MutualExclusion, Owns, TakeAlone, NestAt, RepeatCounted, Counted, HolderNamed, Named
<1>6. HolderNamed'
  BY TaskAssumption DEF TypeOK, HolderNamed, Named, NestAt, MutualExclusion, Owns, RepeatCounted, Counted
<1>7. RepeatCounted'
  BY DEF TypeOK, RepeatCounted, Counted, NestAt, HolderNamed, Named, MutualExclusion, Owns
<1>8. NestAt'
  BY DEF TypeOK, NestAt, HolderNamed, Named, RepeatCounted, Counted
<1>9. NoLostWakeup'
  BY DEF TypeOK, NoLostWakeup, Waiting, CanRun
<1>10. QED
  BY <1>1, <1>2, <1>3, <1>4, <1>5, <1>6, <1>7, <1>8, <1>9

(* AcquireAgain keeps the invariant. *)
LEMMA AcquireAgainMInv == ASSUME NEW t \in Task PROVE MInv /\ AcquireAgain(t) => MInv'
<1> SUFFICES ASSUME MInv, AcquireAgain(t) PROVE MInv'
  OBVIOUS
<1> USE DEF MInv, AcquireAgain, Goto
<1>1. TypeOK'
  <2>1. nest[t] \in Nat /\ nest[t] < MaxRepeat /\ repeat = nest[t]
    BY RepeatAssumption DEF TypeOK, NestAt, RepeatCounted, Counted
  <2>2. QED
    BY <2>1, RepeatAssumption DEF TypeOK, Label
<1>2. WaitersBlocked'
  BY DEF TypeOK, WaitersBlocked, Waiting
<1>3. IrqOff' /\ IrqRestored'
  BY DEF TypeOK, IrqOff, IrqRestored, Atomic
<1>4. TakeAlone'
  BY TaskAssumption DEF TypeOK, TakeAlone, IrqOff, Atomic, CanRun
<1>5. SemphoreOwned' /\ MutualExclusion'
  BY DEF TypeOK, SemphoreOwned, MutualExclusion, Owns, TakeAlone, NestAt, RepeatCounted, Counted, HolderNamed, Named
<1>6. HolderNamed'
  BY TaskAssumption DEF TypeOK, HolderNamed, Named, NestAt, MutualExclusion, Owns, RepeatCounted, Counted
<1>7. RepeatCounted'
  BY DEF TypeOK, RepeatCounted, Counted, NestAt, HolderNamed, Named, MutualExclusion, Owns
<1>8. NestAt'
  BY DEF TypeOK, NestAt, HolderNamed, Named, RepeatCounted, Counted
<1>9. NoLostWakeup'
  BY DEF TypeOK, NoLostWakeup, Waiting, CanRun
<1>10. QED
  BY <1>1, <1>2, <1>3, <1>4, <1>5, <1>6, <1>7, <1>8, <1>9

(* AcquireDisable keeps the invariant. *)
LEMMA AcquireDisableMInv == ASSUME NEW t \in Task PROVE MInv /\ AcquireDisable(t) => MInv'
<1> SUFFICES ASSUME MInv, AcquireDisable(t) PROVE MInv'
  OBVIOUS
<1> USE DEF MInv, AcquireDisable, Goto, DisableIrq
<1>1. TypeOK'
  BY DEF TypeOK, Label
<1>2. WaitersBlocked'
  BY DEF TypeOK, WaitersBlocked, Waiting
<1>3. IrqOff' /\ IrqRestored'
  BY DEF TypeOK, IrqOff, IrqRestored, Atomic
<1>4. TakeAlone'
  BY TaskAssumption DEF TypeOK, TakeAlone, IrqOff, Atomic, CanRun
<1>5. SemphoreOwned' /\ MutualExclusion'
  BY DEF TypeOK, SemphoreOwned, MutualExclusion, Owns, TakeAlone, NestAt, RepeatCounted, Counted, HolderNamed, Named
<1>6. HolderNamed'
  BY TaskAssumption DEF TypeOK, HolderNamed, Named, NestAt, MutualExclusion, Owns, RepeatCounted, Counted
<1>7. RepeatCounted'
  BY DEF TypeOK, RepeatCounted, Counted, NestAt, HolderNamed, Named, MutualExclusion, Owns
<1>8. NestAt'
  BY DEF TypeOK, NestAt, HolderNamed, Named, RepeatCounted, Counted
<1>9. NoLostWakeup'
  BY DEF TypeOK, NoLostWakeup, Waiting, CanRun
<1>10. QED
  BY <1>1, <1>2, <1>3, <1>4, <1>5, <1>6, <1>7, <1>8, <1>9

(* AcquireBlock keeps the invariant. *)
LEMMA AcquireBlockMInv == ASSUME NEW t \in Task PROVE MInv /\ AcquireBlock(t) => MInv'
<1> SUFFICES ASSUME MInv, AcquireBlock(t) PROVE MInv'
  OBVIOUS
<1> USE DEF MInv, AcquireBlock, Testing
<1>1. TypeOK'
  BY DEF TypeOK, Label
<1>2. WaitersBlocked'
  <2>1. /\ waiters \in Seq(Task) /\ Len(waiters) \in Nat
        /\ Len(waiters') = Len(waiters) + 1
        /\ \A i \in 1 .. Len(waiters) : waiters'[i] = waiters[i]
        /\ waiters'[Len(waiters) + 1] = t
    BY AppendProperties DEF TypeOK
  <2>2. \A i \in 1 .. Len(waiters) : waiters[i] # t
    BY DEF CanRun, Waiting
  <2>3. \A u \in Task : Waiting(u)' => u = t \/ Waiting(u)
    BY <2>1 DEF Waiting
  <2>4. \A u \in Task : Waiting(u)' => pc'[u] = "blocked"
    BY <2>3 DEF TypeOK, WaitersBlocked
  <2>5. \A i, j \in 1 .. Len(waiters') : waiters'[i] = waiters'[j] => i = j
    BY <2>1, <2>2 DEF WaitersBlocked
  <2>6. QED
    BY <2>4, <2>5 DEF WaitersBlocked
<1>3. IrqOff' /\ IrqRestored'
  BY DEF TypeOK, IrqOff, IrqRestored, Atomic
<1>4. TakeAlone'
  BY TaskAssumption DEF TypeOK, TakeAlone, IrqOff, Atomic, CanRun
<1>5. SemphoreOwned' /\ MutualExclusion'
  BY DEF TypeOK, SemphoreOwned, MutualExclusion, Owns, TakeAlone, NestAt, RepeatCounted, Counted, HolderNamed, Named
<1>6. HolderNamed'
  BY TaskAssumption DEF TypeOK, HolderNamed, Named, NestAt, MutualExclusion, Owns, RepeatCounted, Counted
<1>7. RepeatCounted'
  BY DEF TypeOK, RepeatCounted, Counted, NestAt, HolderNamed, Named, MutualExclusion, Owns
<1>8. NestAt'
  BY DEF TypeOK, NestAt, HolderNamed, Named, RepeatCounted, Counted
<1>9. NoLostWakeup'
  BY DEF TypeOK, NoLostWakeup, Waiting, CanRun
<1>10. QED
  BY <1>1, <1>2, <1>3, <1>4, <1>5, <1>6, <1>7, <1>8, <1>9

(* AcquireFree keeps the invariant. *)
LEMMA AcquireFreeMInv == ASSUME NEW t \in Task PROVE MInv /\ AcquireFree(t) => MInv'
<1> SUFFICES ASSUME MInv, AcquireFree(t) PROVE MInv'
  OBVIOUS
<1> USE DEF MInv, AcquireFree, Testing
<1>1. TypeOK'
  BY DEF TypeOK, Label
<1>2. WaitersBlocked'
  <2>1. ~ Waiting(t) /\ waiters' = waiters /\ \A u \in Task : Waiting(u)' <=> Waiting(u)
    BY DEF CanRun, Waiting
  <2>2. QED
    BY <2>1 DEF TypeOK, WaitersBlocked
<1>3. IrqOff' /\ IrqRestored'
  BY DEF TypeOK, IrqOff, IrqRestored, Atomic
<1>4. TakeAlone'
  BY TaskAssumption DEF TypeOK, TakeAlone, IrqOff, Atomic, CanRun
<1>5. SemphoreOwned' /\ MutualExclusion'
  BY DEF TypeOK, SemphoreOwned, MutualExclusion, Owns, TakeAlone, NestAt, RepeatCounted, Counted, HolderNamed, Named
<1>6. HolderNamed'
  BY TaskAssumption DEF TypeOK, HolderNamed, Named, NestAt, MutualExclusion, Owns, RepeatCounted, Counted
<1>7. RepeatCounted'
  BY DEF TypeOK, RepeatCounted, Counted, NestAt, HolderNamed, Named, MutualExclusion, Owns
<1>8. NestAt'
  BY DEF TypeOK, NestAt, HolderNamed, Named, RepeatCounted, Counted
<1>9. NoLostWakeup'
  BY DEF TypeOK, NoLostWakeup, Waiting, CanRun
<1>10. QED
  BY <1>1, <1>2, <1>3, <1>4, <1>5, <1>6, <1>7, <1>8, <1>9

(* AcquireTake keeps the invariant. *)
LEMMA AcquireTakeMInv == ASSUME NEW t \in Task PROVE MInv /\ AcquireTake(t) => MInv'
<1> SUFFICES ASSUME MInv, AcquireTake(t) PROVE MInv'
  OBVIOUS
<1> USE DEF MInv, AcquireTake, Goto
<1>1. TypeOK'
  BY DEF TypeOK, Label
<1>2. WaitersBlocked'
  BY DEF TypeOK, WaitersBlocked, Waiting
<1>3. IrqOff' /\ IrqRestored'
  BY DEF TypeOK, IrqOff, IrqRestored, Atomic
<1>4. TakeAlone'
  BY TaskAssumption DEF TypeOK, TakeAlone, IrqOff, Atomic, CanRun
<1>5. SemphoreOwned' /\ MutualExclusion'
  BY DEF TypeOK, SemphoreOwned, MutualExclusion, Owns, TakeAlone, NestAt, RepeatCounted, Counted, HolderNamed, Named
<1>6. HolderNamed'
  BY TaskAssumption DEF TypeOK, HolderNamed, Named, NestAt, MutualExclusion, Owns, RepeatCounted, Counted
<1>7. RepeatCounted'
  BY DEF TypeOK, RepeatCounted, Counted, NestAt, HolderNamed, Named, MutualExclusion, Owns
<1>8. NestAt'
  BY DEF TypeOK, NestAt, HolderNamed, Named, RepeatCounted, Counted
<1>9. NoLostWakeup'
  BY DEF TypeOK, NoLostWakeup, Waiting, CanRun
<1>10. QED
  BY <1>1, <1>2, <1>3, <1>4, <1>5, <1>6, <1>7, <1>8, <1>9

(* AcquireRestore keeps the invariant. *)
LEMMA AcquireRestoreMInv == ASSUME NEW t \in Task PROVE MInv /\ AcquireRestore(t) => MInv'
<1> SUFFICES ASSUME MInv, AcquireRestore(t) PROVE MInv'
  OBVIOUS
<1> USE DEF MInv, AcquireRestore, Goto, RestoreIrq
<1>1. TypeOK'
  BY DEF TypeOK, Label
<1>2. WaitersBlocked'
  BY DEF TypeOK, WaitersBlocked, Waiting
<1>3. IrqOff' /\ IrqRestored'
  BY DEF TypeOK, IrqOff, IrqRestored, Atomic
<1>4. TakeAlone'
  BY TaskAssumption DEF TypeOK, TakeAlone, IrqOff, Atomic, CanRun
<1>5. SemphoreOwned' /\ MutualExclusion'
  BY DEF TypeOK, SemphoreOwned, MutualExclusion, Owns, TakeAlone, NestAt, RepeatCounted, Counted, HolderNamed, Named
<1>6. HolderNamed'
  BY TaskAssumption DEF TypeOK, HolderNamed, Named, NestAt, MutualExclusion, Owns, RepeatCounted, Counted
<1>7. RepeatCounted'
  BY DEF TypeOK, RepeatCounted, Counted, NestAt, HolderNamed, Named, MutualExclusion, Owns
<1>8. NestAt'
  BY DEF TypeOK, NestAt, HolderNamed, Named, RepeatCounted, Counted
<1>9. NoLostWakeup'
  BY DEF TypeOK, NoLostWakeup, Waiting, CanRun
<1>10. QED
  BY <1>1, <1>2, <1>3, <1>4, <1>5, <1>6, <1>7, <1>8, <1>9

(* AcquireHolder keeps the invariant. *)
LEMMA AcquireHolderMInv == ASSUME NEW t \in Task PROVE MInv /\ AcquireHolder(t) => MInv'
<1> SUFFICES ASSUME MInv, AcquireHolder(t) PROVE MInv'
  OBVIOUS
<1> USE DEF MInv, AcquireHolder, Goto
<1>1. TypeOK'
  BY DEF TypeOK, Label
<1>2. WaitersBlocked'
  BY DEF TypeOK, WaitersBlocked, Waiting
<1>3. IrqOff' /\ IrqRestored'
  BY DEF TypeOK, IrqOff, IrqRestored, Atomic
<1>4. TakeAlone'
  BY TaskAssumption DEF TypeOK, TakeAlone, IrqOff, Atomic, CanRun
<1>5. SemphoreOwned' /\ MutualExclusion'
  BY DEF TypeOK, SemphoreOwned, MutualExclusion, Owns, TakeAlone, NestAt, RepeatCounted, Counted, HolderNamed, Named
<1>6. HolderNamed'
  BY TaskAssumption DEF TypeOK, HolderNamed, Named, NestAt, MutualExclusion, Owns, RepeatCounted, Counted
<1>7. RepeatCounted'
  BY DEF TypeOK, RepeatCounted, Counted, NestAt, HolderNamed, Named, MutualExclusion, Owns
<1>8. NestAt'
  BY DEF TypeOK, NestAt, HolderNamed, Named, RepeatCounted, Counted
<1>9. NoLostWakeup'
  BY DEF TypeOK, NoLostWakeup, Waiting, CanRun
<1>10. QED
  BY <1>1, <1>2, <1>3, <1>4, <1>5, <1>6, <1>7, <1>8, <1>9

(* AcquireRepeat keeps the invariant. *)
LEMMA AcquireRepeatMInv == ASSUME NEW t \in Task PROVE MInv /\ AcquireRepeat(t) => MInv'
<1> SUFFICES ASSUME MInv, AcquireRepeat(t) PROVE MInv'
  OBVIOUS
<1> USE DEF MInv, AcquireRepeat, Goto
<1>1. TypeOK'
  BY RepeatAssumption DEF TypeOK, Label, NestAt
<1>2. WaitersBlocked'
  BY DEF TypeOK, WaitersBlocked, Waiting
<1>3. IrqOff' /\ IrqRestored'
  BY DEF TypeOK, IrqOff, IrqRestored, Atomic
<1>4. TakeAlone'
  BY TaskAssumption DEF TypeOK, TakeAlone, IrqOff, Atomic, CanRun
<1>5. SemphoreOwned' /\ MutualExclusion'
  BY DEF TypeOK, SemphoreOwned, MutualExclusion, Owns, TakeAlone, NestAt, RepeatCounted, Counted, HolderNamed, Named
<1>6. HolderNamed'
  BY TaskAssumption DEF TypeOK, HolderNamed, Named, NestAt, MutualExclusion, Owns, RepeatCounted, Counted
<1>7. RepeatCounted'
  BY DEF TypeOK, RepeatCounted, Counted, NestAt, HolderNamed, Named, MutualExclusion, Owns
<1>8. NestAt'
  BY DEF TypeOK, NestAt, HolderNamed, Named, RepeatCounted, Counted
<1>9. NoLostWakeup'
  BY DEF TypeOK, NoLostWakeup, Waiting, CanRun
<1>10. QED
  BY <1>1, <1>2, <1>3, <1>4, <1>5, <1>6, <1>7, <1>8, <1>9

(* ReleaseCall keeps the invariant. *)
LEMMA ReleaseCallMInv == ASSUME NEW t \in Task PROVE MInv /\ ReleaseCall(t) => MInv'
<1> SUFFICES ASSUME MInv, ReleaseCall(t) PROVE MInv'
  OBVIOUS
<1> USE DEF MInv, ReleaseCall, Goto
<1>1. TypeOK'
  BY DEF TypeOK, Label
<1>2. WaitersBlocked'
  BY DEF TypeOK, WaitersBlocked, Waiting
<1>3. IrqOff' /\ IrqRestored'
  BY DEF TypeOK, IrqOff, IrqRestored, Atomic
<1>4. TakeAlone'
  BY TaskAssumption DEF TypeOK, TakeAlone, IrqOff, Atomic, CanRun
<1>5. SemphoreOwned' /\ MutualExclusion'
  BY DEF TypeOK, SemphoreOwned, MutualExclusion, Owns, TakeAlone, NestAt, RepeatCounted, Counted, HolderNamed, Named
<1>6. HolderNamed'
  BY TaskAssumption DEF TypeOK, HolderNamed, Named, NestAt, MutualExclusion, Owns, RepeatCounted, Counted
<1>7. RepeatCounted'
  BY DEF TypeOK, RepeatCounted, Counted, NestAt, HolderNamed, Named, MutualExclusion, Owns
<1>8. NestAt'
  BY DEF TypeOK, NestAt, HolderNamed, Named, RepeatCounted, Counted
<1>9. NoLostWakeup'
  BY DEF TypeOK, NoLostWakeup, Waiting, CanRun
<1>10. QED
  BY <1>1, <1>2, <1>3, <1>4, <1>5, <1>6, <1>7, <1>8, <1>9

(* ReleaseOne keeps the invariant. *)
LEMMA ReleaseOneMInv == ASSUME NEW t \in Task PROVE MInv /\ ReleaseOne(t) => MInv'
<1> SUFFICES ASSUME MInv, ReleaseOne(t) PROVE MInv'
  OBVIOUS
<1> USE DEF MInv, ReleaseOne, Goto
<1>1. TypeOK'
  <2>1. repeat = nest[t] /\ nest[t] \in 0 .. MaxRepeat
    BY DEF TypeOK, RepeatCounted, Counted
  <2>2. QED
    BY <2>1, RepeatAssumption DEF TypeOK, Label
<1>2. WaitersBlocked'
  BY DEF TypeOK, WaitersBlocked, Waiting
<1>3. IrqOff' /\ IrqRestored'
  BY DEF TypeOK, IrqOff, IrqRestored, Atomic
<1>4. TakeAlone'
  BY TaskAssumption DEF TypeOK, TakeAlone, IrqOff, Atomic, CanRun
<1>5. SemphoreOwned' /\ MutualExclusion'
  BY DEF TypeOK, SemphoreOwned, MutualExclusion, Owns, TakeAlone, NestAt, RepeatCounted, Counted, HolderNamed, Named
<1>6. HolderNamed'
  BY TaskAssumption DEF TypeOK, HolderNamed, Named, NestAt, MutualExclusion, Owns, RepeatCounted, Counted
<1>7. RepeatCounted'
  BY DEF TypeOK, RepeatCounted, Counted, NestAt, HolderNamed, Named, MutualExclusion, Owns
<1>8. NestAt'
  BY DEF TypeOK, NestAt, HolderNamed, Named, RepeatCounted, Counted
<1>9. NoLostWakeup'
  BY DEF TypeOK, NoLostWakeup, Waiting, CanRun
<1>10. QED
  BY <1>1, <1>2, <1>3, <1>4, <1>5, <1>6, <1>7, <1>8, <1>9

(* ReleaseHolder keeps the invariant. *)
LEMMA ReleaseHolderMInv == ASSUME NEW t \in Task PROVE MInv /\ ReleaseHolder(t) => MInv'
<1> SUFFICES ASSUME MInv, ReleaseHolder(t) PROVE MInv'
  OBVIOUS
<1> USE DEF MInv, ReleaseHolder, Goto
<1>1. TypeOK'
  BY DEF TypeOK, Label
<1>2. WaitersBlocked'
  BY DEF TypeOK, WaitersBlocked, Waiting
<1>3. IrqOff' /\ IrqRestored'
  BY DEF TypeOK, IrqOff, IrqRestored, Atomic
<1>4. TakeAlone'
  BY TaskAssumption DEF TypeOK, TakeAlone, IrqOff, Atomic, CanRun
<1>5. SemphoreOwned' /\ MutualExclusion'
  BY DEF TypeOK, SemphoreOwned, MutualExclusion, Owns, TakeAlone, NestAt, RepeatCounted, Counted, HolderNamed, Named
<1>6. HolderNamed'
  BY TaskAssumption DEF TypeOK, HolderNamed, Named, NestAt, MutualExclusion, Owns, RepeatCounted, Counted
<1>7. RepeatCounted'
  BY DEF TypeOK, RepeatCounted, Counted, NestAt, HolderNamed, Named, MutualExclusion, Owns
<1>8. NestAt'
  BY DEF TypeOK, NestAt, HolderNamed, Named, RepeatCounted, Counted
<1>9. NoLostWakeup'
  BY DEF TypeOK, NoLostWakeup, Waiting, CanRun
<1>10. QED
  BY <1>1, <1>2, <1>3, <1>4, <1>5, <1>6, <1>7, <1>8, <1>9

(* ReleaseRepeat keeps the invariant. *)
LEMMA ReleaseRepeatMInv == ASSUME NEW t \in Task PROVE MInv /\ ReleaseRepeat(t) => MInv'
<1> SUFFICES ASSUME MInv, ReleaseRepeat(t) PROVE MInv'
  OBVIOUS
<1> USE DEF MInv, ReleaseRepeat, Goto
<1>1. TypeOK'
  BY RepeatAssumption DEF TypeOK, Label
<1>2. WaitersBlocked'
  BY DEF TypeOK, WaitersBlocked, Waiting
<1>3. IrqOff' /\ IrqRestored'
  BY DEF TypeOK, IrqOff, IrqRestored, Atomic
<1>4. TakeAlone'
  BY TaskAssumption DEF TypeOK, TakeAlone, IrqOff, Atomic, CanRun
<1>5. SemphoreOwned' /\ MutualExclusion'
  BY DEF TypeOK, SemphoreOwned, MutualExclusion, Owns, TakeAlone, NestAt, RepeatCounted, Counted, HolderNamed, Named
<1>6. HolderNamed'
  BY TaskAssumption DEF TypeOK, HolderNamed, Named, NestAt, MutualExclusion, Owns, RepeatCounted, Counted
<1>7. RepeatCounted'
  BY DEF TypeOK, RepeatCounted, Counted, NestAt, HolderNamed, Named, MutualExclusion, Owns
<1>8. NestAt'
  BY DEF TypeOK, NestAt, HolderNamed, Named, RepeatCounted, Counted
<1>9. NoLostWakeup'
  BY DEF TypeOK, NoLostWakeup, Waiting, CanRun
<1>10. QED
  BY <1>1, <1>2, <1>3, <1>4, <1>5, <1>6, <1>7, <1>8, <1>9

(* ReleaseDisable keeps the invariant. *)
LEMMA ReleaseDisableMInv == ASSUME NEW t \in Task PROVE MInv /\ ReleaseDisable(t) => MInv'
<1> SUFFICES ASSUME MInv, ReleaseDisable(t) PROVE MInv'
  OBVIOUS
<1> USE DEF MInv, ReleaseDisable, Goto, DisableIrq
<1>1. TypeOK'
  BY DEF TypeOK, Label
<1>2. WaitersBlocked'
  BY DEF TypeOK, WaitersBlocked, Waiting
<1>3. IrqOff' /\ IrqRestored'
  BY DEF TypeOK, IrqOff, IrqRestored, Atomic
<1>4. TakeAlone'
  BY TaskAssumption DEF TypeOK, TakeAlone, IrqOff, Atomic, CanRun
<1>5. SemphoreOwned' /\ MutualExclusion'
  BY DEF TypeOK, SemphoreOwned, MutualExclusion, Owns, TakeAlone, NestAt, RepeatCounted, Counted, HolderNamed, Named
<1>6. HolderNamed'
  BY TaskAssumption DEF TypeOK, HolderNamed, Named, NestAt, MutualExclusion, Owns, RepeatCounted, Counted
<1>7. RepeatCounted'
  BY DEF TypeOK, RepeatCounted, Counted, NestAt, HolderNamed, Named, MutualExclusion, Owns
<1>8. NestAt'
  BY DEF TypeOK, NestAt, HolderNamed, Named, RepeatCounted, Counted
<1>9. NoLostWakeup'
  BY DEF TypeOK, NoLostWakeup, Waiting, CanRun
<1>10. QED
  BY <1>1, <1>2, <1>3, <1>4, <1>5, <1>6, <1>7, <1>8, <1>9

(* ReleaseFree keeps the invariant. *)
LEMMA ReleaseFreeMInv == ASSUME NEW t \in Task PROVE MInv /\ ReleaseFree(t) => MInv'
<1> SUFFICES ASSUME MInv, ReleaseFree(t) PROVE MInv'
  OBVIOUS
<1> USE DEF MInv, ReleaseFree, Goto
<1>1. TypeOK'
  BY RepeatAssumption DEF TypeOK, Label
<1>2. WaitersBlocked'
  BY DEF TypeOK, WaitersBlocked, Waiting
<1>3. IrqOff' /\ IrqRestored'
  BY DEF TypeOK, IrqOff, IrqRestored, Atomic
<1>4. TakeAlone'
  BY TaskAssumption DEF TypeOK, TakeAlone, IrqOff, Atomic, CanRun
<1>5. SemphoreOwned' /\ MutualExclusion'
  BY DEF TypeOK, SemphoreOwned, MutualExclusion, Owns, TakeAlone, NestAt, RepeatCounted, Counted, HolderNamed, Named
<1>6. HolderNamed'
  BY TaskAssumption DEF TypeOK, HolderNamed, Named, NestAt, MutualExclusion, Owns, RepeatCounted, Counted
<1>7. RepeatCounted'
  BY DEF TypeOK, RepeatCounted, Counted, NestAt, HolderNamed, Named, MutualExclusion, Owns
<1>8. NestAt'
  BY DEF TypeOK, NestAt, HolderNamed, Named, RepeatCounted, Counted
<1>9. NoLostWakeup'
  BY DEF TypeOK, NoLostWakeup, Waiting, CanRun
<1>10. QED
  BY <1>1, <1>2, <1>3, <1>4, <1>5, <1>6, <1>7, <1>8, <1>9

(* ReleaseWake keeps the invariant. *)
LEMMA ReleaseWakeMInv == ASSUME NEW t \in Task PROVE MInv /\ ReleaseWake(t) => MInv'
<1> SUFFICES ASSUME MInv, ReleaseWake(t) PROVE MInv'
  OBVIOUS
<1> USE DEF MInv, ReleaseWake, Goto
<1>1. TypeOK'
  BY DEF TypeOK, Label
<1>2. WaitersBlocked'
  BY SMTT(30) DEF TypeOK, WaitersBlocked, Waiting
<1>3. IrqOff' /\ IrqRestored'
  BY DEF TypeOK, IrqOff, IrqRestored, Atomic
<1>4. TakeAlone'
  BY TaskAssumption DEF TypeOK, TakeAlone, IrqOff, Atomic, CanRun
<1>5. SemphoreOwned' /\ MutualExclusion'
  BY DEF TypeOK, SemphoreOwned, MutualExclusion, Owns, TakeAlone, NestAt, RepeatCounted, Counted, HolderNamed, Named
<1>6. HolderNamed'
  BY TaskAssumption DEF TypeOK, HolderNamed, Named, NestAt, MutualExclusion, Owns, RepeatCounted, Counted
<1>7. RepeatCounted'
  BY DEF TypeOK, RepeatCounted, Counted, NestAt, HolderNamed, Named, MutualExclusion, Owns
<1>8. NestAt'
  BY DEF TypeOK, NestAt, HolderNamed, Named, RepeatCounted, Counted
<1>9. NoLostWakeup'
  <2>1. /\ waiters \in Seq(Task) /\ Len(waiters) \in Nat /\ Len(waiters) > 0
        /\ waiters[1] \in Task
        /\ Len(waiters') = Len(waiters) - 1
        /\ \A i \in 1 .. Len(waiters) - 1 : waiters'[i] = waiters[i + 1]
    BY HeadTailProperties DEF TypeOK
  <2>2. PICK w \in Task : w = waiters[1]
    BY <2>1
  <2>3. ~ Waiting(w)'
    <3>1. \A i \in 1 .. Len(waiters) - 1 : waiters[i + 1] # waiters[1]
      BY <2>1 DEF WaitersBlocked
    <3>2. QED
      BY <2>1, <2>2, <3>1 DEF Waiting
  <2>4. pc[w] = "blocked"
    BY <2>1, <2>2 DEF Waiting, WaitersBlocked
  <2>5. pc'[w] = "blocked"
    BY <2>4 DEF TypeOK
  <2>6. QED
    BY <2>3, <2>5 DEF NoLostWakeup
<1>10. QED
  BY <1>1, <1>2, <1>3, <1>4, <1>5, <1>6, <1>7, <1>8, <1>9

(* ReleaseNoWaiter keeps the invariant. *)
LEMMA ReleaseNoWaiterMInv == ASSUME NEW t \in Task PROVE MInv /\ ReleaseNoWaiter(t) => MInv'
<1> SUFFICES ASSUME MInv, ReleaseNoWaiter(t) PROVE MInv'
  OBVIOUS
<1> USE DEF MInv, ReleaseNoWaiter, Goto
<1>1. TypeOK'
  BY DEF TypeOK, Label
<1>2. WaitersBlocked'
  BY DEF TypeOK, WaitersBlocked, Waiting
<1>3. IrqOff' /\ IrqRestored'
  BY DEF TypeOK, IrqOff, IrqRestored, Atomic
<1>4. TakeAlone'
  BY TaskAssumption DEF TypeOK, TakeAlone, IrqOff, Atomic, CanRun
<1>5. SemphoreOwned' /\ MutualExclusion'
  BY DEF TypeOK, SemphoreOwned, MutualExclusion, Owns, TakeAlone, NestAt, RepeatCounted, Counted, HolderNamed, Named
<1>6. HolderNamed'
  BY TaskAssumption DEF TypeOK, HolderNamed, Named, NestAt, MutualExclusion, Owns, RepeatCounted, Counted
<1>7. RepeatCounted'
  BY DEF TypeOK, RepeatCounted, Counted, NestAt, HolderNamed, Named, MutualExclusion, Owns
<1>8. NestAt'
  BY DEF TypeOK, NestAt, HolderNamed, Named, RepeatCounted, Counted
<1>9. NoLostWakeup'
  BY DEF TypeOK, NoLostWakeup, Waiting, CanRun
<1>10. QED
  BY <1>1, <1>2, <1>3, <1>4, <1>5, <1>6, <1>7, <1>8, <1>9

(* ReleaseRestore keeps the invariant. *)
LEMMA ReleaseRestoreMInv == ASSUME NEW t \in Task PROVE MInv /\ ReleaseRestore(t) => MInv'
<1> SUFFICES ASSUME MInv, ReleaseRestore(t) PROVE MInv'
  OBVIOUS
<1> USE DEF MInv, ReleaseRestore, Goto, RestoreIrq
<1>1. TypeOK'
  BY DEF TypeOK, Label
<1>2. WaitersBlocked'
  BY DEF TypeOK, WaitersBlocked, Waiting
<1>3. IrqOff' /\ IrqRestored'
  BY DEF TypeOK, IrqOff, IrqRestored, Atomic
<1>4. TakeAlone'
  BY TaskAssumption DEF TypeOK, TakeAlone, IrqOff, Atomic, CanRun
<1>5. SemphoreOwned' /\ MutualExclusion'
  BY DEF TypeOK, SemphoreOwned, MutualExclusion, Owns, TakeAlone, NestAt, RepeatCounted, Counted, HolderNamed, Named
<1>6. HolderNamed'
  BY TaskAssumption DEF TypeOK, HolderNamed, Named, NestAt, MutualExclusion, Owns, RepeatCounted, Counted
<1>7. RepeatCounted'
  BY DEF TypeOK, RepeatCounted, Counted, NestAt, HolderNamed, Named, MutualExclusion, Owns
<1>8. NestAt'
  BY DEF TypeOK, NestAt, HolderNamed, Named, RepeatCounted, Counted
<1>9. NoLostWakeup'
  BY DEF TypeOK, NoLostWakeup, Waiting, CanRun
<1>10. QED
  BY <1>1, <1>2, <1>3, <1>4, <1>5, <1>6, <1>7, <1>8, <1>9

(* Away keeps the invariant. *)
LEMMA AwayMInv == ASSUME NEW t \in Task PROVE MInv /\ Away(t) => MInv'
<1> SUFFICES ASSUME MInv, Away(t) PROVE MInv'
  OBVIOUS
<1> USE DEF MInv, Away
<1>1. TypeOK'
  BY DEF TypeOK, Label
<1>2. WaitersBlocked'
  BY DEF TypeOK, WaitersBlocked, Waiting
<1>3. IrqOff' /\ IrqRestored'
  BY DEF TypeOK, IrqOff, IrqRestored, Atomic
<1>4. TakeAlone'
  BY TaskAssumption DEF TypeOK, TakeAlone, IrqOff, Atomic, CanRun
<1>5. SemphoreOwned' /\ MutualExclusion'
  BY DEF TypeOK, SemphoreOwned, MutualExclusion, Owns, TakeAlone, NestAt, RepeatCounted, Counted, HolderNamed, Named
<1>6. HolderNamed'
  BY TaskAssumption DEF TypeOK, HolderNamed, Named, NestAt, MutualExclusion, Owns, RepeatCounted, Counted
<1>7. RepeatCounted'
  BY DEF TypeOK, RepeatCounted, Counted, NestAt, HolderNamed, Named, MutualExclusion, Owns
<1>8. NestAt'
  BY DEF TypeOK, NestAt, HolderNamed, Named, RepeatCounted, Counted
<1>9. NoLostWakeup'
  BY DEF TypeOK, NoLostWakeup, Waiting, CanRun
<1>10. QED
  BY <1>1, <1>2, <1>3, <1>4, <1>5, <1>6, <1>7, <1>8, <1>9

(* The invariant is inductive. *)
LEMMA NextMInv == MInv /\ [Next]_vars => MInv'
<1> SUFFICES ASSUME MInv, [Next]_vars PROVE MInv'
  OBVIOUS
<1>1. CASE UNCHANGED vars
  <2> USE <1>1 DEF MInv, vars
  <2>1. TypeOK'
    BY DEF TypeOK
  <2>2. WaitersBlocked' /\ IrqOff' /\ IrqRestored' /\ TakeAlone'
    BY DEF WaitersBlocked, Waiting, IrqOff, IrqRestored, TakeAlone
  <2>3. SemphoreOwned' /\ MutualExclusion' /\ HolderNamed' /\ RepeatCounted' /\ NestAt'
    BY DEF SemphoreOwned, MutualExclusion, Owns, HolderNamed, Named, RepeatCounted, Counted, NestAt
  <2>4. NoLostWakeup'
    BY DEF NoLostWakeup, Waiting
  <2>5. QED
    BY <2>1, <2>2, <2>3, <2>4
<1>2. ASSUME NEW t \in Task, LockStep(t) PROVE MInv'
  BY <1>2, AcquireCallMInv, AcquireAgainMInv, AcquireDisableMInv, AcquireBlockMInv,
     AcquireFreeMInv, AcquireTakeMInv, AcquireRestoreMInv, AcquireHolderMInv,
     AcquireRepeatMInv, ReleaseCallMInv, ReleaseOneMInv, ReleaseHolderMInv,
     ReleaseRepeatMInv, ReleaseDisableMInv, ReleaseFreeMInv, ReleaseWakeMInv,
     ReleaseNoWaiterMInv, ReleaseRestoreMInv DEF LockStep
<1>3. QED
  BY <1>1, <1>2, AwayMInv DEF Next

(* The inductive invariant holds in every reachable state of mutex.c. *)
THEOREM LockInvariance == Spec => []MInv
  BY InitMInv, NextMInv, PTL DEF Spec

(* Every variable of the mutex and the lock keeps its type. *)
THEOREM LockTypes == Spec => []TypeOK
<1>1. MInv => TypeOK
  BY DEF MInv
<1>2. QED
  BY <1>1, LockInvariance, PTL

(* Two tasks never own the lock at once, for any number of tasks and        *)
(* whatever the clock interrupts.                                           *)
THEOREM LockExcludes == Spec => []MutualExclusion
<1>1. MInv => MutualExclusion
  BY DEF MInv
<1>2. QED
  BY <1>1, LockInvariance, PTL

(* No assert of mutex.c can fail. *)
THEOREM LockAsserts == Spec => []AssertsHold
<1>1. MInv => AssertsHold
  <2> SUFFICES ASSUME MInv, NEW t \in Task
               PROVE  /\ pc[t] = "take" => semphore = 1
                      /\ pc[t] = "repeat" => repeat = 0
                      /\ pc[t] = "release" => holder = t /\ repeat >= 1
                      /\ pc[t] = "free" => semphore = 0
                      /\ pc[t] \in {"test", "blocked", "wake"} => ~ iff[t]
    BY DEF AssertsHold
  <2> USE DEF MInv
  <2>1. pc[t] = "take" => semphore = 1
    BY DEF TakeAlone
  <2>2. pc[t] = "repeat" => repeat = 0
    BY DEF RepeatCounted, Counted, MutualExclusion, Owns
  <2>3. pc[t] = "release" => holder = t /\ repeat >= 1
    BY RepeatAssumption DEF TypeOK, HolderNamed, Named, RepeatCounted, Counted
  <2>4. pc[t] = "free" => semphore = 0
    BY DEF SemphoreOwned, Owns
  <2>5. pc[t] \in {"test", "blocked", "wake"} => ~ iff[t]
    BY DEF IrqOff, Atomic
  <2>6. QED
    BY <2>1, <2>2, <2>3, <2>4, <2>5
<1>2. QED
  BY <1>1, LockInvariance, PTL

(* repeat is the number of acquires the holder has not released. *)
THEOREM LockCounts == Spec => []RepeatCounts
<1>1. MInv => RepeatCounts
  BY DEF MInv, RepeatCounts, HolderNamed, Named, RepeatCounted, Counted
<1>2. QED
  BY <1>1, LockInvariance, PTL

(* The wake-up of mutex_release is never lost. *)
THEOREM LockWakes == Spec => []NoLostWakeup
<1>1. MInv => NoLostWakeup
  BY DEF MInv
<1>2. QED
  BY <1>1, LockInvariance, PTL

(* Every caller gets its interrupt flag back. *)
THEOREM LockRestoresIrq == Spec => []IrqRestored
<1>1. MInv => IrqRestored
  BY DEF MInv
<1>2. QED
  BY <1>1, LockInvariance, PTL

(* Where a step changes what a task holds, it changes it by one. *)
LEMMA StepImplements ==
  ASSUME MInv, MInv', NEW t \in Task, LockStep(t) \/ Away(t)
  PROVE  Lock!Acquire(t) \/ Lock!Release(t) \/ Held' = Held
<1> USE DEF MInv
<1>1. pc \in [Task -> Label] /\ nest \in [Task -> 0 .. MaxRepeat]
  BY DEF TypeOK
<1>2. CASE AcquireAgain(t)
  <2>1. \A u \in Task \ {t} : Held[u] = 0
    BY <1>1, <1>2 DEF Held, AcquireAgain, Goto, TypeOK, Label, MutualExclusion, Owns, NestAt, RepeatCounted, Counted
  <2>2. Held' = [Held EXCEPT ![t] = Held[t] + 1]
    BY <1>1, <1>2 DEF Held, AcquireAgain, Goto
  <2>3. QED
    BY <2>1, <2>2 DEF Lock!Acquire
<1>3. CASE AcquireTake(t)
  <2>1. \A u \in Task \ {t} : Held[u] = 0
    BY <1>1, <1>3 DEF Held, AcquireTake, Goto, TypeOK, Label, TakeAlone, SemphoreOwned, Owns, NestAt
  <2>2. Held' = [Held EXCEPT ![t] = Held[t] + 1]
    <3>1. nest[t] = 0 /\ pc[t] = "take"
      BY <1>3 DEF AcquireTake, Goto, NestAt
    <3>2. Held[t] = 0 /\ \A u \in Task : Held'[u] = IF u = t THEN 1 ELSE Held[u]
      BY <1>1, <1>3, <3>1 DEF Held, AcquireTake, Goto
    <3>3. Held = [u \in Task |-> Held[u]] /\ Held' = [u \in Task |-> Held'[u]]
      BY DEF Held
    <3> HIDE DEF Held
    <3>4. QED
      BY <3>2, <3>3
  <2>3. QED
    BY <2>1, <2>2 DEF Lock!Acquire
<1>4. CASE ReleaseOne(t)
  <2>1. Held[t] > 0 /\ Held' = [Held EXCEPT ![t] = Held[t] - 1]
    BY <1>1, <1>4 DEF Held, ReleaseOne, Goto, RepeatCounted, Counted
  <2>2. QED
    BY <2>1 DEF Lock!Release
<1>5. CASE ReleaseFree(t)
  <2>1. Held[t] > 0 /\ Held' = [Held EXCEPT ![t] = Held[t] - 1]
    <3>1. nest[t] = 1 /\ pc[t] = "free"
      BY <1>5 DEF ReleaseFree, Goto, NestAt
    <3>2. Held[t] = 1 /\ \A u \in Task : Held'[u] = IF u = t THEN 0 ELSE Held[u]
      BY <1>1, <1>5, <3>1 DEF Held, ReleaseFree, Goto
    <3>3. Held = [u \in Task |-> Held[u]] /\ Held' = [u \in Task |-> Held'[u]]
      BY DEF Held
    <3> HIDE DEF Held
    <3>4. QED
      BY <3>2, <3>3
  <2>2. QED
    BY <2>1 DEF Lock!Release
<1>6. CASE AcquireRepeat(t)
  BY <1>1, <1>6 DEF Held, AcquireRepeat, Goto, NestAt
<1>7. CASE AcquireCall(t) \/ AcquireDisable(t) \/ AcquireBlock(t) \/ AcquireFree(t)
           \/ AcquireRestore(t) \/ AcquireHolder(t)
  BY <1>1, <1>7 DEF Held, AcquireCall, AcquireDisable, AcquireBlock, AcquireFree,
     AcquireRestore, AcquireHolder, Goto, Testing
<1>8. CASE ReleaseCall(t) \/ ReleaseHolder(t) \/ ReleaseRepeat(t) \/ ReleaseDisable(t)
           \/ ReleaseWake(t) \/ ReleaseNoWaiter(t) \/ ReleaseRestore(t) \/ Away(t)
  BY <1>1, <1>8 DEF Held, ReleaseCall, ReleaseHolder, ReleaseRepeat, ReleaseDisable,
     ReleaseWake, ReleaseNoWaiter, ReleaseRestore, Away, Goto
<1>9. QED
  BY <1>2, <1>3, <1>4, <1>5, <1>6, <1>7, <1>8 DEF LockStep

(* mutex.c implements the reentrant lock: every step of a task takes or     *)
(* releases it once, or leaves it alone.                                    *)
THEOREM LockRefines == Spec => ImplementsLock
<1>1. Init => Lock!Init
  BY DEF Init, Lock!Init, Held
<1>2. ASSUME MInv, MInv', [Next]_vars PROVE [Lock!Next]_Held
  <2>1. CASE UNCHANGED vars
    BY <2>1 DEF vars, Held
  <2>2. CASE Next
    BY <1>2, <2>2, StepImplements DEF Next, Lock!Next
  <2>3. QED
    BY <1>2, <2>1, <2>2
<1>3. QED
  BY <1>1, <1>2, LockInvariance, PTL DEF Spec, ImplementsLock, Lock!Spec
=============================================================================
