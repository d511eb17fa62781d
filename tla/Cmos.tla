-------------------------------- MODULE Cmos --------------------------------
(***************************************************************************)
(* time_read_bcd of kernel/time.c reads the CMOS register by register      *)
(* while its clock runs, and starts again when the second has changed in   *)
(* between.  Three digits stand for the registers: the second, and two     *)
(* more that the clock carries into.  Once in a second the clock updates   *)
(* them; until that is done they are off the bus (038_rtc.md:34-38), and   *)
(* time_read_bcd does not look at the bit that says so.                    *)
(***************************************************************************)
EXTENDS Naturals, Sequences

CONSTANTS Base,     \* seconds in a minute, and so on
          MaxTicks  \* bound: updates of the clock in one round; less than Base

VARIABLES clock,    \* the registers
          updating, \* they are off the bus
          time,     \* the time_val
          at,       \* the register read next; 4 is the test, 5 the return
          ticks,    \* updates in this round
          overlap   \* a register was read in this round while it was off the bus

vars == <<clock, updating, time, at, ticks, overlap>>

Registers == <<"sec", "min", "hour">>
Value(t) == (t.hour * Base + t.min) * Base + t.sec

Time(v) == [sec |-> v % Base, min |-> (v \div Base) % Base, hour |-> (v \div (Base * Base)) % Base]

Init ==
    /\ clock = Time(0) /\ updating = FALSE /\ time = Time(0)
    /\ at = 1 /\ ticks = 0 /\ overlap = FALSE

UpdateStarts ==
    /\ at < 5 /\ ~updating /\ ticks < MaxTicks
    /\ updating' = TRUE
    /\ UNCHANGED <<clock, time, at, ticks, overlap>>

UpdateEnds ==
    /\ at < 5 /\ updating
    /\ updating' = FALSE /\ ticks' = ticks + 1
    /\ clock' = Time(Value(clock) + 1)
    /\ UNCHANGED <<time, at, overlap>>

(* What a read of register r gives: off the bus it may be anything; Base   *)
(* stands for what is no digit.                                            *)
Reads(r) == IF updating THEN 0..Base ELSE {clock[r]}

Read ==
    /\ at < 4 /\ at' = at + 1
    /\ \E v \in Reads(Registers[at]) : time' = [time EXCEPT ![Registers[at]] = v]
    /\ overlap' = (overlap \/ updating)
    /\ UNCHANGED <<clock, updating, ticks>>

(* Mutant of Test: what was read is taken as it is. *)
TestNone == at = 4 /\ at' = 5 /\ UNCHANGED <<clock, updating, time, ticks, overlap>>

(* The end of the loop. *)
Test ==
    /\ at = 4
    /\ \E s \in Reads("sec") :
           IF time.sec = s THEN at' = 5 /\ overlap' = (overlap \/ updating) /\ UNCHANGED ticks
           ELSE at' = 1 /\ overlap' = FALSE /\ ticks' = 0
    /\ UNCHANGED <<clock, updating, time>>

(* The next call. *)
Again == at = 5 /\ at' = 1 /\ overlap' = FALSE /\ ticks' = 0 /\ UNCHANGED <<clock, updating, time>>

Next == UpdateStarts \/ UpdateEnds \/ Read \/ Test \/ Again

Spec == Init /\ [][Next]_vars

(* What is returned was the time in one moment, if no register was read    *)
(* during an update: none is from before a carry that another is from      *)
(* after, however many updates came between the reads (time_read_bcd).     *)
NotTorn == at = 5 /\ ~overlap => time = clock

(* The comment at time.c:64-66 says that reading again when the second has *)
(* changed keeps the error within one second.  A round that lies within an *)
(* update breaks this (time_read_bcd).                                     *)
WithinSecond == at = 5 => time = clock \/ Time(Value(time) + 1) = clock
=============================================================================
