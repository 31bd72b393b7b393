----------------------------- MODULE PunchClock -----------------------------
(***************************************************************************)
(* What the punch clock promises the employee: one scan, one step of the   *)
(* fixed cycle entry, [lunch_start, lunch_end,] exit; never two steps      *)
(* within the cooldown, never a step of a shift that was abandoned, and    *)
(* lunch only around lunch time.  There are no tables, statements or       *)
(* processes here: a scan is one step.  Attendance, behind a single kiosk  *)
(* and without crashes, implements it (AttendanceClock).                   *)
(***************************************************************************)
EXTENDS Naturals

CONSTANTS Employees, Null, Cooldown, MaxOpen, MaxHandling,
          DayLength, LunchStart, LunchEnd

VARIABLES
    clock,   \* the time
    phase,   \* where an employee is in the day's cycle
    opened,  \* when the current shift started, Null when out
    last     \* when the employee last scanned, Null before the first scan

clockVars == <<clock, phase, opened, last>>

Phases == {"out", "working", "lunch", "back"}

\* The cycle documented at toggle_for_employee(): the second scan starts lunch
\* or ends the day, everything after it has one meaning.
Cycle == {<<"out", "working">>, <<"working", "lunch">>, <<"working", "out">>,
          <<"lunch", "back">>, <<"back", "out">>}

\* The instants at which a scan stamped at t may have been received.
Received(t) == {a \in 0 .. t : t <= a + MaxHandling}

LunchTime(a) == a % DayLength \in LunchStart .. LunchEnd

\* Only the second scan of the day is read by the clock on the wall.
Reading(from, to, t) ==
    /\ from = "working" /\ to = "lunch" => \E a \in Received(t) : LunchTime(a)
    /\ from = "working" /\ to = "out" => \E a \in Received(t) : ~LunchTime(a)

\* A scan of e stamped at t moves e from one phase to the next.
Scan(e, t, to) ==
    /\ <<phase[e], to>> \in Cycle
    /\ t <= clock /\ clock <= t + MaxHandling
    /\ last[e] # Null => last[e] + Cooldown <= t
    /\ phase[e] # "out" => t <= opened[e] + MaxOpen + MaxHandling
    /\ Reading(phase[e], to, t)
    /\ phase' = [phase EXCEPT ![e] = to]
    /\ opened' = [opened EXCEPT ![e] =
                    IF to = "out" THEN Null ELSE IF @ = Null THEN t ELSE @]
    /\ last' = [last EXCEPT ![e] = t]
    /\ UNCHANGED clock

\* A shift longer than MaxOpen is taken to be over.
Expire(e) ==
    /\ phase[e] # "out"
    /\ clock > opened[e] + MaxOpen
    /\ phase' = [phase EXCEPT ![e] = "out"]
    /\ opened' = [opened EXCEPT ![e] = Null]
    /\ UNCHANGED <<clock, last>>

TickClock ==
    /\ clock' = clock + 1
    /\ UNCHANGED <<phase, opened, last>>

ClockInit ==
    /\ clock = 0
    /\ phase = [e \in Employees |-> "out"]
    /\ opened = [e \in Employees |-> Null]
    /\ last = [e \in Employees |-> Null]

ClockNext ==
    \/ \E e \in Employees :
          \/ \E t \in Received(clock), to \in Phases : Scan(e, t, to)
          \/ Expire(e)
    \/ TickClock

ClockSpec == ClockInit /\ [][ClockNext]_clockVars
=============================================================================
