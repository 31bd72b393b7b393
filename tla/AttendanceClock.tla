--------------------------- MODULE AttendanceClock ---------------------------
(***************************************************************************)
(* The tables of Attendance read as the abstract PunchClock: the phase of  *)
(* an employee is what the open row lacks, and the last scan is the newest *)
(* timestamp a scan stored.                                                *)
(***************************************************************************)
EXTENDS Attendance, FiniteSetsExt

\* The shift the employee is in, for an employee with an open row.
Shift(e) == records[CHOOSE r \in OpenRows(e) : TRUE]

PhaseOf(row) ==
    CASE row.at["lunch_start"] = Null -> "working"
      [] row.at["lunch_start"] # Null /\ row.at["lunch_end"] = Null -> "lunch"
      [] OTHER -> "back"

ScanTimes(e) ==
    {t \in 0 .. now : \E r \in DOMAIN records, s \in Steps :
        /\ records[r].emp = e
        /\ ScannedAt(records[r], s)
        /\ records[r].at[s] = t}

PhaseNow == [e \in Employees |->
                IF OpenRows(e) = {} THEN "out" ELSE PhaseOf(Shift(e))]

OpenedNow == [e \in Employees |->
                IF OpenRows(e) = {} THEN Null ELSE Shift(e).at["entry"]]

LastNow == [e \in Employees |->
                IF ScanTimes(e) = {} THEN Null ELSE Max(ScanTimes(e))]

Abstract == INSTANCE PunchClock WITH
    clock <- now, phase <- PhaseNow, opened <- OpenedNow, last <- LastNow

\* While requests about one employee do not overlap and no worker dies between
\* a row and its event (OrderlySpec), the statements of toggle_for_employee()
\* add up to single scans of the abstract clock: the order of the cycle, the
\* cooldown and the abandonment limit all hold of what is stored
\* (service.py:214-237).
ImplementsPunchClock == Abstract!ClockSpec
=============================================================================
