---------------------------- MODULE MCAttendance ----------------------------
(* Instances of Attendance and of its refinement of PunchClock for TLC. *)
EXTENDS AttendanceClock, TLC

WorkerSymmetry == Permutations(Workers)
=============================================================================
