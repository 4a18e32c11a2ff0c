-------------------------- MODULE MCAttendanceDays --------------------------
(* AttendanceDays over one working day, a leave of that day and two workers. *)
EXTENDS AttendanceDays, TLC

CONSTANTS w1, w2

OneDay == {{1}}

Interchangeable == Permutations(Workers)
=============================================================================
