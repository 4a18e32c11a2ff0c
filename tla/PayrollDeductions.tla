-------------------------- MODULE PayrollDeductions --------------------------
(***************************************************************************)
(* What absences cost: the AttendanceDeduction row of each day that an      *)
(* employee missed, decided by HR, charged by the calculations of           *)
(* PayrollRun and settled by the approval of a run.  A day stands for one   *)
(* (employee, date, kind); its amount is not modelled.  Attendance changes  *)
(* under the runs, as AttendanceDays shows.                                 *)
(***************************************************************************)
EXTENDS PayrollRun

CONSTANTS
    Days,
    MonthOf,        \* the period whose range holds the day
    OwnerOf,        \* its employee
    DefaultStatus   \* "pending" when attendance_deduction_mode is manual

VARIABLES
    absent,     \* days whose AttendanceDay asks for a deduction
    ded,        \* AttendanceDeduction.status, "none" without a row
    settled,    \* AttendanceDeduction.settled_in_run
    charged,    \* days deducted in the payslips of a run
    touched     \* history: days changed since a run was last calculated

dayVars == <<absent, ded, settled, charged, touched>>
dedState == <<run, chain, approval, slips, excluded, signed,
              absent, ded, settled, charged, touched>>

ASSUME DeductionsAssumption ==
    /\ MonthOf \in [Days -> Months]
    /\ OwnerOf \in [Days -> Employees]
    /\ DefaultStatus \in {"pending", "applied"}

DeductionStatuses == {"none", "pending", "applied", "waived"}

DeductionsTypeOK ==
    /\ RunTypeOK
    /\ absent \subseteq Days
    /\ ded \in [Days -> DeductionStatuses]
    /\ settled \in [Days -> Months \cup {NoRun}]
    /\ charged \in [Months -> SUBSET Days]
    /\ touched \in [Months -> SUBSET Days]

DeductionsInit ==
    /\ RunInit
    /\ absent = {}
    /\ ded = [d \in Days |-> "none"]
    /\ settled = [d \in Days |-> NoRun]
    /\ charged = [m \in Months |-> {}]
    /\ touched = [m \in Months |-> {}]

\* Everything a run may have read of these days before is out of date.
OutdateDays(D) == touched' = [m \in Months |-> IF slips[m] = {} THEN touched[m] ELSE touched[m] \cup D]

-----------------------------------------------------------------------------
(* The runs *)

OwnedBy(staff) == {d \in Days : OwnerOf[d] \in staff}

\* The days of its own period that a run finds missing.
Missing(m, staff) == {d \in OwnedBy(staff) \cap absent : MonthOf[d] = m}

\* Fault: a late deduction is taken whether a run has settled it or not.
BacklogOfAll(m, staff) ==
    {d \in OwnedBy(staff) : MonthOf[d] < m /\ ded[d] = "applied"}

\* Fault: the month before counts as the run's own.
BacklogButLastMonth(m, staff) ==
    {d \in OwnedBy(staff) : MonthOf[d] < m - 1 /\ ded[d] = "applied" /\ settled[d] = NoRun}

\* _settle_backlog: decided days of earlier periods that no run has settled.
Backlog(m, staff) ==
    {d \in OwnedBy(staff) : MonthOf[d] < m /\ ded[d] = "applied" /\ settled[d] = NoRun}

\* sync_attendance_deductions: a row for each missing day that has none, and
\* the applied ones charged, with the backlog.  A decision that exists stands.
ChargeDays(m, staff) ==
    LET new == {d \in Missing(m, staff) : ded[d] = "none"} IN
    /\ ded' = [d \in Days |-> IF d \in new THEN DefaultStatus ELSE ded[d]]
    /\ charged' = [charged EXCEPT ![m] =
                     {d \in Missing(m, staff) : ded'[d] = "applied"} \cup Backlog(m, staff)]
    /\ touched' = [k \in Months |-> IF k = m THEN {} ELSE touched[k] \cup new]
    /\ UNCHANGED <<absent, settled>>

CalculateWithDays(m, staff) == Rebuild(m, staff) /\ ChargeDays(m, staff)

\* Fault: the days of the period alone are settled.
SettleOwnPeriod(m) ==
    LET paid == {d \in Days : ded[d] = "applied" /\ settled[d] = NoRun /\ MonthOf[d] = m} IN
    /\ settled' = [d \in Days |-> IF d \in paid THEN m ELSE settled[d]]
    /\ touched' = [k \in Months |-> IF k = m THEN touched[k] ELSE touched[k] \cup paid]
    /\ UNCHANGED <<absent, ded, charged>>

\* approve_run settles all that is applied up to its end, of every employee
\* of the company and whatever its own payslips have charged.
Settle(m) ==
    LET paid == {d \in Days : ded[d] = "applied" /\ settled[d] = NoRun /\ MonthOf[d] <= m} IN
    /\ settled' = [d \in Days |-> IF d \in paid THEN m ELSE settled[d]]
    /\ touched' = [k \in Months |-> IF k = m THEN touched[k] ELSE touched[k] \cup paid]
    /\ UNCHANGED <<absent, ded, charged>>

ApproveAndSettle(m) == Approve(m) /\ Settle(m)

-----------------------------------------------------------------------------
(* The days *)

\* decide_attendance_deduction: also of a settled row; it asks for a
\* recalculation, nothing makes one.
Decide(d, decision) ==
    /\ ded[d] # "none"
    /\ ded' = [ded EXCEPT ![d] = decision]
    /\ OutdateDays({d})
    /\ UNCHANGED <<absent, settled, charged>> /\ UNCHANGED runVars

\* The day is missed, or found missed after all.
Miss(d) ==
    /\ d \notin absent
    /\ absent' = absent \cup {d}
    /\ OutdateDays({d})
    /\ UNCHANGED <<ded, settled, charged>> /\ UNCHANGED runVars

\* A late punch: the row of the day stays.
Punch(d) ==
    /\ d \in absent
    /\ absent' = absent \ {d}
    /\ OutdateDays({d})
    /\ UNCHANGED <<ded, settled, charged>> /\ UNCHANGED runVars

\* recompute_employment with _drop_stale_deductions: a day that became a
\* holiday, a leave or present loses its row unless the row is applied.
Recompute(d) ==
    /\ absent' = absent \ {d}
    /\ LET dropped == ded[d] # "applied" IN
       /\ ded' = [ded EXCEPT ![d] = IF dropped THEN "none" ELSE @]
       /\ settled' = [settled EXCEPT ![d] = IF dropped THEN NoRun ELSE @]
    /\ OutdateDays({d})
    /\ UNCHANGED charged /\ UNCHANGED runVars

-----------------------------------------------------------------------------
DeductionsNext ==
    \/ KeepSlips /\ UNCHANGED dayVars
    \/ \E m \in Months, staff \in SUBSET Employees : CalculateWithDays(m, staff)
    \/ \E m \in Months : ApproveAndSettle(m)
    \/ \E d \in Days :
         \/ Miss(d) \/ Punch(d) \/ Recompute(d)
         \/ \E decision \in {"applied", "waived"} : Decide(d, decision)

DeductionsSpec == DeductionsInit /\ [][DeductionsNext]_dedState

-----------------------------------------------------------------------------
(* Properties *)

\* A day is not taken from pay twice: if two approved runs charge it, the day
\* changed after the later one was calculated (the settlement by the first
\* is such a change), or the later one was approved first.
ChargedOnce ==
    \A m, n \in Approved : \A d \in charged[m] \cap charged[n] :
        m < n => d \in touched[m] \cup touched[n] \/ settled[d] = n

\* What an approved run marks as settled it has deducted, unless the day
\* changed since the payslips were built, its employee has no payslip in the
\* run, or the day is no absence any more.
SettledWasCharged ==
    \A d \in Days : settled[d] # NoRun =>
        LET m == settled[d] IN
        \/ d \in charged[m] \cup touched[m]
        \/ OwnerOf[d] \notin slips[m]
        \/ MonthOf[d] = m /\ d \notin absent

\* No deduction is lost between two runs: the approval of a run of its period
\* or a later one leaves none open that was decided by then, unless the day
\* changed afterwards.
NothingOpenBehind ==
    \A m \in Approved : \A d \in Days :
        MonthOf[d] <= m /\ ded[d] = "applied" /\ settled[d] = NoRun => d \in touched[m]
=============================================================================
