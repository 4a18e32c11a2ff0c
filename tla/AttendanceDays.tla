--------------------------- MODULE AttendanceDays ---------------------------
(***************************************************************************)
(* The attendance rows of one employee.  A row is computed from what is     *)
(* known when it is computed (punches, holidays, the exemption, the leave)  *)
(* by a punch, a scheduled task, the payroll or a background job that a     *)
(* change of the past has queued.  A computation is a READ COMMITTED        *)
(* transaction: it reads, then it writes what it concluded, and everything  *)
(* else goes on in between.  A job is queued before the change that queued  *)
(* it is committed.  All days are past and follow one another, minutes are  *)
(* left out.                                                                *)
(***************************************************************************)
EXTENDS FiniteSets, Naturals

CONSTANTS
    Days,
    LeaveDays,      \* the days of the one leave, without the excluded ones
    OffDays,        \* the days outside the working days of the shift
    Ranges,         \* what a holiday, an exemption or a computation may span
    Workers,        \* web and Celery processes that compute rows
    MaxChanges      \* bound: changes of the past

VARIABLES
    src,            \* what is committed: holiday, exempt, punched, leave
    row,            \* AttendanceDay.status by day, "none" without a row
    manual,         \* the days with is_manually_adjusted
    human,          \* history: the days whose row is the last word of a person
    change,         \* the request transaction that is open, if any
    queue,          \* the recompute jobs nobody has taken: ranges of days
    run,            \* the computation of each worker
    changes,        \* number of changes begun
    early,          \* history: days whose jobs were taken while change is open
    missed          \* history: days whose last computation was not of their
                    \* present sources, or failed, or was never asked for

history == <<early, missed>>
vars == <<src, row, manual, human, change, queue, run, changes, history>>

Statuses == {"leave", "holiday", "exempt", "weekend", "present", "absent"}

Sources ==
    [holiday : SUBSET Days, exempt : SUBSET Days, punched : SUBSET Days,
     leave : {"pending", "applied", "revoked"}]

\* What a transaction changes: the days of the instance it saves, and the days
\* that stop being holidays or exempt with it.
HolidayKinds == {"newHoliday", "moveHoliday", "dropHoliday"}
ExemptionKinds == {"grant", "revokeExemption", "revertExemption"}
Kinds == HolidayKinds \cup ExemptionKinds \cup {"approve", "revoke"}

Change == [kind : Kinds, days : SUBSET Days, ends : SUBSET Days]
NoChange == [kind |-> "none", days |-> {}, ends |-> {}]

Computation ==
    [days : SUBSET Days, force : BOOLEAN, new : SUBSET Days,
     seen : Sources, skip : SUBSET Days]

ASSUME AttendanceAssumption ==
    /\ LeaveDays \subseteq Days /\ OffDays \subseteq Days
    /\ Ranges \subseteq SUBSET Days
    /\ MaxChanges \in Nat

TypeOK ==
    /\ src \in Sources
    /\ row \in [Days -> Statuses \cup {"none"}]
    /\ human \subseteq manual /\ missed \subseteq Days /\ early \subseteq Days
    /\ manual \subseteq {d \in Days : row[d] # "none"}
    /\ change \in Change \cup {NoChange}
    /\ queue \subseteq SUBSET Days
    /\ run \in [Workers -> Computation]
    /\ changes \in 0..MaxChanges

Nothing == [holiday |-> {}, exempt |-> {}, punched |-> {}, leave |-> "pending"]

Idle == [days |-> {}, force |-> FALSE, new |-> {}, seen |-> Nothing, skip |-> {}]

Init ==
    /\ src = Nothing
    /\ row = [d \in Days |-> "none"]
    /\ manual = {} /\ human = {} /\ missed = {} /\ early = {}
    /\ change = NoChange
    /\ queue = {}
    /\ run = [w \in Workers |-> Idle]
    /\ changes = 0

OnLeave(s) == IF s.leave = "applied" THEN LeaveDays ELSE {}

-----------------------------------------------------------------------------
(* The rules *)

\* Fault: a holiday is printed over a leave.
ComputeHolidayFirst(s, d) ==
    IF d \in s.holiday THEN "holiday"
    ELSE IF d \in OnLeave(s) THEN "leave"
    ELSE IF d \in s.punched THEN "present" ELSE "absent"

\* compute_day; "present" stands for PRESENT and PARTIAL, and everybody has a
\* shift.
Compute(s, d) ==
    IF d \in OnLeave(s) THEN "leave"
    ELSE IF d \in s.holiday THEN "holiday"
    ELSE IF d \in OffDays \ s.punched THEN "weekend"
    ELSE IF d \in s.exempt THEN "exempt"
    ELSE IF d \in s.punched THEN "present" ELSE "absent"

-----------------------------------------------------------------------------
(* A computation: process_employment_days *)

\* The rows an open transaction has written and not committed.
Locked == IF change.kind = "approve" THEN LeaveDays ELSE {}

Start(w, days, force, new) ==
    /\ run[w].days = {}
    /\ days # {}
    /\ run' = [run EXCEPT ![w] =
                 [days |-> days, force |-> force, new |-> new,
                  seen |-> [src EXCEPT !.punched = @ \cup new],
                  skip |-> IF force THEN {} ELSE days \cap manual]]

\* record_punch and process_punch_day.
Punch(w, d) ==
    /\ Start(w, {d}, FALSE, {d})
    /\ UNCHANGED <<src, row, manual, human, change, queue, changes, history>>

\* nightly_process and the payroll, and the button of the attendance page.
Process(w, days, force) ==
    /\ Start(w, days, force, {})
    /\ UNCHANGED <<src, row, manual, human, change, queue, changes, history>>

\* process_account_absences: a day without a row.
Sweep(w, d) ==
    /\ row[d] = "none"
    /\ Start(w, {d}, FALSE, {})
    /\ UNCHANGED <<src, row, manual, human, change, queue, changes, history>>

\* recompute_employment
Take(w, job) ==
    /\ job \in queue
    /\ Start(w, job, TRUE, {})
    /\ queue' = queue \ {job}
    /\ early' = IF change = NoChange THEN early ELSE early \cup job
    /\ UNCHANGED <<src, row, manual, human, change, changes, missed>>

Written(w) == run[w].days \ run[w].skip

\* update_or_create of every row that is not skipped; the flag is not among
\* its columns, and keeps its value.
Write(w) ==
    LET r == run[w]
        punched == src.punched \cup r.new
        now == [src EXCEPT !.punched = punched]
    IN
    /\ r.days # {}
    /\ Written(w) \cap Locked = {}
    /\ src' = now
    /\ row' = [d \in Days |-> IF d \in Written(w) THEN Compute(r.seen, d) ELSE row[d]]
    /\ human' = human \ Written(w)
    /\ missed' = (missed \ Written(w))
                   \cup {d \in Written(w) : Compute(r.seen, d) # Compute(now, d)}
    /\ run' = [run EXCEPT ![w] = Idle]
    /\ UNCHANGED <<manual, change, queue, changes, early>>

\* The computation fails: a punch is kept, a job is not tried again.
Fail(w) ==
    LET now == [src EXCEPT !.punched = @ \cup run[w].new] IN
    /\ run[w].days # {}
    /\ src' = now
    /\ missed' = missed \cup {d \in run[w].days : row[d] # Compute(now, d)}
    /\ run' = [run EXCEPT ![w] = Idle]
    /\ UNCHANGED <<row, manual, human, change, queue, changes, early>>

-----------------------------------------------------------------------------
(* People *)

\* Fault: the row is not flagged.
AdjustUnflagged(d, s) ==
    /\ row[d] # "none" /\ d \notin Locked
    /\ row' = [row EXCEPT ![d] = s]
    /\ human' = human \cup {d}
    /\ UNCHANGED <<src, manual, change, queue, run, changes, history>>

\* adjust_day_manually
AdjustDay(d, s) ==
    /\ row[d] # "none" /\ d \notin Locked
    /\ row' = [row EXCEPT ![d] = s]
    /\ manual' = manual \cup {d}
    /\ human' = human \cup {d}
    /\ UNCHANGED <<src, change, queue, run, changes, history>>

\* The effect of an approved request to work from home.
RemoteWork(d) ==
    /\ d \notin Locked
    /\ row' = [row EXCEPT ![d] = "present"]
    /\ manual' = manual \cup {d}
    /\ human' = human \cup {d}
    /\ UNCHANGED <<src, change, queue, run, changes, history>>

-----------------------------------------------------------------------------
(* Changes of the past: create_holiday, _org_detail, grant_exemption,        *)
(* revoke_exemption, revert_attendance_exemption, apply_approved_leave,      *)
(* revoke_approved_leave                                                     *)

\* A holiday may be moved to days outside Days.  Holidays may overlap, so one
\* that is moved or deleted need not end on all of its days.
PossibleHoliday(c) ==
    \/ c.kind = "newHoliday" /\ c.days \in Ranges \ {{}} /\ c.ends = {}
    \/ /\ c.kind = "moveHoliday" /\ src.holiday # {}
       /\ c.days \in Ranges \cup {{}} /\ c.ends \subseteq src.holiday
    \/ /\ c.kind = "dropHoliday" /\ c.days \in Ranges \ {{}}
       /\ c.ends \subseteq c.days \cap src.holiday

\* One exemption holds at a time.  The reversal of an approved exemption
\* updates the table and saves no instance.
PossibleExemption(c) ==
    /\ c.ends = src.exempt
    /\ \/ c.kind = "grant" /\ c.days \in Ranges \ {{}}
       \/ c.kind = "revokeExemption" /\ c.days = src.exempt /\ c.ends # {}
       \/ c.kind = "revertExemption" /\ c.days = {} /\ c.ends # {}

PossibleLeave(c) ==
    /\ c.days = LeaveDays /\ c.ends = {}
    /\ \/ c.kind = "approve" /\ src.leave = "pending"
       \/ c.kind = "revoke" /\ src.leave = "applied"

Possible(c) == PossibleHoliday(c) \/ PossibleExemption(c) \/ PossibleLeave(c)

\* Fault: a holiday is nobody's request and queues nothing.
QueuedForRequests(c) ==
    IF c.kind \in HolidayKinds THEN {} ELSE {c.days} \ {{}}

\* The signals queue the days of the saved or deleted instance as they are
\* now.
Queued(c) == {c.days} \ {{}}

\* Every change is saved, and its job sent, before the transaction commits.
Begin(c) ==
    /\ change = NoChange
    /\ Possible(c)
    /\ changes < MaxChanges
    /\ change' = c
    /\ queue' = queue \cup Queued(c)
    /\ changes' = changes + 1
    /\ early' = {}
    /\ UNCHANGED <<src, row, manual, human, run, missed>>

After(c) ==
    CASE c.kind \in {"newHoliday", "moveHoliday"} ->
            [src EXCEPT !.holiday = (@ \ c.ends) \cup c.days]
      [] c.kind = "dropHoliday" -> [src EXCEPT !.holiday = @ \ c.ends]
      [] c.kind = "grant" -> [src EXCEPT !.exempt = c.days]
      [] c.kind \in {"revokeExemption", "revertExemption"} -> [src EXCEPT !.exempt = {}]
      [] c.kind = "approve" -> [src EXCEPT !.leave = "applied"]
      [] c.kind = "revoke" -> [src EXCEPT !.leave = "revoked"]

\* A job that covers the day is still to read its sources.
Awaited(d) == \E job \in queue : d \in job

\* Days that no signal names: those a holiday is moved from, those of an
\* exemption that is reversed or replaced.
SilentlyEnded == change.ends \ change.days

\* An approved leave marks its days in the same transaction.
Commit ==
    /\ change # NoChange
    /\ src' = After(change)
    /\ row' = [d \in Days |-> IF d \in Locked THEN "leave" ELSE row[d]]
    /\ manual' = manual \cup Locked
    /\ human' = human \ Locked
    /\ missed' = (missed \ Locked)
                   \cup {d \in (early \cup SilentlyEnded) \ Locked :
                           Compute(src, d) # Compute(After(change), d) /\ ~Awaited(d)}
    /\ change' = NoChange
    /\ UNCHANGED <<queue, run, changes, early>>

\* The transaction fails after its job was sent.
Abort ==
    /\ change # NoChange
    /\ change' = NoChange
    /\ UNCHANGED <<src, row, manual, human, queue, run, changes, history>>

-----------------------------------------------------------------------------
ComputeNext ==
    \E w \in Workers :
       \/ Write(w) \/ Fail(w)
       \/ \E d \in Days : Punch(w, d) \/ Sweep(w, d)
       \/ \E days \in Ranges, force \in BOOLEAN : Process(w, days, force)
       \/ \E job \in queue : Take(w, job)

PeopleNext ==
    \/ \E d \in Days : RemoteWork(d) \/ \E s \in {"present", "absent"} : AdjustDay(d, s)
    \/ \E c \in Change : Begin(c)
    \/ Commit \/ Abort

Next == ComputeNext \/ PeopleNext

Spec == Init /\ [][Next]_vars

-----------------------------------------------------------------------------
\* Nothing is under way that may still write the day.
Settled(d) ==
    /\ change = NoChange /\ ~Awaited(d)
    /\ \A w \in Workers : d \notin run[w].days

\* A leave protects the flag it has set.
FlagStands(d) == d \in manual => src.leave = "applied" /\ d \in LeaveDays

\* recompute_employment, process_employment_days and the signals: when nothing
\* is under way a row shows what the present sources make of its day, unless
\* a person has written it, its flag outlived the leave that set it, or its
\* last computation ran too early, failed, or was never asked for.
StaleDaysExplained ==
    \A d \in Days :
       /\ row[d] # "none" /\ Settled(d)
       /\ d \notin human \cup missed /\ FlagStands(d)
       => row[d] = Compute(src, d)

\* A day of an applied leave stops being one only by a person's hand or by a
\* computation that had read the leave before it was applied.
LeaveDaysKept ==
    [][\A d \in OnLeave(src) :
          row[d] = "leave" /\ row'[d] # "leave" =>
             \/ d \in human'
             \/ \E w \in Workers : /\ d \in Written(w) /\ run'[w] = Idle
                                    /\ run[w].seen.leave = "pending"]_vars

\* recompute.py: every event that touches the past has its days processed
\* again, the end of an exemption or of a holiday too.
NoRowOutlivesItsReason ==
    \A d \in Days :
       Settled(d) /\ d \notin human =>
          /\ row[d] = "exempt" => d \in src.exempt
          /\ row[d] = "holiday" => d \in src.holiday
=============================================================================
