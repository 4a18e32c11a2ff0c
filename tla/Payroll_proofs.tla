---------------------------- MODULE Payroll_proofs ----------------------------
(***************************************************************************)
(* Proofs about the payroll, for every set of months, employees, signing    *)
(* steps, days and items.  One part per module: the runs (PayrollRun), and  *)
(* then what each of the modules that EXTENDS it adds to them: the absences *)
(* a run charges (PayrollDeductions), the items that outlive it             *)
(* (PayrollTerms), and the debts of those who leave (EndOfService).  Each   *)
(* of these is first shown to implement the runs, so that what is approved  *)
(* was signed and stays as it was signed.                                   *)
(***************************************************************************)
EXTENDS PayrollDeductions, PayrollTerms, EndOfService, SetSums, WellFoundedInduction

-----------------------------------------------------------------------------
(***************************************************************************)
(* PayrollRun                                                              *)
(***************************************************************************)

\* current_step finds a step whenever one waits.
LEMMA LeastWaiting ==
    ASSUME RunTypeOK, NEW m \in Months, Waiting(m) # {}
    PROVE  CurrentStep(m) \in Waiting(m)
<1> DEFINE R == OpToRel(<, Nat)
<1>1. Waiting(m) \subseteq Nat
  BY RunAssumption DEF Waiting
<1>2. \E s \in Waiting(m) : \A i \in Waiting(m) : ~(<<i, s>> \in R)
  <2>1. IsWellFoundedOn(R, Nat)
    BY NatLessThanWellFounded
  <2> HIDE DEF R
  <2> QED BY <2>1, <1>1, WFMin
<1>3. \A i, s \in Nat : ~(<<i, s>> \in R) => s <= i
  BY DEF OpToRel
<1>4. \E s \in Waiting(m) : \A i \in Waiting(m) : s <= i
  BY <1>1, <1>2, <1>3
<1> QED BY <1>4 DEF CurrentStep

-----------------------------------------------------------------------------
(* Steps of a run, one by one *)

\* Calculations, whoever asks for them.
LEMMA RebuildIsRecalculation ==
    ASSUME NEW m \in Months, NEW staff \in SUBSET Employees, Rebuild(m, staff)
    PROVE  Recalculate(m, staff) /\ UNCHANGED <<chain, approval>>
BY DEF Rebuild, Calculate, Exclude, Readmit

LEMMA RunTypePreserved ==
    ASSUME RunTypeOK, [RunNext]_runVars
    PROVE  RunTypeOK'
<1> USE RunAssumption
<1>1. ASSUME NEW m \in Months, NEW staff \in SUBSET Employees, Rebuild(m, staff)
      PROVE  RunTypeOK'
  <2>1. excluded' \subseteq Employees \X Scopes
    <3>1. ASSUME NEW e \in Employees, NEW scope \in Scopes, Exclude(m, e, scope, staff)
          PROVE  excluded' \subseteq Employees \X Scopes
      BY <3>1, <<e, scope>> \in Employees \X Scopes DEF RunTypeOK, Exclude
    <3> QED BY <1>1, <3>1 DEF RunTypeOK, Rebuild, Calculate, Readmit
  <2>2. /\ run' \in [Months -> RunStatuses] /\ slips' \in [Months -> SUBSET Employees]
        /\ signed' \in [Months -> SUBSET Steps]
    BY <1>1, RebuildIsRecalculation DEF RunTypeOK, Recalculate, RunStatuses
  <2> QED BY <1>1, <2>1, <2>2, RebuildIsRecalculation DEF RunTypeOK
<1>2. ASSUME NEW m \in Months, CreateRun(m) \/ Submit(m) \/ Approve(m)
      PROVE  RunTypeOK'
  <2>1. run' \in [Months -> RunStatuses]
    BY <1>2 DEF RunTypeOK, CreateRun, Submit, Approve, RunStatuses
  <2>2. approval' \in [Months -> [Steps -> Decisions]]
    BY <1>2 DEF RunTypeOK, CreateRun, Submit, Approve, Decisions
  <2> QED BY <1>2, <2>1, <2>2 DEF RunTypeOK, CreateRun, Submit, Approve
<1>3. ASSUME NEW m \in Months, SignStep(m) \/ RejectStep(m)
      PROVE  RunTypeOK'
  <2>1. CurrentStep(m) \in Steps
    BY <1>3, LeastWaiting DEF SignStep, RejectStep, Waiting
  <2>2. approval' \in [Months -> [Steps -> Decisions]]
    BY <1>3, <2>1 DEF RunTypeOK, SignStep, RejectStep, Decisions
  <2>3. run' \in [Months -> RunStatuses] /\ signed' \in [Months -> SUBSET Steps]
    BY <1>3, <2>1 DEF RunTypeOK, SignStep, RejectStep, RunStatuses
  <2> QED BY <1>3, <2>2, <2>3 DEF RunTypeOK, SignStep, RejectStep
<1>4. ASSUME NEW s \in Steps, AddStep(s) \/ DropStep(s)
      PROVE  RunTypeOK'
  BY <1>4 DEF RunTypeOK, AddStep, DropStep
<1>5. CASE UNCHANGED runVars
  BY <1>5 DEF RunTypeOK, runVars
<1> QED BY <1>1, <1>2, <1>3, <1>4, <1>5 DEF RunNext, KeepSlips

-----------------------------------------------------------------------------
(* What is signed *)

\* The promise of an approved run is made when the run is submitted: from then
\* on each of its rows waits or was signed since the payslips were built, and
\* in an approved run none waits.
SignedOrWaiting(m) ==
    /\ slips[m] # {}
    /\ \A s \in Steps : approval[m][s] # "none" =>
          approval[m][s] = "pending" \/ (approval[m][s] = "approved" /\ s \in signed[m])

RunInv ==
    /\ RunTypeOK
    /\ \A m \in Months : run[m] \in {"submitted", "approved"} => SignedOrWaiting(m)
    /\ \A m \in Months : Locked(m) => Waiting(m) = {}

LEMMA RunInvImplies == RunInv => ApprovedAsSigned
BY DEF RunInv, ApprovedAsSigned, SignedOrWaiting, Waiting, Locked

LEMMA RunInvInit == RunInit => RunInv
BY RunAssumption DEF RunInit, RunInv, RunTypeOK, RunStatuses, Decisions, Locked, Waiting

LEMMA RunInvPreserved ==
    ASSUME RunInv, [RunNext]_runVars
    PROVE  RunInv'
<1>1. RunTypeOK /\ RunTypeOK'
  BY RunTypePreserved DEF RunInv
<1> SUFFICES ASSUME NEW n \in Months
             PROVE  /\ run'[n] \in {"submitted", "approved"} => SignedOrWaiting(n)'
                    /\ Locked(n)' => Waiting(n)' = {}
  BY <1>1 DEF RunInv
<1> DEFINE Same == /\ run'[n] = run[n] /\ slips'[n] = slips[n]
                   /\ approval'[n] = approval[n] /\ signed'[n] = signed[n]
<1>2. ASSUME Same
      PROVE  /\ run'[n] \in {"submitted", "approved"} => SignedOrWaiting(n)'
             /\ Locked(n)' => Waiting(n)' = {}
  BY <1>2 DEF RunInv, SignedOrWaiting, Locked, Waiting
<1>3. ASSUME NEW m \in Months, NEW staff \in SUBSET Employees, Rebuild(m, staff)
      PROVE  Same \/ run'[n] \in {"calculated", "failed"}
  BY <1>1, <1>3, RebuildIsRecalculation DEF RunTypeOK, Recalculate
<1>4. ASSUME NEW m \in Months, CreateRun(m)
      PROVE  Same \/ run'[n] = "draft"
  BY <1>1, <1>4 DEF RunTypeOK, CreateRun
<1>5. ASSUME NEW m \in Months, Submit(m)
      PROVE  Same \/ (run'[n] = "submitted" /\ SignedOrWaiting(n)')
  BY <1>1, <1>5 DEF RunTypeOK, Submit, SignedOrWaiting
<1>6. ASSUME NEW m \in Months, SignStep(m)
      PROVE  Same \/ (~Locked(n)' /\ (run'[n] = "submitted" => SignedOrWaiting(n)'))
  <2>1. CASE n # m
    BY <1>1, <1>6, <2>1 DEF RunTypeOK, SignStep
  <2>2. CASE n = m
    <3>1. ~Locked(n) /\ CurrentStep(n) \in Steps
      BY <1>1, <1>6, <2>2, LeastWaiting DEF SignStep, RunInv, Waiting
    <3>2. /\ approval'[n] = [approval[n] EXCEPT ![CurrentStep(n)] = "approved"]
          /\ signed'[n] = signed[n] \cup {CurrentStep(n)}
          /\ run' = run /\ slips' = slips
      BY <1>1, <1>6, <2>2 DEF RunTypeOK, SignStep
    <3>3. approval[n] \in [Steps -> Decisions]
      BY <1>1 DEF RunTypeOK
    <3> QED BY <3>1, <3>2, <3>3 DEF RunInv, SignedOrWaiting, Locked
  <2> QED BY <2>1, <2>2
<1>7. ASSUME NEW m \in Months, RejectStep(m)
      PROVE  Same \/ run'[n] = "calculated"
  BY <1>1, <1>7 DEF RunTypeOK, RejectStep
<1>8. ASSUME NEW m \in Months, Approve(m)
      PROVE  Same \/ (SignedOrWaiting(n)' /\ Waiting(n)' = {})
  BY <1>1, <1>8 DEF RunTypeOK, Approve, RunInv, SignedOrWaiting, Waiting
<1>9. ASSUME NEW s \in Steps, AddStep(s) \/ DropStep(s)
      PROVE  Same
  BY <1>9 DEF AddStep, DropStep
<1>10. CASE UNCHANGED runVars
  BY <1>2, <1>10 DEF runVars
<1> HIDE DEF Same
<1> QED BY <1>2, <1>3, <1>4, <1>5, <1>6, <1>7, <1>8, <1>9, <1>10 DEF RunNext, KeepSlips, Locked

\* No step of a run changes an approved one.
LEMMA LockedIsKept ==
    ASSUME RunInv, [RunNext]_runVars, NEW n \in Months, Locked(n)
    PROVE  run'[n] = "approved" /\ slips'[n] = slips[n] /\ approval'[n] = approval[n]
<1>1. RunTypeOK /\ run[n] = "approved" /\ Waiting(n) = {}
  BY DEF RunInv, Locked
<1>2. ASSUME NEW m \in Months, NEW staff \in SUBSET Employees, Rebuild(m, staff)
      PROVE  n # m /\ Recalculate(m, staff) /\ approval' = approval
  BY <1>2, RebuildIsRecalculation DEF Recalculate
<1>3. ASSUME NEW m \in Months,
             CreateRun(m) \/ Submit(m) \/ SignStep(m) \/ RejectStep(m) \/ Approve(m)
      PROVE  n # m
  BY <1>1, <1>3 DEF CreateRun, Submit, SignStep, RejectStep, Approve
<1> QED BY <1>1, <1>2, <1>3 DEF RunNext, KeepSlips, Recalculate, CreateRun, Submit, SignStep,
           RejectStep, Approve, AddStep, DropStep, runVars, RunTypeOK

-----------------------------------------------------------------------------
LEMMA RunInvariant == RunSpec => []RunInv
<1>1. RunInit => RunInv
  BY RunInvInit
<1>2. RunInv /\ [RunNext]_runVars => RunInv'
  BY RunInvPreserved
<1> QED BY <1>1, <1>2, PTL DEF RunSpec

\* The tables of runs, payslips, rows and exclusions keep their shape.
THEOREM RunsTyped == RunSpec => []RunTypeOK
<1>1. RunInv => RunTypeOK
  BY DEF RunInv
<1> QED BY <1>1, RunInvariant, PTL

\* submit_run, decide and approve_run: an approved run pays what each step of
\* its chain has signed since the payslips were built.
THEOREM ApprovedRunsAreSigned == RunSpec => []ApprovedAsSigned
BY RunInvariant, RunInvImplies, PTL

\* is_locked: an approved run, its payslips and its signatures stay.
THEOREM ApprovedRunsAreFinal == RunSpec => ApprovedIsFinal
<1> DEFINE Kept == \A m \in Months : Locked(m) =>
                     /\ run'[m] = "approved"
                     /\ slips'[m] = slips[m]
                     /\ approval'[m] = approval[m]
<1>1. RunInv /\ [RunNext]_runVars => Kept
  BY LockedIsKept
<1> QED BY <1>1, RunInvariant, PTL DEF RunSpec, ApprovedIsFinal

-----------------------------------------------------------------------------
(***************************************************************************)
(* PayrollDeductions                                                       *)
(***************************************************************************)

\* Each step is one of the runs' or leaves them alone.
LEMMA DeductionsStepOfRuns == [DeductionsNext]_dedState => [RunNext]_runVars
BY DEF DeductionsNext, dedState, runVars, RunNext, CalculateWithDays, ApproveAndSettle,
       Miss, Punch, Recompute, Decide

\* The composition of runs and deductions implements the runs: deductions add
\* to what a calculation and an approval do, and enable nothing new.
THEOREM DeductionsImplementRuns == DeductionsSpec => RunSpec
<1>1. DeductionsInit => RunInit
  BY DEF DeductionsInit
<1> QED BY <1>1, DeductionsStepOfRuns, PTL DEF DeductionsSpec, RunSpec

\* What HR and the attendance do to days: the runs stand still, and a day that
\* is touched is out of date in every run with payslips.
DayStep(d) ==
    /\ UNCHANGED runVars /\ OutdateDays({d}) /\ charged' = charged
    /\ absent' \in {absent, absent \cup {d}, absent \ {d}}
    /\ \A c \in Days \ {d} : ded'[c] = ded[c] /\ settled'[c] = settled[c]
    /\ settled'[d] = settled[d] \/ (settled'[d] = NoRun /\ ded'[d] = "none")

Touch(d) == \/ Miss(d) \/ Punch(d) \/ Recompute(d)
            \/ \E decision \in {"applied", "waived"} : Decide(d, decision)

LEMMA TouchIsDayStep ==
    ASSUME DeductionsTypeOK, NEW d \in Days, Touch(d)
    PROVE  DayStep(d)
<1>1. CASE Miss(d) \/ Punch(d)
  BY <1>1 DEF Miss, Punch, DayStep
<1>2. CASE Recompute(d)
  BY <1>2 DEF Recompute, DayStep, DeductionsTypeOK
<1>3. CASE \E decision \in {"applied", "waived"} : Decide(d, decision)
  BY <1>3 DEF Decide, DayStep, DeductionsTypeOK
<1> QED BY <1>1, <1>2, <1>3 DEF Touch

\* What a step is, for the proofs below: a calculation with what it charges,
\* an approval with what it settles, a day that is touched, or nothing.
LEMMA DeductionsStepCases ==
    ASSUME RunTypeOK, [DeductionsNext]_dedState
    PROVE  \/ UNCHANGED dayVars /\ UNCHANGED slips /\ \A m \in Months : ~Locked(m) => ~Locked(m)'
           \/ \E m \in Months, staff \in SUBSET Employees : CalculateWithDays(m, staff)
           \/ \E m \in Months : ApproveAndSettle(m)
           \/ \E d \in Days : Touch(d)
<1>1. CASE KeepSlips /\ UNCHANGED dayVars
  <2>1. ASSUME NEW n \in Months, CreateRun(n) \/ Submit(n) \/ RejectStep(n) \/ SignStep(n)
        PROVE  UNCHANGED slips /\ \A m \in Months : ~Locked(m) => ~Locked(m)'
    BY <2>1 DEF RunTypeOK, CreateRun, Submit, RejectStep, SignStep, Locked
  <2>2. ASSUME NEW s \in Steps, AddStep(s) \/ DropStep(s)
        PROVE  UNCHANGED slips /\ \A m \in Months : ~Locked(m) => ~Locked(m)'
    BY <2>2 DEF AddStep, DropStep, Locked
  <2> QED BY <1>1, <2>1, <2>2 DEF KeepSlips
<1>2. CASE UNCHANGED dedState
  BY <1>2 DEF dedState, dayVars, Locked
<1> QED BY <1>1, <1>2 DEF DeductionsNext, Touch

LEMMA DeductionsTypePreserved ==
    ASSUME DeductionsTypeOK, [DeductionsNext]_dedState
    PROVE  DeductionsTypeOK'
<1> USE DeductionsAssumption DEF DeductionsTypeOK
<1>1. RunTypeOK'
  BY DeductionsStepOfRuns, RunTypePreserved
<1>2. CASE UNCHANGED dayVars
  BY <1>1, <1>2 DEF dayVars
<1>3. ASSUME NEW m \in Months, NEW staff \in SUBSET Employees, CalculateWithDays(m, staff)
      PROVE  DeductionsTypeOK'
  <2>1. ChargeDays(m, staff)
    BY <1>3 DEF CalculateWithDays
  <2>2. ded' \in [Days -> DeductionStatuses] /\ absent' = absent /\ settled' = settled
    BY <2>1 DEF ChargeDays, DeductionStatuses
  <2>3. charged' \in [Months -> SUBSET Days]
    BY <2>1 DEF ChargeDays, Missing, Backlog, OwnedBy
  <2>4. touched' \in [Months -> SUBSET Days]
    BY <2>1 DEF ChargeDays, Missing, OwnedBy
  <2> QED BY <1>1, <2>2, <2>3, <2>4
<1>4. ASSUME NEW m \in Months, ApproveAndSettle(m)
      PROVE  DeductionsTypeOK'
  BY <1>1, <1>4 DEF ApproveAndSettle, Settle
<1>5. ASSUME NEW d \in Days, Touch(d)
      PROVE  DeductionsTypeOK'
  <2>1. touched' \in [Months -> SUBSET Days]
    BY <1>5, TouchIsDayStep DEF DayStep, OutdateDays
  <2> QED BY <1>1, <1>5, <2>1 DEF Touch, Miss, Punch, Recompute, Decide, DeductionStatuses
<1> QED BY <1>2, <1>3, <1>4, <1>5, DeductionsStepCases

-----------------------------------------------------------------------------
(* The invariant.  Each conjunct speaks of a run and a day, and of what has  *)
(* happened to the day since the payslips of the run were built.            *)

\* A charged day belongs to an employee with a payslip and to no later month.
ChargedIsOwn ==
    \A m \in Months : \A d \in charged[m] : OwnerOf[d] \in slips[m] /\ MonthOf[d] <= m

\* What is charged is applied.
ChargedIsApplied ==
    \A m \in Months : \A d \in charged[m] : d \in touched[m] \/ ded[d] = "applied"

\* The backlog was open when it was charged, and only this run has settled it.
BacklogWasOpen ==
    \A m \in Months : \A d \in charged[m] :
        MonthOf[d] < m => d \in touched[m] \/ settled[d] \in {NoRun, m}

\* An open deduction of those paid is in the payslips.
OpenIsCharged ==
    \A m \in Months, d \in Days :
        /\ ded[d] = "applied" /\ settled[d] = NoRun
        /\ MonthOf[d] <= m /\ OwnerOf[d] \in slips[m]
        => d \in charged[m] \cup touched[m] \/ (MonthOf[d] = m /\ d \notin absent)

\* Approval settles, with what it has charged; only an approved run settles.
ApprovedSettles ==
    \A m \in Approved : \A d \in charged[m] : d \in touched[m] \/ settled[d] # NoRun
SettledByApproved == \A d \in Days : settled[d] # NoRun => settled[d] \in Approved

DeductionsInv ==
    /\ DeductionsTypeOK /\ RunInv
    /\ ChargedIsOwn /\ ChargedIsApplied /\ BacklogWasOpen /\ OpenIsCharged
    /\ ApprovedSettles /\ SettledByApproved
    /\ SettledWasCharged /\ NothingOpenBehind

LEMMA DeductionsInvInit == DeductionsInit => DeductionsInv
<1> SUFFICES ASSUME DeductionsInit PROVE DeductionsInv
  OBVIOUS
<1>1. DeductionsTypeOK /\ RunInv
  BY RunInvInit, DeductionsAssumption DEF DeductionsInit, DeductionsTypeOK, RunInv, DeductionStatuses
<1>2. Approved = {} /\ \A d \in Days : settled[d] = NoRun /\ ded[d] = "none"
  BY DEF DeductionsInit, RunInit, Approved, Locked
<1>3. \A m \in Months : charged[m] = {}
  BY DEF DeductionsInit
<1> QED BY <1>1, <1>2, <1>3 DEF DeductionsInv, ChargedIsOwn, ChargedIsApplied, BacklogWasOpen,
           OpenIsCharged, ApprovedSettles, SettledByApproved, SettledWasCharged, NothingOpenBehind

\* Approved runs are not among those that a step calculates, and have payslips.
LEMMA ApprovedStays ==
    ASSUME DeductionsInv, [DeductionsNext]_dedState, NEW m \in Approved
    PROVE  m \in Approved' /\ slips'[m] = slips[m] /\ slips[m] # {}
<1>1. m \in Months /\ Locked(m)
  BY DEF Approved
<1> QED BY <1>1, DeductionsStepOfRuns, LockedIsKept DEF DeductionsInv, RunInv, SignedOrWaiting, Locked, Approved

LEMMA DaysKeptByRest ==
    ASSUME DeductionsInv, DeductionsTypeOK', RunInv', UNCHANGED dayVars, UNCHANGED slips,
           \A m \in Months : ~Locked(m) => ~Locked(m)', [DeductionsNext]_dedState
    PROVE  DeductionsInv'
<1>1. Approved' = Approved
  BY ApprovedStays DEF Approved
<1> QED BY <1>1 DEF DeductionsInv, dayVars, ChargedIsOwn, ChargedIsApplied, BacklogWasOpen,
           OpenIsCharged, ApprovedSettles, SettledByApproved, SettledWasCharged, NothingOpenBehind

LEMMA DaysKeptByCalculation ==
    ASSUME DeductionsInv, DeductionsTypeOK', RunInv', [DeductionsNext]_dedState,
           NEW m \in Months, NEW staff \in SUBSET Employees, CalculateWithDays(m, staff)
    PROVE  DeductionsInv'
<1> USE DeductionsAssumption, RunAssumption
<1>1. DeductionsTypeOK /\ RunTypeOK
  BY DEF DeductionsInv, DeductionsTypeOK
<1>2. m \notin Approved /\ m \notin Approved' /\ slips' = [slips EXCEPT ![m] = staff]
  BY <1>1, RebuildIsRecalculation DEF CalculateWithDays, Recalculate, Approved, Locked, RunTypeOK
<1>3. Approved' = Approved
  <2>1. ASSUME NEW k \in Months \ {m} PROVE run'[k] = run[k]
    BY <1>1, <2>1, RebuildIsRecalculation DEF CalculateWithDays, Recalculate, RunTypeOK
  <2> QED BY <1>2, <2>1 DEF Approved, Locked
<1> DEFINE new == {d \in Missing(m, staff) : ded[d] = "none"}
<1>4. /\ ded' = [d \in Days |-> IF d \in new THEN DefaultStatus ELSE ded[d]]
      /\ charged' = [charged EXCEPT ![m] =
                       {d \in Missing(m, staff) : ded'[d] = "applied"} \cup Backlog(m, staff)]
      /\ touched' = [k \in Months |-> IF k = m THEN {} ELSE touched[k] \cup new]
      /\ absent' = absent /\ settled' = settled
  BY DEF CalculateWithDays, ChargeDays
<1>5. /\ \A d \in Days : ded'[d] = ded[d] \/ (d \in new /\ ded[d] = "none")
      /\ \A k \in Months \ {m} : /\ slips'[k] = slips[k] /\ charged'[k] = charged[k]
                                 /\ touched'[k] = touched[k] \cup new
  BY <1>1, <1>2, <1>4 DEF DeductionsTypeOK, RunTypeOK
<1>6. /\ slips'[m] = staff
      /\ charged'[m] = {d \in Missing(m, staff) : ded'[d] = "applied"} \cup Backlog(m, staff)
  BY <1>1, <1>2, <1>4 DEF DeductionsTypeOK, RunTypeOK
<1>7. \A d \in charged'[m] :
        /\ d \in Days /\ OwnerOf[d] \in staff /\ MonthOf[d] <= m /\ ded'[d] = "applied"
        /\ MonthOf[d] < m => settled[d] = NoRun
  <2> SUFFICES ASSUME NEW d \in charged'[m]
               PROVE  /\ d \in Days /\ OwnerOf[d] \in staff /\ MonthOf[d] <= m
                      /\ ded'[d] = "applied" /\ (MonthOf[d] < m => settled[d] = NoRun)
    OBVIOUS
  <2>1. CASE d \in Backlog(m, staff)
    <3>1. /\ d \in Days /\ OwnerOf[d] \in staff /\ MonthOf[d] < m
          /\ ded[d] = "applied" /\ settled[d] = NoRun
      BY <2>1 DEF Backlog, OwnedBy
    <3>2. MonthOf[d] \in Nat /\ m \in Nat
      BY <3>1
    <3>3. ded'[d] = "applied"
      BY <3>1, <1>5
    <3> QED BY <3>1, <3>2, <3>3
  <2>2. CASE d \in Missing(m, staff) /\ ded'[d] = "applied"
    BY <2>2 DEF Missing, OwnedBy
  <2> QED BY <1>6, <2>1, <2>2
<1>8. \A d \in Days : ded[d] = "none" => ded[d] # "applied"
  OBVIOUS
<1> HIDE DEF new
<1>9. ChargedIsOwn'
  BY <1>5, <1>6, <1>7 DEF DeductionsInv, ChargedIsOwn
<1>10. ChargedIsApplied'
  <2> SUFFICES ASSUME NEW k \in Months, NEW d \in charged'[k]
               PROVE  d \in touched'[k] \/ ded'[d] = "applied"
    BY DEF ChargedIsApplied
  <2>1. CASE k = m
    BY <2>1, <1>7
  <2>2. CASE k # m
    BY <2>2, <1>1, <1>5 DEF DeductionsInv, ChargedIsApplied, DeductionsTypeOK
  <2> QED BY <2>1, <2>2
<1>11. BacklogWasOpen'
  BY <1>4, <1>5, <1>7 DEF DeductionsInv, BacklogWasOpen
<1>12. OpenIsCharged'
  <2> SUFFICES ASSUME NEW k \in Months, NEW d \in Days,
                      ded'[d] = "applied", settled'[d] = NoRun,
                      MonthOf[d] <= k, OwnerOf[d] \in slips'[k]
               PROVE  d \in charged'[k] \cup touched'[k] \/ (MonthOf[d] = k /\ d \notin absent')
    BY DEF OpenIsCharged
  <2>1. CASE k # m
    BY <2>1, <1>4, <1>5 DEF DeductionsInv, OpenIsCharged
  <2>2. CASE k = m /\ MonthOf[d] = m
    BY <2>2, <1>4, <1>6 DEF Missing, OwnedBy
  <2>3. CASE k = m /\ MonthOf[d] # m
    <3>1. MonthOf[d] < m /\ d \notin new
      BY <2>3 DEF new, Missing
    <3> QED BY <2>3, <3>1, <1>4, <1>5, <1>6 DEF Backlog, OwnedBy
  <2> QED BY <2>1, <2>2, <2>3
<1>13. ApprovedSettles'
  <2> SUFFICES ASSUME NEW k \in Approved, NEW d \in charged'[k]
               PROVE  d \in touched'[k] \/ settled'[d] # NoRun
    BY <1>3 DEF ApprovedSettles
  <2>1. k \in Months \ {m}
    BY <1>2 DEF Approved
  <2> QED BY <2>1, <1>4, <1>5 DEF DeductionsInv, ApprovedSettles
<1>14. SettledByApproved'
  BY <1>3, <1>4 DEF DeductionsInv, SettledByApproved
<1>15. SettledWasCharged'
  <2> SUFFICES ASSUME NEW d \in Days, settled[d] # NoRun
               PROVE  \/ d \in charged'[settled[d]] \cup touched'[settled[d]]
                      \/ OwnerOf[d] \notin slips'[settled[d]]
                      \/ MonthOf[d] = settled[d] /\ d \notin absent
    BY <1>4 DEF SettledWasCharged
  <2>1. settled[d] \in Months \ {m}
    BY <1>2 DEF DeductionsInv, SettledByApproved, Approved
  <2> QED BY <2>1, <1>5 DEF DeductionsInv, SettledWasCharged
<1>16. NothingOpenBehind'
  <2> SUFFICES ASSUME NEW k \in Approved, NEW d \in Days,
                      MonthOf[d] <= k, ded'[d] = "applied", settled'[d] = NoRun
               PROVE  d \in touched'[k]
    BY <1>3 DEF NothingOpenBehind
  <2>1. k \in Months \ {m}
    BY <1>2 DEF Approved
  <2> QED BY <2>1, <1>4, <1>5 DEF DeductionsInv, NothingOpenBehind
<1> QED BY <1>9, <1>10, <1>11, <1>12, <1>13, <1>14, <1>15, <1>16 DEF DeductionsInv

LEMMA DaysKeptByApproval ==
    ASSUME DeductionsInv, DeductionsTypeOK', RunInv', [DeductionsNext]_dedState, NEW m \in Months, ApproveAndSettle(m)
    PROVE  DeductionsInv'
<1> USE DeductionsAssumption, RunAssumption
<1>1. DeductionsTypeOK /\ RunTypeOK
  BY DEF DeductionsInv, DeductionsTypeOK
<1>2. m \notin Approved /\ Approved' = Approved \cup {m} /\ slips' = slips
  BY <1>1 DEF ApproveAndSettle, Approve, Approved, Locked, RunTypeOK
<1> DEFINE paid == {d \in Days : ded[d] = "applied" /\ settled[d] = NoRun /\ MonthOf[d] <= m}
<1>3. /\ settled' = [d \in Days |-> IF d \in paid THEN m ELSE settled[d]]
      /\ touched' = [k \in Months |-> IF k = m THEN touched[k] ELSE touched[k] \cup paid]
      /\ absent' = absent /\ ded' = ded /\ charged' = charged
  BY DEF ApproveAndSettle, Settle
<1>4. /\ \A d \in paid : settled[d] = NoRun /\ settled'[d] = m
      /\ \A d \in Days \ paid : settled'[d] = settled[d]
      /\ \A k \in Months : touched[k] \subseteq touched'[k]
      /\ \A k \in Months \ {m} : paid \subseteq touched'[k]
  BY <1>3
<1>5. \A d \in Days : settled'[d] = NoRun => settled[d] = NoRun /\ d \notin paid
  BY <1>4 DEF NoRun
<1>6. \A k \in Months : charged[k] \subseteq Days
  BY <1>1 DEF DeductionsTypeOK
<1>7. ChargedIsOwn' /\ ChargedIsApplied'
  BY <1>2, <1>3, <1>4 DEF DeductionsInv, ChargedIsOwn, ChargedIsApplied
<1>8. BacklogWasOpen'
  <2> SUFFICES ASSUME NEW k \in Months, NEW d \in charged[k], MonthOf[d] < k, d \notin touched'[k]
               PROVE  settled'[d] \in {NoRun, k}
    BY <1>3 DEF BacklogWasOpen
  <2>1. settled[d] \in {NoRun, k}
    BY <1>4 DEF DeductionsInv, BacklogWasOpen
  <2> QED BY <2>1, <1>4, <1>6
<1>9. OpenIsCharged'
  <2> SUFFICES ASSUME NEW k \in Months, NEW d \in Days,
                      ded[d] = "applied", settled'[d] = NoRun,
                      MonthOf[d] <= k, OwnerOf[d] \in slips[k]
               PROVE  d \in charged[k] \cup touched'[k] \/ (MonthOf[d] = k /\ d \notin absent)
    BY <1>2, <1>3 DEF OpenIsCharged
  <2> QED BY <1>4, <1>5 DEF DeductionsInv, OpenIsCharged
<1>10. ApprovedSettles'
  <2> SUFFICES ASSUME NEW k \in Approved', NEW d \in charged[k], d \notin touched'[k]
               PROVE  settled'[d] # NoRun
    BY <1>3 DEF ApprovedSettles
  <2>1. k \in Months /\ d \in Days /\ d \notin touched[k] /\ MonthOf[d] <= k
    BY <1>2, <1>4, <1>6 DEF Approved, DeductionsInv, ChargedIsOwn
  <2>2. CASE k \in Approved
    BY <2>1, <2>2, <1>5 DEF DeductionsInv, ApprovedSettles
  <2>3. CASE k = m
    BY <2>1, <2>3, <1>5 DEF DeductionsInv, ChargedIsApplied
  <2> QED BY <1>2, <2>2, <2>3
<1>11. SettledByApproved'
  BY <1>2, <1>4 DEF DeductionsInv, SettledByApproved
<1>12. SettledWasCharged'
  <2> SUFFICES ASSUME NEW d \in Days, settled'[d] # NoRun
               PROVE  \/ d \in charged[settled'[d]] \cup touched'[settled'[d]]
                      \/ OwnerOf[d] \notin slips[settled'[d]]
                      \/ MonthOf[d] = settled'[d] /\ d \notin absent
    BY <1>2, <1>3 DEF SettledWasCharged
  <2>1. CASE d \in paid
    BY <2>1, <1>4 DEF DeductionsInv, OpenIsCharged
  <2>2. CASE d \notin paid
    BY <2>2, <1>4 DEF DeductionsInv, SettledWasCharged, SettledByApproved, Approved
  <2> QED BY <2>1, <2>2
<1>13. NothingOpenBehind'
  <2> SUFFICES ASSUME NEW k \in Approved', NEW d \in Days,
                      MonthOf[d] <= k, ded[d] = "applied", settled'[d] = NoRun
               PROVE  d \in touched'[k]
    BY <1>3 DEF NothingOpenBehind
  <2>1. k = m => d \in paid
    BY <1>5
  <2>2. k \in Approved /\ settled[d] = NoRun
    BY <2>1, <1>2, <1>5
  <2> QED BY <2>2, <1>4 DEF DeductionsInv, NothingOpenBehind, Approved
<1> QED BY <1>7, <1>8, <1>9, <1>10, <1>11, <1>12, <1>13 DEF DeductionsInv

LEMMA DaysKeptByDay ==
    ASSUME DeductionsInv, DeductionsTypeOK', RunInv', [DeductionsNext]_dedState, NEW c \in Days, Touch(c)
    PROVE  DeductionsInv'
<1>1. DeductionsTypeOK /\ RunTypeOK
  BY DEF DeductionsInv, DeductionsTypeOK
<1>2. DayStep(c)
  BY <1>1, TouchIsDayStep
<1>3. Approved' = Approved /\ slips' = slips /\ charged' = charged
  BY <1>2 DEF DayStep, runVars, Approved, Locked
<1>4. /\ \A k \in Months : touched[k] \subseteq touched'[k]
      /\ \A k \in Months : slips[k] # {} => c \in touched'[k]
  BY <1>2 DEF DayStep, OutdateDays
<1>5. /\ \A d \in Days \ {c} : ded'[d] = ded[d] /\ settled'[d] = settled[d]
      /\ \A d \in Days \ {c} : d \in absent' <=> d \in absent
      /\ settled'[c] = settled[c] \/ (settled'[c] = NoRun /\ ded'[c] = "none")
  BY <1>2 DEF DayStep
<1>6. \A k \in Months : charged[k] \subseteq Days
  BY <1>1 DEF DeductionsTypeOK
<1>7. \A k \in Months : c \in charged[k] => c \in touched'[k]
  BY <1>4 DEF DeductionsInv, ChargedIsOwn
<1>8. \A k \in Approved : k \in Months /\ c \in touched'[k]
  BY <1>4, ApprovedStays DEF Approved
<1>9. ChargedIsOwn'
  BY <1>3 DEF DeductionsInv, ChargedIsOwn
<1>10. ChargedIsApplied'
  BY <1>3, <1>4, <1>5, <1>6, <1>7 DEF DeductionsInv, ChargedIsApplied
<1>11. BacklogWasOpen'
  BY <1>3, <1>4, <1>5, <1>6, <1>7 DEF DeductionsInv, BacklogWasOpen
<1>12. OpenIsCharged'
  <2> SUFFICES ASSUME NEW k \in Months, NEW d \in Days,
                      ded'[d] = "applied", settled'[d] = NoRun,
                      MonthOf[d] <= k, OwnerOf[d] \in slips[k]
               PROVE  d \in charged[k] \cup touched'[k] \/ (MonthOf[d] = k /\ d \notin absent')
    BY <1>3 DEF OpenIsCharged
  <2> QED BY <1>4, <1>5 DEF DeductionsInv, OpenIsCharged
<1>13. ApprovedSettles'
  BY <1>3, <1>4, <1>5, <1>6, <1>8 DEF DeductionsInv, ApprovedSettles
<1>14. SettledByApproved'
  BY <1>3, <1>5 DEF DeductionsInv, SettledByApproved
<1>15. SettledWasCharged'
  <2> SUFFICES ASSUME NEW d \in Days, settled'[d] # NoRun
               PROVE  \/ d \in charged[settled'[d]] \cup touched'[settled'[d]]
                      \/ OwnerOf[d] \notin slips[settled'[d]]
                      \/ MonthOf[d] = settled'[d] /\ d \notin absent'
    BY <1>3 DEF SettledWasCharged
  <2>1. settled'[d] = settled[d] /\ settled[d] \in Approved
    BY <1>5 DEF DeductionsInv, SettledByApproved
  <2>2. CASE d = c
    BY <2>1, <2>2, <1>8
  <2>3. CASE d # c
    BY <2>1, <2>3, <1>4, <1>5, <1>8 DEF DeductionsInv, SettledWasCharged
  <2> QED BY <2>2, <2>3
<1>16. NothingOpenBehind'
  BY <1>3, <1>4, <1>5, <1>8 DEF DeductionsInv, NothingOpenBehind
<1> QED BY <1>9, <1>10, <1>11, <1>12, <1>13, <1>14, <1>15, <1>16 DEF DeductionsInv

-----------------------------------------------------------------------------
LEMMA DeductionsInvPreserved ==
    ASSUME DeductionsInv, [DeductionsNext]_dedState
    PROVE  DeductionsInv'
<1>1. DeductionsTypeOK' /\ RunInv'
  BY DeductionsTypePreserved, DeductionsStepOfRuns, RunInvPreserved DEF DeductionsInv
<1> QED BY <1>1, DeductionsStepCases, DaysKeptByRest, DaysKeptByCalculation,
           DaysKeptByApproval, DaysKeptByDay DEF DeductionsInv, DeductionsTypeOK

LEMMA DeductionsInvariant == DeductionsSpec => []DeductionsInv
BY DeductionsInvInit, DeductionsInvPreserved, PTL DEF DeductionsSpec

\* A day that two runs charge was settled by the earlier one when it was
\* approved, so that the later one took it as an open day before that, or after
\* the day had changed.
LEMMA InvImpliesChargedOnce == DeductionsInv => ChargedOnce
<1> SUFFICES ASSUME DeductionsInv, NEW m \in Approved, NEW n \in Approved,
                    NEW d \in charged[m] \cap charged[n], m < n
             PROVE  d \in touched[m] \cup touched[n] \/ settled[d] = n
  BY DEF ChargedOnce
<1>1. m \in Months /\ n \in Months /\ d \in Days /\ MonthOf[d] \in Months
  BY DeductionsAssumption DEF Approved, DeductionsInv, DeductionsTypeOK
<1>2. MonthOf[d] < n
  BY <1>1, RunAssumption DEF DeductionsInv, ChargedIsOwn
<1>3. d \in touched[m] \/ settled[d] # NoRun
  BY DEF DeductionsInv, ApprovedSettles
<1>4. d \in touched[n] \/ settled[d] \in {NoRun, n}
  BY <1>1, <1>2 DEF DeductionsInv, BacklogWasOpen
<1> QED BY <1>3, <1>4

\* Runs, rows and days keep their shape.
THEOREM DeductionsTyped == DeductionsSpec => []DeductionsTypeOK
<1>1. DeductionsInv => DeductionsTypeOK
  BY DEF DeductionsInv
<1> QED BY <1>1, DeductionsInvariant, PTL

\* With deductions in the payslips: what is approved was signed, and stays.
THEOREM SignedWithDeductions == DeductionsSpec => []ApprovedAsSigned
BY DeductionsImplementRuns, ApprovedRunsAreSigned, PTL

THEOREM FinalWithDeductions == DeductionsSpec => ApprovedIsFinal
BY DeductionsImplementRuns, ApprovedRunsAreFinal, PTL

\* calculate_run and approve_run: no absence is deducted by two approved runs,
\* up to the named exceptions.
THEOREM AbsenceChargedOnce == DeductionsSpec => []ChargedOnce
BY InvImpliesChargedOnce, DeductionsInvariant, PTL

\* approve_run: what is marked as settled was deducted, up to the exceptions.
THEOREM SettledDaysWereCharged == DeductionsSpec => []SettledWasCharged
<1>1. DeductionsInv => SettledWasCharged
  BY DEF DeductionsInv
<1> QED BY <1>1, DeductionsInvariant, PTL

\* approve_run: no decided deduction is left behind the last approved run.
THEOREM NoDeductionIsLost == DeductionsSpec => []NothingOpenBehind
<1>1. DeductionsInv => NothingOpenBehind
  BY DEF DeductionsInv
<1> QED BY <1>1, DeductionsInvariant, PTL

-----------------------------------------------------------------------------
(***************************************************************************)
(* PayrollTerms                                                            *)
(***************************************************************************)

\* What people do to an item.
EditOf(x) ==
    \/ \E m, n \in Months : Defer(x, m, n)
    \/ x \in Retros /\ \E m \in Months : SelectRetro(x, m)
    \/ x \in Retros /\ (RecordRetro(x) \/ RefuseRetro(x, "deferred")
                        \/ RefuseRetro(x, "cancelled") \/ RevokeRetro(x))
    \/ x \in Recurring /\ SwitchRecurring(x)
    \/ x \in Loans /\ (GrantLoan(x) \/ SwitchDeduction(x))
    \/ x \in Activities /\ ReviewActivity(x)
    \/ \E d \in Deferrals : d[1] = x /\ CancelDeferral(d)

LEMMA TermsStepCases ==
    ASSUME [TermsNext]_termState
    PROVE  \/ KeepSlips /\ UNCHANGED termVars
           \/ \E m \in Months, staff \in SUBSET Employees : CalculateWithItems(m, staff)
           \/ \E m \in Months : ApproveAndConsume(m)
           \/ \E x \in Items : EditOf(x)
           \/ UNCHANGED termState
BY DEF TermsNext, EditOf, Items, Deferrals

LEMMA EditIsEdit ==
    ASSUME NEW x \in Items, EditOf(x)
    PROVE  Edit(x)
BY DEF EditOf, Defer, SelectRetro, RecordRetro, RefuseRetro, RevokeRetro, SwitchRecurring,
       GrantLoan, SwitchDeduction, ReviewActivity, CancelDeferral

LEMMA TermsStepOfRuns == [TermsNext]_termState => [RunNext]_runVars
<1>1. ASSUME NEW x \in Items, EditOf(x) PROVE UNCHANGED runVars
  BY <1>1, EditIsEdit DEF Edit
<1> QED BY <1>1, TermsStepCases DEF RunNext, CalculateWithItems, ApproveAndConsume, termState, runVars

\* Whatever happens to adjustments, advances and deferrals, a calculation and
\* an approval do to the run what PayrollRun says.
THEOREM TermsImplementRuns == TermsSpec => RunSpec
<1>1. TermsInit => RunInit
  BY DEF TermsInit
<1> QED BY <1>1, TermsStepOfRuns, PTL DEF TermsSpec, RunSpec

\* What is approved was signed and stays, with everything the payslips hold.
THEOREM SignedWithTerms == TermsSpec => []ApprovedAsSigned /\ ApprovedIsFinal
BY TermsImplementRuns, ApprovedRunsAreSigned, ApprovedRunsAreFinal, PTL

-----------------------------------------------------------------------------
(* Types *)

LEMMA DueTyped ==
    ASSUME TermsTypeOK, NEW x \in Loans, NEW m \in Months
    PROVE  /\ Outstanding(x) \in 0..Amount /\ Due(x, m) \in 0..Amount
           /\ Repay(x, m) \in LoanType
<1> USE TermsAssumption
<1>1. /\ loan[x] \in LoanType /\ loan[x].repaid \in 0..Amount
      /\ loan[x].inst \in [Months -> 0..Amount] /\ loan[x].inst[m] \in 0..Amount
  BY DEF TermsTypeOK, LoanType
<1>2. Outstanding(x) \in 0..Amount
  BY <1>1 DEF Outstanding
<1>3. Due(x, m) \in 0..Amount
  BY <1>1, <1>2 DEF Due
<1> DEFINE got == IF Due(x, m) > Outstanding(x) THEN Outstanding(x) ELSE Due(x, m)
<1>4. got \in 0..Amount /\ loan[x].repaid + got \in 0..Amount
  BY <1>1, <1>2, <1>3 DEF Outstanding
<1>5. Repay(x, m) = [loan[x] EXCEPT !.inst[m] = got, !.repaid = @ + got,
                          !.status = IF Outstanding(x) = got THEN "settled" ELSE @]
  BY DEF Repay
<1> HIDE DEF got
<1>6. [loan[x].inst EXCEPT ![m] = got] \in [Months -> 0..Amount]
  BY <1>1, <1>4
<1>7. Repay(x, m) \in LoanType
  BY <1>1, <1>4, <1>5, <1>6 DEF LoanType
<1> QED BY <1>2, <1>3, <1>7

LEMMA OwnLineTyped ==
    ASSUME TermsTypeOK, NEW x \in Items, NEW m \in Months
    PROVE  OwnLine(x, m) \in 0..Amount
BY DueTyped, TermsAssumption DEF OwnLine

LEMMA RetroTyped ==
    ASSUME NEW r \in [status : RetroStatuses, into : Months \cup {NoRun}], NEW s \in RetroStatuses
    PROVE  [r EXCEPT !.status = s] \in [status : RetroStatuses, into : Months \cup {NoRun}]
OBVIOUS

LEMMA ChargeTyped ==
    ASSUME TermsTypeOK, RunTypeOK', NEW m \in Months, NEW staff \in SUBSET Employees, ChargeItems(m, staff)
    PROVE  TermsTypeOK'
<1> USE TermsAssumption
<1>1. line' \in [Months -> [Items -> 0..Amount]]
  <2>1. [x \in Items |-> IF x \in {y \in Items : PayeeOf[y] \in staff} \ DeferredFrom(m)
                         THEN OwnLine(x, m) ELSE 0] \in [Items -> 0..Amount]
    BY OwnLineTyped
  <2> QED BY <2>1 DEF TermsTypeOK, ChargeItems
<1>2. carried' \in [Months -> SUBSET Deferrals] /\ counted' \in [Months -> SUBSET Recurring]
  BY DEF TermsTypeOK, ChargeItems
<1>3. retro' \in [Retros -> [status : RetroStatuses, into : Months \cup {NoRun}]]
  <2>1. \A x \in Retros : [retro[x] EXCEPT !.status = "merged"]
                            \in [status : RetroStatuses, into : Months \cup {NoRun}]
    BY RetroTyped, "merged" \in RetroStatuses DEF TermsTypeOK, RetroStatuses
  <2> QED BY <2>1 DEF TermsTypeOK, ChargeItems
<1>4. loan' \in [Loans -> LoanType]
  BY DueTyped DEF TermsTypeOK, ChargeItems
<1>5. since' \in [Months -> SUBSET Items] /\ late' \subseteq Months
  BY DEF TermsTypeOK, ChargeItems
<1> QED BY <1>1, <1>2, <1>3, <1>4, <1>5 DEF TermsTypeOK, ChargeItems

LEMMA ConsumeTyped ==
    ASSUME TermsTypeOK, RunTypeOK', NEW m \in Months, Consume(m)
    PROVE  TermsTypeOK'
<1> USE TermsAssumption
<1>1. recurring' \in [Recurring -> [times : Nat, live : BOOLEAN]]
  BY DEF TermsTypeOK, Consume
<1>2. activity' \in [Activities -> ActivityStates]
  BY DEF TermsTypeOK, Consume, ActivityStates
<1>3. deferral' \in [Deferrals -> [status : {"none", "pending", "applied", "cancelled"},
                                   amount : 0..Amount]]
  BY DEF TermsTypeOK, Consume
<1>4. loan' \in [Loans -> LoanType]
  <2>1. ASSUME NEW x \in Loans
        PROVE  [loan[x] EXCEPT !.count = @ + 1] \in LoanType
    <3>1. loan[x] \in LoanType /\ loan[x].count + 1 \in Nat
      BY DEF TermsTypeOK, LoanType
    <3> QED BY <3>1 DEF LoanType
  <2> QED BY <2>1 DEF TermsTypeOK, Consume
<1>5. since' \in [Months -> SUBSET Items]
  <2>1. CountedIn(m) \cup ActivitiesOf(m) \cup Extended(m) \cup {d[1] : d \in carried[m]} \subseteq Items
    BY DEF TermsTypeOK, CountedIn, ActivitiesOf, Extended, Items, Deferrals
  <2> QED BY <2>1 DEF TermsTypeOK, Consume
<1> QED BY <1>1, <1>2, <1>3, <1>4, <1>5 DEF TermsTypeOK, Consume

LEMMA EditTyped ==
    ASSUME TermsTypeOK, RunTypeOK', NEW x \in Items, EditOf(x)
    PROVE  TermsTypeOK'
<1> USE TermsAssumption
<1>1. UNCHANGED <<line, carried, counted, late>> /\ since' \in [Months -> SUBSET Items]
  <2>1. UNCHANGED <<line, carried, counted, late>> /\ OutdateItems({x})
    BY EditIsEdit DEF Edit
  <2>2. since' \in [Months -> SUBSET Items]
    BY <2>1 DEF OutdateItems, TermsTypeOK
  <2> QED BY <2>1, <2>2
<1>2. ASSUME NEW m \in Months, NEW n \in Months, Defer(x, m, n)
      PROVE  TermsTypeOK'
  <2>1. PICK amount : deferral' = [deferral EXCEPT ![<<x, m, n>>] =
                                     [status |-> "pending", amount |-> amount]]
                      /\ amount \in 0..Amount
    <3>1. line[m][x] \in 0..Amount
      BY DEF TermsTypeOK
    <3>2. CASE line[m][x] > 0
      BY <1>2, <3>1, <3>2 DEF Defer
    <3>3. CASE ~(line[m][x] > 0)
      <4>1. (CHOOSE d \in carried[m] : d[1] = x) \in carried[m]
        BY <1>2, <3>3 DEF Defer
      <4>2. deferral[CHOOSE d \in carried[m] : d[1] = x].amount \in 0..Amount
        BY <4>1 DEF TermsTypeOK
      <4> QED BY <1>2, <3>3, <4>2 DEF Defer
    <3> QED BY <3>2, <3>3
  <2>2. deferral' \in [Deferrals -> [status : {"none", "pending", "applied", "cancelled"},
                                     amount : 0..Amount]]
    BY <2>1 DEF TermsTypeOK
  <2> QED BY <1>1, <1>2, <2>2 DEF TermsTypeOK, Defer
<1>3. ASSUME x \in Retros, NEW m \in Months, SelectRetro(x, m)
      PROVE  TermsTypeOK'
  <2>1. retro' \in [Retros -> [status : RetroStatuses, into : Months \cup {NoRun}]]
    BY <1>3 DEF SelectRetro, TermsTypeOK, RetroStatuses
  <2> QED BY <1>1, <1>3, <2>1 DEF SelectRetro, TermsTypeOK
<1>4. ASSUME x \in Retros, RecordRetro(x) \/ RefuseRetro(x, "deferred")
                           \/ RefuseRetro(x, "cancelled") \/ RevokeRetro(x)
      PROVE  TermsTypeOK'
  <2>1. retro' \in [Retros -> [status : RetroStatuses, into : Months \cup {NoRun}]]
    <3>1. PICK status \in RetroStatuses : retro' = [retro EXCEPT ![x].status = status]
      BY <1>4 DEF RecordRetro, RefuseRetro, RevokeRetro, RetroStatuses
    <3>2. [retro[x] EXCEPT !.status = status]
            \in [status : RetroStatuses, into : Months \cup {NoRun}]
      BY <1>4, RetroTyped DEF TermsTypeOK
    <3> QED BY <1>4, <3>1, <3>2 DEF TermsTypeOK
  <2> QED BY <1>1, <1>4, <2>1 DEF RecordRetro, RefuseRetro, RevokeRetro, TermsTypeOK
<1>5. ASSUME x \in Recurring, SwitchRecurring(x)
      PROVE  TermsTypeOK'
  <2>1. recurring' \in [Recurring -> [times : Nat, live : BOOLEAN]]
    <3>1. recurring \in [Recurring -> [times : Nat, live : BOOLEAN]]
      BY DEF TermsTypeOK
    <3>2. [recurring[x] EXCEPT !.live = ~@] \in [times : Nat, live : BOOLEAN]
      BY <3>1, <1>5
    <3> QED BY <3>1, <3>2, <1>5 DEF SwitchRecurring
  <2> QED BY <1>1, <1>5, <2>1 DEF SwitchRecurring, TermsTypeOK
<1>6. ASSUME x \in Loans, GrantLoan(x) \/ SwitchDeduction(x)
      PROVE  TermsTypeOK'
  <2>1. /\ [loan[x] EXCEPT !.status = "active"] \in LoanType
        /\ [loan[x] EXCEPT !.auto = ~@] \in LoanType
    <3>1. loan[x] \in LoanType
      BY <1>6 DEF TermsTypeOK
    <3> QED BY <3>1 DEF LoanType
  <2>2. loan' \in [Loans -> LoanType]
    BY <1>6, <2>1 DEF TermsTypeOK, GrantLoan, SwitchDeduction
  <2> QED BY <1>1, <1>6, <2>2 DEF GrantLoan, SwitchDeduction, TermsTypeOK
<1>7. ASSUME x \in Activities, ReviewActivity(x)
      PROVE  TermsTypeOK'
  BY <1>1, <1>7 DEF ReviewActivity, TermsTypeOK, ActivityStates
<1>8. ASSUME NEW d \in Deferrals, CancelDeferral(d)
      PROVE  TermsTypeOK'
  <2>1. deferral' \in [Deferrals -> [status : {"none", "pending", "applied", "cancelled"},
                                     amount : 0..Amount]]
    BY <1>8 DEF CancelDeferral, TermsTypeOK
  <2> QED BY <1>1, <1>8, <2>1 DEF CancelDeferral, TermsTypeOK
<1> QED BY <1>2, <1>3, <1>4, <1>5, <1>6, <1>7, <1>8 DEF EditOf

LEMMA TermsTypePreserved ==
    ASSUME TermsTypeOK, [TermsNext]_termState
    PROVE  TermsTypeOK'
<1>1. RunTypeOK'
  BY TermsStepOfRuns, RunTypePreserved DEF TermsTypeOK
<1>2. CASE UNCHANGED termVars
  BY <1>1, <1>2 DEF termVars, TermsTypeOK
<1> QED BY <1>1, <1>2, TermsStepCases, ChargeTyped, ConsumeTyped, EditTyped
        DEF CalculateWithItems, ApproveAndConsume, termState, termVars

LEMMA TermsTypeInit == TermsInit => TermsTypeOK
<1> SUFFICES ASSUME TermsInit PROVE TermsTypeOK
  OBVIOUS
<1>1. RunTypeOK
  BY RunInvInit DEF TermsInit, RunInv
<1>2. loan \in [Loans -> LoanType]
  BY TermsAssumption DEF TermsInit, LoanType
<1>3. /\ line \in [Months -> [Items -> 0..Amount]]
      /\ deferral \in [Deferrals -> [status : {"none", "pending", "applied", "cancelled"},
                                      amount : 0..Amount]]
  BY TermsAssumption DEF TermsInit
<1>4. /\ retro \in [Retros -> [status : RetroStatuses, into : Months \cup {NoRun}]]
      /\ recurring \in [Recurring -> [times : Nat, live : BOOLEAN]]
      /\ activity \in [Activities -> ActivityStates]
  BY DEF TermsInit, RetroStatuses, ActivityStates
<1> QED BY <1>1, <1>2, <1>3, <1>4 DEF TermsInit, TermsTypeOK

-----------------------------------------------------------------------------
(* The invariant.  Each conjunct relates a run that was calculated to what   *)
(* has become of its items since.                                           *)

DeferredSince(x, m) == \E n \in Months : m < n /\ deferral[<<x, m, n>>].status # "none"

\* An open run has the lines of the activities that its approval will mark as
\* paid, and an approved one had them.
ActivityInLine(x) ==
    LET m == PeriodOf[x] IN
    /\ activity[x] = "paid" => Locked(m)
    /\ activity[x] = "paid" \/ (activity[x] = "reviewed" /\ ~Locked(m)) =>
          line[m][x] > 0 \/ x \in since[m] \/ PayeeOf[x] \notin slips[m] \/ DeferredSince(x, m)

\* The lines that payslips take up are of their employees; while a run is open
\* each still waits for it, or was touched.
CarriedIsOwn ==
    \A n \in Months : \A d \in carried[n] :
        /\ d[3] = n /\ PayeeOf[d[1]] \in slips[n]
        /\ ~Locked(n) => deferral[d].status = "pending" \/ d[1] \in since[n]

\* A line that waits in a later month is in the payslips it leaves only if they
\* were built before it was deferred.
PendingHasLeft ==
    \A d \in Deferrals :
        deferral[d].status = "pending" /\ line[d[2]][d[1]] > 0 => d[1] \in since[d[2]]

\* DeferredLineLeaves for runs that are open, too.
CarriedHasLeft ==
    \A n \in Months : \A d \in carried[n] :
        line[d[2]][d[1]] > 0 => d[1] \in since[d[2]] \cup since[n] \/ d[2] \in late

TermsInv ==
    /\ TermsTypeOK /\ RunInv
    /\ \A x \in Activities : ActivityInLine(x)
    /\ CarriedIsOwn /\ PendingHasLeft /\ CarriedHasLeft

LEMMA TermsInvInit == TermsInit => TermsInv
<1> SUFFICES ASSUME TermsInit PROVE TermsInv
  OBVIOUS
<1>1. TermsTypeOK /\ RunInv
  BY TermsTypeInit, RunInvInit DEF TermsInit
<1> QED BY <1>1 DEF TermsInit, TermsInv, ActivityInLine, CarriedIsOwn, PendingHasLeft, CarriedHasLeft

\* What an approval or an edit does, as far as the invariant asks: payslips and
\* their lines stay, more is out of date than was.
Keeps ==
    /\ slips' = slips /\ line' = line /\ carried' = carried /\ late' = late
    /\ \A k \in Months : since[k] \subseteq since'[k]

LEMMA ItemsKeptByCalculation ==
    ASSUME TermsInv, TermsTypeOK', RunInv',
           NEW m \in Months, NEW staff \in SUBSET Employees, CalculateWithItems(m, staff)
    PROVE  TermsInv'
<1> USE TermsAssumption, RunAssumption
<1>1. TermsTypeOK /\ RunTypeOK
  BY DEF TermsInv, TermsTypeOK
<1>2. ~Locked(m) /\ ~Locked(m)' /\ slips' = [slips EXCEPT ![m] = staff]
  BY <1>1, RebuildIsRecalculation DEF CalculateWithItems, Recalculate, Locked, RunTypeOK
<1>3. \A k \in Months : Locked(k)' = Locked(k)
  <2>1. ASSUME NEW k \in Months \ {m} PROVE run'[k] = run[k]
    BY <1>1, <2>1, RebuildIsRecalculation DEF CalculateWithItems, Recalculate, RunTypeOK
  <2> QED BY <1>2, <2>1 DEF Locked
<1> DEFINE mine == {x \in Items : PayeeOf[x] \in staff}
<1>4. /\ line' = [line EXCEPT ![m] = [x \in Items |->
                    IF x \in mine \ DeferredFrom(m) THEN OwnLine(x, m) ELSE 0]]
      /\ carried' = [carried EXCEPT ![m] = {d \in Deferrals :
                       d[1] \in mine /\ d[3] = m /\ deferral[d].status = "pending"}]
      /\ since' = [k \in Months |-> IF k = m THEN {}
                     ELSE IF Open(k) THEN since[k] \cup {x \in mine \cap Loans : Due(x, m) > 0}
                     ELSE since[k]]
      /\ late' = (late \ {m}) \cup {k \in {m} : \E n \in Months : k < n /\ Locked(n)}
      /\ activity' = activity /\ deferral' = deferral
  BY DEF CalculateWithItems, ChargeItems
<1>5. \A k \in Months \ {m} : /\ slips'[k] = slips[k] /\ line'[k] = line[k]
                              /\ carried'[k] = carried[k] /\ since[k] \subseteq since'[k]
                              /\ k \in late' <=> k \in late
  BY <1>1, <1>2, <1>4 DEF TermsTypeOK, RunTypeOK
<1>6. /\ slips'[m] = staff
      /\ \A x \in Items : line'[m][x] = IF x \in mine \ DeferredFrom(m) THEN OwnLine(x, m) ELSE 0
      /\ carried'[m] = {d \in Deferrals :
                          d[1] \in mine /\ d[3] = m /\ deferral[d].status = "pending"}
      /\ (\E n \in Months : m < n /\ Locked(n)) => m \in late'
  BY <1>1, <1>2, <1>4 DEF TermsTypeOK, RunTypeOK
<1> HIDE DEF mine
<1>7. ASSUME NEW x \in Activities PROVE ActivityInLine(x)'
  <2>1. PeriodOf[x] \in Months /\ x \in Items /\ x \notin Loans
    BY DEF Items
  <2>2. CASE PeriodOf[x] # m
    BY <2>1, <2>2, <1>3, <1>4, <1>5 DEF TermsInv, ActivityInLine, DeferredSince
  <2>3. CASE PeriodOf[x] = m
    <3>1. activity[x] # "paid"
      BY <2>3, <1>2 DEF TermsInv, ActivityInLine
    <3> SUFFICES ASSUME activity[x] = "reviewed", PayeeOf[x] \in staff, ~DeferredSince(x, m)
                 PROVE  line'[m][x] > 0
      BY <2>3, <3>1, <1>2, <1>4, <1>6 DEF ActivityInLine, DeferredSince
    <3>2. x \in mine /\ x \notin DeferredFrom(m)
      BY <2>1 DEF mine, DeferredFrom, DeferredSince
    <3>3. OwnLine(x, m) = 1
      BY <2>1, <2>3 DEF OwnLine
    <3> QED BY <2>1, <3>2, <3>3, <1>6
  <2> QED BY <2>2, <2>3
<1>8. CarriedIsOwn'
  <2> SUFFICES ASSUME NEW n \in Months, NEW d \in carried'[n]
               PROVE  /\ d[3] = n /\ PayeeOf[d[1]] \in slips'[n]
                      /\ ~Locked(n)' => deferral'[d].status = "pending" \/ d[1] \in since'[n]
    BY DEF CarriedIsOwn
  <2>1. CASE n = m
    BY <2>1, <1>4, <1>6 DEF mine
  <2>2. CASE n # m
    BY <2>2, <1>3, <1>4, <1>5 DEF TermsInv, CarriedIsOwn
  <2> QED BY <2>1, <2>2
<1>9. PendingHasLeft'
  <2> SUFFICES ASSUME NEW d \in Deferrals, deferral[d].status = "pending",
                      line'[d[2]][d[1]] > 0
               PROVE  d[1] \in since'[d[2]]
    BY <1>4 DEF PendingHasLeft
  <2>1. d = <<d[1], d[2], d[3]>> /\ d[1] \in Items /\ d[2] \in Months /\ d[3] \in Months /\ d[2] < d[3]
    BY DEF Deferrals
  <2>2. CASE d[2] = m
    BY <2>1, <2>2, <1>6 DEF DeferredFrom
  <2>3. CASE d[2] # m
    BY <2>1, <2>3, <1>5 DEF TermsInv, PendingHasLeft
  <2> QED BY <2>2, <2>3
<1>10. CarriedHasLeft'
  <2> SUFFICES ASSUME NEW n \in Months, NEW d \in carried'[n], line'[d[2]][d[1]] > 0
               PROVE  d[1] \in since'[d[2]] \cup since'[n] \/ d[2] \in late'
    BY DEF CarriedHasLeft
  <2>1. /\ d \in Deferrals /\ d = <<d[1], d[2], d[3]>>
        /\ d[1] \in Items /\ d[2] \in Months /\ d[3] \in Months /\ d[2] < d[3]
    BY DEF TermsTypeOK, Deferrals
  <2>2. CASE n = m
    BY <2>1, <2>2, <1>4, <1>6, <1>9 DEF PendingHasLeft
  <2>3. CASE n # m /\ d[2] # m
    BY <2>1, <2>3, <1>5 DEF TermsInv, CarriedHasLeft
  <2>4. CASE n # m /\ d[2] = m
    <3>1. d \in carried[n] /\ d[3] = n
      BY <2>4, <1>5 DEF TermsInv, CarriedIsOwn
    <3>2. deferral[d].status # "pending"
      BY <2>1, <2>4, <1>6 DEF DeferredFrom
    <3>3. CASE Locked(n)
      BY <2>1, <2>4, <3>1, <3>3, <1>6
    <3>4. CASE ~Locked(n)
      BY <2>4, <3>1, <3>2, <3>4, <1>5 DEF TermsInv, CarriedIsOwn
    <3> QED BY <3>3, <3>4
  <2> QED BY <2>2, <2>3, <2>4
<1> QED BY <1>7, <1>8, <1>9, <1>10 DEF TermsInv

LEMMA ItemsKeptByApproval ==
    ASSUME TermsInv, TermsTypeOK', RunInv', NEW m \in Months, ApproveAndConsume(m)
    PROVE  TermsInv'
<1> USE TermsAssumption, RunAssumption
<1>1. TermsTypeOK /\ RunTypeOK
  BY DEF TermsInv, TermsTypeOK
<1>2. ~Locked(m) /\ \A k \in Months : Locked(k)' <=> Locked(k) \/ k = m
  BY <1>1 DEF ApproveAndConsume, Approve, Locked, RunTypeOK
<1>3. Keeps
  BY DEF ApproveAndConsume, Approve, Consume, Keeps
<1>4. /\ activity' = [x \in Activities |-> IF x \in ActivitiesOf(m) THEN "paid" ELSE activity[x]]
      /\ deferral' = [d \in Deferrals |->
           IF d \in carried[m] THEN [deferral[d] EXCEPT !.status = "applied"] ELSE deferral[d]]
  BY DEF ApproveAndConsume, Consume
<1>5. \A d \in Deferrals :
        /\ d \notin carried[m] => deferral'[d] = deferral[d]
        /\ deferral'[d].status = "pending" => deferral[d].status = "pending"
        /\ deferral[d].status # "none" => deferral'[d].status # "none"
  BY <1>1, <1>4 DEF TermsTypeOK
<1>6. ASSUME NEW x \in Activities PROVE ActivityInLine(x)'
  <2>1. PeriodOf[x] \in Months /\ x \in Items
    BY DEF Items
  <2>2. DeferredSince(x, PeriodOf[x]) => DeferredSince(x, PeriodOf[x])'
    BY <2>1, <1>5 DEF DeferredSince, Deferrals
  <2>3. CASE x \in ActivitiesOf(m)
    BY <2>1, <2>2, <2>3, <1>2, <1>3, <1>4 DEF TermsInv, ActivityInLine, ActivitiesOf, Keeps
  <2>4. CASE x \notin ActivitiesOf(m)
    <3>1. activity'[x] = activity[x]
      BY <2>4, <1>4
    <3> QED BY <2>1, <2>2, <3>1, <1>2, <1>3 DEF TermsInv, ActivityInLine, Keeps
  <2> QED BY <2>3, <2>4
<1>7. CarriedIsOwn'
  <2> SUFFICES ASSUME NEW n \in Months, NEW d \in carried[n]
               PROVE  /\ d[3] = n /\ PayeeOf[d[1]] \in slips[n]
                      /\ ~Locked(n)' => deferral'[d].status = "pending" \/ d[1] \in since'[n]
    BY <1>3 DEF CarriedIsOwn, Keeps
  <2>1. d[3] = n /\ PayeeOf[d[1]] \in slips[n] /\ d \in Deferrals
    BY <1>1 DEF TermsInv, CarriedIsOwn, TermsTypeOK
  <2>2. n # m => d \notin carried[m]
    BY <2>1 DEF TermsInv, CarriedIsOwn
  <2> QED BY <2>1, <2>2, <1>2, <1>3, <1>5 DEF TermsInv, CarriedIsOwn, Keeps
<1>8. PendingHasLeft'
  BY <1>3, <1>5 DEF TermsInv, PendingHasLeft, Keeps, Deferrals
<1>9. CarriedHasLeft'
  <2> SUFFICES ASSUME NEW n \in Months, NEW d \in carried[n], line[d[2]][d[1]] > 0
               PROVE  d[1] \in since'[d[2]] \cup since'[n] \/ d[2] \in late
    BY <1>3 DEF CarriedHasLeft, Keeps
  <2>1. d \in Deferrals /\ d[2] \in Months
    BY <1>1 DEF TermsTypeOK, Deferrals
  <2> QED BY <2>1, <1>3 DEF TermsInv, CarriedHasLeft, Keeps
<1> QED BY <1>6, <1>7, <1>8, <1>9 DEF TermsInv

LEMMA ItemsKeptByEdit ==
    ASSUME TermsInv, TermsTypeOK', RunInv', NEW x \in Items, EditOf(x)
    PROVE  TermsInv'
<1> USE TermsAssumption, RunAssumption
<1>1. TermsTypeOK /\ RunTypeOK
  BY DEF TermsInv, TermsTypeOK
<1>2. Edit(x)
  BY EditIsEdit
<1>3. Keeps /\ \A k \in Months : Locked(k)' <=> Locked(k)
  BY <1>2 DEF Edit, OutdateItems, Keeps, runVars, Locked
<1>4. \A k \in Months : ~Locked(k) /\ slips[k] # {} => x \in since'[k]
  BY <1>2 DEF Edit, OutdateItems, Open
<1>5. \A y \in Activities : activity'[y] = activity[y] \/ (y = x /\ activity'[y] = "reviewed")
  BY <1>1 DEF EditOf, Defer, SelectRetro, RecordRetro, RefuseRetro, RevokeRetro, SwitchRecurring,
       GrantLoan, SwitchDeduction, ReviewActivity, CancelDeferral, TermsTypeOK
<1>6. \A d \in Deferrals :
        \/ deferral'[d] = deferral[d]
        \/ /\ d[1] = x /\ deferral'[d].status # "none"
           /\ deferral'[d].status = "pending" => ~Locked(d[2]) /\ slips[d[2]] # {}
  <2>1. CASE \E m, n \in Months : Defer(x, m, n)
    <3>1. PICK m \in Months, n \in Months : Defer(x, m, n)
      BY <2>1
    <3>2. PICK amount : deferral' = [deferral EXCEPT ![<<x, m, n>>] =
                                       [status |-> "pending", amount |-> amount]]
      BY <3>1 DEF Defer
    <3>3. ~Locked(m) /\ slips[m] # {}
      BY <3>1 DEF Defer
    <3> QED BY <3>2, <3>3, <1>1 DEF TermsTypeOK, Deferrals
  <2>2. CASE \E d \in Deferrals : d[1] = x /\ CancelDeferral(d)
    BY <2>2, <1>1 DEF CancelDeferral, TermsTypeOK
  <2> QED BY <2>1, <2>2 DEF EditOf, SelectRetro, RecordRetro, RefuseRetro, RevokeRetro,
            SwitchRecurring, GrantLoan, SwitchDeduction, ReviewActivity
<1>7. ASSUME NEW y \in Activities PROVE ActivityInLine(y)'
  <2>1. PeriodOf[y] \in Months /\ y \in Items
    BY DEF Items
  <2>2. DeferredSince(y, PeriodOf[y]) => DeferredSince(y, PeriodOf[y])'
    BY <2>1, <1>6 DEF DeferredSince, Deferrals
  <2>3. CASE activity'[y] = activity[y]
    BY <2>1, <2>2, <2>3, <1>3 DEF TermsInv, ActivityInLine, Keeps
  <2>4. CASE y = x /\ activity'[y] = "reviewed"
    BY <2>1, <2>4, <1>3, <1>4 DEF ActivityInLine, Keeps
  <2> QED BY <2>3, <2>4, <1>5
<1>8. CarriedIsOwn'
  <2> SUFFICES ASSUME NEW n \in Months, NEW d \in carried[n]
               PROVE  /\ d[3] = n /\ PayeeOf[d[1]] \in slips[n]
                      /\ ~Locked(n) => deferral'[d].status = "pending" \/ d[1] \in since'[n]
    BY <1>3 DEF CarriedIsOwn, Keeps
  <2>1. d[3] = n /\ PayeeOf[d[1]] \in slips[n] /\ d \in Deferrals
    BY <1>1 DEF TermsInv, CarriedIsOwn, TermsTypeOK
  <2> QED BY <2>1, <1>3, <1>4, <1>6 DEF TermsInv, CarriedIsOwn, Keeps
<1>9. PendingHasLeft'
  <2> SUFFICES ASSUME NEW d \in Deferrals, deferral'[d].status = "pending", line[d[2]][d[1]] > 0
               PROVE  d[1] \in since'[d[2]]
    BY <1>3 DEF PendingHasLeft, Keeps
  <2>1. d[2] \in Months
    BY DEF Deferrals
  <2> QED BY <2>1, <1>3, <1>4, <1>6 DEF TermsInv, PendingHasLeft, Keeps
<1>10. CarriedHasLeft'
  <2> SUFFICES ASSUME NEW n \in Months, NEW d \in carried[n], line[d[2]][d[1]] > 0
               PROVE  d[1] \in since'[d[2]] \cup since'[n] \/ d[2] \in late
    BY <1>3 DEF CarriedHasLeft, Keeps
  <2>1. d \in Deferrals /\ d[2] \in Months
    BY <1>1 DEF TermsTypeOK, Deferrals
  <2> QED BY <2>1, <1>3 DEF TermsInv, CarriedHasLeft, Keeps
<1> QED BY <1>7, <1>8, <1>9, <1>10 DEF TermsInv

\* A step that builds no payslips and approves nothing keeps both.
LEMMA LocksKept ==
    ASSUME TermsInv, KeepSlips \/ UNCHANGED termState
    PROVE  slips' = slips /\ \A k \in Months : Locked(k)' = Locked(k)
<1>1. ASSUME NEW n \in Months, CreateRun(n) \/ Submit(n) \/ RejectStep(n) \/ SignStep(n)
      PROVE  slips' = slips /\ \A k \in Months : Locked(k)' = Locked(k)
  <2>1. RunTypeOK /\ (RejectStep(n) => ~Locked(n))
    BY DEF TermsInv, TermsTypeOK, RunInv, RejectStep
  <2> QED BY <1>1, <2>1 DEF RunTypeOK, CreateRun, Submit, RejectStep, SignStep, Locked
<1>2. ASSUME NEW s \in Steps, AddStep(s) \/ DropStep(s)
      PROVE  slips' = slips /\ \A k \in Months : Locked(k)' = Locked(k)
  BY <1>2 DEF AddStep, DropStep, Locked
<1> QED BY <1>1, <1>2 DEF KeepSlips, termState, Locked

LEMMA ItemsKeptByRest ==
    ASSUME TermsInv, TermsTypeOK', RunInv', UNCHANGED termVars, KeepSlips \/ UNCHANGED termState
    PROVE  TermsInv'
<1>1. slips' = slips /\ \A k \in Months : Locked(k)' = Locked(k)
  BY LocksKept
<1>2. \A x \in Activities : PeriodOf[x] \in Months
  BY TermsAssumption
<1>3. \A x \in Activities : ActivityInLine(x)'
  BY <1>1, <1>2 DEF TermsInv, termVars, ActivityInLine, DeferredSince
<1>4. CarriedIsOwn'
  BY <1>1 DEF TermsInv, termVars, CarriedIsOwn
<1>5. PendingHasLeft' /\ CarriedHasLeft'
  BY DEF TermsInv, termVars, PendingHasLeft, CarriedHasLeft
<1> QED BY <1>3, <1>4, <1>5 DEF TermsInv

-----------------------------------------------------------------------------
LEMMA TermsInvPreserved ==
    ASSUME TermsInv, [TermsNext]_termState
    PROVE  TermsInv'
<1>1. TermsTypeOK' /\ RunInv'
  BY TermsTypePreserved, TermsStepOfRuns, RunInvPreserved DEF TermsInv
<1> QED BY <1>1, TermsStepCases, ItemsKeptByRest, ItemsKeptByCalculation,
           ItemsKeptByApproval, ItemsKeptByEdit DEF termState, termVars

LEMMA TermsInvariant == TermsSpec => []TermsInv
BY TermsInvInit, TermsInvPreserved, PTL DEF TermsSpec

\* Items, lines and deferrals keep their shape; nobody repays more than an
\* advance's amount.
THEOREM TermsTyped == TermsSpec => []TermsTypeOK
<1>1. TermsInv => TermsTypeOK
  BY DEF TermsInv
<1> QED BY <1>1, TermsInvariant, PTL

\* approve_run: an activity that is marked as paid is in the payslips of its
\* month, up to the exceptions.
THEOREM PaidActivitiesWerePaid == TermsSpec => []PaidActivityWasPaid
<1>1. TermsInv => PaidActivityWasPaid
  BY DEF TermsInv, ActivityInLine, DeferredSince, PaidActivityWasPaid
<1> QED BY <1>1, TermsInvariant, PTL

\* defer, calculate_slip: a deferred line is paid in one of its two months, up
\* to the exceptions.
THEOREM DeferredLinesLeave == TermsSpec => []DeferredLineLeaves
<1>1. TermsInv => DeferredLineLeaves
  BY DEF TermsInv, CarriedHasLeft, DeferredLineLeaves, Approved
<1> QED BY <1>1, TermsInvariant, PTL

-----------------------------------------------------------------------------
(* Recurring items.  The approval of a run counts what its payslips carry,  *)
(* so that the counter is the number of approved runs that carry the item;  *)
(* an open run that carries it was calculated while one time was left, and  *)
(* is out of date once another run has taken that.                          *)

PaidRuns(x) == {m \in Approved : x \in counted[m]}

CountInv ==
    /\ \A m \in Months : \A x \in counted[m] : PayeeOf[x] \in slips[m]
    /\ \A x \in Recurring :
        /\ recurring[x].times = Cardinality(PaidRuns(x))
        /\ \A m \in Months : Open(m) /\ x \in counted[m] \ since[m] => recurring[x].times < MaxTimes
        /\ recurring[x].times > MaxTimes => \E m \in PaidRuns(x) : x \in since[m]

LEMMA CountInvInit == TermsInit => CountInv
<1> SUFFICES ASSUME TermsInit PROVE CountInv
  OBVIOUS
<1>1. \A x \in Recurring : PaidRuns(x) = {} /\ recurring[x].times = 0
  BY DEF TermsInit, PaidRuns, Approved
<1>2. Cardinality({}) = 0
  BY FS_EmptySet
<1>3. MaxTimes \in Nat /\ \A m \in Months : counted[m] = {} /\ ~Open(m)
  BY TermsAssumption DEF TermsInit, RunInit, Open
<1>4. \A x \in Recurring : recurring[x].times = Cardinality(PaidRuns(x)) /\ ~(recurring[x].times > MaxTimes)
  BY <1>1, <1>2, <1>3
<1> QED BY <1>3, <1>4 DEF CountInv

\* Steps that approve nothing: the counters stand, and the runs that are open
\* and carry an item did so before, or were calculated just now.
LEMMA CountKept ==
    ASSUME CountInv, Approved' = Approved,
           \A m \in Approved : counted'[m] = counted[m] /\ since[m] \subseteq since'[m],
           \A x \in Recurring : recurring'[x].times = recurring[x].times,
           \A m \in Months : \A x \in counted'[m] : PayeeOf[x] \in slips'[m],
           \A m \in Months, x \in Recurring : Open(m)' /\ x \in counted'[m] \ since'[m] =>
               recurring[x].times < MaxTimes
    PROVE  CountInv'
<1>1. \A x \in Recurring : PaidRuns(x)' = PaidRuns(x)
  BY DEF PaidRuns
<1>2. \A x \in Recurring : PaidRuns(x) \subseteq Approved
  BY DEF PaidRuns
<1> QED BY <1>1, <1>2 DEF CountInv

LEMMA CountInvPreserved ==
    ASSUME TermsInv, RunInv', CountInv, [TermsNext]_termState
    PROVE  CountInv'
<1> USE TermsAssumption, RunAssumption
<1>1. TermsTypeOK /\ RunTypeOK
  BY DEF TermsInv, TermsTypeOK
<1>2. ASSUME NEW m \in Months, NEW staff \in SUBSET Employees, CalculateWithItems(m, staff)
      PROVE  CountInv'
  <2> DEFINE mine == {x \in Items : PayeeOf[x] \in staff}
  <2>1. ~Locked(m) /\ ~Locked(m)' /\ slips' = [slips EXCEPT ![m] = staff]
    BY <1>1, <1>2, RebuildIsRecalculation DEF CalculateWithItems, Recalculate, Locked, RunTypeOK
  <2>2. \A k \in Months : Locked(k)' = Locked(k)
    <3>1. ASSUME NEW k \in Months \ {m} PROVE run'[k] = run[k]
      BY <1>1, <1>2, <3>1, RebuildIsRecalculation DEF CalculateWithItems, Recalculate, RunTypeOK
    <3> QED BY <2>1, <3>1 DEF Locked
  <2>3. /\ counted' = [counted EXCEPT ![m] = {x \in mine \cap Recurring : Applies(x)}]
        /\ recurring' = recurring
        /\ \A k \in Months \ {m} : since[k] \subseteq since'[k]
    BY <1>2 DEF CalculateWithItems, ChargeItems
  <2>4. \A k \in Months \ {m} : counted'[k] = counted[k] /\ slips'[k] = slips[k]
    BY <1>1, <2>1, <2>3 DEF TermsTypeOK, RunTypeOK
  <2>5. slips'[m] = staff /\ counted'[m] = {x \in mine \cap Recurring : Applies(x)}
    BY <1>1, <2>1, <2>3 DEF TermsTypeOK, RunTypeOK
  <2>6. Approved' = Approved /\ m \notin Approved
    BY <2>1, <2>2 DEF Approved
  <2>7. \A k \in Months : \A x \in counted'[k] : PayeeOf[x] \in slips'[k]
    BY <2>4, <2>5 DEF CountInv
  <2>8. \A k \in Months, x \in Recurring : Open(k)' /\ x \in counted'[k] \ since'[k] =>
            recurring[x].times < MaxTimes
    BY <2>2, <2>3, <2>4, <2>5 DEF CountInv, Open, Applies
  <2> HIDE DEF mine
  <2> QED BY <2>3, <2>4, <2>6, <2>7, <2>8, CountKept DEF Approved
<1>3. ASSUME NEW m \in Months, ApproveAndConsume(m)
      PROVE  CountInv'
  <2>1. m \notin Approved /\ Approved' = Approved \cup {m} /\ slips' = slips
        /\ slips[m] # {}
    BY <1>1, <1>3 DEF ApproveAndConsume, Approve, Approved, Locked, RunTypeOK, TermsInv, RunInv, SignedOrWaiting
  <2>2. /\ counted' = counted
        /\ \A x \in Recurring : recurring'[x].times =
              recurring[x].times + IF x \in counted[m] THEN 1 ELSE 0
        /\ \A k \in Months : since[k] \subseteq since'[k]
        /\ \A k \in Months \ {m} : Open(k) => counted[m] \subseteq since'[k]
        /\ since'[m] = since[m]
    BY <1>1, <1>3 DEF ApproveAndConsume, Consume, CountedIn, TermsTypeOK
  <2>3. \A k \in Months : Open(k)' => Open(k) /\ k # m
    BY <2>1 DEF Open, Approved
  <2>4. Open(m)
    BY <2>1 DEF Open, Approved
  <2> SUFFICES ASSUME NEW x \in Recurring
               PROVE  /\ recurring'[x].times = Cardinality(PaidRuns(x)')
                      /\ \A k \in Months : Open(k)' /\ x \in counted[k] \ since'[k] =>
                            recurring'[x].times < MaxTimes
                      /\ recurring'[x].times > MaxTimes => \E k \in PaidRuns(x)' : x \in since'[k]
    <3>1. \A k \in Months : \A y \in counted'[k] : PayeeOf[y] \in slips'[k]
      BY <2>1, <2>2 DEF CountInv
    <3> QED BY <2>2, <3>1 DEF CountInv
  <2>5. recurring[x].times \in Nat /\ recurring[x].times = Cardinality(PaidRuns(x))
    BY <1>1 DEF TermsTypeOK, CountInv
  <2>6. \A k \in PaidRuns(x) : k \in Months
    BY DEF PaidRuns, Approved
  <2>7. CASE x \notin counted[m]
    <3>1. PaidRuns(x)' = PaidRuns(x)
      BY <2>1, <2>2, <2>7 DEF PaidRuns
    <3>2. recurring'[x].times = recurring[x].times
      BY <2>2, <2>5, <2>7
    <3> QED BY <2>2, <2>3, <2>5, <2>6, <3>1, <3>2 DEF CountInv
  <2>8. CASE x \in counted[m]
    <3>1. PaidRuns(x)' = PaidRuns(x) \cup {m} /\ m \notin PaidRuns(x)
      BY <2>1, <2>2, <2>8 DEF PaidRuns
    <3>2. IsFiniteSet(PaidRuns(x))
      <4>1. PaidRuns(x) \subseteq Months
        BY <2>6
      <4> QED BY <4>1, FS_Subset
    <3>3. Cardinality(PaidRuns(x)') = recurring[x].times + 1
      <4>1. Cardinality(PaidRuns(x) \cup {m}) = Cardinality(PaidRuns(x)) + 1
        BY <3>1, <3>2, FS_AddElement
      <4> QED BY <2>5, <3>1, <4>1
    <3>4. recurring'[x].times = recurring[x].times + 1
      BY <2>2, <2>8
    <3>5. \A k \in Months : Open(k)' /\ x \in counted[k] => x \in since'[k]
      BY <2>2, <2>3, <2>8
    <3>6. x \notin since[m] => recurring[x].times < MaxTimes
      BY <2>4, <2>8 DEF CountInv
    <3>7. recurring'[x].times > MaxTimes => x \in since'[m] /\ m \in PaidRuns(x)'
      BY <2>2, <2>5, <3>1, <3>4, <3>6
    <3> QED BY <3>3, <3>4, <3>5, <3>7
  <2> QED BY <2>7, <2>8
<1>4. ASSUME NEW y \in Items, EditOf(y)
      PROVE  CountInv'
  <2>1. Edit(y)
    BY <1>4, EditIsEdit
  <2>2. /\ counted' = counted /\ slips' = slips /\ Approved' = Approved
        /\ \A k \in Months : since[k] \subseteq since'[k] /\ (Open(k)' <=> Open(k))
    BY <2>1 DEF Edit, OutdateItems, runVars, Approved, Locked, Open
  <2>3. \A x \in Recurring : recurring'[x].times = recurring[x].times
    <3>1. CASE y \in Recurring /\ SwitchRecurring(y)
      BY <3>1, <1>1 DEF SwitchRecurring, TermsTypeOK
    <3>2. CASE ~(y \in Recurring /\ SwitchRecurring(y))
      BY <1>4, <3>2 DEF EditOf, Defer, SelectRetro, RecordRetro, RefuseRetro, RevokeRetro,
         GrantLoan, SwitchDeduction, ReviewActivity, CancelDeferral
    <3> QED BY <3>1, <3>2
  <2>4. \A k \in Months, x \in Recurring : Open(k)' /\ x \in counted'[k] \ since'[k] =>
            recurring[x].times < MaxTimes
    BY <2>2 DEF CountInv
  <2> QED BY <2>2, <2>3, <2>4, CountKept DEF CountInv, Approved
<1>5. CASE UNCHANGED termVars /\ (KeepSlips \/ UNCHANGED termState)
  <2>1. slips' = slips /\ \A k \in Months : Locked(k)' = Locked(k)
    BY <1>5, LocksKept DEF TermsInv
  <2>2. Approved' = Approved /\ \A k \in Months : Open(k)' <=> Open(k)
    BY <2>1 DEF Approved, Open
  <2> QED BY <1>5, <2>1, <2>2, CountKept DEF CountInv, termVars
<1> QED BY <1>2, <1>3, <1>4, <1>5, TermsStepCases DEF termState, termVars

\* approve_run: a recurring item was counted once for each approved run that
\* carries it, and more often than agreed only by runs calculated side by side.
THEOREM CountsMatchPayslips == TermsSpec => []CountMatchesPayslips
<1>1. TermsInv /\ CountInv /\ [TermsNext]_termState => CountInv'
  BY TermsInvPreserved, CountInvPreserved DEF TermsInv
<1>2. CountInv => CountMatchesPayslips
  BY DEF CountInv, CountMatchesPayslips, PaidRuns
<1> QED BY <1>1, <1>2, CountInvInit, TermsInvariant, PTL DEF TermsSpec

-----------------------------------------------------------------------------
(* Adjustments and advances.  An adjustment has its line in one run, the one *)
(* it is merged into; what an advance takes is on its account, although the  *)
(* account is asked again at each calculation.  A line that was deferred     *)
(* once brings along what it was: With puts it back where it left.           *)

Rows(x) == {d \in Deferrals : d[1] = x /\ deferral[d].status # "none"}
OneRow(x) == \A c, d \in Rows(x) : c = d

CarriedAreRows == \A n \in Months : \A d \in carried[n] : deferral[d].status # "none"

RetroLines(x) ==
    /\ \A m \in Months : /\ line[m][x] \in {0, 1}
                         /\ line[m][x] > 0 => retro[x].status = "merged" /\ retro[x].into = m
    /\ Rows(x) # {} => retro[x].status = "merged"
    /\ OneRow(x) => \A d \in Rows(x) : d[2] = retro[x].into /\ deferral[d].amount = 1

With(x, d) == [m \in Months |-> IF m = d[2] THEN deferral[d].amount ELSE line[m][x]]

\* Of an account a and the amounts taken each month.
Covered(a, taken) ==
    /\ SumFunctionOnSet(taken, Months) <= a.repaid
    /\ a.status = "active" => \A m \in Months : taken[m] <= a.inst[m]
Scheduled(a) == a.status = "active" => SumFunctionOnSet(a.inst, Months) <= a.repaid

LoanLines(x) ==
    /\ Scheduled(loan[x])
    /\ Covered(loan[x], OwnLines(x))
    /\ OneRow(x) => \A d \in Rows(x) : Covered(loan[x], With(x, d))
    /\ loan[x].status = "pending" =>
          /\ Rows(x) = {} /\ loan[x].repaid = 0
          /\ \A m \in Months : line[m][x] = 0 /\ loan[x].inst[m] = 0

PaidInv ==
    /\ CarriedAreRows
    /\ \A x \in Retros : RetroLines(x)
    /\ \A x \in Loans : LoanLines(x)

LEMMA MonthlySums ==
    ASSUME NEW w \in [Months -> 0..Amount], NEW T \in SUBSET Months
    PROVE  /\ IsFiniteSet(Months) /\ IsFiniteSet(T)
           /\ \A m \in Months : w[m] \in Nat /\ w[m] \in Int
           /\ SumFunctionOnSet(w, T) \in Nat /\ SumFunctionOnSet(w, Months) \in Nat
           /\ SumFunctionOnSet(w, T) <= SumFunctionOnSet(w, Months)
<1>1. IsFiniteSet(Months) /\ IsFiniteSet(T)
  BY TermsAssumption, FS_Subset
<1>2. \A m \in Months : w[m] \in Nat /\ w[m] \in Int
  BY TermsAssumption
<1>3. /\ SumFunctionOnSet(w, T) \in Nat
      /\ SumFunctionOnSet(w, T) <= SumFunctionOnSet(w, Months)
  BY <1>1, <1>2, SumOfPart
<1>4. SumFunctionOnSet(w, Months) \in Nat
  BY <1>1, <1>2, SumOfPart
<1> QED BY <1>1, <1>2, <1>3, <1>4

LEMMA LinesTyped ==
    ASSUME TermsTypeOK, NEW x \in Items
    PROVE  /\ OwnLines(x) \in [Months -> 0..Amount]
           /\ \A d \in Deferrals : With(x, d) \in [Months -> 0..Amount]
<1>1. \A m \in Months : line[m][x] \in 0..Amount
  BY DEF TermsTypeOK
<1>2. \A d \in Deferrals : deferral[d].amount \in 0..Amount
  BY DEF TermsTypeOK
<1> QED BY <1>1, <1>2 DEF OwnLines, With

\* Less is covered if more is.
LEMMA CoveredLess ==
    ASSUME NEW w \in [Months -> 0..Amount], NEW v \in [Months -> 0..Amount], NEW a \in LoanType,
           \A m \in Months : v[m] <= w[m], Covered(a, w)
    PROVE  Covered(a, v)
<1>1. /\ IsFiniteSet(Months) /\ SumFunctionOnSet(w, Months) \in Nat /\ SumFunctionOnSet(v, Months) \in Nat
      /\ \A m \in Months : w[m] \in Int /\ v[m] \in Int
  BY MonthlySums
<1>2. SumFunctionOnSet(v, Months) <= SumFunctionOnSet(w, Months)
  BY <1>1, SumMonotone
<1>3. a.repaid \in Nat /\ \A m \in Months : a.inst[m] \in Int
  BY TermsAssumption DEF LoanType
<1> QED BY <1>1, <1>2, <1>3 DEF Covered

\* record_deduction: what is taken now is on the account, whatever was taken
\* before, and however often.
LEMMA RepayCovers ==
    ASSUME TermsTypeOK, NEW x \in Loans, NEW m \in Months, Due(x, m) > 0,
           Scheduled(loan[x]),
           NEW w \in [Months -> 0..Amount], NEW v \in [Months -> 0..Amount],
           Covered(loan[x], w), \A k \in Months : k # m => v[k] = w[k],
           v[m] <= w[m] \/ v[m] <= Due(x, m)
    PROVE  Covered(Repay(x, m), v) /\ Scheduled(Repay(x, m))
<1> USE TermsAssumption
<1> DEFINE due == Due(x, m)
           left == Outstanding(x)
           got == IF due > left THEN left ELSE due
           inst == loan[x].inst
           after == [inst EXCEPT ![m] = got]
           W == SumFunctionOnSet(w, Months)
           V == SumFunctionOnSet(v, Months)
           I == SumFunctionOnSet(inst, Months)
           A == SumFunctionOnSet(after, Months)
<1>1. /\ loan[x] \in LoanType /\ loan[x].repaid \in 0..Amount
      /\ inst \in [Months -> 0..Amount] /\ inst[m] \in 0..Amount
      /\ left \in 0..Amount /\ due \in 0..Amount
  BY DueTyped DEF TermsTypeOK, LoanType
<1>2. loan[x].status = "active" /\ (inst[m] > 0 => due = inst[m]) /\ (inst[m] = 0 => due <= left)
  BY <1>1 DEF Due
<1>3. got \in 0..Amount /\ got <= left /\ got <= due /\ (due <= left => got = due)
  BY <1>1
<1>4. after \in [Months -> 0..Amount] /\ after[m] = got /\ \A k \in Months : k # m => after[k] = inst[k]
  BY <1>1, <1>3
<1>5. LET r == Repay(x, m) IN
      /\ r.inst = after /\ r.repaid = loan[x].repaid + got
      /\ r.status = "active" => got # left
  BY <1>1, <1>2 DEF Repay, LoanType
<1>6. v[m] <= due /\ \A k \in Months : w[k] <= inst[k]
  BY <1>1, <1>2 DEF Covered
<1> HIDE DEF got, after
<1>7. /\ IsFiniteSet(Months) /\ W \in Nat /\ V \in Nat /\ I \in Nat /\ A \in Nat
      /\ \A k \in Months : w[k] \in Nat /\ v[k] \in Nat /\ inst[k] \in Nat /\ after[k] \in Nat
  <2> HIDE DEF inst
  <2> QED BY <1>1, <1>4, MonthlySums
<1>8. V = W - w[m] + v[m] /\ A = I - inst[m] + got
  <2> HIDE DEF inst
  <2>1. V = W - w[m] + v[m]
    BY <1>7, SumChange
  <2>2. A = I - inst[m] + after[m]
    <3>1. /\ \A k \in Months : inst[k] \in Int /\ after[k] \in Int
          /\ \A k \in Months : k # m => after[k] = inst[k]
      BY <1>4, <1>7
    <3> HIDE DEF I, A
    <3>2. SumFunctionOnSet(after, Months) = SumFunctionOnSet(inst, Months) - inst[m] + after[m]
      BY <3>1, <1>7, SumChange
    <3> QED BY <3>2 DEF I, A
  <2> QED BY <2>1, <2>2, <1>4
<1>9. W <= loan[x].repaid /\ I <= loan[x].repaid
  BY <1>2 DEF Covered, Scheduled
<1>10. V <= loan[x].repaid + got
  <2>1. CASE due <= left
    <3> HIDE DEF W, V, I, A, due, left, inst
    <3> QED BY <2>1, <1>1, <1>3, <1>6, <1>7, <1>8, <1>9
  <2>2. CASE ~(due <= left)
    <3>1. due = inst[m]
      BY <2>2, <1>1, <1>2
    <3>2. \A k \in Months : v[k] <= inst[k]
      BY <3>1, <1>6
    <3>3. V <= I
      <4> HIDE DEF inst, due
      <4> QED BY <3>2, <1>7, SumMonotone
    <3> HIDE DEF W, V, I, A, due, left, inst
    <3> QED BY <3>3, <1>1, <1>3, <1>7, <1>9
  <2> QED BY <2>1, <2>2
<1>11. A <= loan[x].repaid + got
  <2> HIDE DEF W, V, I, A, due, left, inst
  <2> QED BY <1>1, <1>3, <1>7, <1>8, <1>9
<1>12. got # left => \A k \in Months : v[k] <= after[k]
  <2> SUFFICES ASSUME got # left, NEW k \in Months PROVE v[k] <= after[k]
    OBVIOUS
  <2>1. got = due
    BY <1>1, <1>3 DEF got
  <2> HIDE DEF W, V, I, A, due, left, inst
  <2> QED BY <2>1, <1>4, <1>6
<1> QED BY <1>5, <1>10, <1>11, <1>12 DEF Covered, Scheduled

LEMMA PaidInvInit == TermsInit => PaidInv
<1> SUFFICES ASSUME TermsInit PROVE PaidInv
  OBVIOUS
<1>1. TermsTypeOK
  BY TermsTypeInit
<1>2. CarriedAreRows /\ \A x \in Items : Rows(x) = {}
  BY DEF TermsInit, CarriedAreRows, Rows
<1>3. \A x \in Items, m \in Months : line[m][x] = 0
  BY DEF TermsInit
<1>4. \A x \in Retros : RetroLines(x)
  BY <1>2, <1>3 DEF RetroLines, Items
<1>5. ASSUME NEW x \in Loans PROVE LoanLines(x)
  <2>1. /\ x \in Items /\ IsFiniteSet(Months) /\ loan[x].status = "pending" /\ loan[x].repaid = 0
        /\ \A m \in Months : loan[x].inst[m] = 0 /\ OwnLines(x)[m] = 0
    BY <1>3, TermsAssumption DEF TermsInit, Items, OwnLines
  <2>2. SumFunctionOnSet(OwnLines(x), Months) = 0
    BY <2>1, SumZero
  <2> QED BY <1>2, <1>3, <2>1, <2>2 DEF LoanLines, Covered, Scheduled
<1> QED BY <1>2, <1>4, <1>5 DEF PaidInv

\* A calculation, item by item.
LEMMA PaidAtCalculation ==
    ASSUME TermsInv, TermsTypeOK', PaidInv,
           NEW m \in Months, NEW staff \in SUBSET Employees, CalculateWithItems(m, staff)
    PROVE  PaidInv'
<1> USE TermsAssumption
<1> DEFINE mine == {x \in Items : PayeeOf[x] \in staff}
<1>1. TermsTypeOK
  BY DEF TermsInv
<1>2. /\ line' = [line EXCEPT ![m] = [x \in Items |->
                    IF x \in mine \ DeferredFrom(m) THEN OwnLine(x, m) ELSE 0]]
      /\ carried' = [carried EXCEPT ![m] = {d \in Deferrals :
                       d[1] \in mine /\ d[3] = m /\ deferral[d].status = "pending"}]
      /\ retro' = [x \in Retros |-> IF x \in mine \cap ToMerge(m)
                                    THEN [retro[x] EXCEPT !.status = "merged"] ELSE retro[x]]
      /\ loan' = [x \in Loans |-> IF x \in mine /\ Due(x, m) > 0 THEN Repay(x, m) ELSE loan[x]]
      /\ deferral' = deferral
  BY DEF CalculateWithItems, ChargeItems
<1>3. /\ \A k \in Months \ {m}, x \in Items : line'[k][x] = line[k][x]
      /\ \A x \in Items : line'[m][x] = IF x \in mine \ DeferredFrom(m) THEN OwnLine(x, m) ELSE 0
      /\ \A k \in Months \ {m} : carried'[k] = carried[k]
      /\ \A d \in carried'[m] : deferral[d].status = "pending"
      /\ \A x \in Items : Rows(x)' = Rows(x)
  BY <1>1, <1>2 DEF TermsTypeOK, Rows
<1> HIDE DEF mine
<1>4. CarriedAreRows'
  BY <1>2, <1>3 DEF PaidInv, CarriedAreRows
<1>5. ASSUME NEW x \in Retros PROVE RetroLines(x)'
  <2>1. /\ x \in Items /\ x \notin Loans /\ x \notin Recurring /\ x \notin Activities
        /\ RetroLines(x) /\ OneRow(x)' = OneRow(x)
    BY <1>3 DEF PaidInv, Items, OneRow
  <2>2. retro'[x] = IF x \in mine /\ x \in ToMerge(m)
                    THEN [retro[x] EXCEPT !.status = "merged"] ELSE retro[x]
    BY <1>2
  <2>3. line'[m][x] = IF x \in mine /\ x \notin DeferredFrom(m) /\ x \in ToMerge(m) THEN 1 ELSE 0
    BY <2>1, <1>3 DEF OwnLine
  <2>4. x \in ToMerge(m) => retro[x].status = "selected" /\ retro[x].into = m
    BY DEF ToMerge
  <2>5. /\ retro'[x].into = retro[x].into
        /\ x \in mine /\ x \in ToMerge(m) => retro'[x].status = "merged"
        /\ retro[x].status = "merged" => retro'[x].status = "merged"
    BY <2>2, <2>4, <1>1 DEF TermsTypeOK
  <2>6. ASSUME NEW k \in Months
        PROVE  /\ line'[k][x] \in {0, 1}
               /\ line'[k][x] > 0 => retro'[x].status = "merged" /\ retro'[x].into = k
    <3>1. CASE k = m
      BY <3>1, <2>3, <2>4, <2>5
    <3>2. CASE k # m
      BY <3>2, <2>1, <2>5, <1>3 DEF RetroLines
    <3> QED BY <3>1, <3>2
  <2>7. Rows(x)' = Rows(x)
    BY <2>1, <1>3
  <2> QED BY <2>1, <2>5, <2>6, <2>7, <1>2 DEF RetroLines
<1>6. ASSUME NEW x \in Loans PROVE LoanLines(x)'
  <2>1. x \in Items /\ LoanLines(x) /\ Rows(x)' = Rows(x) /\ OneRow(x)' = OneRow(x)
        /\ loan[x] \in LoanType /\ Due(x, m) \in 0..Amount
    <3>1. x \in Items
      BY DEF Items
    <3>2. LoanLines(x) /\ Rows(x)' = Rows(x)
      BY <3>1, <1>3 DEF PaidInv
    <3>3. OneRow(x)' = OneRow(x)
      BY <3>2 DEF OneRow
    <3>4. loan[x] \in LoanType /\ Due(x, m) \in 0..Amount
      BY <1>1, DueTyped DEF TermsTypeOK
    <3> QED BY <3>1, <3>2, <3>3, <3>4
  <2>2. line'[m][x] = IF x \in mine /\ x \notin DeferredFrom(m) THEN Due(x, m) ELSE 0
    BY <2>1, <1>3 DEF OwnLine
  <2> DEFINE b == IF x \in mine /\ Due(x, m) > 0 THEN Repay(x, m) ELSE loan[x]
  <2>3. loan'[x] = b
    BY <1>2
  <2>4. /\ OwnLines(x) \in [Months -> 0..Amount] /\ OwnLines(x)' \in [Months -> 0..Amount]
        /\ \A d \in Deferrals : /\ With(x, d) \in [Months -> 0..Amount]
                                /\ With(x, d)' \in [Months -> 0..Amount]
    <3>1. /\ OwnLines(x) \in [Months -> 0..Amount]
          /\ \A d \in Deferrals : With(x, d) \in [Months -> 0..Amount]
      BY <2>1, <1>1, LinesTyped
    <3>2. \A k \in Months : line'[k][x] \in 0..Amount
      BY <2>1 DEF TermsTypeOK
    <3>3. \A d \in Deferrals : deferral'[d].amount \in 0..Amount
      BY <1>2, <1>1 DEF TermsTypeOK
    <3> QED BY <3>1, <3>2, <3>3 DEF OwnLines, With
  <2>5. ASSUME NEW w \in [Months -> 0..Amount], NEW v \in [Months -> 0..Amount],
               Covered(loan[x], w), \A k \in Months : k # m => v[k] = w[k],
               v[m] <= w[m] \/ v[m] <= line'[m][x]
        PROVE  Covered(b, v)
    <3>1. CASE x \in mine /\ Due(x, m) > 0
      <4>1. v[m] <= w[m] \/ v[m] <= Due(x, m)
        <5>1. line'[m][x] <= Due(x, m)
          BY <2>1, <2>2
        <5> QED BY <5>1, <2>1, <2>2, <2>5
      <4>2. Scheduled(loan[x])
        BY <2>1 DEF LoanLines
      <4>3. Covered(Repay(x, m), v)
        BY <3>1, <4>1, <4>2, <2>5, <1>1, RepayCovers
      <4> QED BY <3>1, <4>3
    <3>2. CASE ~(x \in mine /\ Due(x, m) > 0)
      <4>1. line'[m][x] = 0
        BY <3>2, <2>1, <2>2
      <4>2. \A k \in Months : v[k] \in Nat /\ w[k] \in Nat
        OBVIOUS
      <4>3. \A k \in Months : v[k] <= w[k]
        BY <2>5, <4>1, <4>2
      <4>4. Covered(loan[x], v)
        BY <2>1, <2>5, <4>3, CoveredLess
      <4> QED BY <3>2, <4>4
    <3> QED BY <3>1, <3>2
  <2>6. Scheduled(b)
    <3>1. CASE x \in mine /\ Due(x, m) > 0
      <4>1. Scheduled(loan[x]) /\ Covered(loan[x], OwnLines(x))
        BY <2>1 DEF LoanLines
      <4>2. OwnLines(x)[m] <= OwnLines(x)[m]
        BY <2>4
      <4>3. Scheduled(Repay(x, m))
        BY <3>1, <4>1, <4>2, <2>4, <1>1, RepayCovers
      <4> QED BY <3>1, <4>3
    <3>2. CASE ~(x \in mine /\ Due(x, m) > 0)
      BY <3>2, <2>1 DEF LoanLines
    <3> QED BY <3>1, <3>2
  <2>7. loan[x].status # "active" => b = loan[x] /\ line'[m][x] = 0
    BY <2>2 DEF Due
  <2>8. b.status = "pending" => loan[x].status = "pending"
    <3>1. LET r == Repay(x, m) IN r.status \in {"settled", loan[x].status}
      BY <2>1 DEF Repay, LoanType
    <3> QED BY <3>1
  <2> HIDE DEF b
  <2>9. Covered(b, OwnLines(x)')
    <3>1. Covered(loan[x], OwnLines(x))
      BY <2>1 DEF LoanLines
    <3>2. \A k \in Months : k # m => OwnLines(x)'[k] = OwnLines(x)[k]
      BY <2>1, <1>3 DEF OwnLines
    <3>3. OwnLines(x)'[m] = line'[m][x] /\ line'[m][x] <= line'[m][x]
      BY <2>4 DEF OwnLines
    <3> QED BY <3>1, <3>2, <3>3, <2>4, <2>5
  <2>10. ASSUME OneRow(x), NEW d \in Rows(x) PROVE Covered(b, With(x, d)')
    <3>1. Covered(loan[x], With(x, d)) /\ d \in Deferrals
      BY <2>1, <2>10 DEF LoanLines, Rows
    <3>2. \A k \in Months : k # m => With(x, d)'[k] = With(x, d)[k]
      BY <2>1, <1>2, <1>3 DEF With
    <3>3. With(x, d)'[m] <= With(x, d)[m] \/ With(x, d)'[m] <= line'[m][x]
      <4>1. With(x, d)'[m] \in Nat
        BY <2>4, <3>1
      <4>2. With(x, d)'[m] = With(x, d)[m] \/ With(x, d)'[m] = line'[m][x]
        BY <1>2 DEF With
      <4> QED BY <4>1, <4>2
    <3> QED BY <3>1, <3>2, <3>3, <2>4, <2>5
  <2>11. loan'[x].status = "pending" =>
           /\ Rows(x) = {} /\ loan'[x].repaid = 0
           /\ \A k \in Months : line'[k][x] = 0 /\ loan'[x].inst[k] = 0
    BY <2>1, <2>3, <2>7, <2>8, <1>3 DEF LoanLines
  <2> QED BY <2>1, <2>3, <2>6, <2>9, <2>10, <2>11 DEF LoanLines
<1> QED BY <1>4, <1>5, <1>6 DEF PaidInv

\* Steps that leave the lines of an item, and its deferrals up to their status.
LEMMA PaidUntouched ==
    ASSUME TermsTypeOK, NEW x \in Items,
           line' = line, Rows(x)' = Rows(x),
           \A d \in Rows(x) : deferral'[d].amount = deferral[d].amount
    PROVE  /\ OneRow(x)' = OneRow(x)
           /\ OwnLines(x)' = OwnLines(x)
           /\ \A d \in Rows(x) : With(x, d)' = With(x, d)
           /\ x \in Retros /\ RetroLines(x) /\ retro'[x] = retro[x] => RetroLines(x)'
           /\ x \in Loans /\ LoanLines(x) /\ loan'[x].status = loan[x].status
              /\ loan'[x].repaid = loan[x].repaid /\ loan'[x].inst = loan[x].inst => LoanLines(x)'
<1>1. /\ OneRow(x)' = OneRow(x)
      /\ OwnLines(x)' = OwnLines(x)
      /\ \A d \in Rows(x) : With(x, d)' = With(x, d)
  BY DEF OneRow, OwnLines, With
<1>2. x \in Retros /\ RetroLines(x) /\ retro'[x] = retro[x] => RetroLines(x)'
  BY <1>1 DEF RetroLines
<1>3. ASSUME x \in Loans, LoanLines(x), loan'[x].status = loan[x].status,
             loan'[x].repaid = loan[x].repaid, loan'[x].inst = loan[x].inst
      PROVE  LoanLines(x)'
  BY <1>1, <1>3 DEF LoanLines, Covered, Scheduled
<1> QED BY <1>1, <1>2, <1>3

LEMMA PaidAtApproval ==
    ASSUME TermsInv, PaidInv, NEW m \in Months, ApproveAndConsume(m)
    PROVE  PaidInv'
<1>1. TermsTypeOK
  BY DEF TermsInv
<1>2. /\ line' = line /\ carried' = carried /\ retro' = retro
      /\ loan' = [x \in Loans |-> IF x \in Extended(m) THEN [loan[x] EXCEPT !.count = @ + 1] ELSE loan[x]]
      /\ deferral' = [d \in Deferrals |->
           IF d \in carried[m] THEN [deferral[d] EXCEPT !.status = "applied"] ELSE deferral[d]]
  BY DEF ApproveAndConsume, Consume
<1>3. \A d \in Deferrals :
        /\ deferral'[d].amount = deferral[d].amount
        /\ deferral'[d].status = "none" <=> deferral[d].status = "none"
  BY <1>1, <1>2 DEF TermsTypeOK, PaidInv, CarriedAreRows
<1>4. \A x \in Items : /\ Rows(x)' = Rows(x)
                       /\ \A d \in Rows(x) : deferral'[d].amount = deferral[d].amount
  BY <1>3 DEF Rows
<1>5. CarriedAreRows'
  BY <1>1, <1>2, <1>3 DEF TermsTypeOK, PaidInv, CarriedAreRows
<1>6. \A x \in Retros : RetroLines(x)'
  BY <1>1, <1>2, <1>4, PaidUntouched DEF PaidInv, Items
<1>7. ASSUME NEW x \in Loans PROVE LoanLines(x)'
  <2>1. /\ loan'[x].status = loan[x].status
        /\ loan'[x].repaid = loan[x].repaid /\ loan'[x].inst = loan[x].inst
    BY <1>1, <1>2 DEF TermsTypeOK, LoanType
  <2>2. x \in Items /\ LoanLines(x)
    BY DEF Items, PaidInv
  <2> QED BY <2>1, <2>2, <1>1, <1>2, <1>4, PaidUntouched
<1> QED BY <1>5, <1>6, <1>7 DEF PaidInv

\* A line that was never deferred is deferred from its own month, for what it is.
LEMMA DeferredOnce ==
    ASSUME TermsInv, CarriedAreRows, NEW x \in Items, NEW m \in Months, NEW n \in Months, Defer(x, m, n)
    PROVE  LET d == <<x, m, n>> IN
           /\ d \in Deferrals /\ deferral'[d].status = "pending"
           /\ \A c \in Deferrals \ {d} : deferral'[c] = deferral[c]
           /\ Rows(x) \subseteq Rows(x)' /\ d \in Rows(x)'
           /\ line[m][x] > 0 \/ Rows(x) # {}
           /\ OneRow(x)' => Rows(x)' = {d} /\ line[m][x] > 0 /\ deferral'[d].amount = line[m][x]
<1> USE RunAssumption
<1> DEFINE d == <<x, m, n>>
<1>1. PICK amount :
         /\ deferral' = [deferral EXCEPT ![d] = [status |-> "pending", amount |-> amount]]
         /\ line[m][x] > 0 => amount = line[m][x]
  BY DEF Defer
<1>2. TermsTypeOK /\ d \in Deferrals /\ m < n /\ m \in Nat /\ n \in Nat
  BY DEF TermsInv, Defer, Deferrals
<1>3. /\ deferral'[d].status = "pending" /\ deferral'[d].amount = amount
      /\ \A c \in Deferrals \ {d} : deferral'[c] = deferral[c]
  BY <1>1, <1>2 DEF TermsTypeOK
<1>4. Rows(x) \subseteq Rows(x)' /\ d \in Rows(x)'
  <2>1. d[1] = x
    OBVIOUS
  <2> HIDE DEF d
  <2> QED BY <2>1, <1>2, <1>3 DEF Rows
<1>5. ASSUME ~(line[m][x] > 0)
      PROVE  \E c \in Rows(x) : c[3] = m
  <2>1. PICK c \in carried[m] : c[1] = x
    BY <1>5 DEF Defer
  <2>2. c \in Deferrals /\ c[3] = m /\ deferral[c].status # "none"
    BY <1>2 DEF TermsTypeOK, TermsInv, CarriedIsOwn, CarriedAreRows
  <2> QED BY <2>1, <2>2 DEF Rows
<1>6. ASSUME OneRow(x)' PROVE Rows(x)' = {d} /\ line[m][x] > 0
  <2>1. Rows(x)' = {d}
    BY <1>4, <1>6 DEF OneRow
  <2>2. d[3] = n /\ n # m
    BY <1>2
  <2>3. line[m][x] > 0
    BY <2>1, <2>2, <1>4, <1>5
  <2> QED BY <2>1, <2>3
<1> QED BY <1>1, <1>2, <1>3, <1>4, <1>5, <1>6

LEMMA PaidAtEdit ==
    ASSUME TermsInv, PaidInv, NEW y \in Items, EditOf(y)
    PROVE  PaidInv'
<1> USE TermsAssumption
<1>1. TermsTypeOK /\ line' = line /\ carried' = carried
  BY EditIsEdit DEF TermsInv, Edit
<1>2. CASE \E m, n \in Months : Defer(y, m, n)
  <2>1. PICK m \in Months, n \in Months : Defer(y, m, n)
    BY <1>2
  <2>2. retro' = retro /\ loan' = loan
    BY <2>1 DEF Defer
  <2> DEFINE d == <<y, m, n>>
  <2>3. /\ d \in Deferrals /\ deferral'[d].status = "pending"
        /\ \A c \in Deferrals \ {d} : deferral'[c] = deferral[c]
        /\ Rows(y) \subseteq Rows(y)' /\ d \in Rows(y)'
        /\ line[m][y] > 0 \/ Rows(y) # {}
        /\ OneRow(y)' => Rows(y)' = {d} /\ line[m][y] > 0 /\ deferral'[d].amount = line[m][y]
    BY <2>1, DeferredOnce DEF PaidInv
  <2>4. d[1] = y /\ d[2] = m
    OBVIOUS
  <2> HIDE DEF d
  <2>5. CarriedAreRows'
    BY <2>3, <1>1 DEF PaidInv, CarriedAreRows, TermsTypeOK
  <2>6. ASSUME NEW x \in Items, x # y
        PROVE  /\ Rows(x)' = Rows(x)
               /\ \A c \in Rows(x) : deferral'[c].amount = deferral[c].amount
    BY <2>3, <2>4, <2>6 DEF Rows
  <2>7. ASSUME NEW x \in Retros PROVE RetroLines(x)'
    <3>1. x \in Items /\ RetroLines(x)
      BY DEF Items, PaidInv
    <3>2. CASE x # y
      BY <3>1, <3>2, <2>2, <2>6, <1>1, PaidUntouched
    <3>3. CASE x = y
      <4>1. retro[x].status = "merged"
        BY <3>1, <3>3, <2>3 DEF RetroLines
      <4>2. OneRow(x)' => \A c \in Rows(x)' : c[2] = retro[x].into /\ deferral'[c].amount = 1
        BY <3>1, <3>3, <2>3, <2>4 DEF RetroLines
      <4> QED BY <3>1, <4>1, <4>2, <2>2, <1>1 DEF RetroLines
    <3> QED BY <3>2, <3>3
  <2>8. ASSUME NEW x \in Loans PROVE LoanLines(x)'
    <3>1. x \in Items /\ LoanLines(x)
      BY DEF Items, PaidInv
    <3>2. CASE x # y
      BY <3>1, <3>2, <2>2, <2>6, <1>1, PaidUntouched
    <3>3. CASE x = y
      <4>1. OwnLines(x)' = OwnLines(x)
        BY <1>1 DEF OwnLines
      <4>2. ASSUME OneRow(x)', NEW c \in Rows(x)' PROVE With(x, c)' = OwnLines(x)
        BY <4>2, <3>3, <2>3, <2>4, <1>1 DEF With, OwnLines
      <4>3. loan[x].status # "pending"
        BY <3>1, <3>3, <2>3 DEF LoanLines
      <4>4. Scheduled(loan[x]) /\ Covered(loan[x], OwnLines(x))
        BY <3>1 DEF LoanLines
      <4> QED BY <4>1, <4>2, <4>3, <4>4, <2>2 DEF LoanLines
    <3> QED BY <3>2, <3>3
  <2> QED BY <2>5, <2>7, <2>8 DEF PaidInv
<1>3. CASE ~\E m, n \in Months : Defer(y, m, n)
  <2>1. \A d \in Deferrals :
           /\ deferral'[d].amount = deferral[d].amount
           /\ deferral'[d].status = "none" <=> deferral[d].status = "none"
    <3>1. CASE \E d \in Deferrals : d[1] = y /\ CancelDeferral(d)
      BY <3>1, <1>1 DEF CancelDeferral, TermsTypeOK
    <3>2. CASE ~\E d \in Deferrals : d[1] = y /\ CancelDeferral(d)
      BY <3>2, <1>3 DEF EditOf, SelectRetro, RecordRetro, RefuseRetro, RevokeRetro,
            SwitchRecurring, GrantLoan, SwitchDeduction, ReviewActivity
    <3> QED BY <3>1, <3>2
  <2>2. \A x \in Items : /\ Rows(x)' = Rows(x)
                         /\ \A d \in Rows(x) : deferral'[d].amount = deferral[d].amount
    BY <2>1 DEF Rows
  <2>3. CarriedAreRows'
    BY <1>1, <2>1 DEF TermsTypeOK, PaidInv, CarriedAreRows
  <2>4. ASSUME NEW x \in Retros PROVE RetroLines(x)'
    <3>1. x \in Items /\ RetroLines(x)
      BY DEF Items, PaidInv
    <3>2. retro'[x] = retro[x] \/ retro[x].status # "merged"
      BY <1>1, <1>3 DEF EditOf, SelectRetro, RecordRetro, RefuseRetro, RevokeRetro,
         SwitchRecurring, GrantLoan, SwitchDeduction, ReviewActivity, CancelDeferral, TermsTypeOK
    <3>3. CASE retro'[x] = retro[x]
      BY <3>1, <3>3, <2>2, <1>1, PaidUntouched
    <3>4. CASE retro[x].status # "merged"
      <4>1. Rows(x) = {} /\ \A m \in Months : line[m][x] \in {0, 1} /\ ~(line[m][x] > 0)
        BY <3>1, <3>4 DEF RetroLines
      <4> QED BY <3>1, <4>1, <2>2, <1>1 DEF RetroLines
    <3> QED BY <3>2, <3>3, <3>4
  <2>5. ASSUME NEW x \in Loans PROVE LoanLines(x)'
    <3>1. x \in Items /\ LoanLines(x) /\ loan[x] \in LoanType
      BY <1>1 DEF Items, PaidInv, TermsTypeOK
    <3>2. /\ loan'[x].repaid = loan[x].repaid /\ loan'[x].inst = loan[x].inst
          /\ \/ loan'[x].status = loan[x].status
             \/ loan[x].status = "pending" /\ loan'[x].status = "active"
      <4>1. CASE y \in Loans /\ (GrantLoan(y) \/ SwitchDeduction(y))
        <5>1. CASE x = y /\ GrantLoan(y)
          BY <5>1, <3>1, <1>1 DEF GrantLoan, TermsTypeOK, LoanType
        <5>2. CASE x = y /\ SwitchDeduction(y)
          BY <5>2, <3>1, <1>1 DEF SwitchDeduction, TermsTypeOK, LoanType
        <5>3. CASE x # y
          <6>1. loan'[x] = loan[x]
            BY <4>1, <5>3, <1>1 DEF GrantLoan, SwitchDeduction, TermsTypeOK
          <6> QED BY <6>1
        <5> QED BY <4>1, <5>1, <5>2, <5>3
      <4>2. CASE ~(y \in Loans /\ (GrantLoan(y) \/ SwitchDeduction(y)))
        BY <4>2, <1>3 DEF EditOf, SelectRetro, RecordRetro, RefuseRetro, RevokeRetro,
           SwitchRecurring, ReviewActivity, CancelDeferral
      <4> QED BY <4>1, <4>2
    <3>3. CASE loan'[x].status = loan[x].status
      BY <3>1, <3>2, <3>3, <2>2, <1>1, PaidUntouched
    <3>4. CASE loan[x].status = "pending" /\ loan'[x].status = "active"
      <4>1. /\ Rows(x)' = {} /\ loan'[x].repaid = 0
            /\ \A m \in Months : line'[m][x] = 0 /\ loan'[x].inst[m] = 0 /\ OwnLines(x)'[m] = 0
        BY <3>1, <3>2, <3>4, <2>2, <1>1 DEF LoanLines, OwnLines
      <4>2. SumFunctionOnSet(OwnLines(x)', Months) = 0 /\ SumFunctionOnSet(loan'[x].inst, Months) = 0
        BY <4>1, SumZero
      <4> QED BY <3>4, <4>1, <4>2 DEF LoanLines, Covered, Scheduled
    <3> QED BY <3>2, <3>3, <3>4
  <2> QED BY <2>3, <2>4, <2>5 DEF PaidInv
<1> QED BY <1>2, <1>3

LEMMA PaidInvPreserved ==
    ASSUME TermsInv, PaidInv, [TermsNext]_termState
    PROVE  PaidInv'
<1>1. TermsTypeOK /\ TermsTypeOK'
  BY TermsInvPreserved DEF TermsInv
<1>2. CASE UNCHANGED termVars
  <2>1. CarriedAreRows'
    BY <1>2 DEF termVars, PaidInv, CarriedAreRows
  <2>2. \A x \in Items : Rows(x)' = Rows(x) /\ line' = line /\ retro' = retro /\ loan' = loan
           /\ \A d \in Rows(x) : deferral'[d].amount = deferral[d].amount
    BY <1>2 DEF termVars, Rows
  <2>3. \A x \in Retros : RetroLines(x)'
    BY <1>1, <2>2, PaidUntouched DEF Items, PaidInv
  <2>4. \A x \in Loans : LoanLines(x)'
    BY <1>1, <2>2, PaidUntouched DEF Items, PaidInv
  <2> QED BY <2>1, <2>3, <2>4 DEF PaidInv
<1> QED BY <1>1, <1>2, TermsStepCases, PaidAtCalculation, PaidAtApproval, PaidAtEdit
        DEF termState, termVars

\* An item has as many deferrals as there are pairs of months at most, so that
\* they can be counted.
LEMMA AtMostOneRow ==
    ASSUME NEW x \in Items, ~DeferredAgain(x)
    PROVE  OneRow(x)
<1> DEFINE f == [p \in Months \X Months |-> <<x, p[1], p[2]>>]
           All == {f[p] : p \in Months \X Months}
<1>1. IsFiniteSet(Months \X Months)
  BY TermsAssumption, FS_Product
<1>2. IsFiniteSet(All)
  <2>1. f \in Surjection(Months \X Months, All)
    <3> HIDE DEF f
    <3>1. f \in [Months \X Months -> All]
      BY DEF f
    <3> QED BY <3>1 DEF Surjection
  <2> HIDE DEF f, All
  <2> QED BY <1>1, <2>1, FS_Surjection
<1>3. Rows(x) \subseteq All
  <2> SUFFICES ASSUME NEW d \in Rows(x) PROVE d \in All
    OBVIOUS
  <2>1. d = <<x, d[2], d[3]>> /\ <<d[2], d[3]>> \in Months \X Months
    BY DEF Rows, Deferrals
  <2> QED BY <2>1
<1>4. IsFiniteSet(Rows(x)) /\ Cardinality(Rows(x)) \in Nat /\ ~(Cardinality(Rows(x)) > 1)
  BY <1>2, <1>3, FS_Subset, FS_CardinalityType DEF DeferredAgain, Rows
<1> SUFFICES ASSUME NEW c \in Rows(x), NEW d \in Rows(x), c # d PROVE FALSE
  BY DEF OneRow
<1>5. {c, d} \subseteq Rows(x)
  OBVIOUS
<1>6. Cardinality({c, d}) <= Cardinality(Rows(x))
  BY <1>4, <1>5, FS_Subset
<1>7. Cardinality({c, d}) = 2
  <2>1. Cardinality({c}) = 1 /\ IsFiniteSet({c})
    BY FS_Singleton
  <2>2. Cardinality({c} \cup {d}) = Cardinality({c}) + 1
    BY <2>1, FS_AddElement
  <2>3. {c, d} = {c} \cup {d}
    OBVIOUS
  <2> QED BY <2>1, <2>2, <2>3
<1> QED BY <1>4, <1>6, <1>7

\* What deferrals bring along: nothing, or the one line that was deferred, to an
\* approved run; the run it left then has it no more.
LEMMA TakenUpOnce ==
    ASSUME TermsInv, PaidInv, NEW x \in Items, ~DeferredAgain(x), ~Overtaken(x)
    PROVE  \/ TakenUp(x) = {}
           \/ \E d \in Rows(x) : TakenUp(x) = {d} /\ (d[2] \in Approved => ~(line[d[2]][x] > 0))
<1>1. OneRow(x) /\ TermsTypeOK
  BY AtMostOneRow DEF TermsInv
<1>2. ASSUME NEW d \in TakenUp(x)
      PROVE  \E n \in Approved : d \in carried[n] /\ d \in Rows(x)
  BY <1>1 DEF TakenUp, Approved, PaidInv, CarriedAreRows, TermsTypeOK, Rows
<1>3. ASSUME NEW d \in TakenUp(x), d[2] \in Approved, line[d[2]][x] > 0
      PROVE  FALSE
  <2>1. PICK n \in Approved : d \in carried[n] /\ d \in Rows(x)
    BY <1>2
  <2>2. /\ d = <<x, d[2], d[3]>> /\ d[3] \in Months /\ d[2] < d[3]
        /\ deferral[d].status # "none" /\ n \in Months
    BY <2>1 DEF Rows, Deferrals, Approved
  <2>3. x \in since[d[2]] \cup since[n] \/ d[2] \in late
    BY <2>1, <2>2, <1>3 DEF TermsInv, CarriedHasLeft
  <2> QED BY <2>1, <2>2, <2>3, <1>3 DEF Overtaken
<1>4. ASSUME NEW d \in TakenUp(x)
      PROVE  d \in Rows(x) /\ TakenUp(x) = {d}
  <2>1. TakenUp(x) \subseteq Rows(x)
    BY <1>2
  <2> QED BY <2>1, <1>1, <1>4 DEF OneRow
<1> QED BY <1>3, <1>4

LEMMA RetroPaid == ASSUME TermsInv, PaidInv PROVE RetroPaidOnce
<1> USE TermsAssumption
<1>1. TermsTypeOK
  BY DEF TermsInv
<1> SUFFICES ASSUME NEW x \in Retros, ~DeferredAgain(x), ~Overtaken(x)
             PROVE  ~(PaidOut(x) > 1)
  BY DEF RetroPaidOnce
<1>2. x \in Items /\ RetroLines(x)
  BY DEF Items, PaidInv
<1> DEFINE own == SumFunctionOnSet(OwnLines(x), Approved)
           later == SumFunctionOnSet(AmountDeferred, TakenUp(x))
           into == retro[x].into
<1>3. /\ Approved \in SUBSET Months /\ IsFiniteSet(Approved)
      /\ \A m \in Approved : /\ OwnLines(x)[m] = line[m][x] /\ OwnLines(x)[m] \in {0, 1}
                             /\ m # into => OwnLines(x)[m] = 0
  <2>1. Approved \in SUBSET Months
    BY DEF Approved
  <2> QED BY <2>1, <1>2, FS_Subset DEF OwnLines, RetroLines
<1>4. /\ own \in {0, 1}
      /\ own = 1 => into \in Approved /\ line[into][x] > 0
  <2>1. CASE into \in Approved
    <3> HIDE DEF into
    <3>1. OwnLines(x)[into] \in Int
      BY <2>1, <1>3
    <3>2. own = OwnLines(x)[into]
      BY <2>1, <3>1, <1>3, SumOfOne
    <3> QED BY <2>1, <3>2, <1>3
  <2>2. CASE into \notin Approved
    <3>1. \A m \in Approved : OwnLines(x)[m] = 0
      BY <2>2, <1>3
    <3>2. own = 0
      BY <3>1, <1>3, SumZero
    <3> QED BY <3>2
  <2> QED BY <2>1, <2>2
<1>5. CASE TakenUp(x) = {}
  <2>1. later = 0
    BY <1>5, SumEmpty
  <2> HIDE DEF own, later
  <2>2. own + later \in {0, 1}
    BY <2>1, <1>4
  <2> QED BY <2>2 DEF PaidOut, own, later
<1>6. ASSUME NEW d \in Rows(x), TakenUp(x) = {d}, d[2] \in Approved => ~(line[d[2]][x] > 0)
      PROVE  ~(PaidOut(x) > 1)
  <2>1. d \in Deferrals /\ d[2] = into /\ deferral[d].amount = 1
    BY <1>2, AtMostOneRow DEF RetroLines, Rows
  <2>2. own = 0
    BY <2>1, <1>4, <1>6
  <2>3. later = 1
    <3>1. AmountDeferred[d] = 1
      BY <2>1 DEF AmountDeferred
    <3>2. IsFiniteSet({d})
      BY FS_Singleton
    <3>3. SumFunctionOnSet(AmountDeferred, {d}) = AmountDeferred[d]
      BY <3>1, <3>2, SumOfOne
    <3> QED BY <3>1, <3>3, <1>6
  <2> HIDE DEF own, later
  <2>4. own + later = 1
    BY <2>2, <2>3
  <2> QED BY <2>4 DEF PaidOut, own, later
<1> QED BY <1>2, <1>5, <1>6, TakenUpOnce

LEMMA LoanPaid == ASSUME TermsInv, PaidInv PROVE RepaidCoversDeducted
<1> USE TermsAssumption
<1>1. TermsTypeOK
  BY DEF TermsInv
<1> SUFFICES ASSUME NEW x \in Loans, ~DeferredAgain(x), ~Overtaken(x)
             PROVE  ~(PaidOut(x) > loan[x].repaid)
  BY DEF RepaidCoversDeducted
<1>2. x \in Items /\ LoanLines(x) /\ OneRow(x) /\ loan[x].repaid \in Nat
  <2>1. x \in Items /\ LoanLines(x)
    BY DEF Items, PaidInv
  <2>2. loan[x].repaid \in Nat
    BY <1>1 DEF TermsTypeOK, LoanType
  <2> QED BY <2>1, <2>2, AtMostOneRow
<1> DEFINE own == SumFunctionOnSet(OwnLines(x), Approved)
           later == SumFunctionOnSet(AmountDeferred, TakenUp(x))
<1>3. Approved \in SUBSET Months /\ OwnLines(x) \in [Months -> 0..Amount]
  BY <1>1, <1>2, LinesTyped DEF Approved
<1>4. own \in Nat /\ own <= loan[x].repaid
  <2>1. /\ own \in Nat /\ SumFunctionOnSet(OwnLines(x), Months) \in Nat
        /\ own <= SumFunctionOnSet(OwnLines(x), Months)
    BY <1>3, MonthlySums
  <2>2. SumFunctionOnSet(OwnLines(x), Months) <= loan[x].repaid
    BY <1>2 DEF LoanLines, Covered
  <2> HIDE DEF own
  <2> QED BY <2>1, <2>2, <1>2
<1>5. CASE TakenUp(x) = {}
  <2>1. later = 0
    BY <1>5, SumEmpty
  <2> HIDE DEF own, later
  <2>2. ~(own + later > loan[x].repaid)
    BY <2>1, <1>2, <1>4
  <2> QED BY <2>2 DEF PaidOut, own, later
<1>6. ASSUME NEW d \in Rows(x), TakenUp(x) = {d}, d[2] \in Approved => ~(line[d[2]][x] > 0)
      PROVE  ~(PaidOut(x) > loan[x].repaid)
  <2> DEFINE m == d[2]
             A == Approved \ {m}
             w == With(x, d)
  <2>1. d \in Deferrals /\ m \in Months /\ deferral[d].amount \in Nat
    BY <1>1 DEF Rows, Deferrals, TermsTypeOK
  <2>2. w \in [Months -> 0..Amount] /\ w[m] = deferral[d].amount
        /\ \A k \in A : w[k] = OwnLines(x)[k]
    BY <2>1, <1>1, <1>2, <1>3, LinesTyped DEF With, OwnLines
  <2>3. SumFunctionOnSet(w, Months) <= loan[x].repaid
    BY <1>2 DEF LoanLines, Covered
  <2> HIDE DEF w
  <2>4. A \in SUBSET Months /\ A \cup {m} \in SUBSET Months
    BY <2>1, <1>3
  <2>5. /\ IsFiniteSet(A) /\ \A k \in Months : w[k] \in Int /\ w[k] \in Nat
        /\ SumFunctionOnSet(w, A) \in Nat /\ SumFunctionOnSet(w, A \cup {m}) \in Nat
        /\ SumFunctionOnSet(w, Months) \in Nat
        /\ SumFunctionOnSet(w, A \cup {m}) <= SumFunctionOnSet(w, Months)
    BY <2>2, <2>4, MonthlySums
  <2>6. SumFunctionOnSet(w, A \cup {m}) = SumFunctionOnSet(w, A) + w[m]
    <3>1. m \notin A /\ \A k \in A \cup {m} : w[k] \in Int
      BY <2>4, <2>5
    <3> HIDE DEF A, m
    <3> QED BY <3>1, <2>5, SumAdd
  <2>7. SumFunctionOnSet(OwnLines(x), A) = SumFunctionOnSet(w, A)
    <3> HIDE DEF A
    <3> QED BY <2>2, <2>5, SumSame
  <2>8. own = SumFunctionOnSet(OwnLines(x), A)
    <3>1. CASE m \in Approved
      <4>1. IsFiniteSet(Approved) /\ \A k \in Approved : OwnLines(x)[k] \in Int
        BY <1>3, MonthlySums
      <4>2. own = OwnLines(x)[m] + SumFunctionOnSet(OwnLines(x), A)
        <5> HIDE DEF m
        <5> QED BY <3>1, <4>1, SumRemove
      <4>3. OwnLines(x)[m] = 0
        <5>1. OwnLines(x)[m] \in 0..Amount /\ OwnLines(x)[m] = line[m][x]
          BY <2>1, <1>3 DEF OwnLines
        <5> QED BY <5>1, <3>1, <1>6
      <4>4. SumFunctionOnSet(OwnLines(x), A) \in Nat
        BY <2>5, <2>7
      <4> HIDE DEF own, A
      <4> QED BY <4>2, <4>3, <4>4
    <3>2. CASE m \notin Approved
      <4>1. A = Approved
        BY <3>2
      <4> QED BY <4>1
    <3> QED BY <3>1, <3>2
  <2>9. later = w[m]
    <3>1. AmountDeferred[d] = w[m] /\ w[m] \in Int /\ IsFiniteSet({d})
      BY <2>1, <2>2, FS_Singleton DEF AmountDeferred
    <3>2. SumFunctionOnSet(AmountDeferred, {d}) = AmountDeferred[d]
      <4> HIDE DEF m
      <4> QED BY <3>1, SumOfOne
    <3> QED BY <3>1, <3>2, <1>6
  <2> HIDE DEF own, later, A, m
  <2>10. ~(own + later > loan[x].repaid)
    BY <2>3, <2>5, <2>6, <2>7, <2>8, <2>9, <1>2
  <2> QED BY <2>10 DEF PaidOut, own, later
<1> QED BY <1>2, <1>5, <1>6, TakenUpOnce

LEMMA PaidInvariant == TermsSpec => []PaidInv
<1>1. TermsInv /\ PaidInv /\ [TermsNext]_termState => PaidInv'
  BY PaidInvPreserved
<1> QED BY <1>1, PaidInvInit, TermsInvariant, PTL DEF TermsSpec

\* calculate_slip, decide_adjustment: an adjustment of a closed month is paid by
\* one run, its own or the one its line was deferred to, up to the exceptions.
THEOREM AdjustmentsPaidOnce == TermsSpec => []RetroPaidOnce
<1>1. TermsInv /\ PaidInv => RetroPaidOnce
  BY RetroPaid
<1> QED BY <1>1, TermsInvariant, PaidInvariant, PTL

\* record_deduction: what the approved payslips take for an advance is on its
\* account, however often a run was calculated, up to the exceptions.
THEOREM AdvancesCoverDeductions == TermsSpec => []RepaidCoversDeducted
<1>1. TermsInv /\ PaidInv => RepaidCoversDeducted
  BY LoanPaid
<1> QED BY <1>1, TermsInvariant, PaidInvariant, PTL

-----------------------------------------------------------------------------
(***************************************************************************)
(* EndOfService                                                            *)
(***************************************************************************)

LEMMA LeavingStepOfRuns == [LeavingNext]_leavingState => [RunNext]_runVars
BY DEF LeavingNext, leavingState, runVars, RunNext, CalculateWithDebts, ApproveRegular, KeepPayslips, RegisterDismissal,
       ApproveDismissal, RejectDismissal, AskToLeave, GrantLeaving, RefuseLeaving,
       CreateSettlement, RecalculateSettlement, SubmitSettlement, RejectSettlement, ApproveSettlement

\* Leaving and settling touch no regular run.
THEOREM LeavingImplementsRuns == LeavingSpec => RunSpec
<1>1. LeavingInit => RunInit
  BY DEF LeavingInit
<1> QED BY <1>1, LeavingStepOfRuns, PTL DEF LeavingSpec, RunSpec

\* An approved regular run stays signed and final whatever people do.
THEOREM SignedWhileLeaving == LeavingSpec => []ApprovedAsSigned /\ ApprovedIsFinal
BY LeavingImplementsRuns, ApprovedRunsAreSigned, ApprovedRunsAreFinal, PTL

-----------------------------------------------------------------------------
(* Positions *)

LeaveTyped ==
    /\ end \in [Employees -> Months \cup {Serving}]
    /\ change \in [Employees -> ChangeType]
    /\ successor \in [Employees -> Employees \cup {Nobody}]
    /\ asked \in [Employees -> Employees \cup {Nobody, NotAsked}]

\* A dismissal waits for somebody who serves until a day of some month, and
\* names somebody else or finds a successor; what was named cannot be unnamed.
DismissalIsSound(e) ==
    change[e].status = "pending" =>
        /\ Active(e) /\ change[e].end \in Months /\ change[e].successor # e
        /\ e \in Holders => change[e].successor # Nobody \/ successor[e] # Nobody

LeaveInv ==
    /\ LeaveTyped
    /\ \A e \in Employees : DismissalIsSound(e)
    /\ PositionsAreFilled

LEMMA LeaveInvInit == LeavingInit => LeaveInv
BY LeavingAssumption DEF LeavingInit, LeaveInv, LeaveTyped, NoChange, ChangeType, DismissalIsSound,
   PositionsAreFilled, Active, Serving

LEMMA LeaveInvPreserved ==
    ASSUME LeaveInv, [LeavingNext]_leavingState
    PROVE  LeaveInv'
<1> USE LeavingAssumption, RunAssumption
<1>0. 0 \notin Months
  OBVIOUS
<1>1. ASSUME UNCHANGED <<end, change>>,
             asked' \in [Employees -> Employees \cup {Nobody, NotAsked}],
             successor' \in [Employees -> Employees \cup {Nobody}],
             \A x \in Employees : successor[x] # Nobody => successor'[x] # Nobody
      PROVE  LeaveInv'
  BY <1>1 DEF LeaveInv, LeaveTyped, DismissalIsSound, PositionsAreFilled, Active
<1>2. ASSUME NEW e \in Employees, NEW m \in Months, NEW s \in Employees \cup {Nobody},
             RegisterDismissal(e, m, s)
      PROVE  LeaveInv'
  <2>1. /\ change' = [change EXCEPT ![e] = [status |-> "pending", end |-> m, successor |-> s]]
        /\ Active(e) /\ s # e /\ MayLeave(e, s)
        /\ end' = end /\ successor' = successor /\ asked' = asked
    BY <1>2 DEF RegisterDismissal
  <2>2. LeaveTyped'
    BY <2>1 DEF LeaveInv, LeaveTyped, ChangeType
  <2>3. /\ change'[e] = [status |-> "pending", end |-> m, successor |-> s]
        /\ \A x \in Employees \ {e} : change'[x] = change[x]
    BY <2>1 DEF LeaveInv, LeaveTyped
  <2>4. \A x \in Employees : DismissalIsSound(x)'
    BY <2>1, <2>3 DEF LeaveInv, DismissalIsSound, Active, MayLeave
  <2>5. PositionsAreFilled'
    BY <2>1, <2>3 DEF LeaveInv, PositionsAreFilled, Active
  <2> QED BY <2>2, <2>4, <2>5 DEF LeaveInv
<1>3. ASSUME NEW e \in Employees, ApproveDismissal(e)
      PROVE  LeaveInv'
  <2> DEFINE s == change[e].successor
  <2>1. /\ change[e].status = "pending"
        /\ change' = [change EXCEPT ![e].status = "approved"]
        /\ end' = [end EXCEPT ![e] = change[e].end]
        /\ successor' = Appointed(e, s, end') /\ asked' = asked
    BY <1>3 DEF ApproveDismissal
  <2>2. /\ DismissalIsSound(e) /\ change[e] \in ChangeType /\ LeaveTyped
        /\ s \in Employees \cup {Nobody}
    BY DEF LeaveInv, LeaveTyped, ChangeType
  <2>10. /\ [change[e] EXCEPT !.status = "approved"] \in ChangeType
         /\ change'[e] = [change[e] EXCEPT !.status = "approved"]
         /\ change' = [change EXCEPT ![e] = [change[e] EXCEPT !.status = "approved"]]
    <3>1. [change[e] EXCEPT !.status = "approved"] \in ChangeType
      BY <2>2 DEF ChangeType
    <3> QED BY <3>1, <2>1, <2>2 DEF LeaveTyped
  <2>11. change[e].end \in Months
    BY <2>1, <2>2 DEF DismissalIsSound
  <2>3. /\ change'[e].status = "approved" /\ change'[e].successor = s
        /\ \A x \in Employees \ {e} : change'[x] = change[x] /\ end'[x] = end[x]
        /\ change' \in [Employees -> ChangeType]
        /\ end'[e] \in Months /\ end' \in [Employees -> Months \cup {Serving}]
    <3>1. change'[e].status = "approved" /\ change'[e].successor = s
      BY <2>10, <2>2 DEF ChangeType
    <3> QED BY <3>1, <2>1, <2>2, <2>10, <2>11 DEF LeaveTyped
  <2>4. /\ successor' \in [Employees -> Employees \cup {Nobody}]
        /\ \A x \in Employees : successor[x] # Nobody => successor'[x] # Nobody
        /\ s \notin {Nobody, e} /\ end'[s] = Serving => successor'[e] # Nobody
    BY <2>1, <2>2 DEF LeaveTyped, Appointed
  <2>5. LeaveTyped'
    BY <2>1, <2>2, <2>3, <2>4 DEF LeaveTyped
  <2>6. \A x \in Employees : ~Active(x) => ~Active(x)'
    BY <2>3, <1>0 DEF Active, Serving
  <2>7. \A x \in Employees : DismissalIsSound(x)'
    BY <2>3, <2>4 DEF LeaveInv, DismissalIsSound, Active
  <2>8. PositionsAreFilled'
    <3> SUFFICES ASSUME NEW x \in Holders, ~Active(x)', successor'[x] = Nobody
                 PROVE  /\ change'[x].successor # Nobody
                        /\ end'[change'[x].successor] # Serving
      BY DEF PositionsAreFilled, Active
    <3>1. CASE x = e
      <4>1. s # Nobody /\ s # e
        BY <3>1, <2>1, <2>2, <2>4 DEF DismissalIsSound
      <4>2. end'[s] # Serving
        BY <3>1, <4>1, <2>4
      <4> QED BY <3>1, <4>1, <4>2, <2>3
    <3>2. CASE x # e
      <4>1. x \in Employees /\ ~Active(x) /\ successor[x] = Nobody /\ change'[x] = change[x]
        BY <3>2, <2>3, <2>4 DEF Active
      <4>2. /\ change[x].successor \in Employees \cup {Nobody}
            /\ change[x].successor # Nobody /\ ~Active(change[x].successor)
        BY <4>1 DEF LeaveInv, LeaveTyped, ChangeType, PositionsAreFilled
      <4> QED BY <4>1, <4>2, <2>6 DEF Active
    <3> QED BY <3>1, <3>2
  <2> QED BY <2>5, <2>7, <2>8 DEF LeaveInv
<1>4. ASSUME NEW e \in Employees, RejectDismissal(e)
      PROVE  LeaveInv'
  <2>1. /\ change[e].status = "pending" /\ change' = [change EXCEPT ![e] = NoChange]
        /\ end' = end /\ successor' = successor /\ asked' = asked
    BY <1>4 DEF RejectDismissal
  <2>2. NoChange \in ChangeType /\ NoChange.status = "none"
    BY DEF NoChange, ChangeType
  <2>3. /\ change' \in [Employees -> ChangeType] /\ change'[e] = NoChange
        /\ \A x \in Employees \ {e} : change'[x] = change[x]
    BY <2>1, <2>2 DEF LeaveInv, LeaveTyped
  <2>4. Active(e)
    BY <2>1 DEF LeaveInv, DismissalIsSound
  <2> QED BY <2>1, <2>2, <2>3, <2>4
        DEF LeaveInv, LeaveTyped, DismissalIsSound, PositionsAreFilled, Active
<1>5. ASSUME NEW e \in Employees, GrantLeaving(e)
      PROVE  LeaveInv'
  <2>1. /\ successor' = Appointed(e, asked[e], end) /\ UNCHANGED <<end, change>>
        /\ asked' = [asked EXCEPT ![e] = NotAsked] /\ asked[e] # NotAsked
    BY <1>5 DEF GrantLeaving
  <2>2. asked[e] \in Employees \cup {Nobody} /\ asked' \in [Employees -> Employees \cup {Nobody, NotAsked}]
    BY <2>1 DEF LeaveInv, LeaveTyped
  <2>3. /\ successor' \in [Employees -> Employees \cup {Nobody}]
        /\ \A x \in Employees : successor[x] # Nobody => successor'[x] # Nobody
    BY <2>1, <2>2 DEF LeaveInv, LeaveTyped, Appointed
  <2> QED BY <1>1, <2>1, <2>2, <2>3
<1>6. ASSUME NEW e \in Employees, RefuseLeaving(e) \/ \E s \in Employees \cup {Nobody} : AskToLeave(e, s)
      PROVE  LeaveInv'
  BY <1>1, <1>6 DEF RefuseLeaving, AskToLeave, LeaveInv, LeaveTyped
<1>7. CASE UNCHANGED leaveVars
  BY <1>1, <1>7 DEF leaveVars, LeaveInv, LeaveTyped
<1>8. CASE \/ \E m \in Months, staff \in SUBSET Employees : CalculateWithDebts(m, staff)
           \/ \E e \in Employees, m \in Months : CreateSettlement(e, m)
           \/ \E k \in Settlements, staff \in SUBSET Employees : RecalculateSettlement(k, staff)
           \/ \E k \in Settlements : SubmitSettlement(k) \/ RejectSettlement(k) \/ ApproveSettlement(k)
           \/ \E m \in Months : ApproveRegular(m)
           \/ KeepPayslips \/ UNCHANGED leavingState
  BY <1>7, <1>8 DEF CalculateWithDebts, CreateSettlement, RecalculateSettlement, SubmitSettlement,
     RejectSettlement, ApproveSettlement, ApproveRegular, KeepPayslips, leavingState, leaveVars
<1> QED BY <1>2, <1>3, <1>4, <1>5, <1>6, <1>8 DEF LeavingNext

-----------------------------------------------------------------------------
\* create_change, submit_request, appoint_successor: whoever leaves an
\* administrative position has a successor, or named one who had left.
THEOREM PositionsStayFilled == LeavingSpec => []PositionsAreFilled
<1>1. LeaveInv /\ [LeavingNext]_leavingState => LeaveInv'
  BY LeaveInvPreserved
<1>2. LeaveInv => PositionsAreFilled
  BY DEF LeaveInv
<1> QED BY <1>1, <1>2, LeaveInvInit, PTL DEF LeavingSpec

-----------------------------------------------------------------------------
(* Debts.  An instalment is 1, because the months that have one are as many *)
(* as what is repaid; therefore what is due never exceeds what is left, and *)
(* what the regular payslips take is on record.  A settlement takes what is *)
(* left; while no other run has read the debt, both together are no more    *)
(* than what was borrowed.                                                 *)

AdvanceType == [repaid : 0..Borrowed, inst : [Months -> 0..Borrowed]]

DebtTyped ==
    /\ advance \in [Employees -> AdvanceType]
    /\ deducted \in [Months -> [Employees -> 0..Borrowed]]
    /\ settlement \in [Settlements -> SettlementType]

Instalments(e) == {n \in Months : advance[e].inst[n] > 0}
InstalmentsAreSmall(e) ==
    /\ \A n \in Months : advance[e].inst[n] <= 1
    /\ Cardinality(Instalments(e)) <= advance[e].repaid

RegularIsOnRecord(e) == SumFunctionOnSet(OnPayslips(e), Months) <= advance[e].repaid

BothAreCovered(e) ==
    e \notin crossed =>
        SumFunctionOnSet(OnPayslips(e), Months)
        + SumFunctionOnSet(InSettlements(e), Settlements) <= Borrowed

DebtInv ==
    /\ DebtTyped
    /\ \A e \in Employees : InstalmentsAreSmall(e) /\ RegularIsOnRecord(e) /\ BothAreCovered(e)

LEMMA LeavingFinite == IsFiniteSet(Months) /\ IsFiniteSet(Settlements)
BY LeavingAssumption, FS_Product DEF Settlements

\* What is due of an advance, and what recording it does.
LEMMA InstalmentIsOne ==
    ASSUME DebtTyped, NEW e \in Employees, InstalmentsAreSmall(e), NEW m \in Months
    PROVE  /\ InstalmentDue(e, m) \in {0, 1}
           /\ InstalmentDue(e, m) <= DebtLeft(e) /\ DebtLeft(e) \in 0..Borrowed
           /\ RepayDebt(e, m) = IF InstalmentDue(e, m) = 0 THEN advance[e]
                                ELSE [repaid |-> advance[e].repaid + 1,
                                      inst |-> [advance[e].inst EXCEPT ![m] = 1]]
<1> USE LeavingAssumption
<1>1. /\ advance[e] \in AdvanceType
      /\ advance[e].repaid \in 0..Borrowed
      /\ advance[e].inst \in [Months -> 0..Borrowed] /\ advance[e].inst[m] \in 0..1
  <2>1. advance[e] \in AdvanceType
    BY DEF DebtTyped
  <2>2. advance[e].repaid \in 0..Borrowed /\ advance[e].inst \in [Months -> 0..Borrowed]
    BY <2>1 DEF AdvanceType
  <2>3. advance[e].inst[m] \in 0..Borrowed /\ advance[e].inst[m] <= 1
    BY <2>2 DEF InstalmentsAreSmall
  <2> QED BY <2>1, <2>2, <2>3
<1>2. DebtLeft(e) \in 0..Borrowed
  BY <1>1 DEF DebtLeft
<1>3. /\ IsFiniteSet(Instalments(e)) /\ Cardinality(Instalments(e)) \in Nat
      /\ Cardinality(Instalments(e)) <= advance[e].repaid
      /\ Instalments(e) = {n \in Months : advance[e].inst[n] > 0}
  <2>1. Instalments(e) \in SUBSET Months
    BY DEF Instalments
  <2> QED BY <2>1, FS_Subset, FS_CardinalityType DEF InstalmentsAreSmall, Instalments
<1>4. InstalmentDue(e, m) \in {0, 1} /\ InstalmentDue(e, m) <= DebtLeft(e)
  <2>1. CASE DebtLeft(e) = 0
    BY <2>1 DEF InstalmentDue
  <2>2. CASE DebtLeft(e) # 0 /\ advance[e].inst[m] > 0
    BY <2>2, <1>1, <1>2 DEF InstalmentDue
  <2>3. CASE DebtLeft(e) # 0 /\ ~(advance[e].inst[m] > 0)
    <3>1. InstalmentDue(e, m) = IF Cardinality(Instalments(e)) >= Borrowed - 1 THEN DebtLeft(e) ELSE 1
      BY <2>3, <1>3 DEF InstalmentDue
    <3>2. Cardinality(Instalments(e)) >= Borrowed - 1 => DebtLeft(e) = 1
      BY <2>3, <1>1, <1>2, <1>3 DEF DebtLeft
    <3> QED BY <2>3, <3>1, <3>2, <1>2
  <2> QED BY <2>1, <2>2, <2>3
<1>5. Min({InstalmentDue(e, m), DebtLeft(e)}) = InstalmentDue(e, m)
  BY <1>2, <1>4 DEF Min
<1> QED BY <1>2, <1>4, <1>5 DEF RepayDebt

\* After the calculation of a run for staff.
LEMMA CollectKeeps ==
    ASSUME DebtTyped, \A e \in Employees : InstalmentsAreSmall(e),
           NEW staff \in SUBSET Employees, NEW m \in Months, Collect(staff, m)
    PROVE  /\ advance' \in [Employees -> AdvanceType]
           /\ Dues(staff, m) \in [Employees -> 0..Borrowed]
           /\ \A e \in Employees :
                /\ InstalmentsAreSmall(e)'
                /\ advance'[e].repaid = advance[e].repaid + Dues(staff, m)[e]
                /\ Dues(staff, m)[e] <= DebtLeft(e)
                /\ e \notin staff => Dues(staff, m)[e] = 0
<1> USE LeavingAssumption
<1> SUFFICES ASSUME NEW e \in Employees
             PROVE  /\ advance'[e] \in AdvanceType /\ InstalmentsAreSmall(e)'
                    /\ Dues(staff, m)[e] \in 0..Borrowed
                    /\ advance'[e].repaid = advance[e].repaid + Dues(staff, m)[e]
                    /\ Dues(staff, m)[e] <= DebtLeft(e)
                    /\ e \notin staff => Dues(staff, m)[e] = 0
  BY DEF Collect, Dues
<1>1. /\ advance[e] \in AdvanceType /\ advance[e].repaid \in 0..Borrowed
      /\ advance[e].inst \in [Months -> 0..Borrowed]
  BY DEF DebtTyped, AdvanceType
<1>2. /\ InstalmentDue(e, m) \in {0, 1}
      /\ InstalmentDue(e, m) <= DebtLeft(e) /\ DebtLeft(e) \in 0..Borrowed
      /\ RepayDebt(e, m) = IF InstalmentDue(e, m) = 0 THEN advance[e]
                           ELSE [repaid |-> advance[e].repaid + 1,
                                 inst |-> [advance[e].inst EXCEPT ![m] = 1]]
  BY InstalmentIsOne
<1>3. CASE advance'[e] = advance[e] /\ Dues(staff, m)[e] = 0
  <2>1. InstalmentsAreSmall(e)'
    BY <1>3 DEF InstalmentsAreSmall, Instalments
  <2> QED BY <1>1, <1>2, <1>3, <2>1
<1>4. CASE /\ e \in staff /\ Dues(staff, m)[e] = 1 /\ InstalmentDue(e, m) = 1
           /\ advance'[e] = [repaid |-> advance[e].repaid + 1,
                             inst |-> [advance[e].inst EXCEPT ![m] = 1]]
  <2>1. /\ advance'[e].repaid = advance[e].repaid + 1
        /\ advance'[e].inst = [advance[e].inst EXCEPT ![m] = 1]
    BY <1>4
  <2>2. advance[e].repaid + 1 \in 0..Borrowed
    BY <1>1, <1>2, <1>4 DEF DebtLeft
  <2>3. [advance[e].inst EXCEPT ![m] = 1] \in [Months -> 0..Borrowed]
    BY <1>1
  <2>4. advance'[e] \in AdvanceType
    BY <1>4, <2>2, <2>3 DEF AdvanceType
  <2>5. Instalments(e)' = Instalments(e) \cup {m}
    BY <1>1, <2>1 DEF Instalments
  <2>6. Cardinality(Instalments(e) \cup {m}) <= advance[e].repaid + 1
    <3>1. IsFiniteSet(Instalments(e)) /\ Cardinality(Instalments(e)) <= advance[e].repaid
      <4>1. Instalments(e) \in SUBSET Months
        BY DEF Instalments
      <4> QED BY <4>1, FS_Subset DEF InstalmentsAreSmall
    <3>2. Cardinality(Instalments(e)) \in Nat
      BY <3>1, FS_CardinalityType
    <3>3. Cardinality(Instalments(e) \cup {m})
            = IF m \in Instalments(e) THEN Cardinality(Instalments(e))
              ELSE Cardinality(Instalments(e)) + 1
      BY <3>1, FS_AddElement
    <3> QED BY <1>1, <3>1, <3>2, <3>3
  <2>7. \A n \in Months : advance'[e].inst[n] <= 1
    BY <1>1, <2>1 DEF InstalmentsAreSmall
  <2>8. InstalmentsAreSmall(e)'
    BY <2>1, <2>5, <2>6, <2>7 DEF InstalmentsAreSmall
  <2> QED BY <1>2, <1>4, <2>1, <2>4, <2>8
<1> QED BY <1>2, <1>3, <1>4 DEF Collect, Dues

\* The sums, and what they are when one payslip or settlement changes.
LEMMA DebtSums ==
    ASSUME DebtTyped, NEW e \in Employees
    PROVE  /\ \A m \in Months : OnPayslips(e)[m] \in 0..Borrowed /\ OnPayslips(e)[m] = deducted[m][e]
           /\ \A k \in Settlements : /\ InSettlements(e)[k] \in 0..Borrowed
                                     /\ InSettlements(e)[k] = settlement[k].debt[e]
           /\ SumFunctionOnSet(OnPayslips(e), Months) \in Nat
           /\ SumFunctionOnSet(InSettlements(e), Settlements) \in Nat
<1> USE LeavingAssumption
<1>1. \A m \in Months : OnPayslips(e)[m] \in 0..Borrowed /\ OnPayslips(e)[m] = deducted[m][e]
  BY DEF DebtTyped, OnPayslips
<1>2. \A k \in Settlements : /\ InSettlements(e)[k] \in 0..Borrowed
                             /\ InSettlements(e)[k] = settlement[k].debt[e]
  BY DEF DebtTyped, InSettlements, SettlementType
<1>3. \A m \in Months : OnPayslips(e)[m] \in Nat
  BY <1>1
<1>4. \A k \in Settlements : InSettlements(e)[k] \in Nat
  BY <1>2
<1> QED BY <1>1, <1>2, <1>3, <1>4, LeavingFinite, SumOfPart

LEMMA DebtInvInit == LeavingInit => DebtInv
<1> USE LeavingAssumption
<1> SUFFICES ASSUME LeavingInit PROVE DebtInv
  OBVIOUS
<1>1. DebtTyped
  BY DEF LeavingInit, DebtTyped, AdvanceType, SettlementType, NoDebt
<1> SUFFICES ASSUME NEW e \in Employees
             PROVE  InstalmentsAreSmall(e) /\ RegularIsOnRecord(e) /\ BothAreCovered(e)
  BY <1>1 DEF DebtInv
<1>2. advance[e].repaid = 0 /\ \A n \in Months : advance[e].inst[n] = 0
  BY DEF LeavingInit
<1>3. /\ \A m \in Months : OnPayslips(e)[m] = 0
      /\ \A k \in Settlements : InSettlements(e)[k] = 0
  BY DEF LeavingInit, NoDebt, OnPayslips, InSettlements
<1>4. /\ SumFunctionOnSet(OnPayslips(e), Months) = 0
      /\ SumFunctionOnSet(InSettlements(e), Settlements) = 0
  BY <1>3, LeavingFinite, SumZero
<1>5. Instalments(e) = {}
  BY <1>2 DEF Instalments
<1>6. Cardinality({}) = 0
  BY FS_EmptySet
<1> QED BY <1>2, <1>4, <1>5, <1>6 DEF InstalmentsAreSmall, RegularIsOnRecord, BothAreCovered

LEMMA ApprovedSums ==
    ASSUME DebtTyped, NEW e \in Employees
    PROVE  /\ Taken(e) \in Int
           /\ Taken(e) <= SumFunctionOnSet(OnPayslips(e), Months)
                          + SumFunctionOnSet(InSettlements(e), Settlements)
<1> DEFINE K == {k \in Settlements : settlement[k].status = "approved"}
           a == SumFunctionOnSet(OnPayslips(e), Approved)
           b == SumFunctionOnSet(InSettlements(e), K)
<1>1. /\ \A m \in Months : OnPayslips(e)[m] \in Nat
      /\ \A k \in Settlements : InSettlements(e)[k] \in Nat
      /\ SumFunctionOnSet(OnPayslips(e), Months) \in Nat
      /\ SumFunctionOnSet(InSettlements(e), Settlements) \in Nat
  BY DebtSums, LeavingAssumption
<1>2. Approved \in SUBSET Months /\ K \in SUBSET Settlements
  BY DEF Approved
<1>3. a \in Nat /\ a <= SumFunctionOnSet(OnPayslips(e), Months)
  BY <1>1, <1>2, LeavingFinite, SumOfPart
<1>4. b \in Nat /\ b <= SumFunctionOnSet(InSettlements(e), Settlements)
  <2> HIDE DEF K
  <2> QED BY <1>1, <1>2, LeavingFinite, SumOfPart
<1>5. Taken(e) = a + b
  BY DEF Taken
<1> HIDE DEF a, b
<1> QED BY <1>1, <1>3, <1>4, <1>5

\* The debt is read by staff for a run of month m: what the payslips of the
\* regular runs take stays on record, for one more of these runs or for none.
LEMMA DebtReadByRun ==
    ASSUME DebtInv, NEW m \in Months, NEW staff \in SUBSET Employees, CalculateWithDebts(m, staff)
    PROVE  DebtInv'
<1> USE LeavingAssumption
<1>1. /\ DebtTyped /\ \A e \in Employees : InstalmentsAreSmall(e)
      /\ Collect(staff, m) /\ settlement' = settlement
      /\ deducted' = [deducted EXCEPT ![m] = Dues(staff, m)]
      /\ crossed' = crossed \cup (staff \cap InSettlement({}))
  BY DEF DebtInv, CalculateWithDebts
<1>2. /\ advance' \in [Employees -> AdvanceType]
      /\ Dues(staff, m) \in [Employees -> 0..Borrowed]
      /\ \A e \in Employees :
           /\ InstalmentsAreSmall(e)'
           /\ advance'[e].repaid = advance[e].repaid + Dues(staff, m)[e]
           /\ Dues(staff, m)[e] <= DebtLeft(e)
           /\ e \notin staff => Dues(staff, m)[e] = 0
  BY <1>1, CollectKeeps
<1>3. DebtTyped'
  BY <1>1, <1>2 DEF DebtTyped
<1> SUFFICES ASSUME NEW e \in Employees
             PROVE  RegularIsOnRecord(e)' /\ BothAreCovered(e)'
  BY <1>2, <1>3 DEF DebtInv
<1> DEFINE old == SumFunctionOnSet(OnPayslips(e), Months)
           new == SumFunctionOnSet(OnPayslips(e)', Months)
           rest == SumFunctionOnSet(InSettlements(e), Settlements)
<1> DEFINE after == [k \in Months |-> IF k = m THEN Dues(staff, m)[e] ELSE deducted[k][e]]
<1>4. OnPayslips(e)' = after
  BY <1>1 DEF OnPayslips, DebtTyped
<1>5. /\ old \in Nat /\ new \in Int /\ rest \in Nat
      /\ new = old - deducted[m][e] + Dues(staff, m)[e]
      /\ deducted[m][e] \in Nat /\ Dues(staff, m)[e] \in Nat
  <2>1. /\ \A k \in Months : OnPayslips(e)[k] \in Int /\ after[k] \in Int
        /\ \A k \in Months : k # m => after[k] = OnPayslips(e)[k]
        /\ OnPayslips(e)[m] = deducted[m][e] /\ after[m] = Dues(staff, m)[e]
        /\ deducted[m][e] \in Nat /\ Dues(staff, m)[e] \in Nat
    BY <1>1, <1>2, DebtSums DEF DebtTyped
  <2>2. old \in Nat /\ rest \in Nat
    BY <1>1, DebtSums
  <2> HIDE DEF after
  <2>3. new = old - OnPayslips(e)[m] + after[m]
    <3>1. SumFunctionOnSet(after, Months)
            = SumFunctionOnSet(OnPayslips(e), Months) - OnPayslips(e)[m] + after[m]
      <4>1. \A k \in Months : OnPayslips(e)[k] \in Int /\ after[k] \in Int
        BY <2>1
      <4>2. \A k \in Months : k # m => after[k] = OnPayslips(e)[k]
        BY <2>1
      <4> HIDE DEF old, new, rest
      <4> QED BY <4>1, <4>2, LeavingFinite, SumChange
    <3> QED BY <3>1, <1>4
  <2> HIDE DEF old, new, rest
  <2> QED BY <2>1, <2>2, <2>3
<1>6. InSettlements(e)' = InSettlements(e)
  BY <1>1 DEF InSettlements
<1>7. advance[e].repaid \in 0..Borrowed /\ old <= advance[e].repaid
  BY <1>1 DEF DebtTyped, AdvanceType, DebtInv, RegularIsOnRecord
<1>8. new <= advance'[e].repaid
  <2> HIDE DEF old, new, rest
  <2> QED BY <1>2, <1>5, <1>7
<1>9. e \notin crossed' => new + rest <= Borrowed
  <2>1. CASE e \in staff /\ e \notin crossed'
    <3>1. \A k \in Settlements : settlement[k].debt[e] = 0
      BY <2>1, <1>1, DebtSums DEF InSettlement
    <3>2. rest = 0
      BY <3>1, <1>1, DebtSums, LeavingFinite, SumZero
    <3>3. advance'[e].repaid <= Borrowed
      BY <1>2, <1>7 DEF DebtLeft
    <3> HIDE DEF old, new, rest
    <3> QED BY <3>2, <3>3, <1>2, <1>5, <1>7, <1>8
  <2>2. CASE e \notin staff /\ e \notin crossed'
    <3>1. e \notin crossed => old + rest <= Borrowed
      BY DEF DebtInv, BothAreCovered
    <3> HIDE DEF old, new, rest
    <3> QED BY <2>2, <3>1, <1>1, <1>2, <1>5
  <2> QED BY <2>1, <2>2
<1> QED BY <1>6, <1>8, <1>9 DEF RegularIsOnRecord, BothAreCovered

\* A settlement run k is built, with debts that are due to nobody else: of each
\* employee either nothing, or at most what is left of his debt.
LEMMA DebtReadBySettlement ==
    ASSUME DebtInv, NEW k \in Settlements,
           NEW debts \in [Employees -> 0..Borrowed],
           settlement' \in [Settlements -> SettlementType],
           settlement'[k].debt = debts,
           \A j \in Settlements \ {k} : settlement'[j] = settlement[j],
           deducted' = deducted, advance' \in [Employees -> AdvanceType],
           crossed \subseteq crossed',
           \A e \in Employees :
              /\ InstalmentsAreSmall(e)' /\ advance[e].repaid <= advance'[e].repaid
              /\ debts[e] <= DebtLeft(e)
              /\ debts[e] # 0 /\ e \notin crossed' => e \notin InSettlement({k})
    PROVE  DebtInv'
<1> USE LeavingAssumption
<1>1. DebtTyped /\ DebtTyped'
  BY DEF DebtInv, DebtTyped
<1> SUFFICES ASSUME NEW e \in Employees
             PROVE  RegularIsOnRecord(e)' /\ BothAreCovered(e)'
  BY <1>1 DEF DebtInv
<1> DEFINE paid == SumFunctionOnSet(OnPayslips(e), Months)
           old == SumFunctionOnSet(InSettlements(e), Settlements)
           new == SumFunctionOnSet(InSettlements(e)', Settlements)
<1>2. OnPayslips(e)' = OnPayslips(e)
  BY DEF OnPayslips
<1>3. InSettlements(e)' = [j \in Settlements |-> IF j = k THEN debts[e] ELSE settlement[j].debt[e]]
  BY DEF InSettlements
<1>4. /\ paid \in Nat /\ old \in Nat
      /\ advance[e].repaid \in 0..Borrowed /\ advance'[e].repaid \in 0..Borrowed
      /\ paid <= advance[e].repaid /\ debts[e] \in Nat /\ debts[e] <= Borrowed - advance[e].repaid
  BY <1>1, DebtSums DEF DebtTyped, AdvanceType, DebtInv, RegularIsOnRecord, DebtLeft
<1>5. \A j \in Settlements : /\ InSettlements(e)[j] \in Nat /\ InSettlements(e)'[j] \in Nat
                             /\ j # k => InSettlements(e)'[j] = InSettlements(e)[j]
                             /\ InSettlements(e)[j] = settlement[j].debt[e]
  BY <1>1, <1>3, <1>4, DebtSums
<1>6. InSettlements(e)'[k] = debts[e]
  BY <1>3
<1>7. CASE debts[e] = 0 /\ e \notin crossed'
  <2>1. new = old - InSettlements(e)[k] + InSettlements(e)'[k]
    BY <1>5, LeavingFinite, SumChange
  <2>2. paid + old <= Borrowed
    BY <1>7 DEF DebtInv, BothAreCovered
  <2>3. paid + new <= Borrowed
    <3> HIDE DEF paid, old, new
    <3> QED BY <1>4, <1>5, <1>6, <1>7, <2>1, <2>2
  <2> QED BY <1>2, <1>4, <2>3 DEF RegularIsOnRecord, BothAreCovered
<1>8. CASE debts[e] # 0 /\ e \notin crossed'
  <2>1. \A j \in Settlements : j # k => InSettlements(e)'[j] = 0
    <3> SUFFICES ASSUME NEW j \in Settlements, j # k PROVE InSettlements(e)[j] = 0
      BY <1>5
    <3>1. ~(settlement[j].debt[e] > 0)
      BY <1>8 DEF InSettlement
    <3> QED BY <3>1, <1>5
  <2>2. new = debts[e]
    BY <2>1, <1>4, <1>6, LeavingFinite, SumOfOne
  <2>3. paid + new <= Borrowed
    <3> HIDE DEF paid, old, new
    <3> QED BY <1>4, <2>2
  <2> QED BY <1>2, <1>4, <2>3 DEF RegularIsOnRecord, BothAreCovered
<1>9. CASE e \in crossed'
  BY <1>2, <1>4, <1>9 DEF RegularIsOnRecord, BothAreCovered
<1> QED BY <1>7, <1>8, <1>9

\* Steps that read no debt.
LEMMA DebtUnread ==
    ASSUME DebtInv, advance' = advance, deducted' = deducted, crossed' = crossed,
           settlement' \in [Settlements -> SettlementType],
           \A k \in Settlements : settlement'[k].debt = settlement[k].debt
    PROVE  DebtInv'
<1>1. DebtTyped'
  BY DEF DebtInv, DebtTyped
<1> SUFFICES ASSUME NEW e \in Employees
             PROVE  InstalmentsAreSmall(e)' /\ RegularIsOnRecord(e)' /\ BothAreCovered(e)'
  BY <1>1 DEF DebtInv
<1>2. /\ Instalments(e)' = Instalments(e) /\ OnPayslips(e)' = OnPayslips(e)
      /\ InSettlements(e)' = InSettlements(e)
  BY DEF Instalments, OnPayslips, InSettlements
<1> QED BY <1>2 DEF DebtInv, InstalmentsAreSmall, RegularIsOnRecord, BothAreCovered

LEMMA DebtInvPreserved ==
    ASSUME DebtInv, [LeavingNext]_leavingState
    PROVE  DebtInv'
<1> USE LeavingAssumption
<1>1. DebtTyped /\ \A e \in Employees : InstalmentsAreSmall(e)
  BY DEF DebtInv
<1>2. ASSUME NEW e \in Employees, NEW m \in Months, CreateSettlement(e, m)
      PROVE  DebtInv'
  <2> DEFINE k == <<e, m>>
  <2>1. /\ k \in Settlements
        /\ settlement' = [settlement EXCEPT ![k] = [status |-> "calculated", debt |-> WholeDebt(e)]]
        /\ crossed' = crossed \cup ({e} \cap InSettlement({k}))
        /\ advance' = advance /\ deducted' = deducted
    BY <1>2 DEF CreateSettlement, Settlements
  <2>2. \A x \in Employees : advance[x].repaid \in 0..Borrowed /\ DebtLeft(x) \in 0..Borrowed
    BY <1>1 DEF DebtTyped, AdvanceType, DebtLeft
  <2>3. /\ WholeDebt(e) \in [Employees -> 0..Borrowed]
        /\ WholeDebt(e)[e] = DebtLeft(e)
        /\ \A x \in Employees \ {e} : WholeDebt(e)[x] = 0
    BY <2>2 DEF WholeDebt, NoDebt
  <2>4. [status |-> "calculated", debt |-> WholeDebt(e)] \in SettlementType
    BY <2>3 DEF SettlementType
  <2> HIDE DEF k
  <2>5. /\ settlement' \in [Settlements -> SettlementType]
        /\ settlement'[k].debt = WholeDebt(e)
        /\ \A j \in Settlements \ {k} : settlement'[j] = settlement[j]
    BY <1>1, <2>1, <2>4 DEF DebtTyped
  <2>6. /\ advance' \in [Employees -> AdvanceType]
        /\ \A x \in Employees : InstalmentsAreSmall(x)'
    BY <1>1, <2>1 DEF DebtTyped, InstalmentsAreSmall, Instalments
  <2>7. \A x \in Employees :
           /\ advance[x].repaid <= advance'[x].repaid
           /\ WholeDebt(e)[x] <= DebtLeft(x)
           /\ WholeDebt(e)[x] # 0 /\ x \notin crossed' => x \notin InSettlement({k})
    BY <2>1, <2>2, <2>3
  <2> QED BY <2>1, <2>3, <2>5, <2>6, <2>7, DebtReadBySettlement
<1>3. ASSUME NEW k \in Settlements, NEW staff \in SUBSET Employees, RecalculateSettlement(k, staff)
      PROVE  DebtInv'
  <2> DEFINE m == k[2]
  <2>1. m \in Months
    BY DEF Settlements
  <2>2. /\ Collect(staff, m) /\ deducted' = deducted
        /\ settlement' = [settlement EXCEPT ![k] =
             [status |-> IF staff = {} THEN "failed" ELSE "calculated", debt |-> Dues(staff, m)]]
        /\ crossed' = crossed \cup (staff \cap InSettlement({k}))
    BY <1>3 DEF RecalculateSettlement
  <2> HIDE DEF m
  <2>3. /\ advance' \in [Employees -> AdvanceType]
        /\ Dues(staff, m) \in [Employees -> 0..Borrowed]
        /\ \A e \in Employees :
             /\ InstalmentsAreSmall(e)'
             /\ advance'[e].repaid = advance[e].repaid + Dues(staff, m)[e]
             /\ Dues(staff, m)[e] <= DebtLeft(e)
             /\ e \notin staff => Dues(staff, m)[e] = 0
    BY <1>1, <2>1, <2>2, CollectKeeps
  <2>4. [status |-> IF staff = {} THEN "failed" ELSE "calculated", debt |-> Dues(staff, m)]
          \in SettlementType
    BY <2>3 DEF SettlementType
  <2>5. /\ settlement' \in [Settlements -> SettlementType]
        /\ settlement'[k].debt = Dues(staff, m)
        /\ \A j \in Settlements \ {k} : settlement'[j] = settlement[j]
    BY <1>1, <2>2, <2>4 DEF DebtTyped
  <2>6. \A e \in Employees : advance[e].repaid \in Nat /\ Dues(staff, m)[e] \in Nat
    BY <1>1, <2>3 DEF DebtTyped, AdvanceType
  <2>7. \A e \in Employees :
           /\ advance[e].repaid <= advance'[e].repaid
           /\ Dues(staff, m)[e] # 0 /\ e \notin crossed' => e \notin InSettlement({k})
    BY <2>2, <2>3, <2>6
  <2> QED BY <2>2, <2>3, <2>5, <2>7, DebtReadBySettlement
<1>4. ASSUME NEW k \in Settlements,
             SubmitSettlement(k) \/ RejectSettlement(k) \/ ApproveSettlement(k)
      PROVE  DebtInv'
  <2>1. PICK status \in {"submitted", "calculated", "approved"} :
           settlement' = [settlement EXCEPT ![k].status = status]
    BY <1>4 DEF SubmitSettlement, RejectSettlement, ApproveSettlement
  <2>2. [settlement[k] EXCEPT !.status = status] \in SettlementType
        /\ [settlement[k] EXCEPT !.status = status].debt = settlement[k].debt
    BY <1>1 DEF DebtTyped, SettlementType
  <2>3. /\ settlement' \in [Settlements -> SettlementType]
        /\ \A j \in Settlements : settlement'[j].debt = settlement[j].debt
    BY <1>1, <2>1, <2>2 DEF DebtTyped
  <2> QED BY <1>4, <2>3, DebtUnread DEF SubmitSettlement, RejectSettlement, ApproveSettlement
<1>5. CASE UNCHANGED payVars
  BY <1>1, <1>5, DebtUnread DEF payVars, DebtTyped
<1>6. CASE UNCHANGED leavingState
  BY <1>5, <1>6 DEF leavingState, payVars
<1>7. CASE \/ \E e \in Employees, m \in Months, s \in Employees \cup {Nobody} : RegisterDismissal(e, m, s)
           \/ \E e \in Employees, s \in Employees \cup {Nobody} : AskToLeave(e, s)
           \/ \E e \in Employees : \/ ApproveDismissal(e) \/ RejectDismissal(e)
                                   \/ GrantLeaving(e) \/ RefuseLeaving(e)
           \/ \E m \in Months : ApproveRegular(m)
           \/ KeepPayslips
  BY <1>5, <1>7 DEF RegisterDismissal, AskToLeave, ApproveDismissal, RejectDismissal, GrantLeaving,
     RefuseLeaving, ApproveRegular, KeepPayslips
<1> QED BY <1>2, <1>3, <1>4, <1>6, <1>7, DebtReadByRun DEF LeavingNext

\* Approved runs are some of the runs, so that they take no more than all do.
LEMMA DebtInvImplies == DebtInv => DebtTakenOnce
<1> USE LeavingAssumption
<1> SUFFICES ASSUME DebtInv, NEW e \in Employees, e \notin crossed
             PROVE  ~(Taken(e) > Borrowed)
  BY DEF DebtTakenOnce
<1>1. SumFunctionOnSet(OnPayslips(e), Months)
      + SumFunctionOnSet(InSettlements(e), Settlements) <= Borrowed
  BY DEF DebtInv, BothAreCovered
<1>2. /\ SumFunctionOnSet(OnPayslips(e), Months) \in Nat
      /\ SumFunctionOnSet(InSettlements(e), Settlements) \in Nat
  BY DebtSums DEF DebtInv
<1>3. /\ Taken(e) \in Int
      /\ Taken(e) <= SumFunctionOnSet(OnPayslips(e), Months)
                     + SumFunctionOnSet(InSettlements(e), Settlements)
  BY ApprovedSums DEF DebtInv
<1> QED BY <1>1, <1>2, <1>3

\* compute_settlement, record_deduction, approve_run: nobody repays more than
\* he borrowed, whatever runs are calculated, settled and approved in whatever
\* order, unless a settlement and another run have read his debt.
THEOREM DebtsAreTakenOnce == LeavingSpec => []DebtTakenOnce
BY DebtInvInit, DebtInvPreserved, DebtInvImplies, PTL DEF LeavingSpec
=============================================================================
