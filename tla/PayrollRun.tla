----------------------------- MODULE PayrollRun -----------------------------
(***************************************************************************)
(* The monthly payroll runs of one company: created, calculated, submitted  *)
(* to the chain of roles that sign them, approved.  Who gets a payslip is   *)
(* decided at each calculation; the chain and the exclusions are edited     *)
(* meanwhile.  Every action is one handler, run to its end.  PayrollTerms   *)
(* and PayrollDeductions say what a calculation puts into the payslips.     *)
(***************************************************************************)
EXTENDS Integers, FiniteSets

CONSTANTS
    Months,         \* the periods; the regular run of each
    Employees,      \* employees the calendar makes eligible
    Steps,          \* PayrollApprovalStep.step_order
    InitChain       \* steps the company starts with

VARIABLES
    run,        \* PayrollRun.status, "none" before the run is created
    chain,      \* the company's active steps
    approval,   \* PayrollApproval rows: month -> step -> decision
    slips,      \* employees with a payslip in the run
    excluded,   \* PayrollExclusion rows in force: <<employee, month or Ever>>
    signed      \* history: the steps signed since the last calculation

runVars == <<run, chain, approval, slips, excluded, signed>>

ASSUME RunAssumption ==
    /\ Months \subseteq Nat \ {0}
    /\ Steps \subseteq Nat
    /\ InitChain \subseteq Steps

\* Exclusion scope "until_revoked" belongs to no run.
Ever == 0
Scopes == Months \cup {Ever}
\* Of an item that no run has settled or taken up.
NoRun == 0
\* "calculating" is never committed; no code sets "paid" or "cancelled".
RunStatuses == {"none", "draft", "calculated", "failed", "submitted", "approved"}
Decisions == {"none", "pending", "approved", "rejected"}

RunTypeOK ==
    /\ run \in [Months -> RunStatuses]
    /\ chain \subseteq Steps
    /\ approval \in [Months -> [Steps -> Decisions]]
    /\ slips \in [Months -> SUBSET Employees]
    /\ excluded \subseteq Employees \X Scopes
    /\ signed \in [Months -> SUBSET Steps]

RunInit ==
    /\ run = [m \in Months |-> "none"]
    /\ chain = InitChain
    /\ approval = [m \in Months |-> [s \in Steps |-> "none"]]
    /\ slips = [m \in Months |-> {}]
    /\ excluded = {}
    /\ signed = [m \in Months |-> {}]

-----------------------------------------------------------------------------
Locked(m) == run[m] = "approved"
Approved == {m \in Months : Locked(m)}
Waiting(m) == {s \in Steps : approval[m][s] = "pending"}
CurrentStep(m) == CHOOSE s \in Waiting(m) : \A i \in Waiting(m) : s <= i

\* _eligible_employments: exclusions of this run and those without an end.
EligibleUnder(exclusions, m) ==
    {e \in Employees : <<e, m>> \notin exclusions /\ <<e, Ever>> \notin exclusions}
Eligible(m) == EligibleUnder(excluded, m)

CreateRun(m) ==
    /\ run[m] = "none"
    /\ run' = [run EXCEPT ![m] = "draft"]
    /\ UNCHANGED <<chain, approval, slips, excluded, signed>>

\* Fault: the locked run is taken back to the drawing board too.
RecalculateAny(m, staff) ==
    /\ run[m] # "none"
    /\ slips' = [slips EXCEPT ![m] = staff]
    /\ run' = [run EXCEPT ![m] = IF staff = {} THEN "failed" ELSE "calculated"]
    /\ signed' = [signed EXCEPT ![m] = {}]

\* calculate_run: the payslips are built anew for staff, those eligible
\* employees whose slip did not fail.  The rows of the chain stay.
Recalculate(m, staff) ==
    /\ run[m] # "none" /\ ~Locked(m)
    /\ slips' = [slips EXCEPT ![m] = staff]
    /\ run' = [run EXCEPT ![m] = IF staff = {} THEN "failed" ELSE "calculated"]
    /\ signed' = [signed EXCEPT ![m] = {}]

\* run_calculate: also of a submitted run.
Calculate(m, staff) ==
    /\ staff \subseteq Eligible(m)
    /\ Recalculate(m, staff)
    /\ UNCHANGED <<chain, approval, excluded>>

\* Fault: rows that exist are kept.
SubmitKeepingRows(m) ==
    /\ run[m] = "calculated" /\ slips[m] # {}
    /\ run' = [run EXCEPT ![m] = "submitted"]
    /\ approval' = [approval EXCEPT ![m] =
                      [s \in Steps |-> IF s \in chain /\ @[s] = "none" THEN "pending" ELSE @[s]]]
    /\ UNCHANGED <<chain, slips, excluded, signed>>

\* submit_run, which rebuilds the rows from the chain of today.
Submit(m) ==
    /\ run[m] = "calculated" /\ slips[m] # {}
    /\ run' = [run EXCEPT ![m] = "submitted"]
    /\ approval' = [approval EXCEPT ![m] =
                      [s \in Steps |-> IF s \in chain THEN "pending" ELSE "none"]]
    /\ UNCHANGED <<chain, slips, excluded, signed>>

\* decide: the least waiting step, whatever the status of the run is by now.
SignStep(m) ==
    /\ Waiting(m) # {}
    /\ approval' = [approval EXCEPT ![m][CurrentStep(m)] = "approved"]
    /\ signed' = [signed EXCEPT ![m] = @ \cup {CurrentStep(m)}]
    /\ UNCHANGED <<run, chain, slips, excluded>>

\* Fault: the run takes the word of the row.
RejectIntoStatus(m) ==
    /\ Waiting(m) # {}
    /\ approval' = [approval EXCEPT ![m][CurrentStep(m)] = "rejected"]
    /\ run' = [run EXCEPT ![m] = "rejected"]
    /\ UNCHANGED <<chain, slips, excluded, signed>>

\* A rejection gives the run back, even one that has failed since.
RejectStep(m) ==
    /\ Waiting(m) # {}
    /\ approval' = [approval EXCEPT ![m][CurrentStep(m)] = "rejected"]
    /\ run' = [run EXCEPT ![m] = "calculated"]
    /\ UNCHANGED <<chain, slips, excluded, signed>>

Approve(m) ==
    /\ run[m] = "submitted"
    /\ Waiting(m) = {}
    /\ run' = [run EXCEPT ![m] = "approved"]
    /\ UNCHANGED <<chain, approval, slips, excluded, signed>>

-----------------------------------------------------------------------------
(* Edits of the chain, which no existing run notices, and exclusions       *)

AddStep(s) ==
    /\ s \notin chain
    /\ chain' = chain \cup {s}
    /\ UNCHANGED <<run, approval, slips, excluded, signed>>

DropStep(s) ==
    /\ s \in chain
    /\ chain' = chain \ {s}
    /\ UNCHANGED <<run, approval, slips, excluded, signed>>

\* _guard: not while the run is with those who sign it.
Editable(m) == run[m] \in {"draft", "calculated", "failed"}

Exclude(m, e, scope, staff) ==
    /\ Editable(m)
    /\ scope \in {m, Ever}
    /\ e \in Eligible(m)
    /\ excluded' = excluded \cup {<<e, scope>>}
    /\ staff \subseteq EligibleUnder(excluded', m)
    /\ Recalculate(m, staff)
    /\ UNCHANGED <<chain, approval>>

\* Any run that may be edited will do, not only the one excluded from.
Readmit(m, x, staff) ==
    /\ Editable(m)
    /\ x \in excluded
    /\ excluded' = excluded \ {x}
    /\ staff \subseteq EligibleUnder(excluded', m)
    /\ Recalculate(m, staff)
    /\ UNCHANGED <<chain, approval>>

-----------------------------------------------------------------------------
\* The steps that build payslips, which other modules extend with what these
\* contain, and those that do not.
Rebuild(m, staff) ==
    \/ Calculate(m, staff)
    \/ \E e \in Employees, scope \in Scopes : Exclude(m, e, scope, staff)
    \/ \E x \in Employees \X Scopes : Readmit(m, x, staff)

KeepSlips ==
    \/ \E m \in Months : CreateRun(m) \/ Submit(m) \/ SignStep(m) \/ RejectStep(m)
    \/ \E s \in Steps : AddStep(s) \/ DropStep(s)

RunNext ==
    \/ \E m \in Months, staff \in SUBSET Employees : Rebuild(m, staff)
    \/ \E m \in Months : Approve(m)
    \/ KeepSlips

RunSpec == RunInit /\ [][RunNext]_runVars

-----------------------------------------------------------------------------
(* Properties *)

\* Whatever is recalculated, rejected, excluded or edited on the way, an
\* approved run pays the payslips that every step of its chain has signed:
\* each of its rows is approved, and was since the payslips were last built.
ApprovedAsSigned ==
    \A m \in Months : Locked(m) =>
        /\ slips[m] # {}
        /\ \A s \in Steps : approval[m][s] # "none" =>
              approval[m][s] = "approved" /\ s \in signed[m]

\* An approved run is a final record: neither it, nor its payslips, nor the
\* signatures under it ever change again.
ApprovedIsFinal ==
    [][\A m \in Months : Locked(m) =>
          /\ run'[m] = "approved"
          /\ slips'[m] = slips[m]
          /\ approval'[m] = approval[m]]_runVars
=============================================================================
