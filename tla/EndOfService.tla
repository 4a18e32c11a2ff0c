---------------------------- MODULE EndOfService ----------------------------
(***************************************************************************)
(* How an employee leaves the company and what he is paid then: the         *)
(* dismissal that is registered and later approved, the request to end the  *)
(* contract, the successor who takes over an administrative position, the   *)
(* settlement run with the debt that is left, and the regular runs of       *)
(* PayrollRun beside it.  Everybody owes one advance that is repaid in      *)
(* instalments of 1.                                                        *)
(***************************************************************************)
EXTENDS PayrollRun, FiniteSetsExt, Functions

CONSTANTS
    Holders,            \* employees for whom holds_admin_position is true
    Nobody,
    Borrowed,           \* Advance.amount, which is also its instalments_count
    IncludeTerminated   \* PayrollSettings.terminated_pay_in_regular_run

VARIABLES
    end,        \* month of Employment.termination_date, Serving before
    change,     \* the JobChange of kind dismissal, pending or approved
    asked,      \* pending requests to end a contract and whom they name
    successor,  \* the deputy of the permanent Delegation
    advance,    \* Advance.repaid_amount and its AdvanceInstallment rows
    deducted,   \* the instalments in the payslips of a regular run
    settlement, \* the settlement run of an employee and a month
    crossed     \* history: debts read by two runs, one of them a settlement

leaveVars == <<end, change, asked, successor>>
payVars == <<advance, deducted, settlement, crossed>>
leavingState == <<run, chain, approval, slips, excluded, signed, end, change, asked, successor,
                  advance, deducted, settlement, crossed>>

ASSUME LeavingAssumption ==
    /\ IsFiniteSet(Months) /\ IsFiniteSet(Employees)
    /\ Holders \subseteq Employees
    /\ Nobody \notin Employees
    /\ Borrowed \in Nat \ {0}
    /\ IncludeTerminated \in BOOLEAN

Serving == 0
NotAsked == "not asked"
Settlements == Employees \X Months
\* A change that is rejected is not read again.
ChangeType == [status : {"none", "pending", "approved"},
               end : Months \cup {Serving}, successor : Employees \cup {Nobody}]
SettlementType == [status : {"none", "calculated", "failed", "submitted", "approved"},
                   debt : [Employees -> 0..Borrowed]]

LeavingTypeOK ==
    /\ RunTypeOK
    /\ end \in [Employees -> Months \cup {Serving}]
    /\ change \in [Employees -> ChangeType]
    /\ asked \in [Employees -> Employees \cup {Nobody, NotAsked}]
    /\ successor \in [Employees -> Employees \cup {Nobody}]
    /\ advance \in [Employees -> [repaid : 0..Borrowed, inst : [Months -> 0..Borrowed]]]
    /\ deducted \in [Months -> [Employees -> 0..Borrowed]]
    /\ settlement \in [Settlements -> SettlementType]
    /\ crossed \subseteq Employees

NoChange == [status |-> "none", end |-> Serving, successor |-> Nobody]
NoDebt == [e \in Employees |-> 0]

LeavingInit ==
    /\ RunInit
    /\ end = [e \in Employees |-> Serving]
    /\ change = [e \in Employees |-> NoChange]
    /\ asked = [e \in Employees |-> NotAsked]
    /\ successor = [e \in Employees |-> Nobody]
    /\ advance = [e \in Employees |-> [repaid |-> 0, inst |-> [m \in Months |-> 0]]]
    /\ deducted = [m \in Months |-> NoDebt]
    /\ settlement = [k \in Settlements |-> [status |-> "none", debt |-> NoDebt]]
    /\ crossed = {}

-----------------------------------------------------------------------------
(* Leaving: job_changes.py, the request to end a contract, appoint_successor *)

Active(e) == end[e] = Serving

\* Fault: a position may be given up without a word about who takes it.
MayLeaveFreely(e, s) == TRUE

\* Whoever holds an administrative position names somebody, unless one was
\* appointed before; that the one named still serves is not asked.
MayLeave(e, s) == e \in Holders => s # Nobody \/ successor[e] # Nobody

\* appoint_successor, whose refusal is noted and stops nothing.
Appointed(e, s, ended) ==
    IF successor[e] = Nobody /\ s \notin {Nobody, e} /\ ended[s] = Serving
    THEN [successor EXCEPT ![e] = s] ELSE successor

\* create_change
RegisterDismissal(e, m, s) ==
    /\ Active(e)
    /\ change[e].status # "pending"
    /\ s # e /\ MayLeave(e, s)
    /\ change' = [change EXCEPT ![e] = [status |-> "pending", end |-> m, successor |-> s]]
    /\ UNCHANGED <<end, asked, successor, payVars, runVars>>

\* decide_change and _apply: the service ends at once, from the given date.
ApproveDismissal(e) ==
    /\ change[e].status = "pending"
    /\ change' = [change EXCEPT ![e].status = "approved"]
    /\ end' = [end EXCEPT ![e] = change[e].end]
    /\ successor' = Appointed(e, change[e].successor, end')
    /\ UNCHANGED <<asked, payVars, runVars>>

RejectDismissal(e) ==
    /\ change[e].status = "pending"
    /\ change' = [change EXCEPT ![e] = NoChange]
    /\ UNCHANGED <<end, asked, successor, payVars, runVars>>

\* create_request of kind resignation, with the check of the screen, which
\* lets an employee name himself.  A second request would do what the first does.
AskToLeave(e, s) ==
    /\ Active(e)
    /\ asked[e] = NotAsked
    /\ MayLeave(e, s)
    /\ asked' = [asked EXCEPT ![e] = s]
    /\ UNCHANGED <<end, change, successor, payVars, runVars>>

\* The last approval: _effect_resignation appoints, and ends no service.
GrantLeaving(e) ==
    /\ asked[e] # NotAsked
    /\ successor' = Appointed(e, asked[e], end)
    /\ asked' = [asked EXCEPT ![e] = NotAsked]
    /\ UNCHANGED <<end, change, payVars, runVars>>

RefuseLeaving(e) ==
    /\ asked[e] # NotAsked
    /\ asked' = [asked EXCEPT ![e] = NotAsked]
    /\ UNCHANGED <<end, change, successor, payVars, runVars>>

-----------------------------------------------------------------------------
(* Pay *)

\* _eligible_employments of a regular run
Served(m) == {e \in Employees : Active(e) \/ (IncludeTerminated /\ end[e] = m)}
\* and of a settlement run: everybody who left in that month.
Left(m) == {e \in Employees : end[e] = m}

\* Fault: the advance as it was granted.
WholeAmount(e) == Borrowed

\* Advance.outstanding, which a settlement takes.
DebtLeft(e) == Borrowed - advance[e].repaid

\* due_installment: a month that has an instalment asks for it again, and the
\* last one takes what is left.
InstalmentDue(e, m) ==
    IF DebtLeft(e) = 0 THEN 0
    ELSE IF advance[e].inst[m] > 0 THEN advance[e].inst[m]
    ELSE IF Cardinality({n \in Months : advance[e].inst[n] > 0}) >= Borrowed - 1 THEN DebtLeft(e)
    ELSE 1

\* record_deduction
RepayDebt(e, m) ==
    LET got == Min({InstalmentDue(e, m), DebtLeft(e)}) IN
    IF got = 0 THEN advance[e]
    ELSE [repaid |-> advance[e].repaid + got, inst |-> [advance[e].inst EXCEPT ![m] = got]]

Collect(staff, m) ==
    advance' = [e \in Employees |-> IF e \in staff THEN RepayDebt(e, m) ELSE advance[e]]
Dues(staff, m) == [e \in Employees |-> IF e \in staff THEN InstalmentDue(e, m) ELSE 0]

Exists(k) == settlement[k].status # "none"
\* Employees whose debt is in a settlement run, those of K aside.
InSettlement(K) ==
    {e \in Employees : \E k \in Settlements \ K : settlement[k].debt[e] > 0}

\* calculate_run of the regular run, with the instalments of its payslips.
CalculateWithDebts(m, staff) ==
    /\ staff \subseteq Served(m)
    /\ Rebuild(m, staff)
    /\ deducted' = [deducted EXCEPT ![m] = Dues(staff, m)]
    /\ Collect(staff, m)
    /\ crossed' = crossed \cup (staff \cap InSettlement({}))
    /\ UNCHANGED <<leaveVars, settlement>>

\* compute_settlement takes all that is left, and records nothing of it.
WholeDebt(e) == [NoDebt EXCEPT ![e] = DebtLeft(e)]

\* create_settlement_run: the month is the one the screen sends.
CreateSettlement(e, m) ==
    /\ ~Active(e)
    /\ ~Exists(<<e, m>>)
    /\ settlement' = [settlement EXCEPT ![<<e, m>>] =
                        [status |-> "calculated", debt |-> WholeDebt(e)]]
    /\ crossed' = crossed \cup ({e} \cap InSettlement({<<e, m>>}))
    /\ UNCHANGED <<leaveVars, advance, deducted, runVars>>

\* run_calculate of a settlement run: a payslip of the regular kind for
\* everybody who left in its month, instead of the settlement.
RecalculateSettlement(k, staff) ==
    /\ settlement[k].status \in {"calculated", "failed", "submitted"}
    /\ staff \subseteq Left(k[2])
    /\ settlement' = [settlement EXCEPT ![k] =
                        [status |-> IF staff = {} THEN "failed" ELSE "calculated",
                         debt |-> Dues(staff, k[2])]]
    /\ Collect(staff, k[2])
    /\ crossed' = crossed \cup (staff \cap InSettlement({k}))
    /\ UNCHANGED <<leaveVars, deducted, runVars>>

SubmitSettlement(k) ==
    /\ settlement[k].status = "calculated"
    /\ settlement' = [settlement EXCEPT ![k].status = "submitted"]
    /\ UNCHANGED <<leaveVars, advance, deducted, crossed, runVars>>

RejectSettlement(k) ==
    /\ settlement[k].status = "submitted"
    /\ settlement' = [settlement EXCEPT ![k].status = "calculated"]
    /\ UNCHANGED <<leaveVars, advance, deducted, crossed, runVars>>

\* approve_run: the service of everyone in it has ended already, so that
\* _terminate_on_settlement finds nothing to do; the debt stays on record.
ApproveSettlement(k) ==
    /\ settlement[k].status = "submitted"
    /\ settlement' = [settlement EXCEPT ![k].status = "approved"]
    /\ UNCHANGED <<leaveVars, advance, deducted, crossed, runVars>>

ApproveRegular(m) ==
    /\ Approve(m)
    /\ UNCHANGED <<leaveVars, payVars>>

KeepPayslips ==
    /\ KeepSlips
    /\ UNCHANGED <<leaveVars, payVars>>

-----------------------------------------------------------------------------
LeavingNext ==
    \/ \E e \in Employees, m \in Months, s \in Employees \cup {Nobody} : RegisterDismissal(e, m, s)
    \/ \E e \in Employees, s \in Employees \cup {Nobody} : AskToLeave(e, s)
    \/ \E e \in Employees : \/ ApproveDismissal(e) \/ RejectDismissal(e)
                            \/ GrantLeaving(e) \/ RefuseLeaving(e)
    \/ \E m \in Months, staff \in SUBSET Employees : CalculateWithDebts(m, staff)
    \/ \E e \in Employees, m \in Months : CreateSettlement(e, m)
    \/ \E k \in Settlements, staff \in SUBSET Employees : RecalculateSettlement(k, staff)
    \/ \E k \in Settlements : SubmitSettlement(k) \/ RejectSettlement(k) \/ ApproveSettlement(k)
    \/ \E m \in Months : ApproveRegular(m)
    \/ KeepPayslips

LeavingSpec == LeavingInit /\ [][LeavingNext]_leavingState

-----------------------------------------------------------------------------
(* Properties *)

\* What the payslips of each run take from an employee.
OnPayslips(e) == [m \in Months |-> deducted[m][e]]
InSettlements(e) == [k \in Settlements |-> settlement[k].debt[e]]

\* And what those of all approved runs have taken.
Taken(e) ==
    SumFunctionOnSet(OnPayslips(e), Approved)
    + SumFunctionOnSet(InSettlements(e), {k \in Settlements : settlement[k].status = "approved"})

\* Nobody repays more than he borrowed, however instalments, settlements and
\* calculations mix, unless two runs have read the debt of which one is a
\* settlement, which leaves the debt as it was.
DebtTakenOnce == \A e \in Employees : Taken(e) > Borrowed => e \in crossed

\* delegation.py: an administrative position is not left without a successor,
\* unless the one who was named had left himself when it came to it.
PositionsAreFilled ==
    \A e \in Holders : ~Active(e) /\ successor[e] = Nobody =>
        change[e].successor # Nobody /\ ~Active(change[e].successor)
=============================================================================
