---------------------------- MODULE LeaveLedger ----------------------------
(***************************************************************************)
(* One employee's leave of one type in the current year: the requests and  *)
(* the LeaveBalance row they are charged to, with the other operations on   *)
(* that row.  Every action is one handler; who decides a request is        *)
(* ApprovalEngine's concern.  Days are whole numbers.                       *)
(***************************************************************************)
EXTENDS Integers, FiniteSets, Functions

CONSTANTS
    Requests,
    First, Last,    \* start_date and end_date of a request, as day numbers
    Days,           \* its charged days: those of the range that are not excluded
    Tracked,        \* the accrual method is daily, monthly or annual
    Amounts,        \* amounts of the adjustments, cash-outs and imports
    MaxDays         \* bound: each column and the entitlement earned

VARIABLES
    status, effect, \* as in RequestLifecycle; "applied" is payload["applied"]
    balance,        \* the LeaveBalance row
    earned,         \* what accrue would compute today
    cashed,         \* history: days paid out
    cut,            \* history: a policy change or an import took days away
    before          \* history: days earned that the imported balance includes

ledgerVars == <<balance, earned, cashed, cut, before>>
history == <<cashed, cut, before>>
vars == <<status, effect, balance, earned, cashed, cut, before>>

L == INSTANCE RequestLifecycle
        WITH Requests <- Requests, status <- status, effect <- effect

BalanceRow ==
    [opening : Int, accrued : Nat, consumed : Int, adjusted : Int]

ASSUME LedgerAssumption ==
    /\ IsFiniteSet(Requests)
    /\ First \in [Requests -> Int] /\ Last \in [Requests -> Int]
    /\ Days \in [Requests -> Nat \ {0}]
    /\ Tracked \in BOOLEAN
    /\ Amounts \subseteq Int
    /\ MaxDays \in Nat

TypeOK ==
    /\ status \in [Requests -> L!Statuses]
    /\ effect \in [Requests -> L!Effects]
    /\ balance \in BalanceRow
    /\ earned \in 0..MaxDays
    /\ cashed \in Nat
    /\ cut \in BOOLEAN
    /\ before \in 0..MaxDays

Init ==
    /\ status = [r \in Requests |-> "draft"]
    /\ effect = [r \in Requests |-> "none"]
    /\ balance = [opening |-> 0, accrued |-> 0, consumed |-> 0, adjusted |-> 0]
    /\ earned = 0
    /\ cashed = 0
    /\ cut = FALSE
    /\ before = 0

Available(b) == b.opening + b.accrued + b.adjusted - b.consumed

-----------------------------------------------------------------------------
(* The requests *)

\* Fault: only approved requests are looked at.
ClashesApproved(r) ==
    {q \in Requests : /\ status[q] = "approved"
                      /\ First[q] <= Last[r] /\ Last[q] >= First[r]}

\* _find_overlap
Clashes(r) ==
    {q \in Requests : /\ status[q] \in {"pending", "approved"}
                      /\ First[q] <= Last[r] /\ Last[q] >= First[r]}

\* The balance is not looked at.  Without a chain the request is approved on
\* the spot and its effect is not run.
CreateLeaveRequest(r) ==
    /\ status[r] = "draft"
    /\ Clashes(r) = {}
    /\ \E s \in {"pending", "approved"} : status' = [status EXCEPT ![r] = s]
    /\ UNCHANGED <<effect, ledgerVars>>

Settle(r, s) ==
    /\ status[r] = "pending"
    /\ status' = [status EXCEPT ![r] = s]
    /\ UNCHANGED <<effect, ledgerVars>>

Reject(r) == Settle(r, "rejected")
Cancel(r) == Settle(r, "cancelled")

\* What consume leaves of the row: the entitlement is brought up to date
\* before it is judged.
Accrued(b) == IF Tracked THEN [b EXCEPT !.accrued = earned] ELSE b
Consumed(b, days) == [Accrued(b) EXCEPT !.consumed = @ + days]

CanConsume(b, days) == Tracked => days <= Available(Accrued(b))

\* decide_request after the last approval: apply_approved_leave.
ApproveAndApply(r) ==
    /\ status[r] = "pending"
    /\ CanConsume(balance, Days[r])
    /\ status' = [status EXCEPT ![r] = "approved"]
    /\ effect' = [effect EXCEPT ![r] = "applied"]
    /\ balance' = Consumed(balance, Days[r])
    /\ UNCHANGED <<earned, history>>

\* It fails, for want of days or while it marks the attendance, and is
\* rolled back alone: the approval stands.
ApproveAndFail(r) ==
    /\ status[r] = "pending"
    /\ status' = [status EXCEPT ![r] = "approved"]
    /\ effect' = [effect EXCEPT ![r] = "failed"]
    /\ UNCHANGED ledgerVars

\* Faults: every approved request is refunded; a request in any state is
\* revoked.
RevokeWithRefund(r) ==
    /\ status[r] = "approved"
    /\ status' = [status EXCEPT ![r] = "cancelled"]
    /\ effect' = [effect EXCEPT ![r] = IF @ = "applied" THEN "reverted" ELSE @]
    /\ balance' = [balance EXCEPT !.consumed = @ - Days[r]]
    /\ UNCHANGED <<earned, history>>

RevokeAnyState(r) ==
    /\ status' = [status EXCEPT ![r] = "cancelled"]
    /\ effect' = [effect EXCEPT ![r] = IF @ = "applied" THEN "reverted" ELSE @]
    /\ balance' = [balance EXCEPT !.consumed = IF effect[r] = "applied" THEN @ - Days[r] ELSE @]
    /\ UNCHANGED <<earned, history>>

RevokeApprovedLeave(r) ==
    /\ status[r] = "approved"
    /\ status' = [status EXCEPT ![r] = "cancelled"]
    /\ effect' = [effect EXCEPT ![r] = IF @ = "applied" THEN "reverted" ELSE @]
    /\ balance' = [balance EXCEPT !.consumed = IF effect[r] = "applied" THEN @ - Days[r] ELSE @]
    /\ UNCHANGED <<earned, history>>

-----------------------------------------------------------------------------
(* The balance row *)

\* balance_summary and the accrual button; untracked types hold nothing.
Accrue ==
    /\ balance' = [balance EXCEPT !.accrued = IF Tracked THEN earned ELSE 0]
    /\ UNCHANGED <<status, effect, earned, history>>

AdjustBalance(d) ==
    /\ d # 0
    /\ Available(balance) + d >= 0
    /\ balance' = [balance EXCEPT !.adjusted = @ + d]
    /\ balance'.adjusted \in -MaxDays..MaxDays
    /\ UNCHANGED <<status, effect, earned, history>>

\* Fault: what was consumed is not deducted.
PayableGross(b) == Available([b EXCEPT !.consumed = 0])

\* available_days; carried_forward is 0 in the current year, nothing in the
\* program calls carry_forward.
Payable(b) == Available(b)

\* Fault: a number of days below zero is not refused.
CashOutAny(d) ==
    /\ d <= Payable(balance)
    /\ balance' = [balance EXCEPT !.consumed = @ + d]
    /\ cashed' = cashed + d
    /\ cashed' <= MaxDays
    /\ UNCHANGED <<status, effect, earned, cut, before>>

CashOut(d) ==
    /\ d > 0 /\ d <= Payable(balance)
    /\ balance' = [balance EXCEPT !.consumed = @ + d]
    /\ cashed' = cashed + d
    /\ cashed' <= MaxDays
    /\ UNCHANGED <<status, effect, earned, cut, before>>

\* execute overwrites the opening balance of the year with what was due on
\* a day up to today; last_accrual_date, which it sets, nobody reads.
ImportOpening(d) ==
    /\ balance' = [balance EXCEPT !.opening = d]
    /\ cut' = (cut \/ d < balance.opening)
    /\ before' \in 0..earned
    /\ UNCHANGED <<status, effect, earned, cashed>>

\* A day of service passes; a tier or the contract changes.
Earn ==
    /\ Tracked /\ earned < MaxDays
    /\ earned' = earned + 1
    /\ UNCHANGED <<status, effect, balance, history>>

LowerEntitlement ==
    /\ Tracked
    /\ \E e \in 0..earned : e < earned /\ earned' = e
    /\ cut' = TRUE
    /\ UNCHANGED <<status, effect, balance, cashed, before>>

-----------------------------------------------------------------------------
RequestNext ==
    \E r \in Requests :
       \/ CreateLeaveRequest(r) \/ Reject(r) \/ Cancel(r)
       \/ ApproveAndApply(r) \/ ApproveAndFail(r) \/ RevokeApprovedLeave(r)

BalanceNext ==
    \/ Accrue \/ Earn \/ LowerEntitlement
    \/ \E d \in Amounts : AdjustBalance(d) \/ CashOut(d) \/ ImportOpening(d)

Next == RequestNext \/ BalanceNext

Spec == Init /\ [][Next]_vars

-----------------------------------------------------------------------------
Applied == {r \in Requests : effect[r] = "applied"}

\* Every day the row holds as consumed is a day of a leave that is applied
\* now, or was paid out: approving, failing, revoking and cashing out in any
\* order charge each leave exactly once and refund it exactly once.
ConsumedIsExplained == balance.consumed = cashed + SumFunctionOnSet(Days, Applied)

\* _find_overlap: two leaves of an employee that are pending or approved
\* never share a day.
NoOverlap ==
    \A q, r \in Requests :
       /\ q # r
       /\ status[q] \in {"pending", "approved"} /\ status[r] \in {"pending", "approved"}
       => Last[q] < First[r] \/ Last[r] < First[q]

\* consume, adjust_balance and cash_out each look at a different moment's
\* entitlement; together they never overdraw the row: it is negative only
\* after somebody lowered what had been granted.
OverdraftExplained == Tracked /\ Available(balance) < 0 => cut

\* A leave is charged only while it is approved.
AppliedIsApproved ==
    \A r \in Requests : effect[r] = "applied" => status[r] = "approved"

\* import_balances: the entitlement is counted from the day of the imported
\* balance, so that no day is earned twice.
EarnedOnce == ~cut => balance.accrued + before <= earned

\* The leave handlers, too, move a request as the abstract lifecycle allows.
RefinesLifecycle == L!LifecycleSpec
=============================================================================
