---------------------------- MODULE PayrollTerms ----------------------------
(***************************************************************************)
(* The items of a payslip that outlive the run that pays them: adjustments  *)
(* of closed months, recurring items, instalments of advances, reviewed     *)
(* work activities, and the deferral of any of these lines to a later       *)
(* month.  A calculation of PayrollRun reads them all; some it changes, the *)
(* others change when the run is approved.  Every item has one employee and *)
(* a component code of its own.  Lines other than instalments have amount 1.*)
(***************************************************************************)
EXTENDS PayrollRun, Functions

CONSTANTS
    Retros, Recurring, Loans, Activities,   \* the items
    PayeeOf,        \* the employee of an item
    PeriodOf,       \* the month of an adjustment or an activity
    MaxTimes,       \* RecurringAdjustment.max_occurrences
    Amount,         \* Advance.amount
    Planned,        \* Advance.installment_amount
    Installments    \* Advance.installments_count at first

VARIABLES
    line,       \* amounts of the items' own lines in the payslips of a run
    carried,    \* deferrals that the payslips of a run take up
    counted,    \* recurring items in the traces of a run's payslips
    retro,      \* RetroAdjustment: status and the run it is selected for
    recurring,  \* RecurringAdjustment: applied_count and is_active
    loan,       \* Advance and its installments
    activity,   \* WorkActivity, up to is_paid
    deferral,   \* PayslipDeferral: <<item, from, to>> -> status and amount
    since,      \* history: items changed after an open run was calculated
    late        \* history: runs calculated after the approval of a later one

termVars == <<line, carried, counted, retro, recurring, loan, activity, deferral, since, late>>
termState == <<run, chain, approval, slips, excluded, signed,
               line, carried, counted, retro, recurring, loan, activity, deferral, since, late>>

Items == Retros \cup Recurring \cup Loans \cup Activities
Deferrals == {d \in Items \X Months \X Months : d[2] < d[3]}

ASSUME TermsAssumption ==
    /\ IsFiniteSet(Months)
    /\ Loans \cap (Retros \cup Recurring \cup Activities) = {}
    /\ Retros \cap (Recurring \cup Activities) = {}
    /\ PayeeOf \in [Items -> Employees]
    /\ PeriodOf \in [Retros \cup Activities -> Months]
    /\ MaxTimes \in Nat \ {0}
    /\ Amount \in Nat \ {0} /\ Planned \in 1..Amount /\ Installments \in Nat \ {0}

\* No code calls revive_deferred: a deferred adjustment stays so.
RetroStatuses == {"none", "pending", "selected", "deferred", "cancelled", "merged"}
ActivityStates == {"assigned", "reviewed", "paid"}
LoanType == [status : {"pending", "active", "settled"}, auto : BOOLEAN,
             repaid : 0..Amount, count : Nat, inst : [Months -> 0..Amount]]

TermsTypeOK ==
    /\ RunTypeOK
    /\ line \in [Months -> [Items -> 0..Amount]]
    /\ carried \in [Months -> SUBSET Deferrals]
    /\ counted \in [Months -> SUBSET Recurring]
    /\ retro \in [Retros -> [status : RetroStatuses, into : Months \cup {NoRun}]]
    /\ recurring \in [Recurring -> [times : Nat, live : BOOLEAN]]
    /\ loan \in [Loans -> LoanType]
    /\ activity \in [Activities -> ActivityStates]
    /\ deferral \in [Deferrals -> [status : {"none", "pending", "applied", "cancelled"},
                                   amount : 0..Amount]]
    /\ since \in [Months -> SUBSET Items]
    /\ late \subseteq Months

TermsInit ==
    /\ RunInit
    /\ line = [m \in Months |-> [x \in Items |-> 0]]
    /\ carried = [m \in Months |-> {}]
    /\ counted = [m \in Months |-> {}]
    /\ retro = [x \in Retros |-> [status |-> "none", into |-> NoRun]]
    /\ recurring = [x \in Recurring |-> [times |-> 0, live |-> FALSE]]
    /\ loan = [x \in Loans |-> [status |-> "pending", auto |-> TRUE, repaid |-> 0,
                                count |-> Installments, inst |-> [m \in Months |-> 0]]]
    /\ activity = [x \in Activities |-> "assigned"]
    /\ deferral = [d \in Deferrals |-> [status |-> "none", amount |-> 0]]
    /\ since = [m \in Months |-> {}]
    /\ late = {}

\* What the payslips of the runs still open have read of these items is out
\* of date.
Open(m) == slips[m] # {} /\ ~Locked(m)
OutdateItems(X) == since' = [m \in Months |-> IF Open(m) THEN since[m] \cup X ELSE since[m]]

-----------------------------------------------------------------------------
(* What a calculation reads: calculate_slip *)

Outstanding(x) == Amount - loan[x].repaid
PaidCount(x) == Cardinality({m \in Months : loan[x].inst[m] > 0})

\* Fault: the schedule goes on past its last instalment.
DueAlwaysPlanned(x, m) ==
    IF loan[x].status # "active" \/ ~loan[x].auto THEN 0
    ELSE IF loan[x].inst[m] > 0 THEN loan[x].inst[m]
    ELSE Planned

\* due_installment of the deductible_advances: a month that has an instalment
\* asks for the same again; the last one takes all that is left.
Due(x, m) ==
    IF loan[x].status # "active" \/ ~loan[x].auto THEN 0
    ELSE IF loan[x].inst[m] > 0 THEN loan[x].inst[m]
    ELSE IF PaidCount(x) >= loan[x].count - 1 \/ Outstanding(x) <= Planned
         THEN Outstanding(x)
    ELSE Planned

\* applies_to
Applies(x) == recurring[x].live /\ recurring[x].times < MaxTimes

\* Fault: whatever was chosen once.
ToMergeAgain(m) == {x \in Retros : retro[x].status \in {"selected", "merged"} /\ PeriodOf[x] # m}

\* _pending_retro: what is merged already is not read again.
ToMerge(m) == {x \in Retros : retro[x].status = "selected" /\ retro[x].into = m /\ PeriodOf[x] # m}

OwnLine(x, m) ==
    IF x \in Loans THEN Due(x, m)
    ELSE IF \/ x \in Recurring /\ Applies(x)
            \/ x \in ToMerge(m)
            \/ x \in Activities /\ activity[x] = "reviewed" /\ PeriodOf[x] = m
         THEN 1 ELSE 0

\* Fault: only what has been paid in the other month leaves this one.
DeferredOnceApplied(m) == {x \in Items : \E n \in Months :
                              m < n /\ deferral[<<x, m, n>>].status = "applied"}

DeferredFrom(m) == {x \in Items : \E n \in Months :
                       m < n /\ deferral[<<x, m, n>>].status = "pending"}

\* record_deduction, which adds up whatever is calculated, again and again.
Repay(x, m) ==
    LET got == IF Due(x, m) > Outstanding(x) THEN Outstanding(x) ELSE Due(x, m) IN
    [loan[x] EXCEPT !.inst[m] = got, !.repaid = @ + got,
                    !.status = IF Outstanding(x) = got THEN "settled" ELSE @]

\* calculate_slip of each of the staff.  Instalments are recorded and counters
\* read whether or not the line has been deferred.
ChargeItems(m, staff) ==
    LET mine == {x \in Items : PayeeOf[x] \in staff}
        due == {x \in mine \cap Loans : Due(x, m) > 0}
    IN
    /\ line' = [line EXCEPT ![m] = [x \in Items |->
                  IF x \in mine \ DeferredFrom(m) THEN OwnLine(x, m) ELSE 0]]
    /\ carried' = [carried EXCEPT ![m] = {d \in Deferrals :
                     d[1] \in mine /\ d[3] = m /\ deferral[d].status = "pending"}]
    /\ counted' = [counted EXCEPT ![m] = {x \in mine \cap Recurring : Applies(x)}]
    /\ retro' = [x \in Retros |-> IF x \in mine \cap ToMerge(m)
                                  THEN [retro[x] EXCEPT !.status = "merged"] ELSE retro[x]]
    /\ loan' = [x \in Loans |-> IF x \in due THEN Repay(x, m) ELSE loan[x]]
    /\ since' = [k \in Months |-> IF k = m THEN {}
                                  ELSE IF Open(k) THEN since[k] \cup due ELSE since[k]]
    /\ late' = (late \ {m}) \cup {k \in {m} : \E n \in Months : k < n /\ Locked(n)}
    /\ UNCHANGED <<recurring, activity, deferral>>

CalculateWithItems(m, staff) == Rebuild(m, staff) /\ ChargeItems(m, staff)

-----------------------------------------------------------------------------
(* What an approval changes: approve_run *)

\* Fault: every recurring item that is active counts, paid or not.
CountedIfLive(m) == {x \in Recurring : recurring[x].live}

\* What the payslips have applied, from their traces.
CountedIn(m) == counted[m]

\* Fault: activities of any month are marked as paid.
ActivitiesOfCompany(m) == {x \in Activities : activity[x] = "reviewed"}

\* By the range of the run and not by what its payslips hold.
ActivitiesOf(m) == {x \in Activities : activity[x] = "reviewed" /\ PeriodOf[x] = m}

\* An advance whose instalment was deferred from this month gets one more.
Extended(m) == Loans \cap DeferredFrom(m)

Consume(m) ==
    LET times(x) == recurring[x].times + IF x \in CountedIn(m) THEN 1 ELSE 0 IN
    /\ recurring' = [x \in Recurring |->
         [times |-> times(x),
          live |-> recurring[x].live /\ ~(x \in CountedIn(m) /\ times(x) >= MaxTimes)]]
    /\ activity' = [x \in Activities |-> IF x \in ActivitiesOf(m) THEN "paid" ELSE activity[x]]
    /\ deferral' = [d \in Deferrals |->
         IF d \in carried[m] THEN [deferral[d] EXCEPT !.status = "applied"] ELSE deferral[d]]
    /\ loan' = [x \in Loans |-> IF x \in Extended(m) THEN [loan[x] EXCEPT !.count = @ + 1] ELSE loan[x]]
    /\ since' = [k \in Months |-> IF Open(k) /\ k # m
         THEN since[k] \cup CountedIn(m) \cup ActivitiesOf(m) \cup Extended(m) \cup {d[1] : d \in carried[m]}
         ELSE since[k]]
    /\ UNCHANGED <<line, carried, counted, retro, late>>

ApproveAndConsume(m) == Approve(m) /\ Consume(m)

-----------------------------------------------------------------------------
(* The items.  None of these handlers touches a payslip.  *)

Edit(x) == OutdateItems({x}) /\ UNCHANGED <<line, carried, counted, late>> /\ UNCHANGED runVars

\* record_adjustment: only of a month whose run is closed.
RecordRetro(x) ==
    /\ retro[x].status = "none" /\ Locked(PeriodOf[x])
    /\ retro' = [retro EXCEPT ![x].status = "pending"]
    /\ Edit(x) /\ UNCHANGED <<recurring, loan, activity, deferral>>

\* decide_adjustment "select"
SelectRetro(x, m) ==
    /\ retro[x].status = "pending" /\ run[m] \in {"draft", "calculated"}
    /\ retro' = [retro EXCEPT ![x] = [status |-> "selected", into |-> m]]
    /\ Edit(x) /\ UNCHANGED <<recurring, loan, activity, deferral>>

\* decide_adjustment "defer" or "cancel"
RefuseRetro(x, status) ==
    /\ retro[x].status = "pending"
    /\ retro' = [retro EXCEPT ![x].status = status]
    /\ Edit(x) /\ UNCHANGED <<recurring, loan, activity, deferral>>

\* _revoke_retro, with the leave; what is merged gets a counter-entry, which
\* is an item of its own.
RevokeRetro(x) ==
    /\ retro[x].status \in {"pending", "selected", "deferred"}
    /\ retro' = [retro EXCEPT ![x].status = "cancelled"]
    /\ Edit(x) /\ UNCHANGED <<recurring, loan, activity, deferral>>

\* Created or switched on, or stopped: recurring, recurring_detail.
SwitchRecurring(x) ==
    /\ recurring' = [recurring EXCEPT ![x].live = ~@]
    /\ Edit(x) /\ UNCHANGED <<retro, loan, activity, deferral>>

GrantLoan(x) ==
    /\ loan[x].status = "pending"
    /\ loan' = [loan EXCEPT ![x].status = "active"]
    /\ Edit(x) /\ UNCHANGED <<retro, recurring, activity, deferral>>

\* pause_deduction, and resume_deduction, which does not ask for the status.
SwitchDeduction(x) ==
    /\ loan[x].status = "active" \/ ~loan[x].auto
    /\ loan' = [loan EXCEPT ![x].auto = ~@]
    /\ Edit(x) /\ UNCHANGED <<retro, recurring, activity, deferral>>

ReviewActivity(x) ==
    /\ activity[x] = "assigned"
    /\ activity' = [activity EXCEPT ![x] = "reviewed"]
    /\ Edit(x) /\ UNCHANGED <<retro, recurring, loan, deferral>>

\* defer: the line of a payslip that is not final.  The payslip keeps the line
\* until the run is calculated again.
Defer(x, m, n) ==
    /\ m < n /\ ~Locked(m) /\ PayeeOf[x] \in slips[m]
    /\ line[m][x] > 0 \/ \E d \in carried[m] : d[1] = x
    /\ x \notin DeferredFrom(m)
    /\ LET amount == IF line[m][x] > 0 THEN line[m][x]
                     ELSE deferral[CHOOSE d \in carried[m] : d[1] = x].amount
       IN deferral' = [deferral EXCEPT ![<<x, m, n>>] = [status |-> "pending", amount |-> amount]]
    /\ Edit(x) /\ UNCHANGED <<retro, recurring, loan, activity>>

CancelDeferral(d) ==
    /\ deferral[d].status = "pending"
    /\ deferral' = [deferral EXCEPT ![d].status = "cancelled"]
    /\ Edit(d[1]) /\ UNCHANGED <<retro, recurring, loan, activity>>

-----------------------------------------------------------------------------
TermsNext ==
    \/ KeepSlips /\ UNCHANGED termVars
    \/ \E m \in Months, staff \in SUBSET Employees : CalculateWithItems(m, staff)
    \/ \E m \in Months : ApproveAndConsume(m)
    \/ \E m, n \in Months, x \in Items : Defer(x, m, n)
    \/ \E m \in Months, x \in Retros : SelectRetro(x, m)
    \/ \E x \in Retros :
         RecordRetro(x) \/ RefuseRetro(x, "deferred") \/ RefuseRetro(x, "cancelled") \/ RevokeRetro(x)
    \/ \E x \in Recurring : SwitchRecurring(x)
    \/ \E x \in Loans : GrantLoan(x) \/ SwitchDeduction(x)
    \/ \E x \in Activities : ReviewActivity(x)
    \/ \E d \in Deferrals : CancelDeferral(d)

TermsSpec == TermsInit /\ [][TermsNext]_termState

-----------------------------------------------------------------------------
(* Properties *)

\* What the payslips of each run pay for an item by its own line, and what a
\* deferral brings to the payslips that take it up.
OwnLines(x) == [m \in Months |-> line[m][x]]
AmountDeferred == [d \in Deferrals |-> deferral[d].amount]
TakenUp(x) == {d \in UNION {carried[m] : m \in Approved} : d[1] = x}

PaidOut(x) == SumFunctionOnSet(OwnLines(x), Approved) + SumFunctionOnSet(AmountDeferred, TakenUp(x))

\* A line deferred a second time: the payslips that took it up keep it.
DeferredAgain(x) == Cardinality({d \in Deferrals : d[1] = x /\ deferral[d].status # "none"}) > 1

\* Behind the payslips of an approved run the item has changed, or it was
\* deferred, and paid in the later month before this run was built again.
Overtaken(x) ==
    \E m \in Approved :
        \/ x \in since[m]
        \/ m \in late /\ \E n \in Months : m < n /\ deferral[<<x, m, n>>].status # "none"

\* An adjustment is paid by one run, unless its line was deferred twice,
\* or behind payslips that were not built again in time.
RetroPaidOnce == \A x \in Retros : PaidOut(x) > 1 => DeferredAgain(x) \/ Overtaken(x)

\* A recurring item has been counted once for each approved run that carries
\* it, and more often than agreed only if runs were calculated side by side.
CountMatchesPayslips ==
    \A x \in Recurring :
        LET paid == {m \in Approved : x \in counted[m]} IN
        /\ recurring[x].times = Cardinality(paid)
        /\ recurring[x].times > MaxTimes => \E m \in paid : x \in since[m]

\* Nobody pays back more than the advance says he has: what the approved
\* payslips take for an advance is on its account, with the same exceptions.
RepaidCoversDeducted ==
    \A x \in Loans : PaidOut(x) > loan[x].repaid => DeferredAgain(x) \/ Overtaken(x)

\* An activity marked as paid is in the payslips of its month, unless it was
\* reviewed after they were built, its employee had none there, or its line
\* was deferred from them (a deferral cancelled later loses it for good).
PaidActivityWasPaid ==
    \A x \in Activities : activity[x] = "paid" =>
        LET m == PeriodOf[x] IN
        \/ line[m][x] > 0
        \/ x \in since[m] \/ PayeeOf[x] \notin slips[m]
        \/ \E n \in Months : m < n /\ deferral[<<x, m, n>>].status # "none"

\* A deferred line is not in both months, unless it was deferred or cancelled
\* behind the payslips of one of them, or the month it leaves was calculated
\* again after the other was approved.
DeferredLineLeaves ==
    \A m, n \in Approved : \A d \in carried[n] :
        d[2] = m /\ line[m][d[1]] > 0 => d[1] \in since[m] \cup since[n] \/ m \in late

\* What the code says of it (record_deduction): the record of an advance agrees
\* with the payslips issued.  No deferral is involved here.
LedgerMatchesPayslips ==
    \A x \in Loans, m \in Approved :
        (\A d \in Deferrals : d[1] = x => deferral[d].status = "none")
            => loan[x].inst[m] = line[m][x]
=============================================================================
