------------------------------ MODULE Billing ------------------------------
(***************************************************************************)
(* The subscription of one account, its invoices, and the payments that     *)
(* the hosted form of the gateway makes for them.  A payment is confirmed   *)
(* by the page the customer returns to, which may be opened any number of   *)
(* times and twice at once; an administrator may mark an invoice as paid,   *)
(* activate a subscription or extend it; every night the state is           *)
(* evaluated from the dates.  Every request is a READ COMMITTED transaction *)
(* that reads without locks, and so is the nightly task for each account    *)
(* (account_scope): there it writes one row, once.                          *)
(***************************************************************************)
EXTENDS Integers, FiniteSets, FiniteSetsExt

CONSTANTS
    Workers,        \* requests under way
    Beat,           \* the worker of the nightly task
    Charges,        \* payments the customer may make at the gateway
    MaxInvoices,
    MaxRows,        \* Payment rows of a charge; a confirmation under way may pass it
    Horizon,        \* days are 1..Horizon; 0 stands for no date
    Period,         \* days of a billing cycle
    TrialEnd,       \* trial_ends_at
    GraceDays,      \* GRACE_DAYS
    Staff,          \* active employees of the account
    Headcounts,     \* those customers and administrators may enter
    Extensions,     \* days until which an administrator extends
    Operations      \* subset of {"confirm", "mark", "activate"}

ASSUME BillingAssumption ==
    /\ {MaxInvoices, MaxRows, Horizon, Period, Staff} \subseteq Nat \ {0}
    /\ Headcounts \subseteq 1..Staff /\ Extensions \subseteq 1..Horizon
    /\ TrialEnd \in 1..Horizon /\ GraceDays \in Nat
    /\ Operations \subseteq {"confirm", "mark", "activate"} /\ Beat \notin Workers

VARIABLES
    today,
    sub,        \* the AccountSubscription row
    invoice,    \* the Invoice rows, by id
    charge,     \* the payments as the gateway knows them
    rows,       \* how many Payment rows a charge has
    txn,        \* what each worker is doing
    raised,     \* history: how often an invoice raised the subscribed headcount
    raced       \* history: invoices that rivals found unpaid at once, see Rivals

vars == <<today, sub, invoice, charge, rows, txn, raised, raced>>

Invoices == 1..MaxInvoices
Days == 0..(Horizon + Period)

States == {"trial", "active", "grace", "read_only"}
SubType == [state : States, start : Days, end : Days, grace : Days, seats : Nat]
InvoiceStatuses == {"none", "draft", "issued", "paid"}
InvoiceType == [status : InvoiceStatuses, start : Days, end : Days,
                count : 0..Staff, overage : BOOLEAN]
Unpaid == {"draft", "issued"}

NoInvoice == [status |-> "none", start |-> 0, end |-> 0, count |-> 0, overage |-> FALSE]

\* row: the Payment row that the confirmation found, 0 for none; seen, seats: the status of the
\* invoice and the subscribed headcount as it read them.  Of the copy of the
\* subscription that is saved whole, the handlers keep the headcount alone.
Idle == [op |-> "none", phase |-> "idle", charge |-> 0, invoice |-> 0, row |-> 0,
         seen |-> "none", seats |-> 0]

TypeOK ==
    /\ today \in 1..Horizon
    /\ sub \in SubType /\ sub.start <= sub.end
    /\ invoice \in [Invoices -> InvoiceType]
    /\ charge \in [Charges -> [invoice : 0..MaxInvoices,
                               status : {"none", "open", "paid", "failed"}]]
    /\ rows \in [Charges -> Nat]
    /\ raised \in [Invoices -> Nat] /\ raced \subseteq Invoices

\* start_trial
Init ==
    /\ today = 1
    /\ sub = [state |-> "trial", start |-> 0, end |-> 0, grace |-> 0, seats |-> 0]
    /\ invoice = [i \in Invoices |-> NoInvoice]
    /\ charge = [g \in Charges |-> [invoice |-> 0, status |-> "none"]]
    /\ rows = [g \in Charges |-> 0]
    /\ txn = [w \in Workers \cup {Beat} |-> Idle]
    /\ raised = [i \in Invoices |-> 0]
    /\ raced = {}

-----------------------------------------------------------------------------
(* Locks: what a transaction has written and not yet committed              *)

HoldsSubscription(w) == txn[w].op = "activate" /\ txn[w].phase = "saved"
HoldsInvoice(w, i) ==
    txn[w].op \in {"confirm", "mark"} /\ txn[w].phase = "saved" /\ txn[w].invoice = i
HoldsPayment(w, g, r) ==
    r # 0 /\ txn[w].charge = g /\ txn[w].row = r /\ txn[w].phase # "begun"

SubscriptionFree(w) == \A u \in Workers \ {w} : ~HoldsSubscription(u)
InvoiceFree(w, i) == \A u \in Workers \ {w} : ~HoldsInvoice(u, i)
PaymentFree(w, g, r) == \A u \in Workers \ {w} : ~HoldsPayment(u, g, r)

End(w) == txn' = [txn EXCEPT ![w] = Idle]

-----------------------------------------------------------------------------
(* The customer                                                             *)

Used == {i \in Invoices : invoice[i].status # "none"}
NextId == Cardinality(Used) + 1

Create(i, status, start, end, count, overage) ==
    invoice' = [invoice EXCEPT ![i] = [status |-> status, start |-> start, end |-> end,
                                       count |-> count, overage |-> overage]]

\* In the trial the paid period begins where the trial ends, else today.
FirstDay == IF TrialEnd >= today THEN TrialEnd ELSE today

\* _pending_invoice: any unpaid one of that headcount; the period is compared
\* in the trial only.
Pending(n) ==
    {i \in Used : /\ invoice[i].status \in Unpaid /\ invoice[i].count = n
                  /\ TrialEnd >= today => invoice[i].start = TrialEnd}

\* The headcount is stored at once, the invoice stays a draft until it is paid.
Checkout(n) ==
    /\ \A w \in Workers : ~HoldsSubscription(w)
    /\ sub' = [sub EXCEPT !.seats = n]
    /\ IF Pending(n) # {} THEN UNCHANGED invoice
       ELSE /\ NextId \in Invoices
            /\ Create(NextId, "draft", FirstDay, FirstDay + Period - 1, n, FALSE)
    /\ UNCHANGED <<today, charge, rows, txn, raised, raced>>

\* pay_overage: the employees beyond the subscribed headcount, for the days
\* that remain of the period.
PayOverage ==
    /\ Staff > sub.seats /\ sub.end > today
    /\ NextId \in Invoices
    /\ Create(NextId, "issued", sub.start, sub.end, Staff - sub.seats, TRUE)
    /\ UNCHANGED <<today, sub, charge, rows, txn, raised, raced>>

\* The hosted form: the gateway takes the payment, no row is written here.
OpenCharge(g, i) ==
    /\ charge[g].status = "none"
    /\ invoice[i].status # "none"
    /\ charge' = [charge EXCEPT ![g] = [invoice |-> i, status |-> "open"]]
    /\ UNCHANGED <<today, sub, invoice, rows, txn, raised, raced>>

SettleCharge(g) ==
    /\ charge[g].status = "open"
    /\ \E result \in {"paid", "failed"} : charge' = [charge EXCEPT ![g].status = result]
    /\ UNCHANGED <<today, sub, invoice, rows, txn, raised, raced>>

-----------------------------------------------------------------------------
(* Confirmation                                                             *)

\* confirm_payment looks for a Payment row of the charge: it finds one of
\* those there are, or none.  The page needs no session, and without one, or
\* with that of another account, row-level security hides them all.
BeginConfirm(w, g, r) ==
    /\ txn[w] = Idle /\ charge[g].status # "none"
    /\ (r = 0 => rows[g] < MaxRows)
    /\ txn' = [txn EXCEPT ![w] = [Idle EXCEPT !.op = "confirm", !.phase = "begun",
                   !.charge = g, !.invoice = charge[g].invoice, !.row = r]]
    /\ UNCHANGED <<today, sub, invoice, charge, rows, raised, raced>>

\* Fault: the invoice is read before the row that was found is saved.
AskGatewayEarly(w) ==
    /\ txn[w].op = "confirm" /\ txn[w].phase = "begun"
    /\ txn' = [txn EXCEPT ![w].phase = IF charge[txn[w].charge].status = "paid"
                                       THEN "found" ELSE "answered",
                          ![w].seen = invoice[txn[w].invoice].status]
    /\ UNCHANGED <<today, sub, invoice, charge, rows, raised, raced>>

\* The gateway answers, and the invoice is read only then: inside the account
\* that the gateway names, or, where a row was found, after that row is saved
\* (_apply_response), and held.  Of an answer the result "paid" alone has an
\* effect, and it is final, so asking and reading are one step.
AskGateway(w) ==
    /\ txn[w].op = "confirm" /\ txn[w].phase = "begun"
    /\ PaymentFree(w, txn[w].charge, txn[w].row)
    /\ txn' = [txn EXCEPT ![w].phase = IF charge[txn[w].charge].status = "paid"
                                       THEN "found" ELSE "answered",
                          ![w].seen = invoice[txn[w].invoice].status]
    /\ UNCHANGED <<today, sub, invoice, charge, rows, raised, raced>>

\* Where no row was found, one more is created.
FilePayment(w) ==
    rows' = IF txn[w].op = "confirm" /\ txn[w].row = 0
            THEN [rows EXCEPT ![txn[w].charge] = @ + 1] ELSE rows

\* Not paid at the gateway, or an invoice that was paid already: only the
\* Payment row is left.
ConfirmWithoutEffect(w) ==
    /\ txn[w].op = "confirm"
    /\ \/ txn[w].phase = "answered"
       \/ txn[w].phase = "found" /\ txn[w].seen = "paid"
    /\ FilePayment(w)
    /\ End(w)
    /\ UNCHANGED <<today, sub, invoice, charge, raised, raced>>

\* admin_mark_invoice_paid
BeginMark(w, i) ==
    /\ txn[w] = Idle
    /\ invoice[i].status \in Unpaid
    /\ txn' = [txn EXCEPT ![w] = [Idle EXCEPT !.op = "mark", !.phase = "found", !.invoice = i,
                                              !.seen = invoice[i].status]]
    /\ UNCHANGED <<today, sub, invoice, charge, rows, raised, raced>>

\* mark_paid: the invoice is saved, then the subscription is read.
SaveInvoice(w) ==
    /\ txn[w].phase = "found" /\ txn[w].seen # "paid"
    /\ InvoiceFree(w, txn[w].invoice)
    /\ txn' = [txn EXCEPT ![w].phase = "saved", ![w].seats = sub.seats]
    /\ UNCHANGED <<today, sub, invoice, charge, rows, raised, raced>>

\* A confirmed overage raises the headcount; one marked by hand does not.
Raises(w) == txn[w].op = "confirm" /\ invoice[txn[w].invoice].overage

\* Confirmations that found the same Payment row; the second waits for it.
ShareRow(w, u) == txn[w].row # 0 /\ txn[w].row = txn[u].row /\ txn[w].charge = txn[u].charge

\* The other confirmations that have found this invoice unpaid by themselves.
Rivals(w) ==
    {u \in Workers \ {w} : /\ txn[u].op = "confirm" /\ txn[u].invoice = txn[w].invoice
                           /\ txn[u].seen \in Unpaid /\ ~ShareRow(w, u)}

\* The period becomes that of the invoice, whatever it was.
Renewed(i, seats) ==
    [state |-> "active", start |-> invoice[i].start, end |-> invoice[i].end,
     grace |-> 0, seats |-> seats]

\* The rest of mark_paid and _on_paid: the whole subscription row is saved
\* from the copy, with the dates of the invoice.
PayInvoice(w) ==
    /\ txn[w].op \in {"confirm", "mark"} /\ txn[w].phase = "saved"
    /\ SubscriptionFree(w)
    /\ LET i == txn[w].invoice IN
       /\ invoice' = [invoice EXCEPT ![i].status = "paid"]
       /\ sub' = Renewed(i, txn[w].seats + IF Raises(w) THEN invoice[i].count ELSE 0)
       /\ raised' = [raised EXCEPT ![i] = @ + IF Raises(w) THEN 1 ELSE 0]
       /\ raced' = IF Rivals(w) # {} THEN raced \cup {i} ELSE raced
    /\ FilePayment(w)
    /\ End(w)
    /\ UNCHANGED <<today, charge>>

-----------------------------------------------------------------------------
(* Activation by hand, extension, the nightly evaluation                    *)

LatestDraft ==
    LET drafts == {i \in Used : invoice[i].status = "draft"}
    IN  IF drafts = {} THEN 0 ELSE Max(drafts)

\* Fault: the draft is looked up when the request begins.
BeginActivateWithDraft(w) ==
    /\ txn[w] = Idle
    /\ txn' = [txn EXCEPT ![w] = [Idle EXCEPT !.op = "activate", !.phase = "begun",
                                              !.seats = sub.seats, !.invoice = LatestDraft]]
    /\ UNCHANGED <<today, sub, invoice, charge, rows, raised, raced>>

BeginActivate(w) ==
    /\ txn[w] = Idle
    /\ txn' = [txn EXCEPT ![w] = [Idle EXCEPT !.op = "activate", !.phase = "begun",
                                              !.seats = sub.seats]]
    /\ UNCHANGED <<today, sub, invoice, charge, rows, raised, raced>>

\* activate_manually: the subscription is saved, and held; then the latest
\* draft is read.
SaveActivation(w) ==
    /\ txn[w].op = "activate" /\ txn[w].phase = "begun"
    /\ SubscriptionFree(w)
    /\ txn' = [txn EXCEPT ![w].phase = "saved",
                          ![w].invoice = IF @ = 0 THEN LatestDraft ELSE @]
    /\ UNCHANGED <<today, sub, invoice, charge, rows, raised, raced>>

\* The draft is issued from the copy that was read, in a savepoint whose
\* failure, whatever it is, is caught: a deadlock with the payment of that
\* draft may cost the issuing, and the activation commits all the same.
IssueDraft(w) ==
    \/ /\ txn[w].invoice # 0 /\ InvoiceFree(w, txn[w].invoice)
       /\ invoice' = [invoice EXCEPT ![txn[w].invoice].status = "issued"]
    \/ UNCHANGED invoice

\* n seats are agreed anew, with 0 those there were remain.
Activate(w, n) ==
    /\ HoldsSubscription(w)
    /\ IssueDraft(w)
    /\ sub' = [state |-> "active", start |-> today, end |-> today + Period - 1, grace |-> 0,
                seats |-> IF n = 0 THEN txn[w].seats ELSE n]
    /\ End(w)
    /\ UNCHANGED <<today, charge, rows, raised, raced>>

\* extend_grace
Extend(until) ==
    /\ until > today
    /\ \A w \in Workers : ~HoldsSubscription(w)
    /\ sub' = [sub EXCEPT !.grace = until,
                          !.state = IF @ = "read_only" THEN "grace" ELSE @]
    /\ UNCHANGED <<today, invoice, charge, rows, txn, raised, raced>>

EffectiveEnd(s) == IF s.grace > s.end THEN s.grace ELSE s.end

\* Fault: a subscription that is paid again is not taken up again.
EvaluatedOnce(s, day) ==
    CASE s.state = "trial" -> IF day > TrialEnd THEN "read_only" ELSE "trial"
      [] s.state # "trial" /\ EffectiveEnd(s) = 0 -> s.state
      [] OTHER -> IF day <= EffectiveEnd(s) THEN s.state
                  ELSE IF day <= EffectiveEnd(s) + GraceDays THEN "grace" ELSE "read_only"

\* evaluate_state
Evaluated(s, day) ==
    CASE s.state = "trial" -> IF day > TrialEnd THEN "read_only" ELSE "trial"
      [] s.state # "trial" /\ EffectiveEnd(s) = 0 -> s.state
      [] OTHER -> IF day <= EffectiveEnd(s) THEN "active"
                  ELSE IF day <= EffectiveEnd(s) + GraceDays THEN "grace" ELSE "read_only"

\* The task reads the row and later saves the state alone, if it changed.
BeginEvaluate ==
    /\ txn[Beat] = Idle
    /\ Evaluated(sub, today) # sub.state
    /\ txn' = [txn EXCEPT ![Beat] = [Idle EXCEPT !.op = "evaluate",
                                                 !.seen = Evaluated(sub, today)]]
    /\ UNCHANGED <<today, sub, invoice, charge, rows, raised, raced>>

Evaluate ==
    /\ txn[Beat] # Idle
    /\ \A w \in Workers : ~HoldsSubscription(w)
    /\ sub' = [sub EXCEPT !.state = txn[Beat].seen]
    /\ End(Beat)
    /\ UNCHANGED <<today, invoice, charge, rows, raised, raced>>

-----------------------------------------------------------------------------
(* Failure: a transaction leaves nothing                                    *)

\* The process dies, or the gateway does not answer.
Crash(w) ==
    /\ txn[w] # Idle
    /\ End(w)
    /\ UNCHANGED <<today, sub, invoice, charge, rows, raised, raced>>

\* A payment that holds an invoice and wants the subscription, of which an
\* activation that wants to issue this invoice is the holder.  If it is the
\* activation that the database picks, IssueDraft fails.
DeadlockAbort(w) ==
    /\ \E u \in Workers : HoldsSubscription(u) /\ HoldsInvoice(w, txn[u].invoice)
    /\ End(w)
    /\ UNCHANGED <<today, sub, invoice, charge, rows, raised, raced>>

\* A day passes when nothing is under way.
NewDay ==
    /\ today < Horizon
    /\ \A w \in Workers \cup {Beat} : txn[w] = Idle
    /\ today' = today + 1
    /\ UNCHANGED <<sub, invoice, charge, rows, txn, raised, raced>>

-----------------------------------------------------------------------------
Begin(w) ==
    \/ "confirm" \in Operations /\ \E g \in Charges : \E r \in 0..rows[g] : BeginConfirm(w, g, r)
    \/ "mark" \in Operations /\ \E i \in Invoices : BeginMark(w, i)
    \/ "activate" \in Operations /\ BeginActivate(w)

Step(w) ==
    \/ AskGateway(w) \/ ConfirmWithoutEffect(w) \/ SaveInvoice(w) \/ PayInvoice(w)
    \/ SaveActivation(w) \/ (\E n \in Headcounts \cup {0} : Activate(w, n))
    \/ DeadlockAbort(w)

Next ==
    \/ \E n \in Headcounts : Checkout(n)
    \/ PayOverage
    \/ \E g \in Charges, i \in Invoices : OpenCharge(g, i)
    \/ \E g \in Charges : SettleCharge(g)
    \/ \E until \in Extensions : Extend(until)
    \/ \E w \in Workers : Begin(w) \/ Step(w) \/ Crash(w)
    \/ BeginEvaluate \/ Evaluate
    \/ NewDay

Spec == Init /\ [][Next]_vars

\* Statements that can execute do, deadlocks are broken, the queue of a row
\* lock is served, and the beat sends its task every night (one that is killed
\* has left nothing, and counts as not begun).
FairSpec ==
    /\ Spec
    /\ \A w \in Workers : WF_vars(Step(w))
    /\ WF_vars(BeginEvaluate) /\ SF_vars(Evaluate)

-----------------------------------------------------------------------------
(* What holds                                                               *)

\* A payment once recorded is never unrecorded: activate_manually issues the
\* latest draft from a copy, but it holds the subscription when it reads it,
\* and mark_paid needs the subscription to commit, also where the two deadlock
\* and the activation goes on without issuing.
PaidIsFinal ==
    [][\A i \in Invoices : invoice[i].status = "paid" => invoice'[i].status = "paid"]_vars

\* A visit that comes after another has committed has no effect: however often
\* the result page is opened, with a session or without, and however many rows
\* a payment has by then, an overage raises the headcount again only where
\* confirmations overlapped that each found the invoice unpaid, and not through
\* the same Payment row (_on_paid).
RaisedOnce == \A i \in Invoices : raised[i] > 1 => i \in raced

ReadOnly == sub.state = "read_only"
Covered == today <= EffectiveEnd(sub)
Over == IF sub.state = "trial" THEN today > TrialEnd
        ELSE EffectiveEnd(sub) # 0 /\ today > EffectiveEnd(sub) + GraceDays

\* Access follows the dates: whatever evaluation and payment did to each
\* other, an account that is paid up is not left read-only, and one whose
\* period and grace are over does not stay writable.
AccessFollowsDates ==
    /\ ReadOnly /\ Covered ~> ~ReadOnly \/ ~Covered
    /\ Over ~> ReadOnly \/ ~Over

-----------------------------------------------------------------------------
(* What the code promises and does not keep                                 *)

\* _on_paid: "the effect is once", also for a page that is opened twice at the
\* same moment.
EffectIsOnce == \A i \in Invoices : raised[i] <= 1

\* Invoice.is_overage: paying it "raises the subscribed headcount, it does
\* not renew the period".
OverageKeepsPeriod ==
    [][\A i \in Invoices :
          invoice[i].overage /\ invoice[i].status = "issued" /\ invoice'[i].status = "paid"
          => sub'.end = sub.end]_vars
=============================================================================
