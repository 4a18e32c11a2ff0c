--------------------------- MODULE Billing_proofs ---------------------------
(***************************************************************************)
(* Proofs about the payments of one account, for any number of workers,     *)
(* charges and invoices, any dates and headcounts.                          *)
(***************************************************************************)
EXTENDS Billing, SetSums, FiniteSetTheorems, TLAPS

TxnType ==
    [op : {"none", "confirm", "mark", "activate", "evaluate"},
     phase : {"idle", "begun", "found", "answered", "saved"},
     charge : Charges \cup {0}, invoice : 0..MaxInvoices, row : Nat,
     seen : InvoiceStatuses \cup States, seats : Nat]

\* The rows: ids are given out in turn, what the gateway was asked to take
\* is for an invoice there is, and only a paid one has raised the headcount.
RowsSound ==
    /\ TypeOK
    /\ \A i \in Invoices : invoice[i].start <= invoice[i].end
    /\ \E k \in 0..MaxInvoices : Used = 1..k
    /\ \A g \in Charges : charge[g].status # "none" => charge[g].invoice \in Used
    /\ \A i \in Invoices : raised[i] > 0 => invoice[i].status = "paid"
    /\ RaisedOnce

-----------------------------------------------------------------------------
(* The invariant of one transaction t                                       *)

Settles(t) == t.op \in {"confirm", "mark"}
Holding(t) == t.op = "activate" /\ t.phase = "saved"

Shaped(t) ==
    /\ t.op # "evaluate" /\ t.seen \in InvoiceStatuses
    /\ t.phase = "found" => Settles(t) /\ t.seen # "none"
    /\ Settles(t) /\ t.phase = "saved" => t.seen \in Unpaid
    /\ t.op = "activate" /\ t.phase = "begun" => t.invoice = 0
    /\ t.row # 0 => t.op = "confirm"
    /\ t.op = "confirm" /\ t.phase = "begun" => t.seen = "none"

\* What t refers to is there; a draft that the holder of the subscription
\* found has not been paid since.
Standing(t, bills, charges) ==
    /\ Settles(t) => t.invoice \in Invoices /\ bills[t.invoice].status # "none"
    /\ t.op = "confirm" => t.charge \in Charges /\ charges[t.charge].status # "none"
    /\ Holding(t) /\ t.invoice # 0 => bills[t.invoice].status \in Unpaid

\* A confirmation that still takes a confirmed overage for unpaid has a rival.
Counted(t, counts, races) ==
    t.op = "confirm" /\ t.seen \in Unpaid /\ counts[t.invoice] > 0 => t.invoice \in races

\* Neither the subscription nor the row of a payment has two writers.
Apart(t, s) ==
    /\ ~(Holding(t) /\ Holding(s))
    /\ ~(/\ t.row # 0 /\ t.row = s.row /\ t.charge = s.charge
         /\ t.phase # "begun" /\ s.phase # "begun")

BillingInv ==
    /\ RowsSound /\ txn \in [Workers \cup {Beat} -> TxnType]
    /\ txn[Beat] # Idle => txn[Beat].seen \in States
    /\ \A w, u \in Workers : w # u => Apart(txn[w], txn[u])
    /\ \A w \in Workers : /\ Shaped(txn[w])
                          /\ Standing(txn[w], invoice, charge)
                          /\ Counted(txn[w], raised, raced)

-----------------------------------------------------------------------------
(* Lemmas about the operators *)

\* The drafts are numbers up to MaxInvoices, so the latest is one of them.
LEMMA MaxIsMember ==
    ASSUME NEW n \in Nat, NEW D \in SUBSET (1..n), D # {}
    PROVE  Max(D) \in D
<1> DEFINE T == {m \in Nat : \A S \in SUBSET (1..m) :
                    S # {} => \E x \in S : \A y \in S : x >= y}
<1>1. 0 \in T
  <2>1. \A S \in SUBSET (1..0) : S = {}
    OBVIOUS
  <2> QED BY <2>1
<1>2. ASSUME NEW m \in T PROVE m + 1 \in T
  <2> SUFFICES ASSUME NEW S \in SUBSET (1..(m + 1)), S # {}
               PROVE  \E x \in S : \A y \in S : x >= y
    OBVIOUS
  <2>1. CASE m + 1 \in S
    BY <2>1
  <2>2. CASE m + 1 \notin S
    <3>1. S \in SUBSET (1..m)
      BY <2>2
    <3> QED BY <3>1
  <2> QED BY <2>1, <2>2
<1>3. T = Nat
  <2> HIDE DEF T
  <2>1. T \in SUBSET Nat
    BY DEF T
  <2> QED BY <1>1, <1>2, <2>1, NatSetInduction
<1>4. \E x \in D : \A y \in D : x >= y
  BY <1>3
<1> QED BY <1>4 DEF Max

LEMMA LatestDraftIsDraft ==
    ASSUME BillingAssumption
    PROVE  /\ LatestDraft \in 0..MaxInvoices
           /\ LatestDraft # 0 => invoice[LatestDraft].status = "draft"
<1> DEFINE drafts == {i \in Used : invoice[i].status = "draft"}
<1>1. CASE drafts = {}
  BY <1>1, BillingAssumption DEF LatestDraft, BillingAssumption
<1>2. CASE drafts # {}
  <2>1. drafts \in SUBSET (1..MaxInvoices) /\ MaxInvoices \in Nat
    BY BillingAssumption DEF Used, Invoices, BillingAssumption
  <2>2. Max(drafts) \in drafts
    BY <1>2, <2>1, MaxIsMember
  <2>3. LatestDraft = Max(drafts)
    BY <1>2 DEF LatestDraft
  <2> QED BY <2>1, <2>2, <2>3
<1> QED BY <1>1, <1>2

\* The next id is that of no invoice, and with it they are in turn again.
LEMMA NextIdIsFree ==
    ASSUME NEW k \in 0..MaxInvoices, Used = 1..k, BillingAssumption
    PROVE  NextId = k + 1
<1>1. k \in Nat /\ Cardinality(1..k) = k
  BY FS_Interval DEF BillingAssumption
<1> QED BY <1>1 DEF NextId

LEMMA FirstDayIsDay ==
    ASSUME TypeOK, BillingAssumption
    PROVE  FirstDay \in 1..Horizon /\ FirstDay + Period - 1 \in FirstDay..(Horizon + Period)
BY DEF FirstDay, TypeOK, BillingAssumption

LEMMA EvaluatedIsState ==
    ASSUME NEW s, NEW day, s.state \in States
    PROVE  Evaluated(s, day) \in States
BY DEF Evaluated, States

LEMMA IdleIsSound ==
    /\ Idle \in TxnType /\ Shaped(Idle)
    /\ \A bills, charges : Standing(Idle, bills, charges)
    /\ \A counts, races : Counted(Idle, counts, races)
    /\ \A t \in TxnType : Apart(Idle, t) /\ Apart(t, Idle)
<1>0. BillingAssumption /\ 0 \in 0..MaxInvoices
  BY BillingAssumption DEF BillingAssumption
<1>1. Idle \in TxnType
  BY <1>0 DEF Idle, TxnType, InvoiceStatuses
<1> QED BY <1>1 DEF Idle, Shaped, Standing, Counted, Apart, Settles, Holding,
           InvoiceStatuses

LEMMA BillingInit == Init => BillingInv
<1> SUFFICES ASSUME Init PROVE BillingInv
  OBVIOUS
<1> USE BillingAssumption DEF BillingAssumption
<1>1. TypeOK
  BY DEF Init, TypeOK, SubType, States, Days, InvoiceType, NoInvoice, InvoiceStatuses
<1>2. Used = 1..0
  BY DEF Init, Used, NoInvoice
<1>3. RowsSound
  BY <1>1, <1>2 DEF Init, RowsSound, NoInvoice, RaisedOnce
<1>4. txn \in [Workers \cup {Beat} -> TxnType] /\ \A w \in Workers \cup {Beat} : txn[w] = Idle
  BY IdleIsSound DEF Init
<1> QED BY <1>3, <1>4, IdleIsSound DEF BillingInv

-----------------------------------------------------------------------------
(* Steps of one transaction that leave the rows alone *)

LEMMA LocalStep ==
    ASSUME BillingInv, NEW w \in Workers, NEW t \in TxnType,
           txn' = [txn EXCEPT ![w] = t],
           UNCHANGED <<today, sub, invoice, charge, rows, raised, raced>>,
           Shaped(t), Standing(t, invoice, charge), Counted(t, raised, raced),
           \A u \in Workers \ {w} : Apart(t, txn[u])
    PROVE  BillingInv'
<1>1. RowsSound'
  BY DEF BillingInv, RowsSound, TypeOK, Used, RaisedOnce
<1>2. txn' \in [Workers \cup {Beat} -> TxnType] /\ txn'[Beat] = txn[Beat]
  BY BillingAssumption DEF BillingInv, BillingAssumption
<1>3. \A u \in Workers : txn'[u] = IF u = w THEN t ELSE txn[u]
  BY DEF BillingInv
<1>4. \A u, v \in Workers : u # v => Apart(txn'[u], txn'[v])
  BY <1>3 DEF BillingInv, Apart
<1>5. \A u \in Workers : /\ Shaped(txn'[u])
                         /\ Standing(txn'[u], invoice, charge)
                         /\ Counted(txn'[u], raised, raced)
  BY <1>3 DEF BillingInv
<1> QED BY <1>1, <1>2, <1>4, <1>5 DEF BillingInv

\* A transaction that ends, for whatever reason, without having written.
LEMMA EndStep ==
    ASSUME BillingInv, NEW w \in Workers, End(w),
           UNCHANGED <<today, sub, invoice, charge, rows, raised, raced>>
    PROVE  BillingInv'
<1>1. \A u \in Workers : Apart(Idle, txn[u])
  BY IdleIsSound DEF BillingInv
<1> QED BY <1>1, LocalStep, IdleIsSound DEF End

\* What a transaction knows when it begins to settle an invoice there is.
LEMMA StatusFacts ==
    ASSUME BillingInv, NEW i \in Used
    PROVE  /\ i \in Invoices /\ i \in 0..MaxInvoices
           /\ invoice[i].status \in InvoiceStatuses \ {"none"}
           /\ invoice[i].status \in Unpaid => ~(raised[i] > 0)
BY BillingAssumption
   DEF BillingInv, RowsSound, TypeOK, Used, Invoices, InvoiceType, Unpaid, BillingAssumption

LEMMA BeginConfirmKeeps ==
    ASSUME BillingInv, NEW w \in Workers, NEW g \in Charges, NEW r \in 0..rows[g],
           BeginConfirm(w, g, r)
    PROVE  BillingInv'
<1> DEFINE i == charge[g].invoice
           t == [Idle EXCEPT !.op = "confirm", !.phase = "begun",
                   !.charge = g, !.invoice = i, !.row = r]
<1>1. i \in Used
  BY DEF BeginConfirm, BillingInv, RowsSound
<1>2. i \in Invoices /\ i \in 0..MaxInvoices /\ invoice[i].status # "none"
  BY <1>1, StatusFacts DEF Used
<1>3. txn' = [txn EXCEPT ![w] = t] /\ charge[g].status # "none"
  BY DEF BeginConfirm
<1>4. r \in Nat
  BY DEF BillingInv, RowsSound, TypeOK
<1>5. /\ t.op = "confirm" /\ t.phase = "begun" /\ t.charge = g /\ t.invoice = i
      /\ t.row = r /\ t.seen = "none"
  BY DEF Idle
<1>6. t \in TxnType
  BY <1>2, <1>4 DEF TxnType, Idle, InvoiceStatuses
<1> HIDE DEF t
<1>7. Shaped(t)
  BY <1>5 DEF Shaped, Settles, InvoiceStatuses
<1>8. Standing(t, invoice, charge) /\ Counted(t, raised, raced)
  BY <1>2, <1>3, <1>5 DEF Standing, Counted, Holding, Unpaid
<1>9. \A u \in Workers \ {w} : Apart(t, txn[u])
  BY <1>5 DEF Apart, Holding
<1> QED BY <1>3, <1>6, <1>7, <1>8, <1>9, LocalStep DEF BeginConfirm

LEMMA BeginMarkKeeps ==
    ASSUME BillingInv, NEW w \in Workers, NEW i \in Invoices, BeginMark(w, i)
    PROVE  BillingInv'
<1> DEFINE t == [Idle EXCEPT !.op = "mark", !.phase = "found", !.invoice = i,
                             !.seen = invoice[i].status]
<1>1. invoice[i].status \in Unpaid /\ invoice[i].status \in InvoiceStatuses /\ i \in 0..MaxInvoices
  BY BillingAssumption DEF BeginMark, Unpaid, InvoiceStatuses, Invoices, BillingAssumption
<1>2. /\ t.op = "mark" /\ t.phase = "found" /\ t.invoice = i
      /\ t.row = 0 /\ t.seen = invoice[i].status
  BY DEF Idle
<1>3. t \in TxnType
  BY <1>1 DEF TxnType, Idle
<1>4. txn' = [txn EXCEPT ![w] = t]
  BY DEF BeginMark
<1> HIDE DEF t
<1>5. Shaped(t) /\ Standing(t, invoice, charge) /\ Counted(t, raised, raced)
  BY <1>1, <1>2 DEF Shaped, Settles, Standing, Holding, Counted, Unpaid
<1>6. \A u \in Workers \ {w} : Apart(t, txn[u])
  BY <1>2 DEF Apart, Holding
<1> QED BY <1>3, <1>4, <1>5, <1>6, LocalStep DEF BeginMark

LEMMA BeginActivateKeeps ==
    ASSUME BillingInv, NEW w \in Workers, BeginActivate(w)
    PROVE  BillingInv'
<1> DEFINE t == [Idle EXCEPT !.op = "activate", !.phase = "begun", !.seats = sub.seats]
<1>1. sub.seats \in Nat /\ 0 \in 0..MaxInvoices
  BY BillingAssumption DEF BillingInv, RowsSound, TypeOK, SubType, BillingAssumption
<1>2. /\ t.op = "activate" /\ t.phase = "begun" /\ t.invoice = 0
      /\ t.row = 0 /\ t.seen = "none"
  BY DEF Idle
<1>3. t \in TxnType
  BY <1>1 DEF TxnType, Idle, InvoiceStatuses
<1>4. txn' = [txn EXCEPT ![w] = t]
  BY DEF BeginActivate
<1> HIDE DEF t
<1>5. Shaped(t) /\ Standing(t, invoice, charge) /\ Counted(t, raised, raced)
  BY <1>2 DEF Shaped, Settles, Standing, Holding, Counted, InvoiceStatuses
<1>6. \A u \in Workers \ {w} : Apart(t, txn[u])
  BY <1>2 DEF Apart, Holding
<1> QED BY <1>3, <1>4, <1>5, <1>6, LocalStep DEF BeginActivate

\* The row of a payment that was found is waited for before its invoice is
\* read, which is paid then if the other one paid it; and so it is for a
\* confirmation that found none, if another has committed.
LEMMA AskGatewayKeeps ==
    ASSUME BillingInv, NEW w \in Workers, AskGateway(w)
    PROVE  BillingInv'
<1> DEFINE o == txn[w]
           phase == IF charge[o.charge].status = "paid" THEN "found" ELSE "answered"
           seen == invoice[o.invoice].status
           t == [o EXCEPT !.phase = phase, !.seen = seen]
<1>1. /\ o \in TxnType /\ Shaped(o) /\ Standing(o, invoice, charge)
      /\ o.op = "confirm" /\ o.phase = "begun"
  BY DEF AskGateway, BillingInv
<1>2. txn' = [txn EXCEPT ![w] = t]
  BY DEF AskGateway, BillingInv
<1>3. o.invoice \in Used
  BY <1>1 DEF Standing, Settles, Used
<1>4. /\ seen \in InvoiceStatuses \ {"none"}
      /\ seen \in Unpaid => ~(raised[o.invoice] > 0)
  BY <1>3, StatusFacts
<1>5. phase \in {"found", "answered"}
  OBVIOUS
<1> HIDE DEF phase, seen
<1>6. /\ t.op = "confirm" /\ t.phase = phase /\ t.charge = o.charge /\ t.row = o.row
      /\ t.invoice = o.invoice /\ t.seen = seen /\ t \in TxnType
  BY <1>1, <1>4, <1>5 DEF TxnType
<1> HIDE DEF t
<1>7. Shaped(t) /\ Standing(t, invoice, charge) /\ Counted(t, raised, raced)
  BY <1>1, <1>4, <1>5, <1>6 DEF Shaped, Settles, Standing, Holding, Counted
<1>8. ASSUME NEW u \in Workers \ {w} PROVE Apart(t, txn[u])
  <2>1. ~(/\ o.row # 0 /\ o.row = txn[u].row /\ o.charge = txn[u].charge
          /\ txn[u].phase # "begun")
    BY DEF AskGateway, PaymentFree, HoldsPayment
  <2> QED BY <2>1, <1>6 DEF Apart, Holding
<1> QED BY <1>2, <1>6, <1>7, <1>8, LocalStep DEF AskGateway

LEMMA SaveInvoiceKeeps ==
    ASSUME BillingInv, NEW w \in Workers, SaveInvoice(w)
    PROVE  BillingInv'
<1> DEFINE o == txn[w]
           t == [o EXCEPT !.phase = "saved", !.seats = sub.seats]
<1>1. /\ o \in TxnType /\ Shaped(o) /\ Standing(o, invoice, charge)
      /\ Counted(o, raised, raced)
      /\ o.phase = "found" /\ o.seen # "paid"
      /\ \A u \in Workers \ {w} : Apart(o, txn[u])
  BY DEF SaveInvoice, BillingInv
<1>2. sub.seats \in Nat
  BY DEF BillingInv, RowsSound, TypeOK, SubType
<1>3. txn' = [txn EXCEPT ![w] = t]
  BY DEF SaveInvoice
<1>4. /\ t.op = o.op /\ t.phase = "saved" /\ t.charge = o.charge /\ t.row = o.row
      /\ t.invoice = o.invoice /\ t.seen = o.seen /\ t \in TxnType
  BY <1>1, <1>2 DEF TxnType
<1> HIDE DEF t
<1>5. Shaped(t) /\ Standing(t, invoice, charge) /\ Counted(t, raised, raced)
  BY <1>1, <1>4 DEF Shaped, Settles, Standing, Holding, Counted, Unpaid, InvoiceStatuses
<1>6. \A u \in Workers \ {w} : Apart(t, txn[u])
  BY <1>1, <1>4 DEF Apart, Holding, Shaped, Settles
<1> QED BY <1>3, <1>4, <1>5, <1>6, LocalStep DEF SaveInvoice

\* The draft is read when the subscription is held already.
LEMMA SaveActivationKeeps ==
    ASSUME BillingInv, NEW w \in Workers, SaveActivation(w)
    PROVE  BillingInv'
<1> DEFINE o == txn[w]
           i == IF o.invoice = 0 THEN LatestDraft ELSE o.invoice
           t == [o EXCEPT !.phase = "saved", !.invoice = i]
<1>1. /\ o \in TxnType /\ Shaped(o)
      /\ o.op = "activate" /\ o.phase = "begun" /\ o.invoice = 0
      /\ \A u \in Workers \ {w} : Apart(o, txn[u])
  BY DEF SaveActivation, BillingInv, Shaped
<1>2. i \in 0..MaxInvoices /\ (i # 0 => invoice[i].status \in Unpaid)
  BY <1>1, LatestDraftIsDraft, BillingAssumption DEF Unpaid
<1>3. txn' = [txn EXCEPT ![w] = t]
  BY DEF SaveActivation, BillingInv
<1> HIDE DEF i
<1>4. /\ t.op = "activate" /\ t.phase = "saved" /\ t.charge = o.charge /\ t.row = o.row
      /\ t.invoice = i /\ t.seen = o.seen /\ t \in TxnType
  BY <1>1, <1>2 DEF TxnType
<1> HIDE DEF t
<1>5. Shaped(t) /\ Standing(t, invoice, charge) /\ Counted(t, raised, raced)
  BY <1>1, <1>2, <1>4 DEF Shaped, Settles, Standing, Holding, Counted
<1>6. ASSUME NEW u \in Workers \ {w} PROVE Apart(t, txn[u])
  <2>1. ~Holding(txn[u])
    BY DEF SaveActivation, SubscriptionFree, HoldsSubscription, Holding
  <2> QED BY <2>1, <1>1, <1>4 DEF Apart, Shaped
<1> QED BY <1>3, <1>4, <1>5, <1>6, LocalStep DEF SaveActivation

-----------------------------------------------------------------------------
(* Steps that change the rows *)

\* What a change of the invoices and the payments must not do to those that
\* are under way.
LEMMA StandingKept ==
    ASSUME NEW t, NEW bills, NEW charges, NEW bills2, NEW charges2,
           \A i \in Invoices : bills[i].status # "none" => bills2[i].status # "none",
           \A g \in Charges : charges[g].status # "none" => charges2[g].status # "none",
           Holding(t) /\ t.invoice # 0 => bills2[t.invoice].status \in Unpaid,
           Standing(t, bills, charges)
    PROVE  Standing(t, bills2, charges2)
BY DEF Standing

\* A new invoice with the next id.
LEMMA CreateKeeps ==
    ASSUME BillingInv, NextId \in Invoices,
           NEW status \in Unpaid, NEW start \in Days, NEW end \in Days, start <= end,
           NEW count \in 0..Staff, NEW overage \in BOOLEAN,
           Create(NextId, status, start, end, count, overage),
           sub' \in SubType, sub'.start <= sub'.end,
           UNCHANGED <<today, charge, rows, txn, raised, raced>>
    PROVE  BillingInv'
<1> DEFINE r == [status |-> status, start |-> start, end |-> end,
                 count |-> count, overage |-> overage]
<1>1. PICK k \in 0..MaxInvoices : Used = 1..k
  BY DEF BillingInv, RowsSound
<1>2. /\ k \in Nat /\ MaxInvoices \in Nat /\ NextId = k + 1
      /\ k + 1 \in Invoices /\ k + 1 \in 0..MaxInvoices /\ k + 1 \notin Used
  BY <1>1, NextIdIsFree, BillingAssumption DEF Invoices, BillingAssumption
<1>3. r \in InvoiceType /\ r.status = status /\ status # "none" /\ r.start <= r.end
  BY DEF InvoiceType, InvoiceStatuses, Unpaid
<1>4. invoice \in [Invoices -> InvoiceType] /\ invoice' = [invoice EXCEPT ![k + 1] = r]
  BY <1>2 DEF Create, BillingInv, RowsSound, TypeOK
<1> HIDE DEF r
<1>5. /\ invoice' \in [Invoices -> InvoiceType]
      /\ invoice'[k + 1] = r
      /\ \A i \in Invoices \ {k + 1} : invoice'[i] = invoice[i]
      /\ invoice[k + 1].status = "none"
  BY <1>2, <1>3, <1>4 DEF Used
<1>6. Used' = Used \cup {k + 1}
  BY <1>2, <1>3, <1>5 DEF Used
<1>7. Used' = 1..(k + 1)
  BY <1>1, <1>2, <1>6
<1>8. RowsSound'
  <2>1. TypeOK'
    BY <1>5 DEF BillingInv, RowsSound, TypeOK
  <2>2. \A i \in Invoices : invoice'[i].start <= invoice'[i].end
    BY <1>3, <1>5 DEF BillingInv, RowsSound
  <2>3. \A i \in Invoices : raised[i] > 0 => invoice'[i].status = "paid"
    BY <1>5 DEF BillingInv, RowsSound
  <2>4. \A g \in Charges : charge[g].status # "none" => charge[g].invoice \in Used'
    BY <1>6 DEF BillingInv, RowsSound
  <2> QED BY <1>2, <1>7, <2>1, <2>2, <2>3, <2>4 DEF BillingInv, RowsSound, RaisedOnce
<1>9. ASSUME NEW w \in Workers PROVE Standing(txn[w], invoice', charge)
  <2>1. Standing(txn[w], invoice, charge) /\ txn[w].invoice \in 0..MaxInvoices
    BY DEF BillingInv, TxnType
  <2>2. Holding(txn[w]) /\ txn[w].invoice # 0 => invoice'[txn[w].invoice].status \in Unpaid
    BY <1>2, <1>5, <2>1 DEF Standing, Invoices, Unpaid
  <2>3. \A i \in Invoices : invoice[i].status # "none" => invoice'[i].status # "none"
    BY <1>5
  <2> QED BY <2>1, <2>2, <2>3, StandingKept
<1> QED BY <1>8, <1>9 DEF BillingInv

\* The rows but the subscription, the charges and the day as they are.
LEMMA RowStep ==
    ASSUME BillingInv, sub' \in SubType, sub'.start <= sub'.end, today' \in 1..Horizon,
           UNCHANGED <<invoice, charge, rows, txn, raised, raced>>
    PROVE  BillingInv'
<1>1. RowsSound'
  BY DEF BillingInv, RowsSound, TypeOK, Used, RaisedOnce
<1> QED BY <1>1 DEF BillingInv

LEMMA CheckoutKeeps ==
    ASSUME BillingInv, NEW n \in Headcounts, Checkout(n)
    PROVE  BillingInv'
<1>1. n \in 1..Staff /\ n \in Nat /\ n \in 0..Staff
  BY BillingAssumption DEF BillingAssumption
<1>2. TypeOK
  BY DEF BillingInv, RowsSound
<1>3. sub' \in SubType /\ sub'.start <= sub'.end /\ today' \in 1..Horizon
  BY <1>1, <1>2 DEF Checkout, TypeOK, SubType
<1>4. CASE Pending(n) # {}
  BY <1>3, <1>4, RowStep DEF Checkout
<1>5. CASE Pending(n) = {}
  <2>1. /\ FirstDay \in Days /\ FirstDay + Period - 1 \in Days
        /\ FirstDay <= FirstDay + Period - 1
    BY <1>2, FirstDayIsDay, BillingAssumption DEF Days, BillingAssumption
  <2>2. "draft" \in Unpaid
    BY DEF Unpaid
  <2>3. NextId \in Invoices /\ Create(NextId, "draft", FirstDay, FirstDay + Period - 1, n, FALSE)
    BY <1>5 DEF Checkout
  <2> QED BY <1>1, <1>3, <2>1, <2>2, <2>3, CreateKeeps DEF Checkout
<1> QED BY <1>4, <1>5

LEMMA PayOverageKeeps ==
    ASSUME BillingInv, PayOverage
    PROVE  BillingInv'
<1>1. TypeOK
  BY DEF BillingInv, RowsSound
<1>2. sub.seats \in Nat /\ sub.start \in Days /\ sub.end \in Days /\ sub.start <= sub.end
  BY <1>1 DEF TypeOK, SubType
<1>3. Staff - sub.seats \in 0..Staff
  BY <1>2, BillingAssumption DEF PayOverage, BillingAssumption
<1>4. "issued" \in Unpaid
  BY DEF Unpaid
<1> QED BY <1>1, <1>2, <1>3, <1>4, CreateKeeps DEF PayOverage, TypeOK

LEMMA ChargeKeeps ==
    ASSUME BillingInv,
           NEW g \in Charges, NEW c \in [invoice : Used, status : {"open", "paid", "failed"}],
           charge' = [charge EXCEPT ![g] = c],
           UNCHANGED <<today, sub, invoice, rows, txn, raised, raced>>
    PROVE  BillingInv'
<1>1. /\ charge \in [Charges -> [invoice : 0..MaxInvoices,
                                 status : {"none", "open", "paid", "failed"}]]
      /\ c \in [invoice : 0..MaxInvoices, status : {"none", "open", "paid", "failed"}]
  BY BillingAssumption DEF BillingInv, RowsSound, TypeOK, Used, Invoices, BillingAssumption
<1>2. /\ charge' \in [Charges -> [invoice : 0..MaxInvoices,
                                  status : {"none", "open", "paid", "failed"}]]
      /\ \A f \in Charges : charge'[f] = IF f = g THEN c ELSE charge[f]
      /\ c.status # "none" /\ c.invoice \in Used
  BY <1>1
<1>3. TypeOK'
  BY <1>2 DEF BillingInv, RowsSound, TypeOK
<1>4. \A f \in Charges : charge'[f].status # "none" => charge'[f].invoice \in Used
  BY <1>2 DEF BillingInv, RowsSound
<1>5. RowsSound'
  BY <1>3, <1>4 DEF BillingInv, RowsSound, Used, RaisedOnce
<1>6. ASSUME NEW w \in Workers PROVE Standing(txn[w], invoice, charge')
  BY <1>2 DEF BillingInv, Standing
<1> QED BY <1>5, <1>6 DEF BillingInv

LEMMA OpenChargeKeeps ==
    ASSUME BillingInv, NEW g \in Charges, NEW i \in Invoices, OpenCharge(g, i)
    PROVE  BillingInv'
BY ChargeKeeps DEF OpenCharge, Used

LEMMA SettleChargeKeeps ==
    ASSUME BillingInv, NEW g \in Charges, SettleCharge(g)
    PROVE  BillingInv'
<1>1. PICK result \in {"paid", "failed"} : charge' = [charge EXCEPT ![g].status = result]
  BY DEF SettleCharge
<1> DEFINE c == [charge[g] EXCEPT !.status = result]
<1>2. charge[g].invoice \in Used
  BY DEF SettleCharge, BillingInv, RowsSound
<1>3. charge[g] \in [invoice : 0..MaxInvoices, status : {"none", "open", "paid", "failed"}]
  BY DEF BillingInv, RowsSound, TypeOK
<1>4. c \in [invoice : Used, status : {"open", "paid", "failed"}]
  BY <1>2, <1>3
<1>5. charge' = [charge EXCEPT ![g] = c]
  BY <1>1
<1> QED BY <1>4, <1>5, ChargeKeeps DEF SettleCharge

LEMMA ExtendKeeps ==
    ASSUME BillingInv, NEW until \in Extensions, Extend(until)
    PROVE  BillingInv'
<1>1. until \in Days
  BY BillingAssumption DEF Days, BillingAssumption
<1>2. sub \in SubType /\ sub.start <= sub.end /\ today \in 1..Horizon
  BY DEF BillingInv, RowsSound, TypeOK
<1>3. sub' \in SubType /\ sub'.start <= sub'.end
  BY <1>1, <1>2 DEF Extend, SubType, States
<1> QED BY <1>2, <1>3, RowStep DEF Extend

LEMMA NewDayKeeps ==
    ASSUME BillingInv, NewDay
    PROVE  BillingInv'
<1>1. sub' \in SubType /\ sub'.start <= sub'.end /\ today' \in 1..Horizon
  BY BillingAssumption DEF BillingInv, RowsSound, TypeOK, NewDay, BillingAssumption
<1> QED BY <1>1, RowStep DEF NewDay

\* The nightly task: its worker is none of the others.
LEMMA BeatStep ==
    ASSUME BillingInv, NEW t \in TxnType, txn' = [txn EXCEPT ![Beat] = t],
           t = Idle \/ t.seen \in States,
           sub' \in SubType, sub'.start <= sub'.end,
           UNCHANGED <<today, invoice, charge, rows, raised, raced>>
    PROVE  BillingInv'
<1>1. RowsSound'
  BY DEF BillingInv, RowsSound, TypeOK, Used, RaisedOnce
<1>2. /\ txn' \in [Workers \cup {Beat} -> TxnType] /\ txn'[Beat] = t
      /\ \A w \in Workers : txn'[w] = txn[w]
  BY BillingAssumption DEF BillingInv, BillingAssumption
<1>3. \A w \in Workers : Standing(txn'[w], invoice, charge) /\ Counted(txn'[w], raised, raced)
  BY <1>2 DEF BillingInv
<1>4. \A w \in Workers : Shaped(txn'[w])
  BY <1>2 DEF BillingInv
<1>5. \A w, u \in Workers : w # u => Apart(txn'[w], txn'[u])
  BY <1>2 DEF BillingInv
<1> QED BY <1>1, <1>2, <1>3, <1>4, <1>5 DEF BillingInv

LEMMA BeginEvaluateKeeps ==
    ASSUME BillingInv, BeginEvaluate
    PROVE  BillingInv'
<1> DEFINE s == Evaluated(sub, today)
           t == [Idle EXCEPT !.op = "evaluate", !.seen = s]
<1>1. sub \in SubType /\ sub.start <= sub.end
  BY DEF BillingInv, RowsSound, TypeOK
<1>2. s \in States
  BY <1>1, EvaluatedIsState DEF SubType
<1>3. txn' = [txn EXCEPT ![Beat] = t]
  BY DEF BeginEvaluate
<1> HIDE DEF s
<1>4. t \in TxnType /\ t.seen = s
  <2>1. Idle \in TxnType
    BY IdleIsSound
  <2> QED BY <1>2, <2>1 DEF TxnType
<1> HIDE DEF t
<1>5. /\ sub' \in SubType /\ sub'.start <= sub'.end
      /\ UNCHANGED <<today, invoice, charge, rows, raised, raced>>
  BY <1>1 DEF BeginEvaluate
<1>6. t = Idle \/ t.seen \in States
  BY <1>2, <1>4
<1> QED BY <1>3, <1>4, <1>5, <1>6, BeatStep

LEMMA EvaluateKeeps ==
    ASSUME BillingInv, Evaluate
    PROVE  BillingInv'
<1>1. sub \in SubType /\ sub.start <= sub.end /\ txn[Beat].seen \in States
  BY DEF BillingInv, RowsSound, TypeOK, Evaluate
<1>2. sub' \in SubType /\ sub'.start <= sub'.end
  BY <1>1 DEF Evaluate, SubType
<1>3. txn' = [txn EXCEPT ![Beat] = Idle]
  BY DEF Evaluate, End
<1> QED BY <1>2, <1>3, IdleIsSound, BeatStep DEF Evaluate

\* A confirmation adds at most one row.
LEMMA FiledRows ==
    ASSUME rows \in [Charges -> Nat], NEW w \in Workers, FilePayment(w),
           txn[w].op = "confirm" => txn[w].charge \in Charges
    PROVE  rows' \in [Charges -> Nat]
BY DEF FilePayment

LEMMA ConfirmWithoutEffectKeeps ==
    ASSUME BillingInv, NEW w \in Workers, ConfirmWithoutEffect(w)
    PROVE  BillingInv'
<1>1. txn[w].charge \in Charges /\ charge[txn[w].charge].status # "none"
  BY DEF BillingInv, Standing, ConfirmWithoutEffect
<1>2. RowsSound'
  <2>1. rows' \in [Charges -> Nat]
    BY <1>1, FiledRows DEF BillingInv, RowsSound, TypeOK, ConfirmWithoutEffect
  <2> QED BY <2>1 DEF BillingInv, RowsSound, TypeOK, Used, RaisedOnce, ConfirmWithoutEffect
<1>3. /\ txn' \in [Workers \cup {Beat} -> TxnType] /\ txn'[Beat] = txn[Beat]
      /\ \A u \in Workers : txn'[u] = IF u = w THEN Idle ELSE txn[u]
  BY IdleIsSound, BillingAssumption
     DEF BillingInv, ConfirmWithoutEffect, End, BillingAssumption
<1>4. \A u, v \in Workers : u # v => Apart(txn'[u], txn'[v])
  BY <1>3, IdleIsSound DEF BillingInv
<1>5. \A u \in Workers : /\ Shaped(txn'[u])
                         /\ Standing(txn'[u], invoice, charge)
                         /\ Counted(txn'[u], raised, raced)
  BY <1>3, IdleIsSound DEF BillingInv
<1> QED BY <1>2, <1>3, <1>4, <1>5 DEF BillingInv, ConfirmWithoutEffect

\* The commit of a transaction w that changes one invoice i, which nobody
\* else holds the subscription for.
LEMMA CommitStep ==
    ASSUME BillingInv, NEW w \in Workers, End(w), NEW i \in Used,
           NEW status \in {"paid", "issued"},
           invoice' = [invoice EXCEPT ![i].status = status],
           status = "issued" => invoice[i].status \in Unpaid,
           \A u \in Workers \ {w} : ~Holding(txn[u]),
           sub' \in SubType, sub'.start <= sub'.end,
           rows' \in [Charges -> Nat],
           raised' \in [Invoices -> Nat], raced' \in SUBSET Invoices, raced \subseteq raced',
           \A j \in Invoices \ {i} : raised'[j] = raised[j],
           raised'[i] # raised[i] => status = "paid",
           raised'[i] > 1 => i \in raced',
           \A u \in Workers \ {w} : Counted(txn[u], raised', raced'),
           UNCHANGED <<today, charge>>
    PROVE  BillingInv'
<1>1. /\ i \in Invoices /\ invoice \in [Invoices -> InvoiceType] /\ invoice[i] \in InvoiceType
      /\ invoice[i].status # "none" /\ status \in InvoiceStatuses \ {"none"}
      /\ raised \in [Invoices -> Nat]
      /\ status = "issued" => invoice[i].status # "paid"
  BY DEF BillingInv, RowsSound, TypeOK, Used, InvoiceStatuses, Unpaid
<1>2. /\ [invoice[i] EXCEPT !.status = status] \in InvoiceType
      /\ [invoice[i] EXCEPT !.status = status].start = invoice[i].start
      /\ [invoice[i] EXCEPT !.status = status].end = invoice[i].end
      /\ [invoice[i] EXCEPT !.status = status].status = status
  BY <1>1 DEF InvoiceType
<1>3. /\ invoice' \in [Invoices -> InvoiceType]
      /\ invoice'[i] = [invoice[i] EXCEPT !.status = status]
      /\ \A j \in Invoices \ {i} : invoice'[j] = invoice[j]
  BY <1>1, <1>2
<1>4. Used' = Used
  BY <1>1, <1>2, <1>3 DEF Used
<1>5. RowsSound'
  <2>1. TypeOK'
    BY <1>3 DEF BillingInv, RowsSound, TypeOK
  <2>2. \A j \in Invoices : invoice'[j].start <= invoice'[j].end
    BY <1>1, <1>2, <1>3 DEF BillingInv, RowsSound
  <2>3. ASSUME NEW j \in Invoices, raised'[j] > 0 PROVE invoice'[j].status = "paid"
    <3>1. CASE j # i
      BY <1>3, <2>3, <3>1 DEF BillingInv, RowsSound
    <3>2. CASE j = i /\ status = "issued"
      <4>1. raised[i] > 0
        BY <2>3, <3>2
      <4> QED BY <1>1, <3>2, <4>1 DEF BillingInv, RowsSound
    <3>3. CASE j = i /\ status = "paid"
      BY <1>2, <1>3, <3>3
    <3> QED BY <3>1, <3>2, <3>3
  <2>4. RaisedOnce'
    <3>1. ASSUME NEW j \in Invoices, raised'[j] > 1, j # i PROVE j \in raced'
      BY <3>1 DEF BillingInv, RowsSound, RaisedOnce
    <3> QED BY <3>1 DEF RaisedOnce
  <2>5. \A g \in Charges : charge'[g].status # "none" => charge'[g].invoice \in Used'
    BY <1>4 DEF BillingInv, RowsSound
  <2>6. \E k \in 0..MaxInvoices : Used' = 1..k
    BY <1>4 DEF BillingInv, RowsSound
  <2> QED BY <2>1, <2>2, <2>3, <2>4, <2>5, <2>6 DEF RowsSound
<1>6. /\ txn' \in [Workers \cup {Beat} -> TxnType] /\ txn'[Beat] = txn[Beat]
      /\ \A u \in Workers : txn'[u] = IF u = w THEN Idle ELSE txn[u]
  BY IdleIsSound, BillingAssumption DEF BillingInv, End, BillingAssumption
<1>7. \A u, v \in Workers : u # v => Apart(txn'[u], txn'[v])
  BY <1>6, IdleIsSound DEF BillingInv
<1>8. ASSUME NEW u \in Workers PROVE Standing(txn'[u], invoice', charge)
  <2>1. CASE u = w
    BY <1>6, <2>1, IdleIsSound
  <2>2. CASE u # w
    <3>1. Standing(txn[u], invoice, charge) /\ ~Holding(txn[u]) /\ txn'[u] = txn[u]
      BY <1>6, <2>2 DEF BillingInv
    <3>2. \A j \in Invoices : invoice[j].status # "none" => invoice'[j].status # "none"
      BY <1>1, <1>2, <1>3
    <3> QED BY <3>1, <3>2 DEF Standing
  <2> QED BY <2>1, <2>2
<1>9. \A u \in Workers : Shaped(txn'[u]) /\ Counted(txn'[u], raised', raced')
  BY <1>6, IdleIsSound DEF BillingInv
<1> QED BY <1>5, <1>6, <1>7, <1>8, <1>9 DEF BillingInv

LEMMA PayInvoiceKeeps ==
    ASSUME BillingInv, NEW w \in Workers, PayInvoice(w)
    PROVE  BillingInv'
<1> DEFINE o == txn[w]
           i == o.invoice
           up == IF Raises(w) THEN 1 ELSE 0
           more == IF Raises(w) THEN invoice[i].count ELSE 0
<1>1. /\ o \in TxnType /\ Shaped(o) /\ Standing(o, invoice, charge)
      /\ Counted(o, raised, raced) /\ Settles(o) /\ o.phase = "saved" /\ o.seen \in Unpaid
  BY DEF PayInvoice, BillingInv, Settles, Shaped
<1>2. i \in Used /\ i \in Invoices
  BY <1>1 DEF Standing, Used
<1>3. /\ invoice[i] \in InvoiceType /\ invoice[i].start <= invoice[i].end
      /\ raised \in [Invoices -> Nat] /\ raced \subseteq Invoices /\ o.seats \in Nat
  BY <1>1, <1>2 DEF BillingInv, RowsSound, TypeOK, TxnType
<1>4. invoice[i].count \in Nat /\ invoice[i].start \in Days /\ invoice[i].end \in Days
  BY <1>3, BillingAssumption DEF InvoiceType, BillingAssumption
<1>5. /\ invoice' = [invoice EXCEPT ![i].status = "paid"]
      /\ sub' = Renewed(i, o.seats + more)
      /\ raised' = [raised EXCEPT ![i] = raised[i] + up]
      /\ raced' = IF Rivals(w) # {} THEN raced \cup {i} ELSE raced
      /\ FilePayment(w) /\ End(w) /\ UNCHANGED <<today, charge>>
  BY <1>3 DEF PayInvoice
<1>6. more \in Nat /\ up \in {0, 1} /\ (up = 1 => o.op = "confirm")
  BY <1>4 DEF Raises
<1> HIDE DEF up, more
<1>7. sub' \in SubType /\ sub'.start <= sub'.end
  <2>1. o.seats + more \in Nat /\ 0 \in Days
    BY <1>3, <1>6, BillingAssumption DEF Days, BillingAssumption
  <2> QED BY <2>1, <1>3, <1>4, <1>5 DEF Renewed, SubType, States
<1>8. rows' \in [Charges -> Nat]
  BY <1>1, <1>5, FiledRows DEF Standing, BillingInv, RowsSound, TypeOK
<1>9. /\ raised' \in [Invoices -> Nat] /\ raised'[i] = raised[i] + up
      /\ \A j \in Invoices \ {i} : raised'[j] = raised[j]
      /\ raced' \in SUBSET Invoices /\ raced \subseteq raced'
  BY <1>2, <1>3, <1>5, <1>6
\* It was raised before: then w itself found it unpaid beside a rival.
<1>10. raised'[i] > 1 => i \in raced'
  <2>1. CASE up = 0
    BY <1>2, <1>3, <1>9, <2>1 DEF BillingInv, RowsSound, RaisedOnce
  <2>2. CASE up = 1
    <3>1. raised[i] > 0 => i \in raced
      BY <1>1, <1>6, <2>2 DEF Counted
    <3> QED BY <1>2, <1>3, <1>9, <2>2, <3>1
  <2> QED BY <1>6, <2>1, <2>2
\* Another confirmation that found it unpaid is a rival: both cannot hold one
\* row of the payment.
<1>11. ASSUME NEW u \in Workers \ {w} PROVE Counted(txn[u], raised', raced')
  <2> DEFINE s == txn[u]
  <2>1. /\ s \in TxnType /\ Shaped(s) /\ Standing(s, invoice, charge)
        /\ Counted(s, raised, raced) /\ Apart(o, s)
    BY DEF BillingInv
  <2> SUFFICES ASSUME s.op = "confirm", s.seen \in Unpaid, raised'[s.invoice] > 0
               PROVE  s.invoice \in raced'
    BY DEF Counted
  <2>2. s.invoice \in Invoices
    BY <2>1 DEF Standing, Settles
  <2>3. CASE s.invoice # i
    BY <1>9, <2>1, <2>2, <2>3 DEF Counted
  <2>4. CASE s.invoice = i
    <3>1. s.phase # "begun"
      BY <2>1 DEF Shaped, Unpaid
    <3>2. ~ShareRow(w, u)
      BY <1>1, <2>1, <3>1 DEF Apart, ShareRow
    <3>3. u \in Rivals(w)
      BY <2>4, <3>2 DEF Rivals
    <3> QED BY <1>5, <2>4, <3>3
  <2> QED BY <2>3, <2>4
<1>12. \A u \in Workers \ {w} : ~Holding(txn[u])
  BY DEF PayInvoice, SubscriptionFree, HoldsSubscription, Holding
<1> QED BY <1>2, <1>5, <1>7, <1>8, <1>9, <1>10, <1>11, <1>12, CommitStep

\* The draft that is issued is unpaid still.
LEMMA ActivateIssuesUnpaid ==
    ASSUME BillingInv, NEW w \in Workers, HoldsSubscription(w), txn[w].invoice # 0
    PROVE  txn[w].invoice \in Used /\ invoice[txn[w].invoice].status \in Unpaid
<1>1. Standing(txn[w], invoice, charge) /\ txn[w] \in TxnType
  BY DEF BillingInv
<1>2. txn[w].invoice \in 1..MaxInvoices
  BY <1>1, BillingAssumption DEF TxnType, BillingAssumption
<1> QED BY <1>1, <1>2 DEF Standing, Holding, HoldsSubscription, Used, Invoices, Unpaid

LEMMA ActivateKeeps ==
    ASSUME BillingInv, NEW w \in Workers, NEW n \in Headcounts \cup {0}, Activate(w, n)
    PROVE  BillingInv'
<1> DEFINE o == txn[w]
           i == o.invoice
           seats == IF n = 0 THEN o.seats ELSE n
<1>1. /\ o \in TxnType /\ HoldsSubscription(w) /\ Shaped(o) /\ Standing(o, invoice, charge)
      /\ \A u \in Workers \ {w} : ~Holding(txn[u])
  BY DEF Activate, BillingInv, Apart, Holding, HoldsSubscription
<1>2. seats \in Nat
  <2>1. o.seats \in Nat
    BY <1>1 DEF TxnType
  <2>2. n \in Nat
    BY BillingAssumption DEF BillingAssumption
  <2> HIDE DEF o
  <2> QED BY <2>1, <2>2
<1> HIDE DEF seats
<1>3. /\ sub' = [state |-> "active", start |-> today, end |-> today + Period - 1,
                 grace |-> 0, seats |-> seats]
      /\ End(w) /\ UNCHANGED <<today, charge, rows, raised, raced>>
  BY DEF Activate, seats
<1>4. TypeOK
  BY DEF BillingInv, RowsSound
<1>5. sub' \in SubType /\ sub'.start <= sub'.end
  <2>1. /\ today \in Days /\ today + Period - 1 \in Days /\ 0 \in Days
        /\ today <= today + Period - 1
    BY <1>4, BillingAssumption DEF TypeOK, Days, BillingAssumption
  <2> QED BY <1>2, <1>3, <2>1 DEF SubType, States
<1>6. CASE invoice' = invoice
  <2>1. invoice' = invoice
    BY <1>6
  <2>2. RowsSound'
    BY <1>3, <1>4, <1>5, <2>1 DEF BillingInv, RowsSound, TypeOK, Used, RaisedOnce
  <2>3. /\ txn' \in [Workers \cup {Beat} -> TxnType] /\ txn'[Beat] = txn[Beat]
        /\ \A u \in Workers : txn'[u] = IF u = w THEN Idle ELSE txn[u]
    BY <1>3, IdleIsSound, BillingAssumption DEF BillingInv, End, BillingAssumption
  <2>4. \A u, v \in Workers : u # v => Apart(txn'[u], txn'[v])
    BY <2>3, IdleIsSound DEF BillingInv
  <2>5. \A u \in Workers : /\ Shaped(txn'[u])
                           /\ Standing(txn'[u], invoice, charge)
                           /\ Counted(txn'[u], raised, raced)
    BY <2>3, IdleIsSound DEF BillingInv
  <2> QED BY <1>3, <2>1, <2>2, <2>3, <2>4, <2>5 DEF BillingInv
<1>7. CASE i # 0 /\ invoice' = [invoice EXCEPT ![i].status = "issued"]
  <2>1. i \in Used /\ invoice[i].status \in Unpaid /\ i \in Invoices
    BY <1>1, <1>7, ActivateIssuesUnpaid DEF Used
  <2>2. invoice' = [invoice EXCEPT ![i].status = "issued"]
    BY <1>7
  <2>3. /\ raised' \in [Invoices -> Nat] /\ raced' \in SUBSET Invoices /\ raced \subseteq raced'
        /\ rows' \in [Charges -> Nat]
    BY <1>3, <1>4 DEF TypeOK
  <2>4. raised'[i] > 1 => i \in raced'
    BY <1>3, <2>1 DEF BillingInv, RowsSound, RaisedOnce
  <2>5. \A u \in Workers \ {w} : Counted(txn[u], raised', raced')
    BY <1>3 DEF BillingInv
  <2> QED BY <1>1, <1>3, <1>5, <2>1, <2>2, <2>3, <2>4, <2>5, CommitStep
<1> QED BY <1>6, <1>7 DEF Activate, IssueDraft

-----------------------------------------------------------------------------
(* The invariant, and what follows from it *)

LEMMA BillingNext ==
    ASSUME BillingInv, [Next]_vars
    PROVE  BillingInv'
<1>1. ASSUME NEW n \in Headcounts, Checkout(n) PROVE BillingInv'
  BY <1>1, CheckoutKeeps
<1>2. CASE PayOverage
  BY <1>2, PayOverageKeeps
<1>3. ASSUME NEW g \in Charges, NEW i \in Invoices, OpenCharge(g, i) PROVE BillingInv'
  BY <1>3, OpenChargeKeeps
<1>4. ASSUME NEW g \in Charges, SettleCharge(g) PROVE BillingInv'
  BY <1>4, SettleChargeKeeps
<1>5. ASSUME NEW until \in Extensions, Extend(until) PROVE BillingInv'
  BY <1>5, ExtendKeeps
<1>6. ASSUME NEW w \in Workers, Begin(w) PROVE BillingInv'
  BY <1>6, BeginConfirmKeeps, BeginMarkKeeps, BeginActivateKeeps DEF Begin
<1>7. ASSUME NEW w \in Workers, Step(w) PROVE BillingInv'
  <2>1. CASE AskGateway(w) \/ ConfirmWithoutEffect(w)
    BY <2>1, AskGatewayKeeps, ConfirmWithoutEffectKeeps
  <2>2. CASE SaveInvoice(w) \/ PayInvoice(w)
    BY <2>2, SaveInvoiceKeeps, PayInvoiceKeeps
  <2>3. CASE SaveActivation(w)
    BY <2>3, SaveActivationKeeps
  <2>4. ASSUME NEW n \in Headcounts \cup {0}, Activate(w, n) PROVE BillingInv'
    BY <2>4, ActivateKeeps
  <2>5. CASE DeadlockAbort(w)
    BY <2>5, EndStep DEF DeadlockAbort
  <2> QED BY <1>7, <2>1, <2>2, <2>3, <2>4, <2>5 DEF Step
<1>8. ASSUME NEW w \in Workers, Crash(w) PROVE BillingInv'
  BY <1>8, EndStep DEF Crash
<1>9. CASE BeginEvaluate \/ Evaluate
  BY <1>9, BeginEvaluateKeeps, EvaluateKeeps
<1>10. CASE NewDay
  BY <1>10, NewDayKeeps
<1>11. CASE UNCHANGED vars
  <2>1. sub' \in SubType /\ sub'.start <= sub'.end /\ today' \in 1..Horizon
    BY <1>11 DEF vars, BillingInv, RowsSound, TypeOK
  <2> QED BY <1>11, <2>1, RowStep DEF vars
<1> QED BY <1>1, <1>2, <1>3, <1>4, <1>5, <1>6, <1>7, <1>8, <1>9, <1>10, <1>11 DEF Next

LEMMA BillingHolds == Spec => []BillingInv
BY BillingInit, BillingNext, PTL DEF Spec

\* The rows stay typed, and no period ends before it begins: checkout,
\* pay_overage, activate_manually and mark_paid copy dates between invoices
\* and the subscription.
THEOREM BillingTyped == Spec => []TypeOK
<1>1. BillingInv => TypeOK
  BY DEF BillingInv, RowsSound
<1> QED BY <1>1, BillingHolds, PTL

\* A visit of the result page after another has committed has no effect: an
\* overage raises the headcount again only where confirmations overlapped that
\* each found the invoice unpaid, not through one Payment row (_on_paid).
THEOREM OverageRaisesOnce == Spec => []RaisedOnce
<1>1. BillingInv => RaisedOnce
  BY DEF BillingInv, RowsSound
<1> QED BY <1>1, BillingHolds, PTL

\* No step but activate_manually and mark_paid writes the status of an
\* invoice that exists.
LEMMA PaidStaysPaid ==
    ASSUME BillingInv, Next, NEW i \in Invoices, invoice[i].status = "paid"
    PROVE  invoice'[i].status = "paid"
<1>1. invoice \in [Invoices -> InvoiceType]
  BY DEF BillingInv, RowsSound, TypeOK
<1>2. CASE invoice' = invoice
  BY <1>2
<1>3. ASSUME NEW w \in Workers, PayInvoice(w) PROVE invoice'[i].status = "paid"
  BY <1>1, <1>3 DEF PayInvoice, InvoiceType
<1>4. ASSUME NEW w \in Workers, NEW n \in Headcounts \cup {0}, Activate(w, n)
      PROVE  invoice'[i].status = "paid"
  <2>1. txn[w].invoice # i
    <3>1. CASE txn[w].invoice = 0
      BY <3>1, BillingAssumption DEF Invoices
    <3>2. CASE txn[w].invoice # 0
      BY <1>4, <3>2, ActivateIssuesUnpaid DEF Activate, Unpaid
    <3> QED BY <3>1, <3>2
  <2> QED BY <1>1, <1>4, <2>1 DEF Activate, IssueDraft
<1>5. i # NextId
  <2>1. PICK k \in 0..MaxInvoices : Used = 1..k
    BY DEF BillingInv, RowsSound
  <2>2. NextId = k + 1 /\ k \in Nat /\ i \in Used
    BY <2>1, NextIdIsFree, BillingAssumption DEF Used
  <2> QED BY <2>1, <2>2
<1>6. ASSUME NEW n \in Headcounts, Checkout(n) PROVE invoice'[i].status = "paid"
  BY <1>1, <1>5, <1>6 DEF Checkout, Create
<1>7. CASE PayOverage
  BY <1>1, <1>5, <1>7 DEF PayOverage, Create
<1> QED
  <2>1. ASSUME NEW w \in Workers, Begin(w) \/ Crash(w) PROVE invoice' = invoice
    BY <2>1 DEF Begin, BeginConfirm, BeginMark, BeginActivate, Crash
  <2>2. ASSUME NEW w \in Workers, Step(w) PROVE invoice'[i].status = "paid"
    <3>1. CASE \/ AskGateway(w) \/ ConfirmWithoutEffect(w) \/ SaveInvoice(w)
               \/ SaveActivation(w) \/ DeadlockAbort(w)
      BY <1>2, <3>1 DEF AskGateway, ConfirmWithoutEffect, SaveInvoice, SaveActivation,
                        DeadlockAbort
    <3> QED BY <1>3, <1>4, <2>2, <3>1 DEF Step
  <2>3. ASSUME \/ \E g \in Charges, j \in Invoices : OpenCharge(g, j)
               \/ \E g \in Charges : SettleCharge(g)
               \/ \E until \in Extensions : Extend(until)
               \/ BeginEvaluate \/ Evaluate \/ NewDay
        PROVE  invoice' = invoice
    BY <2>3 DEF OpenCharge, SettleCharge, Extend, BeginEvaluate, Evaluate, NewDay
  <2> QED BY <1>2, <1>6, <1>7, <2>1, <2>2, <2>3 DEF Next

\* A payment once recorded is never unrecorded: activate_manually issues the
\* latest draft from a copy, but it holds the subscription when it reads the
\* draft, and mark_paid needs the subscription to commit, also where the two
\* deadlock and the activation goes on without issuing.
THEOREM PaymentsAreFinal == Spec => PaidIsFinal
<1> DEFINE Final == \A i \in Invoices : invoice[i].status = "paid" => invoice'[i].status = "paid"
<1>1. BillingInv /\ [Next]_vars => [Final]_vars
  BY PaidStaysPaid
<1>2. PaidIsFinal <=> [][Final]_vars
  BY DEF PaidIsFinal
<1> HIDE DEF Final
<1> QED BY <1>1, <1>2, BillingHolds, PTL DEF Spec
=============================================================================
