------------------------ MODULE BalanceTransactions ------------------------
(***************************************************************************)
(* The LeaveBalance rows of one leave type and the current year, which      *)
(* LeaveLedger takes for granted, and the requests that read and write      *)
(* them: HTTP transactions (ATOMIC_REQUESTS, PostgreSQL READ COMMITTED)     *)
(* whose reads lock nothing, the import's excepted, and whose writes hold a *)
(* row until they commit.  The screens that show balances write them too:   *)
(* accrue saves every column of the row it read.                           *)
(***************************************************************************)
EXTENDS Integers, Sequences, SequencesExt

CONSTANTS
    Workers,
    Employees,
    Leaves,     \* leave requests
    Owner,      \* [Leaves -> Employees]
    Length,     \* charged days of a leave
    Pages,      \* the employees a screen lists: sequences
    Files,      \* the employees a balance file lists: sequences
    Openings,   \* opening balances a file may give
    Payouts,    \* days that may be cashed out
    MaxPaid,    \* bound: a payout that would exceed it is not begun
    Horizon     \* bound: days earned

ASSUME BalanceAssumption ==
    /\ Owner \in [Leaves -> Employees] /\ Length \in [Leaves -> Nat \ {0}]
    /\ Pages \cup Files \subseteq Seq(Employees) \ {<<>>}
    /\ \A s \in Pages \cup Files : IsInjective(s)
    /\ Openings \subseteq Nat /\ Payouts \subseteq Nat \ {0}
    /\ MaxPaid \in Nat /\ Horizon \in Nat \ {0}

VARIABLES
    row,    \* committed rows
    leave,  \* committed: "approved", "applied" to the balance, "revoked"
    due,    \* days an employee has earned by today
    txn,    \* what each worker is doing
    spent,  \* history: days charged less days restored, as committed
    paid,   \* history: days cashed out
    late    \* history: employees whose row was saved from an outdated copy

vars == <<row, leave, due, txn, spent, paid, late>>

Row == [opening : Nat, accrued : Nat, consumed : Int]
NoRow == [opening |-> 0, accrued |-> 0, consumed |-> 0]

Available(b) == b.opening + b.accrued - b.consumed

Operations == {"screen", "import", "consume", "revoke", "cashout"}

\* todo: the employees still to be written; missed: those whose row another
\* transaction committed after this one had read it and before it wrote it;
\* wrote: what is written and not committed, NoRow apart from held.
Idle == [op |-> "none", phase |-> "idle", todo |-> <<>>, days |-> 0, leave |-> "none",
         copy |-> NoRow, missed |-> {}, held |-> {}, wrote |-> [e \in Employees |-> NoRow]]

TypeOK ==
    /\ row \in [Employees -> Row]
    /\ \A e \in Employees : row[e].accrued <= due
    /\ leave \in [Leaves -> {"approved", "applied", "revoked"}]
    /\ due \in 0..Horizon
    /\ spent \in [Employees -> Int] /\ paid \in [Employees -> Nat]
    /\ late \subseteq Employees
    /\ \A w \in Workers :
          /\ txn[w].op \in Operations \cup {"none"}
          /\ txn[w].phase \in {"idle", "begun", "read", "saved"}
          /\ \A u \in Workers \ {w} : txn[w].held \cap txn[u].held = {}

Init ==
    /\ row = [e \in Employees |-> NoRow]
    /\ leave = [r \in Leaves |-> "approved"]
    /\ due = 1
    /\ txn = [w \in Workers |-> Idle]
    /\ spent = [e \in Employees |-> 0] /\ paid = [e \in Employees |-> 0]
    /\ late = {}

-----------------------------------------------------------------------------
(* Beginning: the request is loaded, and with it what the checks look at.   *)
(* consume has its row at once (ensure_balance), accrue reads it again.     *)

Start(w, op, todo, days, r) ==
    /\ txn[w] = Idle
    /\ txn' = [txn EXCEPT ![w] = [Idle EXCEPT !.op = op, !.phase = "begun", !.todo = todo,
                                              !.days = days, !.leave = r,
                                              !.copy = IF op = "consume" THEN row[Head(todo)]
                                                       ELSE NoRow]]
    /\ UNCHANGED <<row, leave, due, spent, paid, late>>

\* team_leave_balances lists a page of employees, a payslip a single one.
BeginScreen(w, page) == Start(w, "screen", page, 0, "none")

\* import_balances.execute
BeginImport(w, file, n) == Start(w, "import", file, n, "none")

\* apply_approved_leave: not applied yet.
BeginConsume(w, r) ==
    leave[r] = "approved" /\ Start(w, "consume", <<Owner[r]>>, Length[r], r)

\* revoke_approved_leave: applied, and so to be restored.
BeginRevoke(w, r) ==
    leave[r] = "applied" /\ Start(w, "revoke", <<Owner[r]>>, Length[r], r)

\* cash_out: available_days is asked first.
BeginCashOut(w, e, n) ==
    /\ n <= Available(row[e])
    /\ paid[e] + n <= MaxPaid
    /\ Start(w, "cashout", <<e>>, n, "none")

-----------------------------------------------------------------------------
(* Reading and writing                                                      *)

Holders(w, e) == {u \in Workers \ {w} : e \in txn[u].held}

\* Fault: accrue works on the row that consume had read.
ReadRowNoMore(w) ==
    /\ txn[w].phase = "begun" /\ txn[w].todo # <<>> /\ txn[w].op # "import"
    /\ txn' = [txn EXCEPT ![w].phase = "read"]
    /\ UNCHANGED <<row, leave, due, spent, paid, late>>

ReadRow(w) ==
    /\ txn[w].phase = "begun" /\ txn[w].todo # <<>> /\ txn[w].op # "import"
    /\ txn' = [txn EXCEPT ![w].phase = "read", ![w].copy = row[Head(txn[w].todo)]]
    /\ UNCHANGED <<row, leave, due, spent, paid, late>>

\* accrue: computed anew from the start of the year.
Accrued(b) == [b EXCEPT !.accrued = due]

\* What is written: every column from the copy (accrue), or one of the row as
\* it is by then (update_fields; the import holds the row when it reads it).
Written(w, e) ==
    CASE txn[w].op \in {"screen", "consume"} -> Accrued(txn[w].copy)
      [] txn[w].op = "revoke"  -> [row[e] EXCEPT !.consumed = txn[w].copy.consumed - txn[w].days]
      [] txn[w].op = "cashout" -> [row[e] EXCEPT !.consumed = txn[w].copy.consumed + txn[w].days]
      [] txn[w].op = "import"  -> [row[e] EXCEPT !.opening = txn[w].days]

Ready(w) == txn[w].phase = "read" \/ (txn[w].op = "import" /\ txn[w].phase = "begun")

SaveRow(w) ==
    /\ Ready(w) /\ txn[w].todo # <<>>
    /\ LET t == txn[w]
           e == Head(t.todo)
       IN  /\ Holders(w, e) = {}
           /\ txn' = [txn EXCEPT ![w] =
                [t EXCEPT !.wrote[e] = Written(w, e), !.held = t.held \cup {e}, !.copy = NoRow,
                          !.todo = Tail(t.todo),
                          !.phase = IF Len(t.todo) = 1 THEN "saved" ELSE "begun"]]
    /\ UNCHANGED <<row, leave, due, spent, paid, late>>

-----------------------------------------------------------------------------
(* The end                                                                  *)

\* The employee whose row w has read for good and not yet written; a payout
\* is decided on what was read first.
Watched(w) ==
    IF txn[w].phase = "read" \/ (txn[w].op = "cashout" /\ txn[w].phase = "begun")
    THEN {Head(txn[w].todo)} ELSE {}

CommitRows(w, rows) ==
    /\ row' = [e \in Employees |-> IF e \in txn[w].held THEN rows[e] ELSE row[e]]
    /\ late' = late \cup (txn[w].missed \cap txn[w].held)
    /\ txn' = [u \in Workers |->
                 IF u = w THEN Idle
                 ELSE [txn[u] EXCEPT !.missed =
                         @ \cup {e \in Watched(u) : row'[e] # row[e]}]]
    /\ UNCHANGED due

\* Fault: what was consumed before is not looked at.
EnoughEver(w, e) == txn[w].days <= Available(txn[w].wrote[e]) + txn[w].wrote[e].consumed

\* consume: the row is its own, accrued until today (refresh_from_db).
Enough(w, e) == txn[w].days <= Available(txn[w].wrote[e])

Charge(w) ==
    /\ txn[w].op = "consume" /\ txn[w].phase = "saved"
    /\ LET r == txn[w].leave
           e == Owner[r]
       IN  /\ Enough(w, e)
           /\ CommitRows(w, [txn[w].wrote EXCEPT ![e].consumed = @ + txn[w].days])
           /\ spent' = [spent EXCEPT ![e] = @ + txn[w].days]
           /\ leave' = [leave EXCEPT ![r] = "applied"]
    /\ UNCHANGED paid

\* Fault: a refused leave waits for the balance to grow.
RefuseInside(w) ==
    /\ txn[w].op = "consume" /\ txn[w].phase = "saved"
    /\ ~Enough(w, Owner[txn[w].leave])
    /\ UNCHANGED vars

\* LeaveError: the savepoint is rolled back, the accrual with it.
Refuse(w) ==
    /\ txn[w].op = "consume" /\ txn[w].phase = "saved"
    /\ ~Enough(w, Owner[txn[w].leave])
    /\ txn' = [txn EXCEPT ![w] = Idle]
    /\ UNCHANGED <<row, leave, due, spent, paid, late>>

CommitScreen(w) ==
    /\ txn[w].op \in {"screen", "import"} /\ txn[w].phase = "saved"
    /\ CommitRows(w, txn[w].wrote)
    /\ UNCHANGED <<leave, spent, paid>>

CommitRevoke(w) ==
    /\ txn[w].op = "revoke" /\ txn[w].phase = "saved"
    /\ CommitRows(w, txn[w].wrote)
    /\ leave' = [leave EXCEPT ![txn[w].leave] = "revoked"]
    /\ spent' = [spent EXCEPT ![Owner[txn[w].leave]] = @ - txn[w].days]
    /\ UNCHANGED paid

CommitCashOut(w) ==
    /\ txn[w].op = "cashout" /\ txn[w].phase = "saved"
    /\ CommitRows(w, txn[w].wrote)
    /\ \E e \in txn[w].held :
          /\ spent' = [spent EXCEPT ![e] = @ + txn[w].days]
          /\ paid' = [paid EXCEPT ![e] = @ + txn[w].days]
    /\ UNCHANGED leave

\* The process dies: nothing of the transaction is left.
Crash(w) ==
    /\ txn[w] # Idle
    /\ txn' = [txn EXCEPT ![w] = Idle]
    /\ UNCHANGED <<row, leave, due, spent, paid, late>>

WaitsFor(w, u) == Ready(w) /\ txn[w].todo # <<>> /\ Head(txn[w].todo) \in txn[u].held

\* A screen and a file that list employees in different orders.
DeadlockAbort(w) ==
    /\ \E u \in Workers \ {w} : WaitsFor(w, u) /\ WaitsFor(u, w)
    /\ txn' = [txn EXCEPT ![w] = Idle]
    /\ UNCHANGED <<row, leave, due, spent, paid, late>>

\* A day passes when nothing is under way.
NewDay ==
    /\ due < Horizon
    /\ \A w \in Workers : txn[w] = Idle
    /\ due' = due + 1
    /\ UNCHANGED <<row, leave, txn, spent, paid, late>>

-----------------------------------------------------------------------------
Begin(w) ==
    \/ \E page \in Pages : BeginScreen(w, page)
    \/ \E file \in Files, n \in Openings : BeginImport(w, file, n)
    \/ \E r \in Leaves : BeginConsume(w, r)
    \/ \E r \in Leaves : BeginRevoke(w, r)
    \/ \E e \in Employees, n \in Payouts : BeginCashOut(w, e, n)

Step(w) ==
    \/ ReadRow(w) \/ SaveRow(w)
    \/ Charge(w) \/ Refuse(w) \/ CommitScreen(w) \/ CommitRevoke(w) \/ CommitCashOut(w)
    \/ DeadlockAbort(w)

Next == NewDay \/ \E w \in Workers : Begin(w) \/ Step(w) \/ Crash(w)

Spec == Init /\ [][Next]_vars

\* PostgreSQL serves the queue of a row lock and breaks deadlocks.
FairSpec == Spec /\ \A w \in Workers : SF_vars(Step(w))

-----------------------------------------------------------------------------
(* What holds                                                               *)

\* Every charge, payout and restoration is in the row, unless somebody saved
\* the row who had read it before another's commit: within one transaction
\* the readings of consume and accrue do not undo each other.
ChargesSurvive == \A e \in Employees : row[e].consumed = spent[e] \/ e \in late

\* consume and cash_out "prevent exceeding what is available": with the same
\* exception, no charge leaves the row overdrawn.
ChargedWithinAvailable ==
    [][\A e \in Employees :
          row'[e].consumed > row[e].consumed => Available(row'[e]) >= 0 \/ e \in late']_vars

\* No request is stuck: the screens and files that write many rows and the
\* single charges let each other go on.
EveryRequestEnds == \A w \in Workers : txn[w].op # "none" ~> txn[w].op = "none"

-----------------------------------------------------------------------------
(* What the code promises and does not keep                                 *)

\* balance_summary: accrue "computes anew from zero, so repeating it is safe".
\* When a screen ends, what was consumed of the balance is what it was.
AccrualIsRepeatable ==
    [][\A w \in Workers :
          txn[w].op = "screen" /\ txn'[w].op = "none"
          => \A e \in Employees : row'[e].consumed = row[e].consumed]_vars
=============================================================================
