------------------------ MODULE ConcurrentDecisions ------------------------
(***************************************************************************)
(* The handlers of ApprovalEngine taken apart: one pending request, and     *)
(* the PostgreSQL transactions (READ COMMITTED) that may touch it: HTTP     *)
(* requests that decide or cancel it (ATOMIC_REQUESTS), and the hourly      *)
(* escalation, which is one transaction per account (account_scope).  No    *)
(* handler locks the request before it reads it; a statement sees what is   *)
(* committed when it starts, an UPDATE waits for the row's uncommitted      *)
(* writer, and what was written stays locked until the transaction ends.    *)
(***************************************************************************)
EXTENDS Integers, FiniteSets

CONSTANTS
    Txns,           \* transactions that may touch the request, each once
    Employees,
    Rows,           \* the RequestApproval rows: <<step_order, approver>>
    AckSteps,       \* steps that are acknowledgements
    EscalatingSteps,\* steps escalate_overdue may pass
    Operations      \* subset of {"approve", "reject", "cancel", "escalate"}

VARIABLES
    request,    \* committed Request row: status, current_step
    mark,       \* committed RequestApproval rows
    effects,    \* how often an effect of the request was committed
    txn         \* the transactions

vars == <<request, mark, effects, txn>>

Steps == {k[1] : k \in Rows}
FirstStep == CHOOSE s \in Steps : \A i \in Steps : s <= i

ASSUME DecisionsAssumption ==
    /\ Rows \subseteq (Nat \ {0}) \X Employees /\ Rows # {} /\ IsFiniteSet(Rows)
    /\ AckSteps \subseteq Steps /\ EscalatingSteps \subseteq Steps
    /\ Operations \subseteq {"approve", "reject", "cancel", "escalate"}

Statuses == {"pending", "approved", "rejected", "cancelled"}
Marks == {"open", "escalated", "approved", "rejected", "delegated"}
Undecided(m) == m \in {"open", "escalated"}

\* save: the columns the transaction's UPDATE of the request has written;
\* "keep" and 0 are columns it leaves alone.
NoSave == [status |-> "keep", step |-> 0]
Clean == [k \in Rows |-> "unwritten"]

TxnType ==
    [phase  : {"idle", "loaded", "found", "written", "saving", "saved", "done"},
     op     : Operations \cup {"none"},
     who    : Employees,
     seen   : [status : Statuses, step : Nat],
     target : Nat,
     rows   : [Rows -> Marks \cup {"unwritten"}],
     save   : [status : Statuses \cup {"keep"}, step : Nat]]

TypeOK ==
    /\ request \in [status : Statuses, step : Nat]
    /\ mark \in [Rows -> Marks]
    /\ effects \in 0..Cardinality(Txns)
    /\ txn \in [Txns -> TxnType]

Init ==
    /\ request = [status |-> "pending", step |-> FirstStep]
    /\ mark = [k \in Rows |-> "open"]
    /\ effects = 0
    /\ txn = [t \in Txns |->
                [phase |-> "idle", op |-> "none", who |-> CHOOSE e \in Employees : TRUE,
                 seen |-> request, target |-> 0, rows |-> Clean, save |-> NoSave]]

-----------------------------------------------------------------------------
(* READ COMMITTED *)

Visible(t, k) == IF txn[t].rows[k] = "unwritten" THEN mark[k] ELSE txn[t].rows[k]

RowHolders(t, k) == {u \in Txns \ {t} : txn[u].rows[k] # "unwritten"}
RequestHolders(t) == {u \in Txns \ {t} : txn[u].save # NoSave}

UndecidedRows(t, K) == {k \in K : Undecided(Visible(t, k))}
SeenStep(t) == {k \in Rows : k[1] = txn[t].seen.step}
OwnRow(t) == <<txn[t].seen.step, txn[t].who>>

Goto(t, phase) == txn' = [txn EXCEPT ![t].phase = phase]

-----------------------------------------------------------------------------
(* The statements, in the order the handlers issue them *)

\* The view reads the request: all later checks use this copy.
Begin(t, op, e) ==
    /\ txn[t].phase = "idle"
    /\ txn' = [txn EXCEPT ![t] = [@ EXCEPT !.phase = "loaded", !.op = op,
                                           !.who = e, !.seen = request]]
    /\ UNCHANGED <<request, mark, effects>>

Deciding(t) == txn[t].op \in {"approve", "reject"}

\* decide: the copy is pending and the approver has an undecided row;
\* cancel_request: nobody has decided; escalate_overdue: somebody has not.
ChecksPass(t) ==
    /\ txn[t].seen.status = "pending"
    /\ CASE Deciding(t) -> OwnRow(t) \in UndecidedRows(t, Rows)
         [] txn[t].op = "cancel" -> UndecidedRows(t, Rows) = Rows
         [] txn[t].op = "escalate" ->
              /\ txn[t].seen.step \in EscalatingSteps
              /\ UndecidedRows(t, SeenStep(t)) # {}

Check(t) ==
    /\ txn[t].phase = "loaded"
    /\ Goto(t, IF ChecksPass(t) THEN "found" ELSE "done")
    /\ UNCHANGED <<request, mark, effects>>

\* record.save(): by primary key, whatever the row holds by now.
WriteOwnRow(t) ==
    /\ txn[t].phase = "found" /\ Deciding(t)
    /\ RowHolders(t, OwnRow(t)) = {}
    /\ txn' = [txn EXCEPT
                 ![t].phase = IF txn[t].op = "reject" THEN "saving" ELSE "written",
                 ![t].rows[OwnRow(t)] = IF txn[t].op = "reject" THEN "rejected" ELSE "approved"]
    /\ UNCHANGED <<request, mark, effects>>

\* Fault: it waits for the others where it is.
AwaitOthersInside(t) ==
    /\ txn[t].phase = "written" /\ txn[t].op = "approve"
    /\ txn[t].seen.step \in AckSteps
    /\ UndecidedRows(t, SeenStep(t)) # {}
    /\ UNCHANGED vars

\* An acknowledgement that sees others still missing ends here.
AwaitOthers(t) ==
    /\ txn[t].phase = "written" /\ txn[t].op = "approve"
    /\ txn[t].seen.step \in AckSteps
    /\ UndecidedRows(t, SeenStep(t)) # {}
    /\ Goto(t, "saved")
    /\ UNCHANGED <<request, mark, effects>>

\* The rows an UPDATE ... WHERE decision = '' is about: a decision closes its
\* siblings, a withdrawal all that is open, the sweep passes a step.
Closable(t) ==
    CASE txn[t].op = "approve" /\ txn[t].phase = "written" ->
           IF txn[t].seen.step \in AckSteps THEN {} ELSE SeenStep(t)
      [] txn[t].op = "cancel" /\ txn[t].phase = "saved" -> Rows
      [] txn[t].op = "escalate" /\ txn[t].phase = "found" -> SeenStep(t)
      [] OTHER -> {}

\* Fault: the rows are closed whatever they hold.
ToCloseBlindly(t) == {k \in Closable(t) : txn[t].rows[k] = "unwritten"}

\* Those it still has to write.
ToClose(t) == {k \in Closable(t) : txn[t].rows[k] = "unwritten" /\ Undecided(mark[k])}

\* Row by row; a row that another transaction holds is waited for and its
\* decision looked at again.
CloseRow(t, k) ==
    /\ k \in ToClose(t)
    /\ RowHolders(t, k) = {}
    /\ txn' = [txn EXCEPT ![t].rows[k] =
                 IF txn[t].op = "escalate" THEN "escalated" ELSE "delegated"]
    /\ UNCHANGED <<request, mark, effects>>

\* The lowest later step that still has an undecided row.
NextStep(t) ==
    LET later == {k[1] : k \in UndecidedRows(t, {k \in Rows : k[1] > txn[t].seen.step})}
    IN  IF later = {} THEN 0 ELSE CHOOSE s \in later : \A i \in later : s <= i

FindNextStep(t) ==
    /\ txn[t].phase = "written" /\ txn[t].op = "approve"
    /\ ToClose(t) = {}
    /\ txn[t].seen.step \in AckSteps => UndecidedRows(t, SeenStep(t)) = {}
    /\ txn' = [txn EXCEPT ![t].phase = "saving", ![t].target = NextStep(t)]
    /\ UNCHANGED <<request, mark, effects>>

\* decide saves the whole row, cancel_request the status alone and the sweep
\* the step alone: one more than the copy's, even if the update found that
\* all rows had been decided meanwhile.
SavedColumns(t) ==
    CASE txn[t].op = "cancel" -> [status |-> "cancelled", step |-> 0]
      [] txn[t].op = "escalate" -> [status |-> "keep", step |-> txn[t].seen.step + 1]
      [] txn[t].op = "reject" -> [status |-> "rejected", step |-> txn[t].seen.step]
      [] txn[t].op = "approve" /\ txn[t].target = 0 ->
           [status |-> "approved", step |-> txn[t].seen.step]
      [] OTHER -> [status |-> "pending", step |-> txn[t].target]

WantsRequest(t) ==
    \/ Deciding(t) /\ txn[t].phase = "saving"
    \/ txn[t].op = "cancel" /\ txn[t].phase = "found"
    \/ txn[t].op = "escalate" /\ txn[t].phase = "found" /\ ToClose(t) = {}

\* Fault: no transaction around the handler, the save is committed at once.
SaveRequestAtOnce(t) ==
    /\ WantsRequest(t)
    /\ request' = [status |-> SavedColumns(t).status,
                   step |-> IF SavedColumns(t).step = 0 THEN request.step
                            ELSE SavedColumns(t).step]
    /\ Goto(t, "saved")
    /\ UNCHANGED <<mark, effects>>

SaveRequest(t) ==
    /\ WantsRequest(t)
    /\ RequestHolders(t) = {}
    /\ txn' = [txn EXCEPT ![t].phase = "saved", ![t].save = SavedColumns(t)]
    /\ UNCHANGED <<request, mark, effects>>

\* The transaction commits: the response is sent, or the sweep is through the
\* account's other requests.  An approval's effect, run inside, commits with it.
Commit(t) ==
    /\ txn[t].phase = "saved"
    /\ ToClose(t) = {}
    /\ LET save == txn[t].save IN
       /\ request' = [status |-> IF save.status = "keep" THEN request.status ELSE save.status,
                      step   |-> IF save.step = 0 THEN request.step ELSE save.step]
       /\ effects' = IF save.status = "approved" THEN effects + 1 ELSE effects
    /\ mark' = [k \in Rows |-> Visible(t, k)]
    /\ txn' = [txn EXCEPT ![t] = [@ EXCEPT !.phase = "done", !.rows = Clean, !.save = NoSave]]

-----------------------------------------------------------------------------
(* Failure *)

WantedRows(t) ==
    IF txn[t].phase = "found" /\ Deciding(t) THEN {OwnRow(t)} ELSE ToClose(t)

WaitsFor(t) ==
    UNION {RowHolders(t, k) : k \in WantedRows(t)}
    \cup (IF WantsRequest(t) THEN RequestHolders(t) ELSE {})

RollBack(t) ==
    /\ txn' = [txn EXCEPT ![t] = [@ EXCEPT !.phase = "done", !.rows = Clean, !.save = NoSave]]
    /\ UNCHANGED <<request, mark, effects>>

\* t is in every set that holds whom it waits for, and whom they wait for.
WaitsForItself(t) ==
    \A S \in SUBSET Txns :
        WaitsFor(t) \subseteq S /\ (\A u \in S : WaitsFor(u) \subseteq S) => t \in S

\* PostgreSQL aborts a transaction that waits in a cycle.
DeadlockAbort(t) ==
    /\ WaitsForItself(t)
    /\ RollBack(t)

\* The worker process dies, the request times out, or something in the handler
\* raises (the sweep does, when the rows it counted are decided before it asks
\* for the oldest of them).
Crash(t) ==
    /\ txn[t].phase \notin {"idle", "done"}
    /\ RollBack(t)
-----------------------------------------------------------------------------
Step(t) ==
    \/ Check(t) \/ WriteOwnRow(t) \/ AwaitOthers(t) \/ FindNextStep(t)
    \/ \E k \in Rows : CloseRow(t, k)
    \/ SaveRequest(t) \/ Commit(t)

Next ==
    \E t \in Txns :
       \/ \E op \in Operations, e \in Employees : Begin(t, op, e)
       \/ Step(t)
       \/ DeadlockAbort(t)
       \/ Crash(t)

Spec == Init /\ [][Next]_vars

\* The database runs every statement it can and breaks deadlocks.
FairSpec ==
    /\ Spec
    /\ \A t \in Txns : WF_vars(Step(t)) /\ WF_vars(DeadlockAbort(t))

-----------------------------------------------------------------------------
(* What holds however the transactions interleave                          *)

\* What a person decided is never overwritten by the machine: closing the
\* siblings, cancelling and escalating all re-read decision = '' after the
\* wait, so only another decision of the same approver can replace it.
DecisionsSurviveTheMachine ==
    [][\A k \in Rows : mark[k] \in {"approved", "rejected"} =>
          mark'[k] \in {"approved", "rejected"}]_vars

\* Both answers of one person to one step of confirmation, read before
\* either was committed.
AnsweredTwice ==
    \E t, u \in Txns :
        /\ txn[t].op = "reject" /\ txn[u].op = "approve"
        /\ txn[t].who = txn[u].who
        /\ txn[t].seen.step = txn[u].seen.step /\ txn[u].seen.step \in AckSteps

\* The stored status is explained by a stored row, for every interleaving
\* of decisions, cancellation, escalation, crashes and deadlocks: a row and
\* the status that follows from it commit together or not at all.  The one
\* exception: a person's confirmation that waits for the others overwrites
\* the row of that person's rejection, and leaves the status it gave.
StatusHasItsRow ==
    /\ request.status = "approved" => \E k \in Rows : mark[k] = "approved"
    /\ request.status = "rejected" =>
          (\E k \in Rows : mark[k] = "rejected") \/ AnsweredTwice
    /\ effects > 0 => \E k \in Rows : mark[k] \in {"approved", "rejected"}

\* No transaction hangs: whatever rows they take in whatever order (a decision
\* and the sweep the rows before the request, a withdrawal the request before
\* the rows), each one commits, is refused, or is aborted.
EveryTransactionEnds ==
    \A t \in Txns : txn[t].phase # "idle" ~> txn[t].phase = "done"

-----------------------------------------------------------------------------
(* What the code promises and the interleavings break                      *)

\* decide: "a rejection at any step ends the request"; cancel_request takes
\* back a request before anyone has decided.  Neither may come back to life.
ClosedIsFinal ==
    [][request.status \in {"rejected", "cancelled"} => request'.status = request.status]_vars

Quiet == \A t \in Txns : txn[t].phase \in {"idle", "done"}

\* A request whose step is complete moves on: when no transaction is under
\* way, somebody can still decide a pending request.
CompletedStepMovesOn ==
    Quiet /\ request.status = "pending" =>
       \E k \in Rows : k[1] = request.step /\ Undecided(mark[k])
=============================================================================
