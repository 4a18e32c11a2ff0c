--------------------------- MODULE ApprovalEngine ---------------------------
(***************************************************************************)
(* The approval engine of apps/leaves: one company, one request type.      *)
(* Chains of steps are edited while requests travel them; each step names  *)
(* a seat (direct manager, role, named person) resolved to its occupants   *)
(* when the request is submitted.  Every action is one handler, run to its *)
(* end; ConcurrentDecisions takes the handlers apart.                      *)
(***************************************************************************)
EXTENDS Integers, Sequences, SequencesExt, FiniteSets

CONSTANTS
    Requests, Employees, Chains, Seats,
    NoSkip,         \* seats _can_skip refuses: hr_manager, ceo, owner, a named person
    Requester,      \* Request.employment
    Kind,           \* what the request's type does when approved and when revoked
    Matching,       \* chains whose condition_json the request's payload satisfies
    Unscoped,       \* employees whose ApproverScope leaves this request type out
    Priorities,     \* values of ApprovalChain.priority
    InitChain, InitOccupants,
    MaxSteps,       \* bound: steps in a chain
    MaxEdits        \* bound: edits of chains and reassignments of seats

VARIABLES
    chain,      \* ApprovalChain rows with their ApprovalStep rows in step_order
    occupants,  \* who _resolve_step finds for a seat today
    status, effect,
    step,       \* Request.current_step
    mark,       \* RequestApproval rows: request -> <<step_order, approver>> -> decision
    started,    \* history: the steps of the chain the request was submitted to
    edits       \* history: number of edits made, bounded by MaxEdits

requestVars == <<status, effect, step, mark, started>>
orgVars == <<chain, occupants, edits>>
vars == <<chain, occupants, status, effect, step, mark, started, edits>>

L == INSTANCE RequestLifecycle
        WITH Requests <- Requests, status <- status, effect <- effect

StepSpec == [seat : Seats, ack : BOOLEAN, escalates : BOOLEAN]
ChainSpec == [active : BOOLEAN, priority : Priorities, steps : Seq(StepSpec)]

Kinds == {"leave", "reversible", "irreversible", "plain"}
Orders == 1..MaxSteps
Keys == Orders \X Employees
\* "escalated" is a row with decision "" and escalated=True.
Marks == {"absent", "open", "escalated", "approved", "rejected", "delegated"}

ASSUME EngineAssumption ==
    /\ MaxSteps \in Nat /\ MaxEdits \in Nat
    /\ Priorities \subseteq Int
    /\ NoSkip \subseteq Seats /\ Unscoped \subseteq Employees
    /\ Requester \in [Requests -> Employees]
    /\ Kind \in [Requests -> Kinds]
    /\ Matching \in [Requests -> SUBSET Chains]
    /\ InitChain \in [Chains -> ChainSpec]
    /\ \A c \in Chains : Len(InitChain[c].steps) <= MaxSteps
    /\ InitOccupants \in [Seats -> SUBSET Employees]

TypeOK ==
    /\ chain \in [Chains -> ChainSpec]
    /\ \A c \in Chains : Len(chain[c].steps) <= MaxSteps
    /\ occupants \in [Seats -> SUBSET Employees]
    /\ status \in [Requests -> L!Statuses]
    /\ effect \in [Requests -> L!Effects]
    /\ step \in [Requests -> 0..MaxSteps]
    /\ mark \in [Requests -> [Keys -> Marks]]
    /\ started \in [Requests -> Seq(StepSpec)]
    /\ edits \in 0..MaxEdits

Init ==
    /\ chain = InitChain
    /\ occupants = InitOccupants
    /\ status = [r \in Requests |-> "draft"]
    /\ effect = [r \in Requests |-> "none"]
    /\ step = [r \in Requests |-> 0]
    /\ mark = [r \in Requests |-> [k \in Keys |-> "absent"]]
    /\ started = [r \in Requests |-> <<>>]
    /\ edits = 0

-----------------------------------------------------------------------------
(* select_chain and resolve_approvers *)

\* Rows every query of the engine calls undecided: decision = "".
Undecided(m) == m \in {"open", "escalated"}

UndecidedAt(r, s) == {e \in Employees : Undecided(mark[r][<<s, e>>])}

\* order_by("-priority") leaves the order of equal priorities open.
Selectable(r) ==
    LET live == {c \in Matching[r] : chain[c].active}
    IN  {c \in live : \A d \in live : chain[d].priority <= chain[c].priority}

\* The keys of the approval rows a chain gives a request; nobody approves
\* his own request, and a step whose seat is vacant gives no row.
Approvers(c, r) ==
    {k \in Keys : /\ k[1] \in 1..Len(chain[c].steps)
                  /\ k[2] \in occupants[chain[c].steps[k[1]].seat] \ {Requester[r]}}

\* What apply_effect leaves; leave has no handler there, only decide_request
\* (inView) calls apply_approved_leave.
Outcomes(r, inView) ==
    CASE Kind[r] = "plain" -> {"none"}
      [] Kind[r] = "leave" -> IF inView THEN {"applied", "failed"} ELSE {"none"}
      [] OTHER -> {"applied", "failed"}

-----------------------------------------------------------------------------
(* submit_request *)

SubmitAutoApproved(r) ==
    /\ status[r] = "draft"
    /\ \/ Selectable(r) = {}
       \/ \E c \in Selectable(r) : Approvers(c, r) = {}
    /\ status' = [status EXCEPT ![r] = "approved"]
    /\ \E o \in Outcomes(r, FALSE) : effect' = [effect EXCEPT ![r] = o]
    /\ UNCHANGED <<step, mark, started, orgVars>>

Submit(r) ==
    /\ status[r] = "draft"
    /\ \E c \in Selectable(r) :
          LET rows == Approvers(c, r)
          IN  \E first \in rows :
                 /\ \A k \in rows : first[1] <= k[1]
                 /\ step' = [step EXCEPT ![r] = first[1]]
                 /\ mark' = [mark EXCEPT ![r] =
                               [k \in Keys |-> IF k \in rows THEN "open" ELSE "absent"]]
                 /\ started' = [started EXCEPT ![r] = chain[c].steps]
    /\ status' = [status EXCEPT ![r] = "pending"]
    /\ UNCHANGED <<effect, orgVars>>

-----------------------------------------------------------------------------
(* decide, through decide_request *)

\* Fault: the request's status is not looked at.
CanDecideClosed(r, e) ==
    /\ step[r] \in Orders
    /\ e \in UndecidedAt(r, step[r])
    /\ e \notin Unscoped

CanDecide(r, e) ==
    /\ status[r] = "pending"
    /\ step[r] \in Orders
    /\ e \in UndecidedAt(r, step[r])
    /\ e \notin Unscoped

\* Fault: a rejection is one vote; the last one decides.
RejectAsVote(r, e) ==
    /\ CanDecide(r, e)
    /\ mark' = [mark EXCEPT ![r][<<step[r], e>>] = "rejected"]
    /\ status' = IF UndecidedAt(r, step[r]) = {e}
                 THEN [status EXCEPT ![r] = "rejected"] ELSE status
    /\ UNCHANGED <<effect, step, started, orgVars>>

Reject(r, e) ==
    /\ CanDecide(r, e)
    /\ mark' = [mark EXCEPT ![r][<<step[r], e>>] = "rejected"]
    /\ status' = [status EXCEPT ![r] = "rejected"]
    /\ UNCHANGED <<effect, step, started, orgVars>>

\* _step_is_acknowledgement reads the chain selected at the time of the call.
IsAcknowledgement(r, isAck) ==
    \/ Selectable(r) = {} /\ isAck = FALSE
    \/ \E c \in Selectable(r) :
          isAck = /\ step[r] <= Len(chain[c].steps)
                  /\ chain[c].steps[step[r]].ack

\* An acknowledgement step waits for everyone.
Acknowledge(r, e) ==
    /\ CanDecide(r, e)
    /\ IsAcknowledgement(r, TRUE)
    /\ UndecidedAt(r, step[r]) # {e}
    /\ mark' = [mark EXCEPT ![r][<<step[r], e>>] = "approved"]
    /\ UNCHANGED <<status, effect, step, started, orgVars>>

\* Faults: the siblings are left open; they are closed even when they have
\* decided; the rows of every step are closed.
AfterApprovalSiblingsOpen(r, e) == [mark[r] EXCEPT ![<<step[r], e>>] = "approved"]

AfterApprovalSiblingsLost(r, e) ==
    [k \in Keys |-> IF k = <<step[r], e>> THEN "approved"
                    ELSE IF k[1] = step[r] /\ mark[r][k] # "absent" THEN "delegated"
                    ELSE mark[r][k]]

AfterApprovalAllClosed(r, e) ==
    [k \in Keys |-> IF k = <<step[r], e>> THEN "approved"
                    ELSE IF Undecided(mark[r][k]) THEN "delegated" ELSE mark[r][k]]

\* The marks once e has approved and the rest of his step has been closed:
\* at an acknowledgement step he is the last, elsewhere the first decides.
AfterApproval(r, e) ==
    [k \in Keys |-> IF k = <<step[r], e>> THEN "approved"
                    ELSE IF k[1] = step[r] /\ Undecided(mark[r][k]) THEN "delegated"
                    ELSE mark[r][k]]

LaterSteps(r) == {s \in Orders : s > step[r] /\ UndecidedAt(r, s) # {}}

\* Fault: the first acknowledgement closes the step.
ClosesAtFirst(r, e) ==
    /\ CanDecide(r, e)
    /\ mark' = [mark EXCEPT ![r] = AfterApproval(r, e)]

Closes(r, e) ==
    /\ CanDecide(r, e)
    /\ \/ IsAcknowledgement(r, FALSE)
       \/ IsAcknowledgement(r, TRUE) /\ UndecidedAt(r, step[r]) = {e}
    /\ mark' = [mark EXCEPT ![r] = AfterApproval(r, e)]

ApproveStep(r, e) ==
    /\ Closes(r, e)
    /\ \E next \in LaterSteps(r) :
          /\ \A s \in LaterSteps(r) : next <= s
          /\ step' = [step EXCEPT ![r] = next]
    /\ UNCHANGED <<status, effect, started, orgVars>>

ApproveFinally(r, e) ==
    /\ Closes(r, e)
    /\ LaterSteps(r) = {}
    /\ status' = [status EXCEPT ![r] = "approved"]
    /\ \E o \in Outcomes(r, TRUE) : effect' = [effect EXCEPT ![r] = o]
    /\ UNCHANGED <<step, started, orgVars>>

-----------------------------------------------------------------------------
(* cancel_request, the hourly escalation, revocation *)

Cancel(r) ==
    /\ status[r] = "pending"
    /\ \A k \in Keys : mark[r][k] = "absent" \/ Undecided(mark[r][k])
    /\ status' = [status EXCEPT ![r] = "cancelled"]
    /\ mark' = [mark EXCEPT ![r] =
                  [k \in Keys |-> IF Undecided(mark[r][k]) THEN "delegated" ELSE mark[r][k]]]
    /\ UNCHANGED <<effect, step, started, orgVars>>

\* The chains whose step escalate_overdue may read for a step_order: every
\* chain of the type, active or not, whatever its condition, highest
\* priority first (Meta.ordering of ApprovalStep follows its chain's).
EscalationChains(s) ==
    LET long == {c \in Chains : Len(chain[c].steps) >= s}
    IN  {c \in long : \A d \in long : chain[d].priority <= chain[c].priority}

\* Faults: the last step has a next one; every seat may be skipped.
EscalatesAtLast(c, s) ==
    /\ chain[c].steps[s].escalates
    /\ chain[c].steps[s].seat \notin NoSkip

EscalatesAnySeat(c, s) ==
    /\ chain[c].steps[s].escalates
    /\ s < Len(chain[c].steps)

\* The waiting time is over at any moment: hours are not modelled.
EscalatesWith(c, s) ==
    /\ chain[c].steps[s].escalates
    /\ chain[c].steps[s].seat \notin NoSkip
    /\ s < Len(chain[c].steps)

\* Faults: time approves the last step; the step is marked and not left.
EscalateToApproval(r) ==
    /\ status[r] = "pending"
    /\ step[r] \in Orders
    /\ UndecidedAt(r, step[r]) # {}
    /\ mark' = [mark EXCEPT ![r] =
                  [k \in Keys |-> IF k[1] = step[r] /\ Undecided(mark[r][k])
                                  THEN "escalated" ELSE mark[r][k]]]
    /\ IF LaterSteps(r) # {}
       THEN step' = [step EXCEPT ![r] = @ + 1] /\ UNCHANGED status
       ELSE status' = [status EXCEPT ![r] = "approved"] /\ UNCHANGED step
    /\ UNCHANGED <<effect, started, orgVars>>

EscalateInPlace(r) ==
    /\ status[r] = "pending"
    /\ step[r] \in Orders
    /\ \E c \in EscalationChains(step[r]) : EscalatesWith(c, step[r])
    /\ mark' = [mark EXCEPT ![r] =
                  [k \in Keys |-> IF k[1] = step[r] /\ Undecided(mark[r][k])
                                  THEN "escalated" ELSE mark[r][k]]]
    /\ UNCHANGED <<status, effect, step, started, orgVars>>

Escalate(r) ==
    /\ status[r] = "pending"
    /\ step[r] \in Orders
    /\ UndecidedAt(r, step[r]) # {}
    /\ \E c \in EscalationChains(step[r]) : EscalatesWith(c, step[r])
    /\ mark' = [mark EXCEPT ![r] =
                  [k \in Keys |-> IF k[1] = step[r] /\ Undecided(mark[r][k])
                                  THEN "escalated" ELSE mark[r][k]]]
    /\ step' = [step EXCEPT ![r] = @ + 1]
    /\ UNCHANGED <<status, effect, started, orgVars>>

\* revoke_any_request, revoke_approved_leave: the undo comes first and its
\* failure keeps the request; a type without an entry in _reversals is
\* cancelled by its status alone.
Revoke(r) ==
    /\ status[r] = "approved"
    /\ status' = [status EXCEPT ![r] = "cancelled"]
    /\ effect' = [effect EXCEPT ![r] =
                    IF Kind[r] \in {"leave", "reversible"} /\ @ = "applied"
                    THEN "reverted" ELSE @]
    /\ UNCHANGED <<step, mark, started, orgVars>>

-----------------------------------------------------------------------------
(* chain_steps, approval_chain_detail, and the organisation's own changes *)

Edit(c, new) ==
    /\ edits < MaxEdits
    /\ edits' = edits + 1
    /\ chain' = [chain EXCEPT ![c] = new]
    /\ UNCHANGED <<occupants, requestVars>>

\* A new step is last, and escalates only after a later edit.
AddStep(c, s) ==
    /\ Len(chain[c].steps) < MaxSteps
    /\ ~s.escalates
    /\ Edit(c, [chain[c] EXCEPT !.steps = Append(@, s)])

DropStep(c, i) ==
    /\ i <= Len(chain[c].steps)
    /\ Edit(c, [chain[c] EXCEPT !.steps = RemoveAt(@, i)])

MoveStepUp(c, i) ==
    /\ i > 1 /\ i <= Len(chain[c].steps)
    /\ LET old == chain[c].steps
       IN  Edit(c, [chain[c] EXCEPT !.steps =
                      [old EXCEPT ![i - 1] = old[i], ![i] = old[i - 1]]])

EditStep(c, i, s) ==
    /\ i <= Len(chain[c].steps)
    /\ Edit(c, [chain[c] EXCEPT !.steps[i] = s])

EditChain(c, active, priority) ==
    Edit(c, [chain[c] EXCEPT !.active = active, !.priority = priority])

\* A manager is replaced, a role is granted or taken, a contract ends.
Reassign(seat, who) ==
    /\ edits < MaxEdits
    /\ edits' = edits + 1
    /\ occupants' = [occupants EXCEPT ![seat] = who]
    /\ UNCHANGED <<chain, requestVars>>

OrgNext ==
    \/ \E c \in Chains :
          \/ \E s \in StepSpec : AddStep(c, s)
          \/ \E i \in Orders : DropStep(c, i)
          \/ \E i \in Orders : MoveStepUp(c, i)
          \/ \E i \in Orders, s \in StepSpec : EditStep(c, i, s)
          \/ \E a \in BOOLEAN, p \in Priorities : EditChain(c, a, p)
    \/ \E seat \in Seats, who \in SUBSET Employees : Reassign(seat, who)

DecideNext ==
    \E r \in Requests, e \in Employees :
       Reject(r, e) \/ Acknowledge(r, e) \/ ApproveStep(r, e) \/ ApproveFinally(r, e)

Next ==
    \/ \E r \in Requests :
          SubmitAutoApproved(r) \/ Submit(r) \/ Cancel(r) \/ Escalate(r) \/ Revoke(r)
    \/ DecideNext
    \/ OrgNext

Spec == Init /\ [][Next]_vars

\* The hourly beat escalates whatever is overdue.  Where escalation cannot
\* help, the approver is assumed to answer in the end: an assumption about
\* people, not about the code.
Answer(r) ==
    /\ status[r] = "pending"
    /\ \A c \in EscalationChains(step[r]) : ~EscalatesWith(c, step[r])
    /\ \E e \in Employees :
          Reject(r, e) \/ Acknowledge(r, e) \/ ApproveStep(r, e) \/ ApproveFinally(r, e)

FairSpec ==
    /\ Spec
    /\ \A r \in Requests : WF_vars(Escalate(r)) /\ WF_vars(Answer(r))

-----------------------------------------------------------------------------
(* Properties that hold while chains and seats change under the requests   *)

\* Nobody keeps a request in his inbox that has moved past him: a step that
\* was passed, by a decision, by escalation or by approval of the request,
\* has no open row left (decide closes the siblings, escalate_overdue marks
\* them), and the steps still to come have been touched by nobody.
PassedStepsClosed ==
    \A r \in Requests, k \in Keys :
       /\ status[r] = "approved" => mark[r][k] # "open"
       /\ status[r] = "pending" /\ k[1] < step[r] => mark[r][k] # "open"
       /\ status[r] = "pending" /\ k[1] > step[r] => mark[r][k] \in {"absent", "open"}

\* Silence never becomes approval (escalate_overdue's governing constraint):
\* an approved request that had approvers was approved by an approver of the
\* last step that had any.
LastStepDecided ==
    \A r \in Requests : status[r] = "approved" =>
       \A k \in Keys : mark[r][k] # "absent" =>
          \E j \in Keys : j[1] >= k[1] /\ mark[r][j] = "approved"

\* A rejection at any step ends the request, and nothing else does so under
\* that name: the request is rejected exactly when one of its rows is.
RejectionEndsRequest ==
    \A r \in Requests :
       (\E k \in Keys : mark[r][k] = "rejected") <=> status[r] = "rejected"

\* RequestApproval is an audit trail: no handler, whether it decides, closes
\* siblings, escalates, cancels or revokes, changes or deletes a decided row.
DecidedRowsKept ==
    [][\A r \in Requests, k \in Keys :
          mark[r][k] \in {"approved", "rejected", "delegated"} =>
             mark'[r][k] = mark[r][k]]_vars

\* Every handler, whatever the chain edits, moves a request as the abstract
\* lifecycle allows.
RefinesLifecycle == L!LifecycleSpec

-----------------------------------------------------------------------------
(* Properties that depend on what the organisation does meanwhile          *)

\* An acknowledgement step is passed only when everyone on it has
\* acknowledged (or has been escalated past), as the request's chain stood
\* when it was submitted.
AckHeardByAll ==
    \A r \in Requests, k \in Keys :
       /\ status[r] = "approved"
       /\ k[1] <= Len(started[r]) /\ started[r][k[1]].ack
       => mark[r][k] \in {"absent", "approved", "escalated"}

\* Escalation passes over no seat whose decision time must not replace.
NoSkipSeatKept ==
    \A r \in Requests, k \in Keys :
       mark[r][k] = "escalated" => started[r][k[1]].seat \notin NoSkip

\* A pending request never hangs: someone can decide it now.
PendingIsActionable ==
    \A r \in Requests : status[r] = "pending" =>
       \E e \in Employees : CanDecide(r, e)

\* approvals.py, at the approval without a chain: the effect happens here too,
\* or the leave is not deducted.  False of the code for a leave that no chain
\* matches: apply_effect has no handler for leaves.
ApprovalTakesEffect ==
    \A r \in Requests :
       status[r] = "approved" /\ Kind[r] # "plain" => effect[r] # "none"

\* A submitted request is closed in the end.
EventuallyClosed ==
    \A r \in Requests : status[r] = "pending" ~> status[r] # "pending"
=============================================================================
