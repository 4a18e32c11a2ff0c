-------------------------- MODULE RequestLifecycle --------------------------
(***************************************************************************)
(* What an approval request promises the people who use it, whatever the   *)
(* chain it travels: a request leaves each state by one of five moves, the *)
(* effect (balance, attendance, advance, ...) happens in the same step as   *)
(* the approval and never before it, and "rejected" and "cancelled" are     *)
(* final.  ApprovalEngine and LeaveLedger are shown to implement it.          *)
(***************************************************************************)
CONSTANT Requests

VARIABLES
    status,     \* Request.status
    effect      \* what apply_effect / apply_approved_leave left behind

lifecycleVars == <<status, effect>>

Statuses == {"draft", "pending", "approved", "rejected", "cancelled"}
Effects == {"none", "applied", "failed", "reverted"}

LifecycleTypeOK ==
    /\ status \in [Requests -> Statuses]
    /\ effect \in [Requests -> Effects]

LifecycleInit ==
    /\ status = [r \in Requests |-> "draft"]
    /\ effect = [r \in Requests |-> "none"]

\* The request is put before its approvers.
Open(r) ==
    /\ status[r] = "draft"
    /\ status' = [status EXCEPT ![r] = "pending"]
    /\ UNCHANGED effect

\* It is approved, by the last approver or because nobody has to approve it;
\* the approval stands even when its effect fails or its type has none.
Grant(r) ==
    /\ status[r] \in {"draft", "pending"}
    /\ status' = [status EXCEPT ![r] = "approved"]
    /\ \E outcome \in {"none", "applied", "failed"} :
           effect' = [effect EXCEPT ![r] = outcome]

Refuse(r) ==
    /\ status[r] = "pending"
    /\ status' = [status EXCEPT ![r] = "rejected"]
    /\ UNCHANGED effect

\* The requester withdraws it before anyone has decided.
Withdraw(r) ==
    /\ status[r] = "pending"
    /\ status' = [status EXCEPT ![r] = "cancelled"]
    /\ UNCHANGED effect

\* HR revokes an approved request, undoing the effect where an undo exists.
Annul(r) ==
    /\ status[r] = "approved"
    /\ status' = [status EXCEPT ![r] = "cancelled"]
    /\ \/ UNCHANGED effect
       \/ /\ effect[r] = "applied"
          /\ effect' = [effect EXCEPT ![r] = "reverted"]

LifecycleNext ==
    \E r \in Requests : Open(r) \/ Grant(r) \/ Refuse(r) \/ Withdraw(r) \/ Annul(r)

LifecycleSpec == LifecycleInit /\ [][LifecycleNext]_lifecycleVars
=============================================================================
