----------------------- MODULE ApprovalEngine_proofs -----------------------
(***************************************************************************)
(* Safety of the approval engine, for every organisation, every set of      *)
(* chains and every edit of them; in the last part, what holds only while   *)
(* nobody edits them.                                                      *)
(***************************************************************************)
EXTENDS ApprovalEngine, SequenceTheorems, TLAPS

\* What the other handlers know of a request that has not been submitted.
DraftIsBlank ==
    \A r \in Requests : status[r] = "draft" => \A k \in Keys : mark[r][k] = "absent"

\* The inductive invariant: the three promises support one another, for a
\* final approval needs the rows of later steps to be absent once none of
\* them is undecided.
EngineInv ==
    /\ TypeOK
    /\ DraftIsBlank
    /\ PassedStepsClosed
    /\ LastStepDecided
    /\ RejectionEndsRequest

\* What closing a step leaves of the rows of r and of the others'.
ClosedBy(r, e) ==
    /\ status[r] = "pending" /\ step[r] \in Nat
    /\ <<step[r], e>> \in Keys /\ <<step[r], e>>[1] = step[r]
    /\ mark'[r][<<step[r], e>>] = "approved"
    /\ \A k \in Keys : k[1] # step[r] => mark'[r][k] = mark[r][k]
    /\ \A k \in Keys : k[1] = step[r] => mark'[r][k] # "open"
    /\ \A k \in Keys : mark'[r][k] # "rejected"
    /\ \A q \in Requests : q # r => mark'[q] = mark[q]

-----------------------------------------------------------------------------

\* The keys are pairs of a step and an employee.
LEMMA KeyShape ==
    /\ \A s \in Orders, e \in Employees : /\ <<s, e>> \in Keys
                                          /\ <<s, e>>[1] = s
    /\ \A k \in Keys : k = <<k[1], k[2]>> /\ k[1] \in Orders /\ k[1] \in Nat
    BY DEF Keys, Orders

\* Every chain that an edit produces is a chain of at most MaxSteps steps.
LEMMA EditsKeepChains ==
    ASSUME TypeOK, NEW c \in Chains, NEW new \in ChainSpec,
           Len(new.steps) <= MaxSteps, Edit(c, new)
    PROVE  TypeOK'
    BY EngineAssumption DEF TypeOK, Edit, requestVars

\* Dropping an element of a sequence.
LEMMA RemoveAtType ==
    ASSUME NEW S, NEW q \in Seq(S), NEW i \in 1..Len(q)
    PROVE  RemoveAt(q, i) \in Seq(S) /\ Len(RemoveAt(q, i)) = Len(q) - 1
<1> DEFINE n == Len(q)
           front == SubSeq(q, 1, i - 1)
           rest == SubSeq(q, i + 1, n)
<1>1. /\ n \in Nat /\ i \in 1..n /\ i - 1 \in Int /\ i + 1 \in Int
      /\ \A j \in 1..(i - 1) : q[j] \in S
      /\ \A j \in (i + 1)..n : q[j] \in S
    OBVIOUS
<1>2. front \in Seq(S) /\ Len(front) = IF 1 <= i - 1 THEN (i - 1) - 1 + 1 ELSE 0
    BY <1>1, SubSeqProperties
<1>3. rest \in Seq(S) /\ Len(rest) = IF i + 1 <= n THEN n - (i + 1) + 1 ELSE 0
    BY <1>1, SubSeqProperties
<1>4. RemoveAt(q, i) = front \o rest
    BY DEF RemoveAt
<1> HIDE DEF front, rest, n
<1>5. front \o rest \in Seq(S) /\ Len(front \o rest) = Len(front) + Len(rest)
    BY <1>2, <1>3, ConcatProperties
<1>6. Len(front) + Len(rest) = n - 1
    BY <1>1, <1>2, <1>3
<1> QED
    BY <1>4, <1>5, <1>6 DEF n

\* Replacing a chain's steps keeps it a chain.
LEMMA ChainWithSteps ==
    ASSUME TypeOK, NEW c \in Chains, NEW q \in Seq(StepSpec)
    PROVE  /\ [chain[c] EXCEPT !.steps = q] \in ChainSpec
           /\ [chain[c] EXCEPT !.steps = q].steps = q
    BY DEF TypeOK, ChainSpec

LEMMA TypeStep == TypeOK /\ [Next]_vars => TypeOK'
<1> SUFFICES ASSUME TypeOK, [Next]_vars PROVE TypeOK'
    OBVIOUS
<1> USE EngineAssumption
<1>1. ASSUME NEW r \in Requests, SubmitAutoApproved(r) PROVE TypeOK'
    <2>1. Outcomes(r, FALSE) \subseteq L!Effects
        BY DEF Outcomes, L!Effects
    <2> QED
        BY <1>1, <2>1 DEF TypeOK, SubmitAutoApproved, L!Statuses, orgVars
<1>2. ASSUME NEW r \in Requests, Submit(r) PROVE TypeOK'
    <2>1. PICK c \in Selectable(r) : \E first \in Approvers(c, r) :
             /\ step' = [step EXCEPT ![r] = first[1]]
             /\ mark' = [mark EXCEPT ![r] =
                   [k \in Keys |-> IF k \in Approvers(c, r) THEN "open" ELSE "absent"]]
             /\ started' = [started EXCEPT ![r] = chain[c].steps]
        BY <1>2 DEF Submit
    <2>2. c \in Chains
        BY DEF Selectable
    <2>3. chain[c].steps \in Seq(StepSpec)
        BY <2>2 DEF TypeOK, ChainSpec
    <2>4. \A k \in Approvers(c, r) : k[1] \in 0..MaxSteps
        BY DEF Approvers, Keys, Orders
    <2> QED
        BY <1>2, <2>1, <2>3, <2>4 DEF TypeOK, Submit, L!Statuses, Marks, orgVars
<1>3. ASSUME NEW r \in Requests, Cancel(r) PROVE TypeOK'
    BY <1>3 DEF TypeOK, Cancel, L!Statuses, Marks, orgVars
<1>4. ASSUME NEW r \in Requests, Escalate(r) PROVE TypeOK'
    <2>1. step[r] + 1 \in 0..MaxSteps
        <3>1. PICK c \in Chains : step[r] < Len(chain[c].steps)
            BY <1>4 DEF Escalate, EscalationChains, EscalatesWith
        <3> QED
            BY <3>1 DEF TypeOK, ChainSpec
    <2> QED
        BY <1>4, <2>1 DEF TypeOK, Escalate, Marks, orgVars
<1>5. ASSUME NEW r \in Requests, Revoke(r) PROVE TypeOK'
    BY <1>5 DEF TypeOK, Revoke, L!Statuses, L!Effects, orgVars
<1>6. ASSUME NEW r \in Requests, NEW e \in Employees, Reject(r, e) PROVE TypeOK'
    BY <1>6 DEF TypeOK, Reject, L!Statuses, Marks, orgVars
<1>7. ASSUME NEW r \in Requests, NEW e \in Employees, Acknowledge(r, e) PROVE TypeOK'
    BY <1>7 DEF TypeOK, Acknowledge, L!Statuses, Marks, orgVars
<1>8. ASSUME NEW r \in Requests, NEW e \in Employees, ApproveStep(r, e) PROVE TypeOK'
    <2>1. AfterApproval(r, e) \in [Keys -> Marks]
        BY DEF AfterApproval, TypeOK, Marks
    <2>2. LaterSteps(r) \subseteq 0..MaxSteps
        BY DEF LaterSteps, Orders
    <2> QED
        BY <1>8, <2>1, <2>2 DEF TypeOK, ApproveStep, Closes, orgVars
<1>9. ASSUME NEW r \in Requests, NEW e \in Employees, ApproveFinally(r, e) PROVE TypeOK'
    <2>1. AfterApproval(r, e) \in [Keys -> Marks]
        BY DEF AfterApproval, TypeOK, Marks
    <2>2. Outcomes(r, TRUE) \subseteq L!Effects
        BY DEF Outcomes, L!Effects
    <2> QED
        BY <1>9, <2>1, <2>2 DEF TypeOK, ApproveFinally, Closes, L!Statuses, orgVars
<1>10. ASSUME OrgNext PROVE TypeOK'
    <2>1. ASSUME NEW c \in Chains, NEW s \in StepSpec, AddStep(c, s) PROVE TypeOK'
        <3> DEFINE new == [chain[c] EXCEPT !.steps = Append(@, s)]
        <3>1. chain[c].steps \in Seq(StepSpec) /\ Len(chain[c].steps) < MaxSteps
            BY <2>1 DEF AddStep, TypeOK, ChainSpec
        <3>2. /\ Append(chain[c].steps, s) \in Seq(StepSpec)
              /\ Len(Append(chain[c].steps, s)) <= MaxSteps
            BY <3>1
        <3>3. new \in ChainSpec /\ Len(new.steps) <= MaxSteps
            BY <3>2, ChainWithSteps
        <3> QED
            BY <2>1, <3>3, EditsKeepChains DEF AddStep
    <2>2. ASSUME NEW c \in Chains, NEW i \in Orders, DropStep(c, i) PROVE TypeOK'
        <3> DEFINE new == [chain[c] EXCEPT !.steps = RemoveAt(@, i)]
        <3>1. chain[c].steps \in Seq(StepSpec) /\ Len(chain[c].steps) <= MaxSteps
            BY DEF TypeOK, ChainSpec
        <3>2. i \in 1..Len(chain[c].steps)
            BY <2>2, <3>1 DEF DropStep, Orders
        <3>3. /\ RemoveAt(chain[c].steps, i) \in Seq(StepSpec)
              /\ Len(RemoveAt(chain[c].steps, i)) <= MaxSteps
            BY <3>1, <3>2, RemoveAtType
        <3>4. new \in ChainSpec /\ Len(new.steps) <= MaxSteps
            BY <3>3, ChainWithSteps
        <3> QED
            BY <2>2, <3>4, EditsKeepChains DEF DropStep
    <2>3. ASSUME NEW c \in Chains, NEW i \in Orders, MoveStepUp(c, i) PROVE TypeOK'
        <3> DEFINE old == chain[c].steps
                   new == [chain[c] EXCEPT !.steps =
                             [old EXCEPT ![i - 1] = old[i], ![i] = old[i - 1]]]
        <3>1. old \in Seq(StepSpec) /\ Len(old) <= MaxSteps
            BY DEF TypeOK, ChainSpec
        <3>2. i \in 1..Len(old) /\ i - 1 \in 1..Len(old)
            BY <2>3, <3>1 DEF MoveStepUp, Orders
        <3>3. /\ [old EXCEPT ![i - 1] = old[i], ![i] = old[i - 1]] \in Seq(StepSpec)
              /\ Len([old EXCEPT ![i - 1] = old[i], ![i] = old[i - 1]]) <= MaxSteps
            BY <3>1, <3>2
        <3>4. new \in ChainSpec /\ Len(new.steps) <= MaxSteps
            BY <3>3, ChainWithSteps
        <3> QED
            BY <2>3, <3>4, EditsKeepChains DEF MoveStepUp
    <2>4. ASSUME NEW c \in Chains, NEW i \in Orders, NEW s \in StepSpec, EditStep(c, i, s)
          PROVE  TypeOK'
        <3> DEFINE new == [chain[c] EXCEPT !.steps[i] = s]
        <3>1. chain[c].steps \in Seq(StepSpec) /\ Len(chain[c].steps) <= MaxSteps
            BY DEF TypeOK, ChainSpec
        <3>2. i \in 1..Len(chain[c].steps)
            BY <2>4, <3>1 DEF EditStep, Orders
        <3>3. [chain[c].steps EXCEPT ![i] = s] \in Seq(StepSpec)
            BY <3>1, <3>2
        <3>4. Len([chain[c].steps EXCEPT ![i] = s]) <= MaxSteps
            BY <3>1, <3>2
        <3>5. new \in ChainSpec /\ Len(new.steps) <= MaxSteps
            BY <3>3, <3>4, ChainWithSteps
        <3> QED
            BY <2>4, <3>5, EditsKeepChains DEF EditStep
    <2>5. ASSUME NEW c \in Chains, NEW a \in BOOLEAN, NEW p \in Priorities, EditChain(c, a, p)
          PROVE  TypeOK'
        <3> DEFINE new == [chain[c] EXCEPT !.active = a, !.priority = p]
        <3>1. new \in ChainSpec /\ Len(new.steps) <= MaxSteps
            BY DEF TypeOK, ChainSpec
        <3> QED
            BY <2>5, <3>1, EditsKeepChains DEF EditChain
    <2>6. ASSUME NEW seat \in Seats, NEW who \in SUBSET Employees, Reassign(seat, who)
          PROVE  TypeOK'
        BY <2>6 DEF TypeOK, Reassign, requestVars
    <2> QED
        BY <1>10, <2>1, <2>2, <2>3, <2>4, <2>5, <2>6 DEF OrgNext
<1>11. CASE UNCHANGED vars
    BY <1>11 DEF TypeOK, vars
<1> QED
    BY <1>1, <1>2, <1>3, <1>4, <1>5, <1>6, <1>7, <1>8, <1>9, <1>10, <1>11
    DEF Next, DecideNext

\* The tables hold rows of their declared shape whatever happens: no edit
\* of a chain, escalation or decision leaves the model's state space.
THEOREM TypeCorrect == Spec => []TypeOK
<1>1. Init => TypeOK
    BY EngineAssumption DEF Init, TypeOK, L!Statuses, L!Effects, Marks
<1>2. TypeOK /\ [Next]_vars => TypeOK'
    BY TypeStep
<1> QED
    BY <1>1, <1>2, PTL DEF Spec
-----------------------------------------------------------------------------
(* The engine's safety *)

\* Handlers that touch no request leave the invariant alone.
LEMMA OrgKeepsRequests ==
    ASSUME OrgNext PROVE UNCHANGED requestVars
    BY DEF OrgNext, AddStep, DropStep, MoveStepUp, EditStep, EditChain, Edit, Reassign

LEMMA EngineStep == EngineInv /\ [Next]_vars => EngineInv'
<1> SUFFICES ASSUME EngineInv, [Next]_vars PROVE EngineInv'
    OBVIOUS
<1> USE DEF EngineInv
<1>t. TypeOK'
    BY TypeStep
<1>1. ASSUME NEW r \in Requests, SubmitAutoApproved(r) PROVE EngineInv'
    <2>1. \A k \in Keys : mark'[r][k] = "absent"
        BY <1>1 DEF SubmitAutoApproved, DraftIsBlank
    <2>2. /\ mark' = mark /\ step' = step
          /\ status'[r] = "approved"
          /\ \A q \in Requests : q # r => status'[q] = status[q]
        BY <1>1 DEF SubmitAutoApproved, TypeOK
    <2>3. DraftIsBlank'
        BY <2>2 DEF DraftIsBlank
    <2>4. PassedStepsClosed'
        BY <2>1, <2>2 DEF PassedStepsClosed
    <2>5. LastStepDecided'
        BY <2>1, <2>2 DEF LastStepDecided
    <2>6. RejectionEndsRequest'
        BY <2>1, <2>2, <1>1 DEF RejectionEndsRequest, SubmitAutoApproved
    <2> QED
        BY <1>t, <2>3, <2>4, <2>5, <2>6
<1>2. ASSUME NEW r \in Requests, Submit(r) PROVE EngineInv'
    <2>1. PICK c \in Selectable(r) : \E first \in Approvers(c, r) :
             /\ \A k \in Approvers(c, r) : first[1] <= k[1]
             /\ step' = [step EXCEPT ![r] = first[1]]
             /\ mark' = [mark EXCEPT ![r] =
                   [k \in Keys |-> IF k \in Approvers(c, r) THEN "open" ELSE "absent"]]
        BY <1>2 DEF Submit
    <2>a. PICK first \in Approvers(c, r) :
             /\ \A k \in Approvers(c, r) : first[1] <= k[1]
             /\ step' = [step EXCEPT ![r] = first[1]]
             /\ mark' = [mark EXCEPT ![r] =
                   [k \in Keys |-> IF k \in Approvers(c, r) THEN "open" ELSE "absent"]]
        BY <2>1
    <2>b. first[1] \in Nat
        BY KeyShape DEF Approvers
    <2>2. /\ step'[r] = first[1] /\ first[1] \in Nat
          /\ status'[r] = "pending"
          /\ \A k \in Keys : mark'[r][k] = IF k \in Approvers(c, r) THEN "open" ELSE "absent"
          /\ \A q \in Requests : q # r =>
                /\ status'[q] = status[q] /\ step'[q] = step[q] /\ mark'[q] = mark[q]
        BY <1>2, <2>a, <2>b DEF Submit, TypeOK
    <2>3. \A k \in Keys : mark'[r][k] \in {"absent", "open"}
                          /\ (k[1] < step'[r] => mark'[r][k] = "absent")
        BY <2>a, <2>2, KeyShape
    <2>4. DraftIsBlank'
        BY <2>2 DEF DraftIsBlank
    <2>5. PassedStepsClosed'
        BY <2>2, <2>3 DEF PassedStepsClosed
    <2>6. LastStepDecided'
        BY <2>2 DEF LastStepDecided
    <2>7. RejectionEndsRequest'
        BY <2>2, <2>3 DEF RejectionEndsRequest
    <2> QED
        BY <1>t, <2>4, <2>5, <2>6, <2>7
<1>3. ASSUME NEW r \in Requests, Cancel(r) PROVE EngineInv'
    <2>1. /\ step' = step /\ status[r] = "pending" /\ status'[r] = "cancelled"
          /\ \A k \in Keys : mark[r][k] = "absent" \/ Undecided(mark[r][k])
          /\ \A k \in Keys : mark'[r][k] =
                IF Undecided(mark[r][k]) THEN "delegated" ELSE mark[r][k]
          /\ \A q \in Requests : q # r => status'[q] = status[q] /\ mark'[q] = mark[q]
        BY <1>3 DEF Cancel, TypeOK
    <2>2. DraftIsBlank'
        BY <2>1 DEF DraftIsBlank
    <2>3. PassedStepsClosed'
        BY <2>1 DEF PassedStepsClosed
    <2>4. LastStepDecided'
        BY <2>1 DEF LastStepDecided
    <2>5. RejectionEndsRequest'
        BY <2>1 DEF RejectionEndsRequest, Undecided
    <2> QED
        BY <1>t, <2>2, <2>3, <2>4, <2>5
<1>4. ASSUME NEW r \in Requests, Escalate(r) PROVE EngineInv'
    <2>1. /\ status' = status /\ status[r] = "pending"
          /\ step[r] \in Nat /\ step'[r] = step[r] + 1
          /\ \A k \in Keys : mark'[r][k] =
                IF k[1] = step[r] /\ Undecided(mark[r][k]) THEN "escalated" ELSE mark[r][k]
          /\ \A q \in Requests : q # r => step'[q] = step[q] /\ mark'[q] = mark[q]
        BY <1>4 DEF Escalate, TypeOK, Orders
    <2>2. DraftIsBlank'
        BY <2>1 DEF DraftIsBlank
    <2>3. PassedStepsClosed'
        <3>1. \A k \in Keys : k[1] < step[r] + 1 => mark'[r][k] # "open"
            BY <2>1, KeyShape DEF PassedStepsClosed, Undecided
        <3>2. \A k \in Keys : k[1] > step[r] + 1 => mark'[r][k] \in {"absent", "open"}
            BY <2>1, KeyShape DEF PassedStepsClosed
        <3> QED
            BY <2>1, <3>1, <3>2 DEF PassedStepsClosed
    <2>4. LastStepDecided'
        BY <2>1 DEF LastStepDecided
    <2>5. RejectionEndsRequest'
        BY <2>1 DEF RejectionEndsRequest, Undecided
    <2> QED
        BY <1>t, <2>2, <2>3, <2>4, <2>5
<1>5. ASSUME NEW r \in Requests, Revoke(r) PROVE EngineInv'
    <2>1. /\ step' = step /\ mark' = mark
          /\ status[r] = "approved" /\ status'[r] = "cancelled"
          /\ \A q \in Requests : q # r => status'[q] = status[q]
        BY <1>5 DEF Revoke, TypeOK
    <2> QED
        BY <1>t, <2>1
        DEF DraftIsBlank, PassedStepsClosed, LastStepDecided, RejectionEndsRequest
<1>6. ASSUME NEW r \in Requests, NEW e \in Employees, Reject(r, e) PROVE EngineInv'
    <2>1. /\ step' = step /\ status[r] = "pending" /\ status'[r] = "rejected"
          /\ <<step[r], e>> \in Keys
          /\ mark'[r] = [mark[r] EXCEPT ![<<step[r], e>>] = "rejected"]
          /\ \A q \in Requests : q # r => status'[q] = status[q] /\ mark'[q] = mark[q]
        BY <1>6, KeyShape DEF Reject, CanDecide, TypeOK
    <2>2. mark'[r][<<step[r], e>>] = "rejected"
        BY <2>1 DEF TypeOK
    <2>3. DraftIsBlank'
        BY <2>1 DEF DraftIsBlank
    <2>4. PassedStepsClosed'
        BY <2>1 DEF PassedStepsClosed
    <2>5. LastStepDecided'
        BY <2>1 DEF LastStepDecided
    <2>6. RejectionEndsRequest'
        BY <2>1, <2>2 DEF RejectionEndsRequest
    <2> QED
        BY <1>t, <2>3, <2>4, <2>5, <2>6
<1>7. ASSUME NEW r \in Requests, NEW e \in Employees, Acknowledge(r, e) PROVE EngineInv'
    <2>1. /\ step' = step /\ status' = status /\ status[r] = "pending"
          /\ <<step[r], e>> \in Keys /\ <<step[r], e>>[1] = step[r] /\ step[r] \in Nat
          /\ \A k \in Keys : mark'[r][k] =
                IF k = <<step[r], e>> THEN "approved" ELSE mark[r][k]
          /\ \A q \in Requests : q # r => mark'[q] = mark[q]
          /\ Undecided(mark[r][<<step[r], e>>])
        BY <1>7, KeyShape DEF Acknowledge, CanDecide, UndecidedAt, TypeOK, Orders
    <2>2. DraftIsBlank'
        BY <2>1 DEF DraftIsBlank
    <2>3. PassedStepsClosed'
        BY <2>1 DEF PassedStepsClosed
    <2>4. LastStepDecided'
        BY <2>1 DEF LastStepDecided
    <2>5. RejectionEndsRequest'
        BY <2>1 DEF RejectionEndsRequest, Undecided
    <2> QED
        BY <1>t, <2>2, <2>3, <2>4, <2>5
<1>8. ASSUME NEW r \in Requests, NEW e \in Employees, Closes(r, e)
      PROVE  ClosedBy(r, e)
    <2>1. /\ status[r] = "pending" /\ step[r] \in Orders
          /\ mark'[r] = AfterApproval(r, e)
          /\ \A q \in Requests : q # r => mark'[q] = mark[q]
        BY <1>8 DEF Closes, CanDecide, TypeOK
    <2>2. \A k \in Keys : mark[r][k] # "rejected"
        BY <2>1 DEF RejectionEndsRequest
    <2>3. \A k \in Keys : mark'[r][k] =
             IF k = <<step[r], e>> THEN "approved"
             ELSE IF k[1] = step[r] /\ Undecided(mark[r][k]) THEN "delegated"
             ELSE mark[r][k]
        BY <2>1 DEF AfterApproval
    <2>4. <<step[r], e>> \in Keys /\ <<step[r], e>>[1] = step[r] /\ step[r] \in Nat
        BY <2>1, KeyShape DEF Orders
    <2> QED
        BY <2>1, <2>2, <2>3, <2>4 DEF ClosedBy, Undecided
<1>9. ASSUME NEW r \in Requests, NEW e \in Employees, ApproveStep(r, e) PROVE EngineInv'
    <2>1. Closes(r, e) /\ status' = status
        BY <1>9 DEF ApproveStep
    <2>c. ClosedBy(r, e)
        BY <1>8, <2>1
    <2>2. PICK next \in LaterSteps(r) :
             /\ \A s \in LaterSteps(r) : next <= s
             /\ step' = [step EXCEPT ![r] = next]
        BY <1>9 DEF ApproveStep
    <2>3. /\ next \in Nat /\ next > step[r] /\ step'[r] = next
          /\ \A q \in Requests : q # r => step'[q] = step[q]
        BY <2>2 DEF LaterSteps, Orders, TypeOK
    <2>4. \A k \in Keys : k[1] > step[r] /\ k[1] < next => mark[r][k] # "open"
        <3> SUFFICES ASSUME NEW k \in Keys, k[1] > step[r], mark[r][k] = "open"
                     PROVE  next <= k[1]
            BY KeyShape, <2>3
        <3>1. k[2] \in UndecidedAt(r, k[1])
            BY KeyShape DEF UndecidedAt, Undecided, Keys
        <3> QED
            BY <3>1, <2>2, KeyShape DEF LaterSteps
    <2>5. PassedStepsClosed'
        <3>1. \A k \in Keys : k[1] < next => mark'[r][k] # "open"
            BY <2>c, <2>1, <2>3, <2>4, KeyShape DEF PassedStepsClosed, ClosedBy
        <3>2. \A k \in Keys : k[1] > next => mark'[r][k] \in {"absent", "open"}
            BY <2>c, <2>1, <2>3, KeyShape DEF PassedStepsClosed, ClosedBy
        <3> QED
            BY <2>c, <2>1, <2>3, <3>1, <3>2 DEF PassedStepsClosed, ClosedBy
    <2>6. DraftIsBlank'
        BY <2>c, <2>1 DEF DraftIsBlank, ClosedBy
    <2>7. LastStepDecided'
        BY <2>c, <2>1 DEF LastStepDecided, ClosedBy
    <2>8. RejectionEndsRequest'
        BY <2>c, <2>1 DEF RejectionEndsRequest, ClosedBy
    <2> QED
        BY <1>t, <2>5, <2>6, <2>7, <2>8
<1>10. ASSUME NEW r \in Requests, NEW e \in Employees, ApproveFinally(r, e) PROVE EngineInv'
    <2>1. /\ Closes(r, e) /\ step' = step /\ status'[r] = "approved"
          /\ \A q \in Requests : q # r => status'[q] = status[q]
        BY <1>10 DEF ApproveFinally, TypeOK
    <2>c. ClosedBy(r, e)
        BY <1>8, <2>1
    <2>2. \A k \in Keys : k[1] > step[r] => mark'[r][k] = "absent"
        <3> SUFFICES ASSUME NEW k \in Keys, k[1] > step[r] PROVE mark[r][k] = "absent"
            BY <2>c, <2>1, KeyShape DEF ClosedBy
        <3>1. mark[r][k] \in {"absent", "open"}
            BY <2>c, <2>1 DEF PassedStepsClosed, ClosedBy
        <3>2. k[1] \notin LaterSteps(r)
            BY <1>10 DEF ApproveFinally
        <3>3. k[2] \notin UndecidedAt(r, k[1])
            BY <3>2, KeyShape DEF LaterSteps
        <3>4. ~ Undecided(mark[r][k])
            BY <3>3, KeyShape DEF UndecidedAt, Keys
        <3> QED
            BY <3>1, <3>4 DEF Undecided
    <2>3. PassedStepsClosed'
        <3>1. \A k \in Keys : mark'[r][k] # "open"
            BY <2>c, <2>1, <2>2, KeyShape DEF PassedStepsClosed, ClosedBy
        <3> QED
            BY <2>c, <2>1, <3>1 DEF PassedStepsClosed, ClosedBy
    <2>4. LastStepDecided'
        <3>1. \A k \in Keys : mark'[r][k] # "absent" => <<step[r], e>>[1] >= k[1]
            BY <2>c, <2>1, <2>2, KeyShape DEF ClosedBy
        <3> QED
            BY <2>c, <2>1, <3>1 DEF LastStepDecided, ClosedBy
    <2>5. DraftIsBlank'
        BY <2>c, <2>1 DEF DraftIsBlank, ClosedBy
    <2>6. RejectionEndsRequest'
        BY <2>c, <2>1 DEF RejectionEndsRequest, ClosedBy
    <2> QED
        BY <1>t, <2>3, <2>4, <2>5, <2>6
<1>11. CASE OrgNext \/ UNCHANGED vars
    <2>1. UNCHANGED requestVars
        BY <1>11, OrgKeepsRequests DEF vars, requestVars
    <2> QED
        BY <1>t, <2>1
        DEF requestVars, DraftIsBlank, PassedStepsClosed, LastStepDecided, RejectionEndsRequest
<1> QED
    BY <1>1, <1>2, <1>3, <1>4, <1>5, <1>6, <1>7, <1>9, <1>10, <1>11 DEF Next, DecideNext

LEMMA EngineInvariant == Spec => []EngineInv
<1>1. Init => EngineInv
    <2>1. Init => TypeOK
        BY EngineAssumption DEF Init, TypeOK, L!Statuses, L!Effects, Marks
    <2> QED
        BY <2>1 DEF Init, EngineInv, DraftIsBlank, PassedStepsClosed, LastStepDecided,
                    RejectionEndsRequest
<1> QED
    BY <1>1, EngineStep, PTL DEF Spec

\* No request leaves an open row behind it: whatever the chain, its edits,
\* escalation and the order of decisions.
THEOREM InboxesAreClosed == Spec => []PassedStepsClosed
    BY EngineInvariant, PTL DEF EngineInv

\* Silence never becomes approval: however many steps escalation passes, an
\* approved request was approved at the last step that had approvers.
THEOREM SilenceIsNotApproval == Spec => []LastStepDecided
    BY EngineInvariant, PTL DEF EngineInv

\* A request is rejected exactly when one of its rows is.
THEOREM RejectionEnds == Spec => []RejectionEndsRequest
    BY EngineInvariant, PTL DEF EngineInv

-----------------------------------------------------------------------------
(* Action properties and refinement *)

\* No handler changes a decided row: each writes undecided rows only, and
\* Submit, which writes them all, finds none.
THEOREM AuditTrailKept == Spec => DecidedRowsKept
<1>1. EngineInv /\ [Next]_vars =>
         \A r \in Requests, k \in Keys :
            mark[r][k] \in {"approved", "rejected", "delegated"} => mark'[r][k] = mark[r][k]
    <2> SUFFICES ASSUME EngineInv, [Next]_vars, NEW q \in Requests, NEW k \in Keys,
                        mark[q][k] \in {"approved", "rejected", "delegated"}
                 PROVE  mark'[q][k] = mark[q][k]
        OBVIOUS
    <2>a. /\ mark \in [Requests -> [Keys -> Marks]]
          /\ \A r \in Requests : status[r] = "draft" => mark[r][k] = "absent"
        BY DEF EngineInv, TypeOK, DraftIsBlank
    <2>b. ~ Undecided(mark[q][k]) /\ mark[q][k] # "absent"
        BY DEF Undecided
    <2>1. ASSUME NEW r \in Requests, Submit(r) PROVE mark'[q][k] = mark[q][k]
        <3>1. r # q
            BY <2>1, <2>a, <2>b DEF Submit
        <3> QED
            BY <2>1, <2>a, <3>1 DEF Submit
    <2>2. ASSUME NEW r \in Requests, Cancel(r) PROVE mark'[q][k] = mark[q][k]
        BY <2>2, <2>a, <2>b DEF Cancel
    <2>7. ASSUME NEW r \in Requests, Escalate(r) PROVE mark'[q][k] = mark[q][k]
        BY <2>7, <2>a, <2>b DEF Escalate
    <2>3. ASSUME NEW r \in Requests, SubmitAutoApproved(r) \/ Revoke(r)
          PROVE  mark'[q][k] = mark[q][k]
        BY <2>3 DEF SubmitAutoApproved, Revoke
    <2>4. ASSUME NEW r \in Requests, NEW e \in Employees, Reject(r, e) \/ Acknowledge(r, e)
          PROVE  mark'[q][k] = mark[q][k]
        <3>1. Undecided(mark[r][<<step[r], e>>]) /\ <<step[r], e>> \in Keys
            BY <2>4, KeyShape DEF Reject, Acknowledge, CanDecide, UndecidedAt
        <3>2. \E m : mark' = [mark EXCEPT ![r][<<step[r], e>>] = m]
            BY <2>4 DEF Reject, Acknowledge
        <3> QED
            BY <3>1, <3>2, <2>a, <2>b
    <2>5. ASSUME NEW r \in Requests, NEW e \in Employees,
                 ApproveStep(r, e) \/ ApproveFinally(r, e)
          PROVE  mark'[q][k] = mark[q][k]
        <3>1. Undecided(mark[r][<<step[r], e>>])
            BY <2>5 DEF ApproveStep, ApproveFinally, Closes, CanDecide, UndecidedAt
        <3>2. mark' = [mark EXCEPT ![r] = AfterApproval(r, e)]
            BY <2>5 DEF ApproveStep, ApproveFinally, Closes
        <3> QED
            BY <3>1, <3>2, <2>a, <2>b DEF AfterApproval
    <2>6. CASE OrgNext \/ UNCHANGED vars
        BY <2>6, OrgKeepsRequests DEF vars, requestVars
    <2> QED
        BY <2>1, <2>2, <2>3, <2>4, <2>5, <2>6, <2>7 DEF Next, DecideNext
<1> QED
    BY <1>1, EngineInvariant, PTL DEF Spec, DecidedRowsKept

\* The engine implements the lifecycle people are promised, for every chain
\* and every edit made while requests are under way.
THEOREM EngineImplementsLifecycle == Spec => RefinesLifecycle
<1>1. Init => L!LifecycleInit
    BY DEF Init, L!LifecycleInit
<1>2. TypeOK /\ [Next]_vars => [L!LifecycleNext]_(L!lifecycleVars)
    <2> SUFFICES ASSUME TypeOK, [Next]_vars PROVE [L!LifecycleNext]_(L!lifecycleVars)
        OBVIOUS
    <2>1. ASSUME NEW r \in Requests, SubmitAutoApproved(r) PROVE L!Grant(r)
        <3>1. Outcomes(r, FALSE) \subseteq {"none", "applied", "failed"}
            BY DEF Outcomes
        <3> QED
            BY <2>1, <3>1 DEF SubmitAutoApproved, L!Grant
    <2>2. ASSUME NEW r \in Requests, Submit(r) PROVE L!Open(r)
        BY <2>2 DEF Submit, L!Open
    <2>3. ASSUME NEW r \in Requests, Cancel(r) PROVE L!Withdraw(r)
        BY <2>3 DEF Cancel, L!Withdraw
    <2>4. ASSUME NEW r \in Requests, Escalate(r) PROVE UNCHANGED L!lifecycleVars
        BY <2>4 DEF Escalate, L!lifecycleVars
    <2>5. ASSUME NEW r \in Requests, NEW e \in Employees, Reject(r, e) PROVE L!Refuse(r)
        BY <2>5 DEF Reject, CanDecide, L!Refuse
    <2>6. ASSUME NEW r \in Requests, NEW e \in Employees, Acknowledge(r, e) \/ ApproveStep(r, e)
          PROVE  UNCHANGED L!lifecycleVars
        BY <2>6 DEF Acknowledge, ApproveStep, L!lifecycleVars
    <2>7. ASSUME NEW r \in Requests, NEW e \in Employees, ApproveFinally(r, e) PROVE L!Grant(r)
        <3>1. Outcomes(r, TRUE) \subseteq {"none", "applied", "failed"}
            BY DEF Outcomes
        <3> QED
            BY <2>7, <3>1 DEF ApproveFinally, Closes, CanDecide, L!Grant
    <2>8. CASE OrgNext \/ UNCHANGED vars
        BY <2>8, OrgKeepsRequests DEF vars, requestVars, L!lifecycleVars
    <2>9. ASSUME NEW r \in Requests, Revoke(r) PROVE L!Annul(r)
        <3>1. effect \in [Requests -> L!Effects]
            BY DEF TypeOK
        <3>2. CASE Kind[r] \in {"leave", "reversible"} /\ effect[r] = "applied"
            BY <2>9, <3>2 DEF Revoke, L!Annul
        <3>3. CASE ~(Kind[r] \in {"leave", "reversible"} /\ effect[r] = "applied")
            BY <2>9, <3>1, <3>3 DEF Revoke, L!Annul
        <3> QED
            BY <3>2, <3>3
    <2> QED
        BY <2>1, <2>2, <2>3, <2>4, <2>5, <2>6, <2>7, <2>8, <2>9
        DEF Next, DecideNext, L!LifecycleNext
<1> QED
    BY <1>1, <1>2, TypeCorrect, PTL DEF Spec, RefinesLifecycle, L!LifecycleSpec
-----------------------------------------------------------------------------
(* While the organisation edits nothing.  A request carries no copy of the  *)
(* chain it was submitted to: IsAcknowledgement and EscalationChains read   *)
(* the chains as they stand.  What follows holds as long as nothing was     *)
(* edited and the chain they find is the request's own.                     *)

\* Of the chains a request matches, no two active ones have one priority.
DistinctPriorities ==
    \A r \in Requests : \A c, d \in Matching[r] :
       /\ InitChain[c].active /\ InitChain[d].active
       /\ InitChain[c].priority = InitChain[d].priority
       => c = d

\* The request type has at most one chain.
OneChain == \A c, d \in Chains : c = d

\* Every seat has an occupant besides the requester, and none of its
\* occupants has a scope that leaves the request type out.
SeatsAreStaffed ==
    \A s \in Seats :
       /\ InitOccupants[s] \cap Unscoped = {}
       /\ \A r \in Requests : InitOccupants[s] \ {Requester[r]} # {}

\* The rows of r are those chain c gave it.
RowsOf(r, c) ==
    /\ started[r] = chain[c].steps
    /\ \A k \in Keys : mark[r][k] # "absent" <=> k \in Approvers(c, r)

\* A request under way has the rows of the chain select_chain would select
\* for it now; one approved without approvers has none.
TravelsItsChain ==
    \A r \in Requests : status[r] \in {"pending", "approved"} =>
       \/ \A k \in Keys : mark[r][k] = "absent"
       \/ \E c \in Selectable(r) : RowsOf(r, c)

Unedited == chain = InitChain /\ occupants = InitOccupants

FrozenInv ==
    /\ EngineInv
    /\ edits = 0 => Unedited /\ TravelsItsChain

\* The step changes none of r's rows from or to absent.
SameRows(r) ==
    /\ started'[r] = started[r]
    /\ \A k \in Keys : mark'[r][k] = "absent" <=> mark[r][k] = "absent"

\* An edit is counted.
LEMMA NoEdit ==
    ASSUME TypeOK, [Next]_vars, edits' = 0
    PROVE  /\ edits = 0 /\ UNCHANGED <<chain, occupants>>
           /\ ~ OrgNext
<1>1. edits \in Nat
    BY EngineAssumption DEF TypeOK
<1>2. ~ OrgNext
    <2>1. \A c, new : Edit(c, new) => edits' = edits + 1
        BY DEF Edit
    <2>2. OrgNext => edits' = edits + 1
        BY <2>1, Zenon DEF OrgNext, AddStep, DropStep, MoveStepUp, EditStep, EditChain, Reassign
    <2> QED
        BY <1>1, <2>2
<1>3. CASE UNCHANGED vars
    BY <1>2, <1>3 DEF vars
<1>4. CASE Next
    <2>1. UNCHANGED orgVars
        BY <1>2, <1>4
        DEF Next, DecideNext, SubmitAutoApproved, Submit, Cancel, Escalate, Revoke,
            Reject, Acknowledge, ApproveStep, ApproveFinally
    <2> QED
        BY <1>2, <2>1 DEF orgVars
<1> QED
    BY <1>3, <1>4

\* Rows appear when the request is submitted and at no other time; a closed
\* request stays closed.
LEMMA RowsAreFixed ==
    ASSUME EngineInv, [Next]_vars, NEW q \in Requests
    PROVE  \/ Submit(q)
           \/ /\ SameRows(q)
              /\ status'[q] \in {"pending", "approved"} =>
                    status[q] \in {"draft", "pending", "approved"}
<1>t. /\ mark \in [Requests -> [Keys -> Marks]] /\ status \in [Requests -> L!Statuses]
      /\ started \in [Requests -> Seq(StepSpec)]
    BY DEF EngineInv, TypeOK
<1> DEFINE Kept == /\ SameRows(q)
                   /\ status'[q] \in {"pending", "approved"} =>
                         status[q] \in {"draft", "pending", "approved"}
<1> SUFFICES ASSUME ~ Submit(q) PROVE Kept
    OBVIOUS
<1>1. ASSUME NEW r \in Requests, SubmitAutoApproved(r) PROVE Kept
    BY <1>1, <1>t DEF SubmitAutoApproved, SameRows
<1>2. ASSUME NEW r \in Requests, Submit(r) PROVE Kept
    <2>1. r # q
        BY <1>2
    <2> QED
        BY <1>2, <1>t, <2>1 DEF Submit, SameRows
<1>3. ASSUME NEW r \in Requests, Cancel(r) PROVE Kept
    BY <1>3, <1>t DEF Cancel, SameRows, Undecided
<1>4. ASSUME NEW r \in Requests, Escalate(r) PROVE Kept
    BY <1>4, <1>t DEF Escalate, SameRows, Undecided
<1>5. ASSUME NEW r \in Requests, Revoke(r) PROVE Kept
    BY <1>5, <1>t DEF Revoke, SameRows
<1>6. ASSUME NEW r \in Requests, NEW e \in Employees, Reject(r, e) \/ Acknowledge(r, e)
      PROVE  Kept
    <2>1. Undecided(mark[r][<<step[r], e>>]) /\ <<step[r], e>> \in Keys /\ status[r] = "pending"
        BY <1>6, KeyShape DEF Reject, Acknowledge, CanDecide, UndecidedAt
    <2>2. \E m \in {"approved", "rejected"} : mark' = [mark EXCEPT ![r][<<step[r], e>>] = m]
        BY <1>6 DEF Reject, Acknowledge
    <2>3. started' = started
        BY <1>6 DEF Reject, Acknowledge
    <2>4. SameRows(q)
        BY <2>1, <2>2, <2>3, <1>t DEF SameRows, Undecided
    <2>5. \A p \in Requests : p # r => status'[p] = status[p]
        BY <1>6, <1>t DEF Reject, Acknowledge
    <2> QED
        BY <2>1, <2>4, <2>5
<1>7. ASSUME NEW r \in Requests, NEW e \in Employees, ApproveStep(r, e) \/ ApproveFinally(r, e)
      PROVE  Kept
    <2>1. Undecided(mark[r][<<step[r], e>>]) /\ status[r] = "pending"
        BY <1>7 DEF ApproveStep, ApproveFinally, Closes, CanDecide, UndecidedAt
    <2>2. mark' = [mark EXCEPT ![r] = AfterApproval(r, e)] /\ started' = started
        BY <1>7 DEF ApproveStep, ApproveFinally, Closes
    <2>3. SameRows(q)
        BY <2>1, <2>2, <1>t DEF SameRows, AfterApproval, Undecided
    <2>4. \A p \in Requests : p # r => status'[p] = status[p]
        BY <1>7, <1>t DEF ApproveStep, ApproveFinally
    <2> QED
        BY <2>1, <2>3, <2>4
<1>8. CASE OrgNext \/ UNCHANGED vars
    BY <1>8, <1>t, OrgKeepsRequests DEF vars, requestVars, SameRows, L!Statuses
<1> QED
    BY <1>1, <1>2, <1>3, <1>4, <1>5, <1>6, <1>7, <1>8 DEF Next, DecideNext

LEMMA FrozenStep == FrozenInv /\ [Next]_vars => FrozenInv'
<1> SUFFICES ASSUME FrozenInv, [Next]_vars PROVE FrozenInv'
    OBVIOUS
<1>1. EngineInv /\ EngineInv' /\ TypeOK
    BY EngineStep DEF FrozenInv, EngineInv
<1> SUFFICES ASSUME edits' = 0 PROVE Unedited' /\ TravelsItsChain'
    BY <1>1 DEF FrozenInv
<1>2. Unedited /\ TravelsItsChain /\ UNCHANGED <<chain, occupants>> /\ Unedited'
    BY <1>1, NoEdit DEF FrozenInv, Unedited
<1>3. \A r \in Requests : /\ Selectable(r)' = Selectable(r)
                          /\ \A c \in Chains : Approvers(c, r)' = Approvers(c, r)
    BY <1>2 DEF Selectable, Approvers
<1>4. ASSUME NEW q \in Requests, status'[q] \in {"pending", "approved"}
      PROVE  \/ \A k \in Keys : mark'[q][k] = "absent"
             \/ \E c \in Selectable(q)' : RowsOf(q, c)'
    <2>1. CASE Submit(q)
        <3>1. PICK c \in Selectable(q) :
                 /\ mark' = [mark EXCEPT ![q] =
                       [k \in Keys |-> IF k \in Approvers(c, q) THEN "open" ELSE "absent"]]
                 /\ started' = [started EXCEPT ![q] = chain[c].steps]
            BY <2>1 DEF Submit
        <3>2. /\ \A k \in Keys : mark'[q][k] = IF k \in Approvers(c, q) THEN "open" ELSE "absent"
              /\ started'[q] = chain[c].steps
            BY <3>1, <1>1 DEF TypeOK
        <3>3. c \in Chains
            BY EngineAssumption DEF Selectable
        <3>4. RowsOf(q, c)'
            BY <3>2, <3>3, <1>2, <1>3 DEF RowsOf
        <3> QED
            BY <3>4, <3>3, <1>3
    <2>2. CASE ~ Submit(q)
        <3>1. /\ SameRows(q)
              /\ status[q] \in {"draft", "pending", "approved"}
            BY <2>2, <1>1, <1>4, RowsAreFixed
        <3>2. \/ \A k \in Keys : mark[q][k] = "absent"
              \/ \E c \in Selectable(q) : RowsOf(q, c)
            BY <3>1, <1>1, <1>2 DEF TravelsItsChain, EngineInv, DraftIsBlank
        <3>3. ASSUME NEW c \in Selectable(q), RowsOf(q, c) PROVE RowsOf(q, c)'
            <4>1. c \in Chains
                BY EngineAssumption DEF Selectable
            <4> QED
                BY <4>1, <3>1, <3>3, <1>2, <1>3 DEF RowsOf, SameRows
        <3> QED
            BY <3>1, <3>2, <3>3, <1>3 DEF SameRows
    <2> QED
        BY <2>1, <2>2
<1> QED
    BY <1>2, <1>4 DEF TravelsItsChain

LEMMA FrozenInvariant == Spec => []FrozenInv
<1>1. Init => FrozenInv
    <2>1. Init => TypeOK
        BY EngineAssumption DEF Init, TypeOK, L!Statuses, L!Effects, Marks
    <2> QED
        BY <2>1 DEF Init, FrozenInv, EngineInv, DraftIsBlank, PassedStepsClosed,
                    LastStepDecided, RejectionEndsRequest, Unedited, TravelsItsChain
<1> QED
    BY <1>1, FrozenStep, PTL DEF Spec

\* Two chains a request selects are one.
LEMMA OneSelected ==
    ASSUME TypeOK, Unedited, DistinctPriorities, NEW r \in Requests,
           NEW c \in Selectable(r), NEW d \in Selectable(r)
    PROVE  c = d
<1>1. /\ c \in Matching[r] /\ d \in Matching[r]
      /\ c \in Chains /\ d \in Chains
    BY EngineAssumption DEF Selectable
<1>2. /\ InitChain[c].active /\ InitChain[d].active
      /\ InitChain[c].priority <= InitChain[d].priority
      /\ InitChain[d].priority <= InitChain[c].priority
    BY DEF Selectable, Unedited
<1>3. InitChain[c].priority \in Int /\ InitChain[d].priority \in Int
    BY <1>1, EngineAssumption DEF ChainSpec
<1>4. InitChain[c].priority = InitChain[d].priority
    BY <1>2, <1>3
<1> QED
    BY <1>1, <1>2, <1>4 DEF DistinctPriorities

-----------------------------------------------------------------------------
(* Acknowledgement steps *)

\* A row of an acknowledgement step is closed only with its request.
AckRowsStay ==
    \A r \in Requests, k \in Keys :
       /\ status[r] \in {"pending", "approved"}
       /\ k[1] <= Len(started[r]) /\ started[r][k[1]].ack
       => mark[r][k] # "delegated"

\* The two ways a row is closed without a decision.
LEMMA WhoDelegates ==
    ASSUME EngineInv, [Next]_vars, NEW q \in Requests, NEW k \in Keys,
           status'[q] \in {"pending", "approved"},
           mark[q][k] # "delegated", mark'[q][k] = "delegated"
    PROVE  \E e \in Employees :
              /\ Closes(q, e) /\ k[1] = step[q] /\ k # <<step[q], e>>
              /\ Undecided(mark[q][k])
<1>t. /\ mark \in [Requests -> [Keys -> Marks]] /\ status \in [Requests -> L!Statuses]
      /\ step \in [Requests -> 0..MaxSteps]
    BY DEF EngineInv, TypeOK
<1>1. ASSUME NEW r \in Requests,
             SubmitAutoApproved(r) \/ Submit(r) \/ Cancel(r) \/ Escalate(r) \/ Revoke(r)
      PROVE  FALSE
    <2>1. CASE SubmitAutoApproved(r) \/ Revoke(r)
        BY <2>1 DEF SubmitAutoApproved, Revoke
    <2>2. CASE Submit(r)
        BY <2>2, <1>t DEF Submit
    <2>3. CASE Cancel(r)
        BY <2>3, <1>t DEF Cancel
    <2>4. CASE Escalate(r)
        BY <2>4, <1>t DEF Escalate
    <2> QED
        BY <1>1, <2>1, <2>2, <2>3, <2>4
<1>2. ASSUME NEW r \in Requests, NEW e \in Employees, Reject(r, e) \/ Acknowledge(r, e)
      PROVE  FALSE
    <2>1. <<step[r], e>> \in Keys
        BY <1>2, KeyShape DEF Reject, Acknowledge, CanDecide
    <2>2. \E m \in {"approved", "rejected"} : mark' = [mark EXCEPT ![r][<<step[r], e>>] = m]
        BY <1>2 DEF Reject, Acknowledge
    <2> QED
        BY <2>1, <2>2, <1>t
<1>3. ASSUME NEW r \in Requests, NEW e \in Employees, ApproveStep(r, e) \/ ApproveFinally(r, e)
      PROVE  /\ Closes(q, e) /\ k[1] = step[q] /\ k # <<step[q], e>>
             /\ Undecided(mark[q][k])
    <2>1. Closes(r, e)
        BY <1>3 DEF ApproveStep, ApproveFinally
    <2>2. mark' = [mark EXCEPT ![r] = AfterApproval(r, e)]
        BY <2>1 DEF Closes
    <2>3. r = q
        BY <2>2, <1>t
    <2> QED
        BY <2>1, <2>2, <2>3, <1>t DEF AfterApproval
<1>4. CASE OrgNext \/ UNCHANGED vars
    BY <1>4, OrgKeepsRequests DEF vars, requestVars
<1> QED
    BY <1>1, <1>2, <1>3, <1>4 DEF Next, DecideNext

\* An acknowledgement step is left only by the last of its approvers.
LEMMA AckStep ==
    ASSUME DistinctPriorities
    PROVE  /\ FrozenInv /\ FrozenInv' /\ (edits = 0 => AckRowsStay) /\ [Next]_vars
           => (edits = 0 => AckRowsStay)'
<1> SUFFICES ASSUME FrozenInv, FrozenInv', edits = 0 => AckRowsStay, [Next]_vars, edits' = 0,
                    NEW q \in Requests, NEW k \in Keys,
                    status'[q] \in {"pending", "approved"},
                    k[1] <= Len(started'[q]), started'[q][k[1]].ack,
                    mark'[q][k] = "delegated"
             PROVE  FALSE
    BY DEF AckRowsStay
<1>1. /\ EngineInv /\ TypeOK /\ edits = 0 /\ AckRowsStay
      /\ Unedited /\ TravelsItsChain
    BY NoEdit DEF FrozenInv, EngineInv
<1>2. CASE Submit(q)
    <2>1. \E c : mark' = [mark EXCEPT ![q] =
                   [j \in Keys |-> IF j \in Approvers(c, q) THEN "open" ELSE "absent"]]
        BY <1>2 DEF Submit
    <2> QED
        BY <2>1, <1>1 DEF TypeOK
<1>3. CASE ~ Submit(q)
    <2>1. /\ started'[q] = started[q]
          /\ \A j \in Keys : mark'[q][j] = "absent" <=> mark[q][j] = "absent"
          /\ status[q] \in {"draft", "pending", "approved"}
        BY <1>1, <1>3, RowsAreFixed DEF SameRows
    <2>2. status[q] # "draft"
        BY <2>1, <1>1 DEF EngineInv, DraftIsBlank
    <2>3. mark[q][k] # "delegated"
        BY <2>1, <2>2, <1>1 DEF AckRowsStay
    <2>4. PICK e \in Employees : /\ Closes(q, e) /\ k[1] = step[q] /\ k # <<step[q], e>>
                                 /\ Undecided(mark[q][k])
        BY <2>3, <1>1, WhoDelegates
    <2>5. status[q] = "pending"
        BY <2>4 DEF Closes, CanDecide
    <2>6. PICK c \in Selectable(q) : RowsOf(q, c)
        BY <2>4, <2>5, <1>1 DEF TravelsItsChain, Undecided
    <2>7. /\ step[q] <= Len(chain[c].steps)
          /\ chain[c].steps[step[q]].ack
        BY <2>1, <2>4, <2>6 DEF RowsOf
    <2>8. \A d \in Selectable(q) : d = c
        BY <2>6, <1>1, OneSelected
    <2>9. ~ IsAcknowledgement(q, FALSE)
        BY <2>6, <2>7, <2>8 DEF IsAcknowledgement
    <2>10. UndecidedAt(q, step[q]) = {e}
        BY <2>4, <2>9 DEF Closes
    <2>11. k[2] \in UndecidedAt(q, step[q]) /\ k = <<step[q], k[2]>>
        BY <2>4, KeyShape DEF UndecidedAt, Keys
    <2> QED
        BY <2>4, <2>10, <2>11
<1> QED
    BY <1>2, <1>3

\* As long as no chain is edited and no two chains tie, an acknowledgement
\* step is passed only when everyone it asked has acknowledged or has been
\* escalated past: decide closes the siblings only after the last of them.
THEOREM AcknowledgementsAreHeard ==
    ASSUME DistinctPriorities
    PROVE  Spec => [](edits = 0 => AckHeardByAll)
<1>1. Init => AckRowsStay
    BY DEF Init, AckRowsStay
<1>2. FrozenInv /\ (edits = 0 => AckRowsStay) => (edits = 0 => AckHeardByAll)
    <2> SUFFICES ASSUME FrozenInv, AckRowsStay PROVE AckHeardByAll
        OBVIOUS
    <2>1. /\ mark \in [Requests -> [Keys -> Marks]]
          /\ \A r \in Requests, k \in Keys : status[r] = "approved" => mark[r][k] # "open"
          /\ \A r \in Requests, k \in Keys : status[r] = "approved" => mark[r][k] # "rejected"
        BY DEF FrozenInv, EngineInv, TypeOK, PassedStepsClosed, RejectionEndsRequest
    <2> QED
        BY <2>1 DEF AckRowsStay, AckHeardByAll, Marks
<1>3. /\ FrozenInv /\ FrozenInv' /\ (edits = 0 => AckRowsStay) /\ [Next]_vars
      => (edits = 0 => AckRowsStay)'
    BY AckStep
<1> QED
    BY <1>1, <1>2, <1>3, FrozenInvariant, PTL DEF Spec

-----------------------------------------------------------------------------
(* Escalation *)

\* With one chain, the step escalate_overdue reads is the request's own.
LEMMA EscalatesItsChain ==
    ASSUME OneChain, NEW r \in Requests, NEW c, RowsOf(r, c), c \in Selectable(r),
           NEW d \in EscalationChains(step[r])
    PROVE  chain[d].steps = started[r] /\ step[r] <= Len(started[r])
<1>1. c \in Chains /\ d \in Chains
    BY EngineAssumption DEF Selectable, EscalationChains
<1>2. c = d
    BY <1>1 DEF OneChain
<1> QED
    BY <1>2 DEF RowsOf, EscalationChains

\* With one chain that nobody edits, escalation passes over no seat whose
\* decision time must not replace: hr_manager, ceo, owner, a named person.
THEOREM NoSkipSeatsAreKept ==
    ASSUME OneChain
    PROVE  Spec => [](edits = 0 => NoSkipSeatKept)
<1>1. Init => NoSkipSeatKept
    BY DEF Init, NoSkipSeatKept
<1>2. /\ FrozenInv /\ (edits = 0 => NoSkipSeatKept) /\ [Next]_vars
      => (edits = 0 => NoSkipSeatKept)'
    <2> SUFFICES ASSUME FrozenInv, edits = 0 => NoSkipSeatKept, [Next]_vars, edits' = 0,
                        NEW q \in Requests, NEW k \in Keys, mark'[q][k] = "escalated"
                 PROVE  started'[q][k[1]].seat \notin NoSkip
        BY DEF NoSkipSeatKept
    <2>1. /\ EngineInv /\ TypeOK /\ edits = 0 /\ NoSkipSeatKept
          /\ Unedited /\ TravelsItsChain
        BY NoEdit DEF FrozenInv, EngineInv
    <2>t. mark \in [Requests -> [Keys -> Marks]] /\ started \in [Requests -> Seq(StepSpec)]
        BY <2>1 DEF TypeOK
    <2>2. CASE mark[q][k] = "escalated"
        <3>1. ~ Submit(q)
            <4> SUFFICES ASSUME Submit(q) PROVE FALSE
                OBVIOUS
            <4>1. \E c : mark' = [mark EXCEPT ![q] =
                       [j \in Keys |-> IF j \in Approvers(c, q) THEN "open" ELSE "absent"]]
                BY DEF Submit
            <4> QED
                BY <4>1, <2>t
        <3>2. started'[q] = started[q]
            BY <3>1, <2>1, RowsAreFixed DEF SameRows
        <3> QED
            BY <3>2, <2>1, <2>2 DEF NoSkipSeatKept
    <2>3. CASE mark[q][k] # "escalated"
        <3>1. ASSUME NEW r \in Requests, Escalate(r) PROVE started'[q][k[1]].seat \notin NoSkip
            <4>1. PICK c \in EscalationChains(step[r]) : EscalatesWith(c, step[r])
                BY <3>1 DEF Escalate
            <4>2. /\ r = q /\ k[1] = step[q] /\ Undecided(mark[q][k])
                  /\ status[q] = "pending" /\ started' = started
                BY <3>1, <2>3, <2>t DEF Escalate
            <4>3. PICK d \in Selectable(q) : RowsOf(q, d)
                BY <4>2, <2>1 DEF TravelsItsChain, Undecided
            <4>4. chain[c].steps = started[q]
                BY <4>1, <4>2, <4>3, EscalatesItsChain
            <4> QED
                BY <4>1, <4>2, <4>4 DEF EscalatesWith
        <3>2. ASSUME NEW r \in Requests,
                     SubmitAutoApproved(r) \/ Submit(r) \/ Cancel(r) \/ Revoke(r)
              PROVE  FALSE
            <4>1. CASE SubmitAutoApproved(r) \/ Revoke(r)
                BY <2>3, <4>1 DEF SubmitAutoApproved, Revoke
            <4>2. CASE Submit(r)
                BY <2>3, <2>t, <4>2 DEF Submit
            <4>3. CASE Cancel(r)
                BY <2>3, <2>t, <4>3 DEF Cancel
            <4> QED
                BY <3>2, <4>1, <4>2, <4>3
        <3>3. ASSUME NEW r \in Requests, NEW e \in Employees, Reject(r, e) \/ Acknowledge(r, e)
              PROVE  FALSE
            <4>1. <<step[r], e>> \in Keys
                BY <3>3, KeyShape DEF Reject, Acknowledge, CanDecide
            <4>2. \E m \in {"approved", "rejected"} :
                     mark' = [mark EXCEPT ![r][<<step[r], e>>] = m]
                BY <3>3 DEF Reject, Acknowledge
            <4> QED
                BY <4>1, <4>2, <2>3, <2>t
        <3>4. ASSUME NEW r \in Requests, NEW e \in Employees,
                     ApproveStep(r, e) \/ ApproveFinally(r, e)
              PROVE  FALSE
            <4>1. mark' = [mark EXCEPT ![r] = AfterApproval(r, e)]
                BY <3>4 DEF ApproveStep, ApproveFinally, Closes
            <4> QED
                BY <4>1, <2>3, <2>t DEF AfterApproval
        <3>5. CASE OrgNext \/ UNCHANGED vars
            BY <3>5, <2>3, OrgKeepsRequests DEF vars, requestVars
        <3> QED
            BY <3>1, <3>2, <3>3, <3>4, <3>5 DEF Next, DecideNext
    <2> QED
        BY <2>2, <2>3
<1> QED
    BY <1>1, <1>2, FrozenInvariant, PTL DEF Spec

-----------------------------------------------------------------------------
(* A pending request can be decided *)

\* The current step of a pending request has somebody who has not decided.
SomeoneIsAsked ==
    \A r \in Requests : status[r] = "pending" =>
       step[r] \in Orders /\ UndecidedAt(r, step[r]) # {}

\* Every step of a request's chain has a row, for its seat is staffed.
LEMMA EveryStepHasARow ==
    ASSUME TypeOK, Unedited, SeatsAreStaffed, NEW r \in Requests, NEW c \in Selectable(r),
           RowsOf(r, c), NEW s \in 1..Len(started[r])
    PROVE  s \in Orders /\ \E e \in Employees : mark[r][<<s, e>>] # "absent"
<1>1. c \in Chains
    BY EngineAssumption DEF Selectable
<1>2. /\ chain[c].steps \in Seq(StepSpec) /\ Len(chain[c].steps) <= MaxSteps
      /\ started[r] = chain[c].steps
    BY <1>1 DEF TypeOK, ChainSpec, RowsOf
<1>3. s \in Orders
    BY <1>2, EngineAssumption DEF Orders
<1>4. chain[c].steps[s].seat \in Seats
    <2>1. chain[c].steps[s] \in StepSpec
        BY <1>2
    <2> QED
        BY <2>1 DEF StepSpec
<1>5. PICK e \in InitOccupants[chain[c].steps[s].seat] \ {Requester[r]} : TRUE
    BY <1>4 DEF SeatsAreStaffed
<1>6. e \in Employees
    BY <1>4, <1>5, EngineAssumption
<1>7. <<s, e>> \in Keys /\ <<s, e>>[1] = s /\ <<s, e>>[2] = e
    BY <1>3, <1>6 DEF Keys
<1>8. <<s, e>> \in Approvers(c, r)
    BY <1>2, <1>5, <1>7 DEF Approvers, Unedited
<1> QED
    BY <1>3, <1>6, <1>7, <1>8 DEF RowsOf

LEMMA AskedStep ==
    ASSUME OneChain, SeatsAreStaffed
    PROVE  /\ FrozenInv /\ (edits = 0 => SomeoneIsAsked) /\ [Next]_vars
           => (edits = 0 => SomeoneIsAsked)'
<1> SUFFICES ASSUME FrozenInv, edits = 0 => SomeoneIsAsked, [Next]_vars, edits' = 0,
                    NEW q \in Requests, status'[q] = "pending"
             PROVE  step'[q] \in Orders /\ UndecidedAt(q, step[q])' # {}
    BY DEF SomeoneIsAsked
<1>1. /\ EngineInv /\ TypeOK /\ edits = 0 /\ SomeoneIsAsked
      /\ Unedited /\ TravelsItsChain
    BY NoEdit DEF FrozenInv, EngineInv
<1>t. /\ mark \in [Requests -> [Keys -> Marks]] /\ status \in [Requests -> L!Statuses]
      /\ step \in [Requests -> 0..MaxSteps] /\ started \in [Requests -> Seq(StepSpec)]
    BY <1>1 DEF TypeOK
<1> DEFINE Asked == step'[q] \in Orders /\ UndecidedAt(q, step[q])' # {}
<1>2. ASSUME step'[q] \in Orders,
             \E e \in Employees : Undecided(mark'[q][<<step'[q], e>>])
      PROVE  Asked
    BY <1>2 DEF UndecidedAt
<1>3. ASSUME status[q] = "pending", step'[q] = step[q], mark'[q] = mark[q] PROVE Asked
    <2>1. step[q] \in Orders /\ \E e \in Employees : Undecided(mark[q][<<step[q], e>>])
        BY <1>1, <1>3 DEF SomeoneIsAsked, UndecidedAt
    <2> QED
        BY <2>1, <1>2, <1>3
<1>4. ASSUME NEW r \in Requests, SubmitAutoApproved(r) \/ Cancel(r) \/ Revoke(r) PROVE Asked
    <2>1. status[q] = "pending" /\ step'[q] = step[q] /\ mark'[q] = mark[q]
        BY <1>4, <1>t DEF SubmitAutoApproved, Cancel, Revoke
    <2> QED
        BY <2>1, <1>3
<1>5. ASSUME NEW r \in Requests, Submit(r) PROVE Asked
    <2>1. PICK c \in Selectable(r) : \E first \in Approvers(c, r) :
             /\ step' = [step EXCEPT ![r] = first[1]]
             /\ mark' = [mark EXCEPT ![r] =
                   [k \in Keys |-> IF k \in Approvers(c, r) THEN "open" ELSE "absent"]]
        BY <1>5 DEF Submit
    <2>2. PICK first \in Approvers(c, r) :
             /\ step' = [step EXCEPT ![r] = first[1]]
             /\ mark' = [mark EXCEPT ![r] =
                   [k \in Keys |-> IF k \in Approvers(c, r) THEN "open" ELSE "absent"]]
        BY <2>1
    <2>3. CASE r = q
        <3>1. /\ first \in Keys /\ first = <<first[1], first[2]>>
              /\ first[1] \in Orders /\ first[2] \in Employees
            BY KeyShape DEF Approvers, Keys
        <3>2. step'[q] = first[1] /\ mark'[q][first] = "open"
            BY <2>2, <2>3, <3>1, <1>t
        <3>3. mark'[q][<<step'[q], first[2]>>] = "open"
            BY <3>1, <3>2
        <3> QED
            BY <3>1, <3>2, <3>3, <1>2 DEF Undecided
    <2>4. CASE r # q
        <3>1. status[q] = "pending" /\ step'[q] = step[q] /\ mark'[q] = mark[q]
            BY <1>5, <2>2, <2>4, <1>t DEF Submit
        <3> QED
            BY <3>1, <1>3
    <2> QED
        BY <2>3, <2>4
<1>6. ASSUME NEW r \in Requests, Escalate(r) PROVE Asked
    <2>1. CASE r # q
        <3>1. status[q] = "pending" /\ step'[q] = step[q] /\ mark'[q] = mark[q]
            BY <1>6, <2>1, <1>t DEF Escalate
        <3> QED
            BY <3>1, <1>3
    <2>2. CASE r = q
        <3>1. /\ status[q] = "pending" /\ step[q] \in Orders /\ UndecidedAt(q, step[q]) # {}
              /\ step'[q] = step[q] + 1
              /\ \A k \in Keys : k[1] # step[q] => mark'[q][k] = mark[q][k]
            BY <1>6, <2>2, <1>t DEF Escalate
        <3>2. PICK c \in EscalationChains(step[q]) : EscalatesWith(c, step[q])
            BY <1>6, <2>2 DEF Escalate
        <3>3. PICK d \in Selectable(q) : RowsOf(q, d)
            <4>1. PICK e \in Employees : Undecided(mark[q][<<step[q], e>>])
                BY <3>1 DEF UndecidedAt
            <4>2. <<step[q], e>> \in Keys
                BY <3>1, KeyShape
            <4> QED
                BY <3>1, <4>1, <4>2, <1>1 DEF TravelsItsChain, Undecided
        <3>4. chain[c].steps = started[q]
            BY <3>2, <3>3, EscalatesItsChain
        <3>5. step[q] + 1 \in 1..Len(started[q])
            BY <3>1, <3>2, <3>4, <1>t DEF EscalatesWith, Orders
        <3>6. PICK e \in Employees : mark[q][<<step[q] + 1, e>>] # "absent"
            BY <3>3, <3>5, <1>1, EveryStepHasARow
        <3>7. step[q] + 1 \in Orders
            BY <3>3, <3>5, <1>1, EveryStepHasARow
        <3>8. /\ <<step[q] + 1, e>> \in Keys /\ <<step[q] + 1, e>>[1] = step[q] + 1
              /\ step[q] \in Nat
            BY <3>1, <3>7, KeyShape DEF Orders
        <3>9. mark[q][<<step[q] + 1, e>>] = "open"
            BY <3>1, <3>6, <3>8, <1>1 DEF EngineInv, PassedStepsClosed
        <3>10. mark'[q][<<step'[q], e>>] = "open"
            BY <3>1, <3>8, <3>9
        <3> QED
            BY <3>1, <3>7, <3>10, <1>2 DEF Undecided
    <2> QED
        BY <2>1, <2>2
<1>7. ASSUME NEW r \in Requests, NEW e \in Employees, Reject(r, e) PROVE Asked
    <2>1. status[q] = "pending" /\ step'[q] = step[q] /\ mark'[q] = mark[q]
        BY <1>7, <1>t DEF Reject
    <2> QED
        BY <2>1, <1>3
<1>8. ASSUME NEW r \in Requests, NEW e \in Employees, Acknowledge(r, e) PROVE Asked
    <2>1. CASE r # q
        <3>1. status[q] = "pending" /\ step'[q] = step[q] /\ mark'[q] = mark[q]
            BY <1>8, <2>1, <1>t DEF Acknowledge
        <3> QED
            BY <3>1, <1>3
    <2>2. CASE r = q
        <3>1. /\ step[q] \in Orders /\ e \in UndecidedAt(q, step[q])
              /\ UndecidedAt(q, step[q]) # {e} /\ step' = step
              /\ mark' = [mark EXCEPT ![q][<<step[q], e>>] = "approved"]
            BY <1>8, <2>2 DEF Acknowledge, CanDecide
        <3>2. PICK f \in Employees : f # e /\ Undecided(mark[q][<<step[q], f>>])
            BY <3>1 DEF UndecidedAt
        <3>3. <<step[q], f>> \in Keys /\ <<step[q], f>> # <<step[q], e>>
            BY <3>1, <3>2, KeyShape
        <3>4. mark'[q][<<step[q], f>>] = mark[q][<<step[q], f>>]
            BY <3>1, <3>3, <1>t
        <3> QED
            BY <3>1, <3>2, <3>4, <1>2
    <2> QED
        BY <2>1, <2>2
<1>9. ASSUME NEW r \in Requests, NEW e \in Employees, ApproveStep(r, e) PROVE Asked
    <2>c. Closes(r, e) /\ mark' = [mark EXCEPT ![r] = AfterApproval(r, e)] /\ status' = status
        BY <1>9 DEF ApproveStep, Closes
    <2>1. PICK next \in LaterSteps(r) : step' = [step EXCEPT ![r] = next]
        BY <1>9 DEF ApproveStep
    <2>2. CASE r # q
        <3>1. status[q] = "pending" /\ step'[q] = step[q] /\ mark'[q] = mark[q]
            BY <2>c, <2>1, <2>2, <1>t
        <3> QED
            BY <3>1, <1>3
    <2>3. CASE r = q
        <3>1. /\ next \in Orders /\ next > step[q] /\ step[q] \in Nat
              /\ step'[q] = next
            BY <2>1, <2>3, <1>t DEF LaterSteps
        <3>2. PICK f \in Employees : Undecided(mark[q][<<next, f>>])
            BY <2>1, <2>3 DEF LaterSteps, UndecidedAt
        <3>3. <<next, f>> \in Keys /\ <<next, f>>[1] = next /\ next # step[q]
            BY <3>1, KeyShape DEF Orders
        <3>4. <<next, f>> # <<step[q], e>>
            BY <3>3
        <3>5. mark'[q][<<next, f>>] = mark[q][<<next, f>>]
            BY <2>c, <2>3, <3>3, <3>4, <1>t DEF AfterApproval
        <3> QED
            BY <3>1, <3>2, <3>5, <1>2
    <2> QED
        BY <2>2, <2>3
<1>10. ASSUME NEW r \in Requests, NEW e \in Employees, ApproveFinally(r, e) PROVE Asked
    <2>1. Closes(r, e) /\ step' = step /\ status' = [status EXCEPT ![r] = "approved"]
        BY <1>10 DEF ApproveFinally
    <2>2. status[q] = "pending" /\ step'[q] = step[q] /\ mark'[q] = mark[q]
        BY <2>1, <1>t DEF Closes
    <2> QED
        BY <2>2, <1>3
<1>11. CASE OrgNext \/ UNCHANGED vars
    <2>1. status[q] = "pending" /\ step'[q] = step[q] /\ mark'[q] = mark[q]
        BY <1>11, OrgKeepsRequests DEF vars, requestVars
    <2> QED
        BY <2>1, <1>3
<1> QED
    BY <1>4, <1>5, <1>6, <1>7, <1>8, <1>9, <1>10, <1>11 DEF Next, DecideNext

\* A pending request never hangs: with one chain that nobody edits, whose
\* seats are staffed by people in scope, somebody can decide it now.  The
\* step escalation moves to is never an empty one.
THEOREM PendingCanBeDecided ==
    ASSUME OneChain, SeatsAreStaffed
    PROVE  Spec => [](edits = 0 => PendingIsActionable)
<1>1. Init => SomeoneIsAsked
    BY DEF Init, SomeoneIsAsked
<1>2. FrozenInv /\ (edits = 0 => SomeoneIsAsked) => (edits = 0 => PendingIsActionable)
    <2> SUFFICES ASSUME FrozenInv, edits = 0, SomeoneIsAsked,
                        NEW r \in Requests, status[r] = "pending"
                 PROVE  \E e \in Employees : CanDecide(r, e)
        BY DEF PendingIsActionable
    <2>1. TypeOK /\ Unedited /\ TravelsItsChain
        BY DEF FrozenInv, EngineInv
    <2>2. step[r] \in Orders /\ UndecidedAt(r, step[r]) # {}
        BY DEF SomeoneIsAsked
    <2>3. PICK e \in Employees : e \in UndecidedAt(r, step[r])
        BY <2>2 DEF UndecidedAt
    <2>4. <<step[r], e>> \in Keys /\ <<step[r], e>>[1] = step[r] /\ <<step[r], e>>[2] = e
        BY <2>2, <2>3, KeyShape
    <2>5. mark[r][<<step[r], e>>] # "absent"
        BY <2>3 DEF UndecidedAt, Undecided
    <2>6. PICK c \in Selectable(r) : RowsOf(r, c)
        BY <2>1, <2>4, <2>5 DEF TravelsItsChain
    <2>7. <<step[r], e>> \in Approvers(c, r)
        BY <2>4, <2>5, <2>6 DEF RowsOf
    <2>8. /\ step[r] \in 1..Len(chain[c].steps)
          /\ e \in occupants[chain[c].steps[step[r]].seat]
        BY <2>4, <2>7 DEF Approvers
    <2>9. chain[c].steps \in Seq(StepSpec)
        BY <2>1, EngineAssumption DEF TypeOK, ChainSpec, Selectable
    <2>10. chain[c].steps[step[r]].seat \in Seats
        <3>1. chain[c].steps[step[r]] \in StepSpec
            BY <2>8, <2>9
        <3> QED
            BY <3>1 DEF StepSpec
    <2>11. e \notin Unscoped
        BY <2>1, <2>8, <2>10 DEF Unedited, SeatsAreStaffed
    <2> QED
        BY <2>2, <2>3, <2>11 DEF CanDecide
<1>3. /\ FrozenInv /\ (edits = 0 => SomeoneIsAsked) /\ [Next]_vars
      => (edits = 0 => SomeoneIsAsked)'
    BY AskedStep
<1> QED
    BY <1>1, <1>2, <1>3, FrozenInvariant, PTL DEF Spec
=============================================================================
