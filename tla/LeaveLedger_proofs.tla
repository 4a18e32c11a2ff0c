------------------------ MODULE LeaveLedger_proofs ------------------------
(***************************************************************************)
(* What holds of LeaveLedger for every set of leaves, every amount and     *)
(* every accrual method.                                                    *)
(***************************************************************************)
EXTENDS LeaveLedger, SetSums, TLAPS

\* A leave has an effect only once it is approved or revoked.
EffectFollowsStatus ==
    \A r \in Requests :
       /\ effect[r] = "applied" => status[r] = "approved"
       /\ status[r] \in {"draft", "pending"} => effect[r] = "none"

\* As long as nothing was taken away, the row shows no more than was earned
\* and is not overdrawn.
RowCovered ==
    ~cut => /\ Tracked => balance.accrued <= earned
            /\ Tracked => Available(balance) >= 0

Inv == TypeOK /\ EffectFollowsStatus /\ NoOverlap /\ RowCovered

\* The row after an operation has the type of a row.
LEMMA RowTypes ==
    ASSUME NEW b \in BalanceRow, NEW d \in Int, NEW n \in Nat
    PROVE  /\ [b EXCEPT !.consumed = d] \in BalanceRow
           /\ [b EXCEPT !.adjusted = d] \in BalanceRow
           /\ [b EXCEPT !.opening = d] \in BalanceRow
           /\ [b EXCEPT !.accrued = n] \in BalanceRow
  BY DEF BalanceRow

LEMMA ConsumedTypes ==
    ASSUME TypeOK, NEW d \in Int
    PROVE  Consumed(balance, d) \in BalanceRow
<1>1. Accrued(balance) \in BalanceRow
  <2>1. earned \in Nat
    BY LedgerAssumption DEF TypeOK
  <2>2. CASE Tracked
    BY <2>1, <2>2, RowTypes DEF TypeOK, Accrued
  <2>3. CASE ~Tracked
    BY <2>3 DEF TypeOK, Accrued
  <2> QED  BY <2>2, <2>3
<1>2. Accrued(balance).consumed + d \in Int
  BY <1>1 DEF BalanceRow
<1> QED  BY <1>1, <1>2, RowTypes DEF Consumed

LEMMA InitInv == Init => Inv
<1> SUFFICES ASSUME Init PROVE Inv
  OBVIOUS
<1>1. TypeOK
  <2>1. balance \in BalanceRow
    BY DEF Init, BalanceRow
  <2>2. 0 \in 0..MaxDays
    BY LedgerAssumption
  <2> QED  BY <2>1, <2>2 DEF Init, TypeOK, L!Statuses, L!Effects
<1>2. EffectFollowsStatus /\ NoOverlap
  BY DEF Init, EffectFollowsStatus, NoOverlap
<1>3. RowCovered
  BY DEF Init, RowCovered, Available
<1> QED  BY <1>1, <1>2, <1>3 DEF Inv

\* The type of the tables, handler by handler.
LEMMA TypeStep == TypeOK /\ [Next]_vars => TypeOK'
<1> SUFFICES ASSUME TypeOK, [Next]_vars PROVE TypeOK'
  OBVIOUS
<1> USE LedgerAssumption DEF TypeOK, ledgerVars, history, L!Statuses, L!Effects
<1>1. CASE \E r \in Requests : CreateLeaveRequest(r) \/ Reject(r) \/ Cancel(r)
  BY <1>1 DEF CreateLeaveRequest, Reject, Cancel, Settle
<1>2. CASE \E r \in Requests : ApproveAndApply(r)
  BY <1>2, ConsumedTypes DEF ApproveAndApply
<1>3. CASE \E r \in Requests : ApproveAndFail(r)
  BY <1>3 DEF ApproveAndFail
<1>4. CASE \E r \in Requests : RevokeApprovedLeave(r)
  <2> PICK r \in Requests : RevokeApprovedLeave(r)
    BY <1>4
  <2>1. balance' \in BalanceRow
    BY RowTypes DEF RevokeApprovedLeave, BalanceRow
  <2> QED  BY <2>1 DEF RevokeApprovedLeave
<1>5. CASE Accrue
  <2>1. balance' \in BalanceRow
    <3>1. earned \in Nat
      OBVIOUS
    <3>2. CASE Tracked
      BY <1>5, <3>1, <3>2 DEF Accrue, BalanceRow
    <3>3. CASE ~Tracked
      BY <1>5, <3>3 DEF Accrue, BalanceRow
    <3> QED  BY <3>2, <3>3
  <2> QED  BY <1>5, <2>1 DEF Accrue
<1>6. CASE Earn
  <2>1. earned' \in 0..MaxDays
    BY <1>6 DEF Earn
  <2> QED  BY <1>6, <2>1 DEF Earn
<1>11. CASE LowerEntitlement
  <2>1. earned' \in 0..MaxDays
    BY <1>11 DEF LowerEntitlement
  <2> QED  BY <1>11, <2>1 DEF LowerEntitlement
<1>7. CASE \E d \in Amounts : AdjustBalance(d)
  <2> PICK d \in Amounts : AdjustBalance(d)
    BY <1>7
  <2>1. balance.adjusted + d \in Int
    BY DEF BalanceRow
  <2> QED  BY <2>1, RowTypes DEF AdjustBalance
<1>8. CASE \E d \in Amounts : CashOut(d)
  <2> PICK d \in Amounts : CashOut(d)
    BY <1>8
  <2>1. balance.consumed + d \in Int /\ cashed + d \in Nat
    BY DEF BalanceRow, CashOut
  <2> QED  BY <2>1, RowTypes DEF CashOut
<1>9. CASE \E d \in Amounts : ImportOpening(d)
  <2> PICK d \in Amounts : ImportOpening(d)
    BY <1>9
  <2>1. balance' \in BalanceRow
    BY RowTypes DEF ImportOpening
  <2>2. before' \in 0..MaxDays
    BY DEF ImportOpening
  <2>3. cut' \in BOOLEAN
    BY DEF ImportOpening
  <2> QED  BY <2>1, <2>2, <2>3 DEF ImportOpening
<1>10. CASE UNCHANGED vars
  BY <1>10 DEF vars
<1> QED
  BY <1>1, <1>2, <1>3, <1>4, <1>5, <1>6, <1>7, <1>8, <1>9, <1>10, <1>11
  DEF Next, RequestNext, BalanceNext

\* The state of the requests changes under the request handlers only.
LEMMA BalanceHandlersLeaveRequests ==
    ASSUME BalanceNext
    PROVE  UNCHANGED <<status, effect>>
  BY DEF BalanceNext, Accrue, Earn, LowerEntitlement, AdjustBalance, CashOut,
     ImportOpening

LEMMA EffectStep == TypeOK /\ EffectFollowsStatus /\ [Next]_vars => EffectFollowsStatus'
<1> SUFFICES ASSUME TypeOK, EffectFollowsStatus, [Next]_vars
             PROVE  EffectFollowsStatus'
  OBVIOUS
<1> USE DEF TypeOK, EffectFollowsStatus, ledgerVars, L!Statuses, L!Effects
<1>1. CASE \E r \in Requests : CreateLeaveRequest(r) \/ Reject(r) \/ Cancel(r)
  BY <1>1 DEF CreateLeaveRequest, Reject, Cancel, Settle
<1>2. CASE \E r \in Requests : ApproveAndApply(r) \/ ApproveAndFail(r)
  BY <1>2 DEF ApproveAndApply, ApproveAndFail
<1>3. CASE \E r \in Requests : RevokeApprovedLeave(r)
  BY <1>3 DEF RevokeApprovedLeave
<1>4. CASE BalanceNext
  BY <1>4, BalanceHandlersLeaveRequests
<1>5. CASE UNCHANGED vars
  BY <1>5 DEF vars
<1> QED
  BY <1>1, <1>2, <1>3, <1>4, <1>5 DEF Next, RequestNext

\* A new leave shares no day with the others; the others only leave the set
\* of pending and approved leaves, or move inside it.
LEMMA OverlapStep == TypeOK /\ NoOverlap /\ [Next]_vars => NoOverlap'
<1> SUFFICES ASSUME TypeOK, NoOverlap, [Next]_vars PROVE NoOverlap'
  OBVIOUS
<1> DEFINE Stands(r) == status[r] \in {"pending", "approved"}
<1>1. CASE \E r \in Requests : CreateLeaveRequest(r)
  <2> PICK n \in Requests : CreateLeaveRequest(n)
    BY <1>1
  <2>1. \A q \in Requests : Stands(q) => Last[q] < First[n] \/ Last[n] < First[q]
    BY LedgerAssumption DEF CreateLeaveRequest, Clashes
  <2>2. \A q \in Requests : q # n => status'[q] = status[q]
    BY DEF CreateLeaveRequest, TypeOK
  <2> SUFFICES ASSUME NEW q \in Requests, NEW r \in Requests, q # r,
                      status'[q] \in {"pending", "approved"},
                      status'[r] \in {"pending", "approved"}
               PROVE  Last[q] < First[r] \/ Last[r] < First[q]
    BY DEF NoOverlap
  <2>3. CASE q = n
    BY <2>1, <2>2, <2>3
  <2>4. CASE r = n
    BY <2>1, <2>2, <2>4
  <2>5. CASE q # n /\ r # n
    BY <2>2, <2>5 DEF NoOverlap
  <2> QED  BY <2>3, <2>4, <2>5
<1>2. CASE \E r \in Requests : Reject(r) \/ Cancel(r)
  BY <1>2 DEF Reject, Cancel, Settle, NoOverlap, TypeOK
<1>3. CASE \E r \in Requests : ApproveAndApply(r) \/ ApproveAndFail(r)
  BY <1>3 DEF ApproveAndApply, ApproveAndFail, NoOverlap, TypeOK
<1>4. CASE \E r \in Requests : RevokeApprovedLeave(r)
  BY <1>4 DEF RevokeApprovedLeave, NoOverlap, TypeOK
<1>5. CASE BalanceNext
  BY <1>5, BalanceHandlersLeaveRequests DEF NoOverlap
<1>6. CASE UNCHANGED vars
  BY <1>6 DEF vars, NoOverlap
<1> QED
  BY <1>1, <1>2, <1>3, <1>4, <1>5, <1>6 DEF Next, RequestNext

\* Nothing overdraws the row: whoever takes days judges them by an
\* entitlement that is at most the one earned.
LEMMA RowStep == TypeOK /\ RowCovered /\ [Next]_vars => RowCovered'
<1> SUFFICES ASSUME TypeOK, RowCovered, [Next]_vars PROVE RowCovered'
  OBVIOUS
<1> USE LedgerAssumption DEF TypeOK, BalanceRow, RowCovered, Available, ledgerVars, history
<1>1. CASE \E r \in Requests : \/ CreateLeaveRequest(r) \/ Reject(r) \/ Cancel(r)
                              \/ ApproveAndFail(r)
  BY <1>1 DEF CreateLeaveRequest, Reject, Cancel, Settle, ApproveAndFail
<1>2. CASE \E r \in Requests : ApproveAndApply(r)
  <2> PICK r \in Requests : ApproveAndApply(r)
    BY <1>2
  <2>1. Days[r] \in Int
    OBVIOUS
  <2>2. CASE Tracked
    BY <2>1, <2>2 DEF ApproveAndApply, Consumed, Accrued, CanConsume
  <2>3. CASE ~Tracked
    BY <2>3
  <2> QED  BY <2>2, <2>3
<1>3. CASE \E r \in Requests : RevokeApprovedLeave(r)
  <2> PICK r \in Requests : RevokeApprovedLeave(r)
    BY <1>3
  <2>1. Days[r] \in Nat
    OBVIOUS
  <2>2. CASE effect[r] = "applied"
    BY <2>1, <2>2 DEF RevokeApprovedLeave
  <2>3. CASE effect[r] # "applied"
    BY <2>3 DEF RevokeApprovedLeave
  <2> QED  BY <2>2, <2>3
<1>4. CASE Accrue
  BY <1>4 DEF Accrue
<1>5. CASE Earn \/ LowerEntitlement
  BY <1>5 DEF Earn, LowerEntitlement
<1>6. CASE \E d \in Amounts : AdjustBalance(d)
  BY <1>6 DEF AdjustBalance
<1>7. CASE \E d \in Amounts : CashOut(d)
  BY <1>7 DEF CashOut, Payable
<1>8. CASE \E d \in Amounts : ImportOpening(d)
  BY <1>8 DEF ImportOpening
<1>9. CASE UNCHANGED vars
  BY <1>9 DEF vars
<1> QED
  BY <1>1, <1>2, <1>3, <1>4, <1>5, <1>6, <1>7, <1>8, <1>9
  DEF Next, RequestNext, BalanceNext

\* Inv is inductive.
LEMMA InvHolds == Spec => []Inv
<1>1. Init => Inv
  BY InitInv
<1>2. Inv /\ [Next]_vars => Inv'
  BY TypeStep, EffectStep, OverlapStep, RowStep DEF Inv
<1> QED
  BY <1>1, <1>2, PTL DEF Spec

\* The ledger keeps its type, whatever is imported, adjusted and revoked.
THEOREM LedgerTyped == Spec => []TypeOK
  BY InvHolds, PTL DEF Inv

\* _find_overlap: no two leaves of an employee that are pending or approved
\* share a day.
THEOREM LeavesNeverOverlap == Spec => []NoOverlap
  BY InvHolds, PTL DEF Inv

\* A leave is charged only while it is approved.
THEOREM OnlyApprovedIsCharged == Spec => []AppliedIsApproved
<1>1. Inv => AppliedIsApproved
  BY DEF Inv, EffectFollowsStatus, AppliedIsApproved
<1> QED  BY InvHolds, <1>1, PTL

\* consume, adjust_balance and cash_out never overdraw the row by themselves.
THEOREM NoOverdraft == Spec => []OverdraftExplained
<1>1. Inv => OverdraftExplained
  BY DEF Inv, RowCovered, OverdraftExplained, TypeOK, BalanceRow, Available
<1> QED  BY InvHolds, <1>1, PTL

\* Every handler of a leave is a move of the abstract lifecycle, every
\* operation on the row leaves it alone.
THEOREM LedgerImplementsLifecycle == Spec => RefinesLifecycle
<1>1. Init => L!LifecycleInit
  BY DEF Init, L!LifecycleInit
<1>2. Inv /\ [Next]_vars => [L!LifecycleNext]_(L!lifecycleVars)
  <2> SUFFICES ASSUME Inv, [Next]_vars
               PROVE  [L!LifecycleNext]_(L!lifecycleVars)
    OBVIOUS
  <2> USE DEF Inv, TypeOK, EffectFollowsStatus, L!LifecycleNext, L!lifecycleVars
  <2>1. CASE \E r \in Requests : CreateLeaveRequest(r)
    <3> PICK r \in Requests : CreateLeaveRequest(r)
      BY <2>1
    <3>1. effect[r] = "none" /\ effect' = [effect EXCEPT ![r] = "none"]
      BY DEF CreateLeaveRequest
    <3>2. L!Open(r) \/ L!Grant(r)
      BY <3>1 DEF CreateLeaveRequest, L!Open, L!Grant
    <3> QED  BY <3>2
  <2>2. CASE \E r \in Requests : Reject(r) \/ Cancel(r)
    BY <2>2 DEF Reject, Cancel, Settle, L!Refuse, L!Withdraw
  <2>3. CASE \E r \in Requests : ApproveAndApply(r) \/ ApproveAndFail(r)
    BY <2>3 DEF ApproveAndApply, ApproveAndFail, L!Grant
  <2>4. CASE \E r \in Requests : RevokeApprovedLeave(r)
    <3> PICK r \in Requests : RevokeApprovedLeave(r)
      BY <2>4
    <3>1. CASE effect[r] = "applied"
      BY <3>1 DEF RevokeApprovedLeave, L!Annul
    <3>2. CASE effect[r] # "applied"
      BY <3>2 DEF RevokeApprovedLeave, L!Annul
    <3> QED  BY <3>1, <3>2
  <2>5. CASE BalanceNext
    BY <2>5, BalanceHandlersLeaveRequests
  <2>6. CASE UNCHANGED vars
    BY <2>6 DEF vars
  <2> QED
    BY <2>1, <2>2, <2>3, <2>4, <2>5, <2>6 DEF Next, RequestNext
<1> QED
  BY <1>1, <1>2, InvHolds, PTL DEF Spec, RefinesLifecycle, L!LifecycleSpec

-----------------------------------------------------------------------------
(* The days consumed.  The sum of ConsumedIsExplained changes only where a  *)
(* leave becomes applied or stops being applied, by that leave's days.      *)

LEMMA AppliedFinite ==
    /\ IsFiniteSet(Applied) /\ IsFiniteSet(Applied')
    /\ \A r \in Applied : Days[r] \in Int
    /\ \A r \in Applied' : Days[r] \in Int
    /\ SumFunctionOnSet(Days, Applied) \in Int
<1>1. IsFiniteSet(Requests) /\ Applied \in SUBSET Requests /\ Applied' \in SUBSET Requests
  BY LedgerAssumption DEF Applied
<1>2. IsFiniteSet(Applied) /\ IsFiniteSet(Applied')
  BY <1>1, FS_Subset
<1>3. \A r \in Requests : Days[r] \in Int
  BY LedgerAssumption
<1>4. SumFunctionOnSet(Days, Applied) \in Int
  BY <1>1, <1>2, <1>3, SumType
<1> QED  BY <1>1, <1>2, <1>3, <1>4

\* The column consumed after the two operations that charge it.
LEMMA ConsumedColumn ==
    ASSUME TypeOK, NEW d \in Int
    PROVE  /\ balance.consumed \in Int
           /\ Consumed(balance, d).consumed = balance.consumed + d
           /\ [balance EXCEPT !.consumed = @ + d].consumed = balance.consumed + d
  BY DEF TypeOK, BalanceRow, Consumed, Accrued

LEMMA ConsumedStep == Inv /\ ConsumedIsExplained /\ [Next]_vars => ConsumedIsExplained'
<1> SUFFICES ASSUME Inv, ConsumedIsExplained, [Next]_vars
             PROVE  balance'.consumed = cashed' + SumFunctionOnSet(Days, Applied')
  BY DEF ConsumedIsExplained
<1>t. /\ TypeOK /\ balance.consumed \in Int /\ cashed \in Int
      /\ balance.consumed = cashed + SumFunctionOnSet(Days, Applied)
      /\ SumFunctionOnSet(Days, Applied) \in Int
      /\ \A r \in Requests : Days[r] \in Int
  <2>1. TypeOK /\ balance.consumed \in Int /\ cashed \in Int
    BY DEF Inv, TypeOK, BalanceRow
  <2>2. SumFunctionOnSet(Days, Applied) \in Int
    BY AppliedFinite
  <2> QED  BY <2>1, <2>2, LedgerAssumption DEF ConsumedIsExplained
<1>s. ASSUME balance'.consumed = balance.consumed, cashed' = cashed, Applied' = Applied
      PROVE  balance'.consumed = cashed' + SumFunctionOnSet(Days, Applied')
  BY <1>t, <1>s
<1>1. ASSUME NEW r \in Requests, CreateLeaveRequest(r) \/ Reject(r) \/ Cancel(r)
      PROVE  balance'.consumed = cashed' + SumFunctionOnSet(Days, Applied')
  BY <1>1, <1>s DEF CreateLeaveRequest, Reject, Cancel, Settle, ledgerVars, Applied
<1>2. ASSUME NEW r \in Requests, ApproveAndApply(r)
      PROVE  balance'.consumed = cashed' + SumFunctionOnSet(Days, Applied')
  <2>1. r \notin Applied /\ Applied' = Applied \cup {r}
    BY <1>2, <1>t DEF ApproveAndApply, Inv, EffectFollowsStatus, Applied, TypeOK
  <2>2. SumFunctionOnSet(Days, Applied') = SumFunctionOnSet(Days, Applied) + Days[r]
    <3>1. \A q \in Applied \cup {r} : Days[q] \in Int
      BY <1>t, AppliedFinite
    <3> QED  BY <2>1, <3>1, AppliedFinite, SumAdd
  <2>3. balance'.consumed = balance.consumed + Days[r] /\ cashed' = cashed
    BY <1>2, <1>t, ConsumedColumn DEF ApproveAndApply, history
  <2> QED  BY <2>2, <2>3, <1>t
<1>3. ASSUME NEW r \in Requests, ApproveAndFail(r)
      PROVE  balance'.consumed = cashed' + SumFunctionOnSet(Days, Applied')
  <2>1. Applied' = Applied
    BY <1>3, <1>t DEF ApproveAndFail, Inv, EffectFollowsStatus, Applied, TypeOK
  <2> QED  BY <1>3, <1>s, <2>1 DEF ApproveAndFail, ledgerVars
<1>4. ASSUME NEW r \in Requests, RevokeApprovedLeave(r)
      PROVE  balance'.consumed = cashed' + SumFunctionOnSet(Days, Applied')
  <2>1. CASE effect[r] = "applied"
    <3>1. r \in Applied /\ Applied' = Applied \ {r}
      BY <1>4, <2>1, <1>t DEF RevokeApprovedLeave, Applied, TypeOK
    <3>2. SumFunctionOnSet(Days, Applied) = Days[r] + SumFunctionOnSet(Days, Applied')
      BY <3>1, AppliedFinite, SumRemove
    <3>3. balance'.consumed = balance.consumed - Days[r] /\ cashed' = cashed
      BY <1>4, <2>1, <1>t DEF RevokeApprovedLeave, history, TypeOK, BalanceRow
    <3>4. SumFunctionOnSet(Days, Applied') \in Int
      BY AppliedFinite, SumType
    <3> QED  BY <3>2, <3>3, <3>4, <1>t
  <2>2. CASE effect[r] # "applied"
    <3>1. Applied' = Applied
      BY <1>4, <2>2, <1>t DEF RevokeApprovedLeave, Applied, TypeOK
    <3>2. balance'.consumed = balance.consumed /\ cashed' = cashed
      BY <1>4, <2>2, <1>t DEF RevokeApprovedLeave, history, TypeOK, BalanceRow
    <3> QED  BY <1>s, <3>1, <3>2
  <2> QED  BY <2>1, <2>2
<1>5. CASE BalanceNext
  <2>a. Applied' = Applied
    BY <1>5, BalanceHandlersLeaveRequests DEF Applied
  <2>1. CASE Accrue
    BY <2>1, <2>a, <1>s, <1>t DEF Accrue, history, TypeOK, BalanceRow
  <2>2. CASE Earn \/ LowerEntitlement
    BY <2>2, <2>a, <1>s DEF Earn, LowerEntitlement, history
  <2>3. ASSUME NEW d \in Amounts, AdjustBalance(d) \/ ImportOpening(d)
        PROVE  balance'.consumed = cashed' + SumFunctionOnSet(Days, Applied')
    <3>1. balance'.consumed = balance.consumed /\ cashed' = cashed
      BY <2>3, <1>t DEF AdjustBalance, ImportOpening, history, TypeOK, BalanceRow
    <3> QED  BY <3>1, <2>a, <1>s
  <2>4. ASSUME NEW d \in Amounts, CashOut(d)
        PROVE  balance'.consumed = cashed' + SumFunctionOnSet(Days, Applied')
    <3>1. d \in Int
      BY LedgerAssumption
    <3>2. balance'.consumed = balance.consumed + d /\ cashed' = cashed + d
      BY <2>4, <3>1, <1>t, ConsumedColumn DEF CashOut
    <3>3. SumFunctionOnSet(Days, Applied') = SumFunctionOnSet(Days, Applied)
      BY <2>a
    <3> QED  BY <3>1, <3>2, <3>3, <1>t
  <2> QED  BY <1>5, <2>1, <2>2, <2>3, <2>4 DEF BalanceNext
<1>6. CASE UNCHANGED vars
  BY <1>6, <1>s DEF vars, Applied
<1> QED  BY <1>1, <1>2, <1>3, <1>4, <1>5, <1>6 DEF Next, RequestNext

\* apply_approved_leave, revoke_approved_leave, cash_out: whatever the order
\* in which leaves are approved, fail, are revoked and days are paid out, and
\* however many there are, each applied leave is charged exactly once and
\* each revoked one refunded exactly once.
THEOREM ConsumptionExplained == Spec => []ConsumedIsExplained
<1>1. Init => ConsumedIsExplained
  <2> SUFFICES ASSUME Init PROVE balance.consumed = cashed + SumFunctionOnSet(Days, Applied)
    BY DEF ConsumedIsExplained
  <2>1. Applied = {} /\ balance.consumed = 0 /\ cashed = 0
    BY DEF Init, Applied
  <2>2. SumFunctionOnSet(Days, {}) = 0
    BY SumEmpty
  <2> QED  BY <2>1, <2>2
<1> QED  BY <1>1, ConsumedStep, InvHolds, PTL DEF Spec
=============================================================================
