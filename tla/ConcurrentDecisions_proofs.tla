---------------------- MODULE ConcurrentDecisions_proofs ----------------------
(***************************************************************************)
(* Proofs about ConcurrentDecisions, for any number of transactions, any    *)
(* rows and any operations: a stored decision is never overwritten by the   *)
(* machine, and a stored status has the row it follows from.                *)
(***************************************************************************)
EXTENDS ConcurrentDecisions, WellFoundedInduction, TLAPS

\* TypeOK without the bound on effects, which counts transactions.
Typed ==
    /\ request \in [status : Statuses, step : Nat]
    /\ mark \in [Rows -> Marks]
    /\ effects \in Nat
    /\ txn \in [Txns -> TxnType]

\* An UPDATE waits for the row's uncommitted writer.
OneWriter ==
    \A t, u \in Txns : \A k \in Rows :
        t # u /\ txn[t].rows[k] # "unwritten" => txn[u].rows[k] = "unwritten"

\* The machine writes "delegated" and "escalated" over undecided rows only, a
\* person's answer goes into that person's row of the step read.
WritesFit(t) == \A k \in Rows :
    /\ txn[t].rows[k] \in {"unwritten", "approved", "rejected", "delegated", "escalated"}
    /\ txn[t].rows[k] \in {"delegated", "escalated"} => Undecided(mark[k])
    /\ txn[t].rows[k] = "rejected" => txn[t].op = "reject" /\ k = OwnRow(t)
    /\ txn[t].rows[k] = "approved" => txn[t].op = "approve" /\ k = OwnRow(t)
    /\ txn[t].phase \in {"idle", "loaded", "done"} => txn[t].rows[k] = "unwritten"
    /\ txn[t].phase = "found" /\ txn[t].op # "escalate" => txn[t].rows[k] = "unwritten"

\* A decision writes its row before the status that follows from it, and an
\* approval leaves the status alone only while it waits for others.
SaveFits(t) ==
    /\ txn[t].phase = "idle" => txn[t].op = "none"
    /\ txn[t].phase # "saved" => txn[t].save = NoSave
    /\ txn[t].save.status \in {"approved", "pending"} => txn[t].op = "approve"
    /\ Deciding(t) /\ txn[t].phase \in {"found", "written", "saving", "saved"} => OwnRow(t) \in Rows
    /\ txn[t].op = "approve" /\ txn[t].phase \in {"written", "saving", "saved"}
          => txn[t].rows[OwnRow(t)] = "approved"
    /\ txn[t].op = "reject" /\ txn[t].phase \in {"written", "saving", "saved"}
          => txn[t].rows[OwnRow(t)] = "rejected"
    /\ txn[t].op = "reject" /\ txn[t].phase = "saved" => txn[t].save.status = "rejected"
    /\ txn[t].save.status = "rejected" => txn[t].op = "reject"
    /\ txn[t].op = "approve" /\ txn[t].phase = "saved" /\ txn[t].save.status = "keep"
          => txn[t].seen.step \in AckSteps

\* A stored rejection was somebody's.
RejectedByOne == \A k \in Rows : mark[k] = "rejected" =>
    \E u \in Txns : txn[u].op = "reject" /\ OwnRow(u) = k

Inv ==
    /\ Typed
    /\ OneWriter
    /\ \A t \in Txns : WritesFit(t) /\ SaveFits(t)
    /\ RejectedByOne
    /\ StatusHasItsRow

-----------------------------------------------------------------------------
\* The smallest of some step orders is one of them.
LEMMA LeastOf ==
    ASSUME NEW S \in SUBSET Nat, S # {}
    PROVE  (CHOOSE s \in S : \A i \in S : s <= i) \in S
<1> DEFINE R == OpToRel(<, Nat)
<1>1. \E s \in S : \A i \in S : ~(<<i, s>> \in R)
  <2>1. IsWellFoundedOn(R, Nat)
    BY NatLessThanWellFounded
  <2> HIDE DEF R
  <2> QED BY <2>1, WFMin
<1>2. \A i, s \in Nat : ~(<<i, s>> \in R) => s <= i
  BY DEF OpToRel
<1>3. \E s \in S : \A i \in S : s <= i
  BY <1>1, <1>2
<1> QED BY <1>3

LEMMA StepsAreNumbers == Steps \in SUBSET Nat /\ Steps # {} /\ FirstStep \in Nat /\ Employees # {}
<1>1. Steps \in SUBSET Nat /\ Steps # {} /\ Employees # {}
  BY DecisionsAssumption DEF Steps
<1> QED BY <1>1, LeastOf DEF FirstStep

LEMMA InitTyped == Init => Inv
<1> SUFFICES ASSUME Init PROVE Inv
  OBVIOUS
<1> USE DEF Init
<1>1. txn \in [Txns -> TxnType]
  <2>1. (CHOOSE e \in Employees : TRUE) \in Employees
    BY StepsAreNumbers
  <2>2. request \in [status : Statuses, step : Nat]
    BY StepsAreNumbers DEF Statuses
  <2>3. Clean \in [Rows -> Marks \cup {"unwritten"}]
    BY DEF Clean
  <2>4. NoSave \in [status : Statuses \cup {"keep"}, step : Nat]
    BY DEF NoSave
  <2> QED BY <2>1, <2>2, <2>3, <2>4 DEF TxnType
<1>2. Typed
  BY <1>1, StepsAreNumbers DEF Typed, Statuses, Marks
<1>3. OneWriter /\ \A t \in Txns : WritesFit(t)
  BY DEF OneWriter, WritesFit, Clean
<1>4. \A t \in Txns : SaveFits(t)
  BY DEF SaveFits, Deciding, NoSave
<1> QED BY <1>2, <1>3, <1>4 DEF Inv, RejectedByOne, StatusHasItsRow

-----------------------------------------------------------------------------
(* What the actions of a transaction have in common *)

\* A step of t that changes nothing but txn[t] and keeps the op, what was
\* read and whose decision it is.
Private(t) ==
    /\ UNCHANGED <<request, mark, effects>>
    /\ \A u \in Txns \ {t} : txn'[u] = txn[u]
    /\ txn'[t].op = txn[t].op /\ txn'[t].who = txn[t].who /\ txn'[t].seen = txn[t].seen

\* The answers given twice stay given.
LEMMA PrivateKeepsStatus ==
    ASSUME Inv, NEW t \in Txns, Private(t)
    PROVE  StatusHasItsRow' /\ RejectedByOne'
<1>1. \A u \in Txns : txn'[u].op = txn[u].op /\ txn'[u].who = txn[u].who /\ txn'[u].seen = txn[u].seen
  BY DEF Private
<1>2. AnsweredTwice => AnsweredTwice'
  BY <1>1 DEF AnsweredTwice
<1>3. RejectedByOne'
  BY <1>1 DEF Private, Inv, RejectedByOne, OwnRow
<1> QED BY <1>2, <1>3 DEF Private, Inv, StatusHasItsRow

\* The other transactions' conjuncts are not disturbed.
LEMMA OthersKept ==
    ASSUME Inv, NEW t \in Txns, Private(t), NEW u \in Txns \ {t}
    PROVE  WritesFit(u)' /\ SaveFits(u)'
<1>1. txn'[u] = txn[u] /\ mark' = mark
  BY DEF Private
<1>2. WritesFit(u) /\ SaveFits(u)
  BY DEF Inv
<1> QED BY <1>1, <1>2 DEF WritesFit, SaveFits, OwnRow, Deciding

\* One transaction is replaced by another record.
LEMMA OneTxnChanges ==
    ASSUME Typed, NEW t \in Txns, NEW x \in TxnType, txn' = [txn EXCEPT ![t] = x]
    PROVE  txn' \in [Txns -> TxnType] /\ txn'[t] = x /\ \A u \in Txns \ {t} : txn'[u] = txn[u]
BY DEF Typed

\* A row is taken that nobody else holds.
LEMMA RowTaken ==
    ASSUME OneWriter, NEW t \in Txns, NEW k \in Rows,
           \A u \in Txns \ {t} : txn'[u] = txn[u] /\ txn[u].rows[k] = "unwritten",
           \A i \in Rows \ {k} : txn'[t].rows[i] \in {txn[t].rows[i], "unwritten"}
    PROVE  OneWriter'
<1> SUFFICES ASSUME NEW u \in Txns, NEW v \in Txns, NEW i \in Rows, u # v,
                    txn'[u].rows[i] # "unwritten"
             PROVE  txn'[v].rows[i] = "unwritten"
  BY DEF OneWriter
<1>1. CASE i = k
  BY <1>1
<1>2. CASE i # k
  <2>1. txn[u].rows[i] # "unwritten"
    BY <1>2
  <2>2. txn[v].rows[i] = "unwritten"
    BY <2>1 DEF OneWriter
  <2> QED BY <1>2, <2>2
<1> QED BY <1>1, <1>2

-----------------------------------------------------------------------------
(* The actions, one by one *)

LEMMA BeginKeeps ==
    ASSUME Inv, NEW t \in Txns, NEW op \in Operations, NEW e \in Employees, Begin(t, op, e)
    PROVE  Inv'
<1>1. /\ txn' \in [Txns -> TxnType]
      /\ \A u \in Txns \ {t} : txn'[u] = txn[u]
      /\ txn'[t].phase = "loaded" /\ txn'[t].op = op
      /\ txn'[t].rows = txn[t].rows /\ txn'[t].save = txn[t].save
  <2> DEFINE x == [txn[t] EXCEPT !.phase = "loaded", !.op = op, !.who = e, !.seen = request]
  <2>1. /\ x \in TxnType
        /\ x.phase = "loaded" /\ x.op = op /\ x.rows = txn[t].rows /\ x.save = txn[t].save
    <3>1. txn[t] \in TxnType /\ request \in [status : Statuses, step : Nat]
      BY DEF Inv, Typed
    <3> QED BY <3>1 DEF TxnType
  <2>2. txn' = [txn EXCEPT ![t] = x]
    BY DEF Begin
  <2> HIDE DEF x
  <2> QED BY <2>1, <2>2, OneTxnChanges DEF Inv
<1>2. UNCHANGED <<request, mark, effects>> /\ txn[t].phase = "idle" /\ txn[t].op = "none"
  BY DEF Begin, Inv, SaveFits
<1>3. op \in {"approve", "reject", "cancel", "escalate"}
  BY DecisionsAssumption
<1>4. Typed'
  BY <1>1, <1>2 DEF Inv, Typed
<1>5. OneWriter'
  BY <1>1 DEF Inv, OneWriter
<1>6. WritesFit(t)' /\ SaveFits(t)'
  BY <1>1, <1>2, <1>3 DEF Inv, WritesFit, SaveFits, Deciding, NoSave
<1>7. ASSUME NEW u \in Txns \ {t} PROVE WritesFit(u)' /\ SaveFits(u)'
  <2>1. WritesFit(u) /\ SaveFits(u)
    BY DEF Inv
  <2> QED BY <1>1, <1>2, <2>1 DEF WritesFit, SaveFits, OwnRow, Deciding
<1>8. RejectedByOne' /\ (AnsweredTwice => AnsweredTwice')
  BY <1>1, <1>2 DEF Inv, RejectedByOne, OwnRow, AnsweredTwice
<1>9. StatusHasItsRow'
  BY <1>2, <1>8 DEF Inv, StatusHasItsRow
<1> QED BY <1>4, <1>5, <1>6, <1>7, <1>8, <1>9 DEF Inv

LEMMA CheckKeeps ==
    ASSUME Inv, NEW t \in Txns, Check(t)
    PROVE  Inv'
<1>1. /\ txn' \in [Txns -> TxnType]
      /\ txn'[t].phase = IF ChecksPass(t) THEN "found" ELSE "done"
      /\ txn'[t].rows = txn[t].rows /\ txn'[t].save = txn[t].save
      /\ Private(t)
  <2> DEFINE x == [txn[t] EXCEPT !.phase = IF ChecksPass(t) THEN "found" ELSE "done"]
  <2>1. /\ x \in TxnType
        /\ x.phase = (IF ChecksPass(t) THEN "found" ELSE "done") /\ x.rows = txn[t].rows /\ x.save = txn[t].save
        /\ x.op = txn[t].op /\ x.who = txn[t].who /\ x.seen = txn[t].seen
    <3>1. txn[t] \in TxnType
      BY DEF Inv, Typed
    <3> QED BY <3>1 DEF TxnType
  <2>2. txn' = [txn EXCEPT ![t] = x] /\ UNCHANGED <<request, mark, effects>>
    BY DEF Check, Goto
  <2> HIDE DEF x
  <2> QED BY <2>1, <2>2, OneTxnChanges DEF Inv, Private
<1>2. Deciding(t) /\ ChecksPass(t) => OwnRow(t) \in Rows
  BY DEF Deciding, ChecksPass, UndecidedRows
<1>3. Typed' /\ OneWriter'
  BY <1>1 DEF Inv, Typed, OneWriter, Private
<1>4. txn[t].phase = "loaded" /\ WritesFit(t) /\ SaveFits(t)
  BY DEF Check, Inv
<1>5. WritesFit(t)' /\ SaveFits(t)'
  BY <1>1, <1>2, <1>4 DEF WritesFit, SaveFits, Private, Deciding, OwnRow, NoSave
<1> QED BY <1>1, <1>3, <1>5, OthersKept, PrivateKeepsStatus DEF Inv

LEMMA WriteOwnRowKeeps ==
    ASSUME Inv, NEW t \in Txns, WriteOwnRow(t)
    PROVE  Inv'
<1> DEFINE own == OwnRow(t)
           answer == IF txn[t].op = "reject" THEN "rejected" ELSE "approved"
<1>1. txn[t].phase = "found" /\ Deciding(t) /\ WritesFit(t) /\ SaveFits(t) /\ own \in Rows
  BY DEF WriteOwnRow, Inv, SaveFits
<1>2. /\ txn' \in [Txns -> TxnType]
      /\ txn'[t].phase = (IF txn[t].op = "reject" THEN "saving" ELSE "written")
      /\ txn'[t].rows = [txn[t].rows EXCEPT ![own] = answer]
      /\ txn'[t].save = txn[t].save
      /\ Private(t)
  <2> DEFINE x == [txn[t] EXCEPT !.phase = IF txn[t].op = "reject" THEN "saving" ELSE "written",
                             !.rows = [txn[t].rows EXCEPT ![own] = answer]]
  <2>1. /\ x \in TxnType
        /\ x.phase = (IF txn[t].op = "reject" THEN "saving" ELSE "written")
        /\ x.rows = [txn[t].rows EXCEPT ![own] = answer] /\ x.save = txn[t].save
        /\ x.op = txn[t].op /\ x.who = txn[t].who /\ x.seen = txn[t].seen
    <3>1. txn[t] \in TxnType
      BY DEF Inv, Typed
    <3> QED BY <3>1, <1>1 DEF TxnType, Marks
  <2>2. txn' = [txn EXCEPT ![t] = x] /\ UNCHANGED <<request, mark, effects>>
    BY DEF WriteOwnRow
  <2> HIDE DEF x
  <2> QED BY <2>1, <2>2, OneTxnChanges DEF Inv, Private
<1>3. txn'[t].rows[own] = answer /\ \A k \in Rows \ {own} : txn'[t].rows[k] = "unwritten"
  <2>1. \A k \in Rows : txn[t].rows[k] = "unwritten"
    BY <1>1 DEF WritesFit, Deciding
  <2> QED BY <1>1, <1>2, <2>1 DEF Inv, Typed, TxnType
<1>4. \A u \in Txns \ {t} : txn[u].rows[own] = "unwritten"
  BY DEF WriteOwnRow, RowHolders
<1>5. Typed' /\ OneWriter'
  <2>1. OneWriter'
    <3>1. \A u \in Txns \ {t} : txn'[u] = txn[u] /\ txn[u].rows[own] = "unwritten"
      BY <1>2, <1>4 DEF Private
    <3>2. \A i \in Rows \ {own} : txn'[t].rows[i] \in {txn[t].rows[i], "unwritten"}
      BY <1>3
    <3>3. OneWriter /\ own \in Rows
      BY <1>1 DEF Inv
    <3> HIDE DEF own
    <3> QED BY <3>1, <3>2, <3>3, RowTaken
  <2> QED BY <1>2, <2>1 DEF Inv, Typed, Private
<1>6. OwnRow(t)' = own
  BY <1>2 DEF Private, OwnRow
<1>7. WritesFit(t)'
  BY <1>1, <1>2, <1>3, <1>6 DEF WritesFit, Private, Deciding
<1>8. SaveFits(t)'
  BY <1>1, <1>2, <1>3, <1>6 DEF SaveFits, Private, Deciding, NoSave
<1> QED BY <1>2, <1>5, <1>7, <1>8, OthersKept, PrivateKeepsStatus DEF Inv

LEMMA AwaitOthersKeeps ==
    ASSUME Inv, NEW t \in Txns, AwaitOthers(t)
    PROVE  Inv'
<1>1. /\ txn' \in [Txns -> TxnType]
      /\ txn'[t].phase = "saved"
      /\ txn'[t].rows = txn[t].rows /\ txn'[t].save = txn[t].save
      /\ Private(t)
  <2> DEFINE x == [txn[t] EXCEPT !.phase = "saved"]
  <2>1. /\ x \in TxnType
        /\ x.phase = "saved" /\ x.rows = txn[t].rows /\ x.save = txn[t].save
        /\ x.op = txn[t].op /\ x.who = txn[t].who /\ x.seen = txn[t].seen
    <3>1. txn[t] \in TxnType
      BY DEF Inv, Typed
    <3> QED BY <3>1 DEF TxnType
  <2>2. txn' = [txn EXCEPT ![t] = x] /\ UNCHANGED <<request, mark, effects>>
    BY DEF AwaitOthers, Goto
  <2> HIDE DEF x
  <2> QED BY <2>1, <2>2, OneTxnChanges DEF Inv, Private
<1>2. Typed' /\ OneWriter'
  BY <1>1 DEF Inv, Typed, OneWriter, Private
<1>3. /\ txn[t].phase = "written" /\ txn[t].op = "approve" /\ txn[t].seen.step \in AckSteps
      /\ WritesFit(t) /\ SaveFits(t)
  BY DEF AwaitOthers, Inv
<1>4. WritesFit(t)' /\ SaveFits(t)'
  BY <1>1, <1>3 DEF WritesFit, SaveFits, Private, Deciding, OwnRow, NoSave
<1> QED BY <1>1, <1>2, <1>4, OthersKept, PrivateKeepsStatus DEF Inv

LEMMA CloseRowKeeps ==
    ASSUME Inv, NEW t \in Txns, NEW k \in Rows, CloseRow(t, k)
    PROVE  Inv'
<1> DEFINE word == IF txn[t].op = "escalate" THEN "escalated" ELSE "delegated"
<1>1. /\ txn' \in [Txns -> TxnType]
      /\ txn'[t].phase = txn[t].phase
      /\ txn'[t].rows = [txn[t].rows EXCEPT ![k] = word]
      /\ txn'[t].save = txn[t].save
      /\ Private(t)
  <2> DEFINE x == [txn[t] EXCEPT !.rows = [txn[t].rows EXCEPT ![k] = word]]
  <2>1. /\ x \in TxnType
        /\ x.phase = txn[t].phase /\ x.rows = [txn[t].rows EXCEPT ![k] = word] /\ x.save = txn[t].save
        /\ x.op = txn[t].op /\ x.who = txn[t].who /\ x.seen = txn[t].seen
    <3>1. txn[t] \in TxnType
      BY DEF Inv, Typed
    <3> QED BY <3>1 DEF TxnType, Marks
  <2>2. txn' = [txn EXCEPT ![t] = x] /\ UNCHANGED <<request, mark, effects>>
    BY DEF CloseRow
  <2> HIDE DEF x
  <2> QED BY <2>1, <2>2, OneTxnChanges DEF Inv, Private
<1>2. /\ txn'[t].rows[k] \in {"delegated", "escalated"}
      /\ \A i \in Rows \ {k} : txn'[t].rows[i] = txn[t].rows[i]
  BY <1>1 DEF Inv, Typed, TxnType
<1>3. \A u \in Txns \ {t} : txn[u].rows[k] = "unwritten"
  BY DEF CloseRow, RowHolders
<1>4. /\ Undecided(mark[k]) /\ txn[t].rows[k] = "unwritten"
      /\ \/ txn[t].op = "approve" /\ txn[t].phase = "written"
         \/ txn[t].op = "cancel" /\ txn[t].phase = "saved"
         \/ txn[t].op = "escalate" /\ txn[t].phase = "found"
  BY DEF CloseRow, ToClose, Closable
<1>5. WritesFit(t) /\ SaveFits(t)
  BY DEF Inv
<1>6. txn[t].op = "approve" => k # OwnRow(t)
  BY <1>4, <1>5 DEF SaveFits
<1>7. Typed' /\ OneWriter'
  <2>1. OneWriter'
    <3>1. \A u \in Txns \ {t} : txn'[u] = txn[u] /\ txn[u].rows[k] = "unwritten"
      BY <1>1, <1>3 DEF Private
    <3>2. \A i \in Rows \ {k} : txn'[t].rows[i] \in {txn[t].rows[i], "unwritten"}
      BY <1>2
    <3>3. OneWriter
      BY DEF Inv
    <3> QED BY <3>1, <3>2, <3>3, RowTaken
  <2> QED BY <1>1, <2>1 DEF Inv, Typed, Private
<1>8. WritesFit(t)'
  BY <1>1, <1>2, <1>4, <1>5, <1>6 DEF WritesFit, Private, OwnRow
<1>9. SaveFits(t)'
  BY <1>1, <1>2, <1>4, <1>5, <1>6 DEF SaveFits, Private, OwnRow, Deciding
<1> QED BY <1>1, <1>7, <1>8, <1>9, OthersKept, PrivateKeepsStatus DEF Inv

LEMMA FindNextStepKeeps ==
    ASSUME Inv, NEW t \in Txns, FindNextStep(t)
    PROVE  Inv'
<1>1. NextStep(t) \in Nat
  <2> DEFINE later == {k[1] : k \in UndecidedRows(t, {k \in Rows : k[1] > txn[t].seen.step})}
  <2>1. later \in SUBSET Nat
    BY DecisionsAssumption DEF UndecidedRows
  <2>2. later # {} => (CHOOSE s \in later : \A i \in later : s <= i) \in Nat
    <3> HIDE DEF later
    <3> QED BY <2>1, LeastOf
  <2> QED BY <2>2 DEF NextStep
<1>2. /\ txn' \in [Txns -> TxnType]
      /\ txn'[t].phase = "saving"
      /\ txn'[t].rows = txn[t].rows /\ txn'[t].save = txn[t].save
      /\ Private(t)
  <2> DEFINE x == [txn[t] EXCEPT !.phase = "saving", !.target = NextStep(t)]
  <2>1. txn' = [txn EXCEPT ![t] = x] /\ UNCHANGED <<request, mark, effects>>
    BY DEF FindNextStep
  <2>2. /\ x \in TxnType
        /\ x.phase = "saving" /\ x.rows = txn[t].rows /\ x.save = txn[t].save
        /\ x.op = txn[t].op /\ x.who = txn[t].who /\ x.seen = txn[t].seen
    <3>1. txn[t] \in TxnType
      BY DEF Inv, Typed
    <3> QED BY <1>1, <3>1 DEF TxnType
  <2> HIDE DEF x
  <2> QED BY <2>1, <2>2, OneTxnChanges DEF Inv, Private
<1>3. Typed' /\ OneWriter'
  BY <1>2 DEF Inv, Typed, OneWriter, Private
<1>4. txn[t].phase = "written" /\ txn[t].op = "approve" /\ WritesFit(t) /\ SaveFits(t)
  BY DEF FindNextStep, Inv
<1>5. WritesFit(t)' /\ SaveFits(t)'
  BY <1>2, <1>4 DEF WritesFit, SaveFits, Private, Deciding, OwnRow, NoSave
<1> QED BY <1>2, <1>3, <1>5, OthersKept, PrivateKeepsStatus DEF Inv

LEMMA SaveRequestKeeps ==
    ASSUME Inv, NEW t \in Txns, SaveRequest(t)
    PROVE  Inv'
<1> DEFINE saved == SavedColumns(t)
<1>1. txn[t] \in TxnType /\ WritesFit(t) /\ SaveFits(t)
  BY DEF Inv, Typed
<1>2. \/ txn[t].op \in {"approve", "reject"} /\ txn[t].phase = "saving"
      \/ txn[t].op \in {"cancel", "escalate"} /\ txn[t].phase = "found"
  BY DEF SaveRequest, WantsRequest, Deciding
<1>3. /\ saved \in [status : Statuses \cup {"keep"}, step : Nat]
      /\ saved.status = "keep" => txn[t].op = "escalate"
      /\ saved.status \in {"approved", "pending"} => txn[t].op = "approve"
      /\ saved.status = "rejected" <=> txn[t].op = "reject"
  <2>0. txn[t].seen.step \in Nat /\ txn[t].target \in Nat
    BY <1>1 DEF TxnType
  <2>1. CASE txn[t].op = "cancel"
    <3>1. saved = [status |-> "cancelled", step |-> 0]
      BY <2>1 DEF SavedColumns
    <3> HIDE DEF saved
    <3> QED BY <2>1, <3>1 DEF Statuses
  <2>2. CASE txn[t].op = "reject"
    <3>1. saved = [status |-> "rejected", step |-> txn[t].seen.step]
      BY <2>2 DEF SavedColumns
    <3> HIDE DEF saved
    <3> QED BY <2>0, <2>2, <3>1 DEF Statuses
  <2>3. CASE txn[t].op = "approve" /\ txn[t].target = 0
    <3>1. saved = [status |-> "approved", step |-> txn[t].seen.step]
      BY <2>3 DEF SavedColumns
    <3> HIDE DEF saved
    <3> QED BY <2>0, <2>3, <3>1 DEF Statuses
  <2>4. CASE txn[t].op = "approve" /\ txn[t].target # 0
    <3>1. saved = [status |-> "pending", step |-> txn[t].target]
      BY <2>4 DEF SavedColumns
    <3> HIDE DEF saved
    <3> QED BY <2>0, <2>4, <3>1 DEF Statuses
  <2>5. CASE txn[t].op = "escalate"
    <3>1. saved = [status |-> "keep", step |-> txn[t].seen.step + 1]
      BY <2>5 DEF SavedColumns
    <3> HIDE DEF saved
    <3> QED BY <2>0, <2>5, <3>1 DEF Statuses
  <2> QED BY <1>2, <2>1, <2>2, <2>3, <2>4, <2>5
<1> HIDE DEF saved
<1>4. /\ txn' \in [Txns -> TxnType]
      /\ txn'[t].phase = "saved"
      /\ txn'[t].rows = txn[t].rows /\ txn'[t].save = saved
      /\ Private(t)
  <2> DEFINE x == [txn[t] EXCEPT !.phase = "saved", !.save = saved]
  <2>1. /\ x \in TxnType
        /\ x.phase = "saved" /\ x.rows = txn[t].rows /\ x.save = saved
        /\ x.op = txn[t].op /\ x.who = txn[t].who /\ x.seen = txn[t].seen
    BY <1>1, <1>3 DEF TxnType
  <2>2. txn' = [txn EXCEPT ![t] = x] /\ UNCHANGED <<request, mark, effects>>
    BY DEF SaveRequest, saved
  <2> HIDE DEF x
  <2> QED BY <2>1, <2>2, OneTxnChanges DEF Inv, Private
<1>5. Typed' /\ OneWriter'
  BY <1>4 DEF Inv, Typed, OneWriter, Private
<1>6. WritesFit(t)'
  BY <1>1, <1>2, <1>4 DEF WritesFit, Private, OwnRow
<1>7. SaveFits(t)'
  BY <1>1, <1>2, <1>3, <1>4 DEF SaveFits, Private, Deciding, OwnRow
<1> QED BY <1>4, <1>5, <1>6, <1>7, OthersKept, PrivateKeepsStatus DEF Inv

\* What a commit and a roll-back leave of a transaction.
LEMMA Released ==
    ASSUME Typed, NEW t \in Txns,
           txn' = [txn EXCEPT ![t] = [txn[t] EXCEPT !.phase = "done", !.rows = Clean, !.save = NoSave]]
    PROVE  /\ txn' \in [Txns -> TxnType]
           /\ \A u \in Txns \ {t} : txn'[u] = txn[u]
           /\ txn'[t].op = txn[t].op /\ txn'[t].who = txn[t].who /\ txn'[t].seen = txn[t].seen
           /\ txn'[t].phase = "done" /\ txn'[t].save = NoSave
           /\ \A k \in Rows : txn'[t].rows[k] = "unwritten"
<1> DEFINE x == [txn[t] EXCEPT !.phase = "done", !.rows = Clean, !.save = NoSave]
<1>1. Clean \in [Rows -> Marks \cup {"unwritten"}] /\ \A k \in Rows : Clean[k] = "unwritten"
  BY DEF Clean
<1>2. NoSave \in [status : Statuses \cup {"keep"}, step : Nat]
  BY DEF NoSave
<1>3. /\ x \in TxnType
      /\ x.phase = "done" /\ x.rows = Clean /\ x.save = NoSave
      /\ x.op = txn[t].op /\ x.who = txn[t].who /\ x.seen = txn[t].seen
  <2>1. txn[t] \in TxnType
    BY DEF Typed
  <2> QED BY <1>1, <1>2, <2>1 DEF TxnType
<1> HIDE DEF x
<1>4. txn' = [txn EXCEPT ![t] = x]
  BY DEF x
<1> QED BY <1>1, <1>3, <1>4, OneTxnChanges

\* The released transaction fits, and shares no row.
LEMMA ReleasedFits ==
    ASSUME Inv, NEW t \in Txns,
           txn' = [txn EXCEPT ![t] = [txn[t] EXCEPT !.phase = "done", !.rows = Clean, !.save = NoSave]]
    PROVE  OneWriter' /\ WritesFit(t)' /\ SaveFits(t)' /\ (AnsweredTwice => AnsweredTwice')
<1>1. /\ \A u \in Txns \ {t} : txn'[u] = txn[u]
      /\ txn'[t].op = txn[t].op /\ txn'[t].who = txn[t].who /\ txn'[t].seen = txn[t].seen
      /\ txn'[t].phase = "done" /\ txn'[t].save = NoSave
      /\ \A k \in Rows : txn'[t].rows[k] = "unwritten"
  BY Released DEF Inv
<1>2. OneWriter'
  BY <1>1 DEF Inv, OneWriter
<1>3. WritesFit(t)' /\ SaveFits(t)'
  BY <1>1 DEF WritesFit, SaveFits, NoSave, Deciding
<1>4. \A u \in Txns : txn'[u].op = txn[u].op /\ txn'[u].who = txn[u].who /\ txn'[u].seen = txn[u].seen
  BY <1>1
<1>5. AnsweredTwice => AnsweredTwice'
  BY <1>4 DEF AnsweredTwice
<1> QED BY <1>2, <1>3, <1>5

LEMMA RollBackKeeps ==
    ASSUME Inv, NEW t \in Txns, RollBack(t)
    PROVE  Inv'
<1>1. txn' = [txn EXCEPT ![t] = [txn[t] EXCEPT !.phase = "done", !.rows = Clean, !.save = NoSave]]
  BY DEF RollBack
<1>2. Private(t) /\ txn' \in [Txns -> TxnType]
  BY <1>1, Released DEF RollBack, Private, Inv
<1>3. Typed'
  BY <1>2 DEF Inv, Typed, Private
<1> QED BY <1>1, <1>2, <1>3, ReleasedFits, OthersKept, PrivateKeepsStatus DEF Inv

LEMMA CommitKeeps ==
    ASSUME Inv, NEW t \in Txns, Commit(t)
    PROVE  Inv'
<1> DEFINE save == txn[t].save
<1>1. /\ txn' = [txn EXCEPT ![t] = [txn[t] EXCEPT !.phase = "done", !.rows = Clean, !.save = NoSave]]
      /\ request' = [status |-> IF save.status = "keep" THEN request.status ELSE save.status,
                     step   |-> IF save.step = 0 THEN request.step ELSE save.step]
      /\ effects' = IF save.status = "approved" THEN effects + 1 ELSE effects
      /\ \A k \in Rows : mark'[k] = IF txn[t].rows[k] = "unwritten" THEN mark[k] ELSE txn[t].rows[k]
  BY DEF Commit, Visible
<1>2. /\ txn' \in [Txns -> TxnType]
      /\ \A u \in Txns : txn'[u].op = txn[u].op /\ txn'[u].who = txn[u].who /\ txn'[u].seen = txn[u].seen
      /\ \A u \in Txns \ {t} : txn'[u] = txn[u]
  BY <1>1, Released DEF Inv
<1>3. txn[t].phase = "saved" /\ WritesFit(t) /\ SaveFits(t) /\ txn[t] \in TxnType
  BY DEF Commit, Inv, Typed
<1>4. save.status \in Statuses \cup {"keep"} /\ save.step \in Nat
  BY <1>3 DEF TxnType
<1>5. Typed'
  <2>1. request' \in [status : Statuses, step : Nat]
    BY <1>1, <1>4 DEF Inv, Typed
  <2>2. mark' \in [Rows -> Marks]
    <3>1. mark' = [k \in Rows |-> Visible(t, k)]
      BY DEF Commit
    <3>2. \A k \in Rows : Visible(t, k) \in Marks
      BY <1>3 DEF Visible, WritesFit, Marks, Inv, Typed
    <3> QED BY <3>1, <3>2
  <2>3. effects' \in Nat
    BY <1>1 DEF Inv, Typed
  <2> QED BY <1>2, <2>1, <2>2, <2>3 DEF Typed
<1>6. OneWriter' /\ WritesFit(t)' /\ SaveFits(t)' /\ (AnsweredTwice => AnsweredTwice')
  BY <1>1, ReleasedFits
<1>7. ASSUME NEW u \in Txns \ {t}
      PROVE  WritesFit(u)' /\ SaveFits(u)'
  <2>1. WritesFit(u) /\ SaveFits(u)
    BY DEF Inv
  <2>2. \A k \in Rows : txn[u].rows[k] # "unwritten" => mark'[k] = mark[k]
    BY <1>1 DEF Inv, OneWriter
  <2> QED BY <1>2, <2>1, <2>2 DEF WritesFit, SaveFits, OwnRow, Deciding
<1>8. RejectedByOne'
  <2>1. ASSUME NEW k \in Rows, mark'[k] = "rejected"
        PROVE  \E u \in Txns : txn[u].op = "reject" /\ OwnRow(u) = k
    BY <1>1, <1>3, <2>1 DEF WritesFit, Inv, RejectedByOne
  <2> QED BY <1>2, <2>1 DEF RejectedByOne, OwnRow
<1>9. ASSUME NEW k \in Rows, mark[k] \in {"approved", "rejected"}, mark'[k] # mark[k]
      PROVE  k = OwnRow(t) /\ mark'[k] = txn[t].rows[k] /\ mark'[k] \in {"approved", "rejected"}
  BY <1>1, <1>3, <1>9 DEF WritesFit, Undecided
<1>10. request'.status = "approved" => \E k \in Rows : mark'[k] = "approved"
  <2>1. CASE save.status = "approved"
    <3>1. OwnRow(t) \in Rows /\ txn[t].rows[OwnRow(t)] = "approved"
      BY <1>3, <2>1 DEF SaveFits, Deciding
    <3> QED BY <1>1, <3>1
  <2>2. CASE save.status = "keep" /\ request.status = "approved"
    <3>1. PICK k \in Rows : mark[k] = "approved"
      BY <2>2 DEF Inv, StatusHasItsRow
    <3>2. txn[t].rows[k] # "rejected"
      BY <1>3, <2>2 DEF WritesFit, SaveFits
    <3>3. mark'[k] = "approved"
      BY <1>9, <3>1, <3>2
    <3> QED BY <3>3
  <2> QED BY <1>1, <2>1, <2>2
<1>11. request'.status = "rejected" => (\E k \in Rows : mark'[k] = "rejected") \/ AnsweredTwice'
  <2>1. CASE save.status = "rejected"
    <3>1. OwnRow(t) \in Rows /\ txn[t].rows[OwnRow(t)] = "rejected"
      BY <1>3, <2>1 DEF SaveFits, Deciding
    <3> QED BY <1>1, <3>1
  <2>2. CASE save.status = "keep" /\ request.status = "rejected"
    <3>1. CASE AnsweredTwice
      BY <1>6, <3>1
    <3>2. CASE \E k \in Rows : mark[k] = "rejected" /\ mark'[k] # "rejected"
      <4>1. PICK k \in Rows : mark[k] = "rejected" /\ mark'[k] # "rejected"
        BY <3>2
      <4>2. k = OwnRow(t) /\ txn[t].rows[k] = "approved"
        BY <1>9, <4>1
      <4>3. txn[t].op = "approve" /\ txn[t].seen.step \in AckSteps
        BY <1>3, <2>2, <4>2 DEF WritesFit, SaveFits
      <4>4. PICK u \in Txns : txn[u].op = "reject" /\ OwnRow(u) = k
        BY <4>1 DEF Inv, RejectedByOne
      <4>5. txn[u].who = txn[t].who /\ txn[u].seen.step = txn[t].seen.step
        BY <4>2, <4>4 DEF OwnRow
      <4>6. AnsweredTwice
        BY <4>3, <4>4, <4>5 DEF AnsweredTwice
      <4> QED BY <1>6, <4>6
    <3> QED BY <2>2, <3>1, <3>2 DEF Inv, StatusHasItsRow
  <2> QED BY <1>1, <2>1, <2>2
<1>12. effects' > 0 => \E k \in Rows : mark'[k] \in {"approved", "rejected"}
  <2>1. CASE save.status = "approved"
    <3>1. OwnRow(t) \in Rows /\ txn[t].rows[OwnRow(t)] = "approved"
      BY <1>3, <2>1 DEF SaveFits, Deciding
    <3> QED BY <1>1, <3>1
  <2>2. CASE save.status # "approved" /\ effects > 0
    <3>1. PICK k \in Rows : mark[k] \in {"approved", "rejected"}
      BY <2>2 DEF Inv, StatusHasItsRow
    <3>2. mark'[k] \in {"approved", "rejected"}
      BY <1>9, <3>1
    <3> QED BY <3>2
  <2> QED BY <1>1, <2>1, <2>2
<1> QED BY <1>5, <1>6, <1>7, <1>8, <1>10, <1>11, <1>12 DEF Inv, StatusHasItsRow

-----------------------------------------------------------------------------
LEMMA StepKeeps ==
    ASSUME Inv, [Next]_vars
    PROVE  Inv'
<1>1. ASSUME NEW t \in Txns, Step(t)
      PROVE  Inv'
  BY <1>1, CheckKeeps, WriteOwnRowKeeps, AwaitOthersKeeps, CloseRowKeeps, FindNextStepKeeps,
     SaveRequestKeeps, CommitKeeps DEF Step
<1>2. ASSUME NEW t \in Txns, DeadlockAbort(t) \/ Crash(t)
      PROVE  Inv'
  BY <1>2, RollBackKeeps DEF DeadlockAbort, Crash
<1>3. CASE UNCHANGED vars
  <2>1. UNCHANGED <<request, mark, effects, txn>>
    BY <1>3 DEF vars
  <2>2. Typed' /\ OneWriter'
    BY <2>1 DEF Inv, Typed, OneWriter
  <2>3. \A t \in Txns : WritesFit(t)' /\ SaveFits(t)'
    <3>1. SUFFICES ASSUME NEW t \in Txns PROVE WritesFit(t)' /\ SaveFits(t)'
      OBVIOUS
    <3>2. WritesFit(t) /\ SaveFits(t)
      BY DEF Inv
    <3> QED BY <2>1, <3>2 DEF WritesFit, SaveFits, OwnRow, Deciding
  <2>4. RejectedByOne' /\ StatusHasItsRow'
    BY <2>1 DEF Inv, RejectedByOne, StatusHasItsRow, AnsweredTwice, OwnRow
  <2> QED BY <2>2, <2>3, <2>4 DEF Inv
<1> QED BY <1>1, <1>2, <1>3, BeginKeeps DEF Next

LEMMA InvHolds == Spec => []Inv
BY InitTyped, StepKeeps, PTL DEF Spec

\* However decisions, cancellation, escalation, crashes and deadlocks
\* interleave, the stored status of a request follows from a stored row.
THEOREM StatusFollowsFromARow == Spec => []StatusHasItsRow
<1>1. Inv => StatusHasItsRow
  BY DEF Inv
<1> QED BY <1>1, InvHolds, PTL

\* A decision that was committed is replaced by a decision only: what closes
\* rows for others reads them again after it has waited for them.
THEOREM MachineNeverDecides == Spec => DecisionsSurviveTheMachine
<1>1. ASSUME Inv, [Next]_vars
      PROVE  [\A k \in Rows : mark[k] \in {"approved", "rejected"} =>
                 mark'[k] \in {"approved", "rejected"}]_vars
  <2>1. ASSUME NEW t \in Txns, Commit(t)
        PROVE  \A k \in Rows : mark[k] \in {"approved", "rejected"} => mark'[k] \in {"approved", "rejected"}
    <3>1. WritesFit(t)
      BY <1>1 DEF Inv
    <3>2. mark' = [k \in Rows |-> Visible(t, k)]
      BY <2>1 DEF Commit
    <3> QED BY <3>1, <3>2 DEF Visible, WritesFit, Undecided
  <2>2. CASE mark' = mark
    BY <2>2
  <2> QED
    BY <1>1, <2>1, <2>2
    DEF Next, Step, Begin, Check, WriteOwnRow, AwaitOthers, FindNextStep, CloseRow, SaveRequest,
        DeadlockAbort, Crash, RollBack, vars
<1>2. Inv /\ [Next]_vars =>
        [\A k \in Rows : mark[k] \in {"approved", "rejected"} =>
            mark'[k] \in {"approved", "rejected"}]_vars
  BY <1>1
<1> QED BY <1>2, InvHolds, PTL DEF Spec, DecisionsSurviveTheMachine
=============================================================================
